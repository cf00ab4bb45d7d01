----------------------------- MODULE DoomFiles -----------------------------
(***************************************************************************)
(* The FILE functions of the DOOM port (apps/doom/innigkeit_libc.c): a     *)
(* table of files that fopen loads into memory, the game's WAD from the    *)
(* data disk in chunks, with the initial filesystem as a fallback, every   *)
(* other file from the initial filesystem.  Each system call of fopen is a *)
(* step and may fail.  The program is single-threaded and uses a FILE from *)
(* its fopen to its fclose.  Cell i of a medium m is the pair <<m, i>>; a  *)
(* mapping starts out zero.                                                *)
(***************************************************************************)
EXTENDS Integers, Sequences, FiniteSets

CONSTANTS
    MaxFiles,       \* MAX_FILES
    Paths,          \* the paths the program opens
    WadPath,        \* WAD_DISK_PATH
    InitfsSize,     \* size of each path's file in the initial filesystem, -1: none
    WadSize,        \* what the WAD's header says it takes: infotableofs + lumpcount * 16
    MinTotal,       \* size of a WAD header
    Chunk,          \* unit of the reads from the disk
    PageSize,
    Newlines,       \* positions of newlines
    Wants,          \* sizes of reads
    MaxPos          \* bound on the position of a file

VARIABLES
    s_files,        \* the table
    call,           \* the fopen in progress: at, slot, path, and its locals
    handles,        \* history: the slots the program holds, and what it opened there
    out             \* history: what the last read returned, and from which slot

vars == <<s_files, call, handles, out>>

Slots == 0 .. MaxFiles - 1
Zero == <<"zero", 0>>
NoData == <<>>
Unused == [data |-> NoData, size |-> 0, pos |-> 0, in_use |-> FALSE, eof |-> FALSE]
NoCall == [at |-> "idle", slot |-> 0, path |-> WadPath, done |-> 0, total |-> 0]
Nothing == [slot |-> 0, cells |-> <<>>]

Init ==
    /\ s_files = [i \in Slots |-> Unused]
    /\ call = NoCall
    /\ handles = {}
    /\ out = Nothing

----------------------------------------------------------------------------
(* fopen *)

Idle == call.at = "idle"
f == s_files[call.slot]

alloc_file(i) == ~s_files[i].in_use /\ \A j \in 0 .. i - 1 : s_files[j].in_use

\* fopen: a slot is taken, and a WAD is looked for on the disk first.
fopen(path) ==
    /\ Idle
    /\ \E i \in Slots :
          /\ alloc_file(i)
          /\ s_files' = [s_files EXCEPT ![i] = [Unused EXCEPT !.in_use = TRUE]]
          /\ call' = [NoCall EXCEPT !.at = IF path = WadPath THEN "header" ELSE "stat",
                                    !.slot = i, !.path = path]
          /\ out' = Nothing
    /\ UNCHANGED handles

\* innigkeit_mmap of the file's buffer.
Mapped(size) == [i \in 1 .. size + PageSize |-> Zero]

Goto(at) == call' = [call EXCEPT !.at = at]

\* load_from_disk: the header is read twice, 8 and then 12 bytes; an error
\* makes fopen try the initial filesystem.
ReadHeader ==
    /\ call.at = "header"
    /\ \/ Goto("header12") \/ Goto("stat")
    /\ UNCHANGED <<s_files, handles, out>>

ReadHeader12 ==
    /\ call.at = "header12"
    /\ \/ call' = [call EXCEPT !.at = "map", !.total = IF WadSize < MinTotal THEN MinTotal ELSE WadSize]
       \/ Goto("stat")
    /\ UNCHANGED <<s_files, handles, out>>

MapWad ==
    /\ call.at = "map"
    /\ \/ Goto("stat") /\ UNCHANGED s_files
       \/ /\ s_files' = [s_files EXCEPT ![call.slot].data = Mapped(call.total), ![call.slot].size = call.total]
          /\ Goto("chunk")
    /\ UNCHANGED <<handles, out>>

\* The buffer with n more cells of a medium at offset first.
Loaded(data, medium, first, n) ==
    [i \in DOMAIN data |-> IF i - 1 \in first .. first + n - 1 THEN <<medium, i - 1>> ELSE data[i]]

\* The program gets the file.
Opened == handles' = handles \cup {[slot |-> call.slot, path |-> call.path]} /\ call' = NoCall

ReadChunk ==
    LET left == call.total - call.done
        n == IF left < Chunk THEN left ELSE Chunk
    IN  /\ call.at = "chunk" /\ left > 0
        /\ s_files' = [s_files EXCEPT ![call.slot].data = Loaded(@, "disk", call.done, n)]
        /\ call' = [call EXCEPT !.done = @ + n]
        /\ UNCHANGED <<handles, out>>

\* Mutant: the size stays the size the header promises.
WadLoaded_whole ==
    /\ call.at = "chunk"
    /\ s_files' = [s_files EXCEPT ![call.slot].size = call.total]
    /\ Opened
    /\ UNCHANGED out

\* The loop ends at the end of the WAD, or at an error: fopen succeeds with
\* what was read.
WadLoaded ==
    /\ call.at = "chunk"
    /\ s_files' = [s_files EXCEPT ![call.slot].size = call.done]
    /\ Opened
    /\ UNCHANGED out

\* load_from_initfs, and the failure of fopen when it returns false.
Failed ==
    /\ s_files' = [s_files EXCEPT ![call.slot].in_use = FALSE]
    /\ call' = NoCall
    /\ UNCHANGED handles

StatInitfs ==
    /\ call.at = "stat"
    /\ IF InitfsSize[call.path] < 0 THEN Failed
       ELSE Goto("imap") /\ UNCHANGED <<s_files, handles>>
    /\ UNCHANGED out

MapInitfs ==
    /\ call.at = "imap"
    /\ \/ Failed
       \/ /\ s_files' = [s_files EXCEPT ![call.slot].data = Mapped(InitfsSize[call.path]),
                                        ![call.slot].size = InitfsSize[call.path]]
          /\ Goto("iread") /\ UNCHANGED handles
    /\ UNCHANGED out

ReadInitfs ==
    /\ call.at = "iread"
    /\ \/ Failed
       \/ /\ s_files' = [s_files EXCEPT ![call.slot].data = Loaded(@, call.path, 0, f.size)]
          /\ Opened
    /\ UNCHANGED out

----------------------------------------------------------------------------
(* The other functions, on a file the program holds *)

Minimum(x, y) == IF x < y THEN x ELSE y
Cells(file, n) == [i \in 1 .. n |-> file.data[file.pos + i]]

fread(i, want) ==
    LET file == s_files[i]
        avail == IF file.pos < file.size THEN file.size - file.pos ELSE 0
        got == Minimum(want, avail)
    IN  /\ s_files' = [s_files EXCEPT ![i].pos = @ + got, ![i].eof = @ \/ got = 0]
        /\ out' = [slot |-> i, cells |-> Cells(file, got)]
        /\ UNCHANGED <<call, handles>>

\* fgets: at most n - 1 cells, up to and with a newline.
fgets(i, n) ==
    LET file == s_files[i]
        Ends(k) == k = n - 1 \/ file.pos + k >= file.size \/ (k > 0 /\ file.pos + k - 1 \in Newlines)
        got == CHOOSE k \in 0 .. n - 1 : Ends(k) /\ \A j \in 0 .. k - 1 : ~Ends(j)
    IN  /\ n > 1 /\ ~file.eof
        /\ s_files' = [s_files EXCEPT
              ![i].pos = @ + got,
              ![i].eof = @ \/ /\ got < n - 1 /\ file.pos + got >= file.size
                              /\ ~(got > 0 /\ file.pos + got - 1 \in Newlines)]
        /\ out' = [slot |-> i, cells |-> Cells(file, got)]
        /\ UNCHANGED <<call, handles>>

\* SEEK_SET, SEEK_CUR and SEEK_END; past the end is allowed.
fseek(i, offset, whence) ==
    LET file == s_files[i]
        new_pos == offset + CASE whence = 0 -> 0 [] whence = 1 -> file.pos [] whence = 2 -> file.size
    IN  /\ new_pos \in 0 .. MaxPos
        /\ s_files' = [s_files EXCEPT ![i].pos = new_pos, ![i].eof = FALSE]
        /\ out' = Nothing
        /\ UNCHANGED <<call, handles>>

fclose(h) ==
    /\ s_files' = [s_files EXCEPT ![h.slot].in_use = FALSE]
    /\ handles' = handles \ {h}
    /\ out' = Nothing
    /\ UNCHANGED call

Next ==
    \/ \E path \in Paths : fopen(path)
    \/ ReadHeader \/ ReadHeader12 \/ MapWad \/ ReadChunk \/ WadLoaded
    \/ StatInitfs \/ MapInitfs \/ ReadInitfs
    \/ /\ Idle
       /\ \E h \in handles :
             \/ fclose(h)
             \/ \E want \in Wants : fread(h.slot, want) \/ fgets(h.slot, want)
             \/ \E offset \in {-1, 0, 2}, whence \in 0 .. 2 : fseek(h.slot, offset, whence)

Spec == Init /\ [][Next]_vars

----------------------------------------------------------------------------
(* Properties *)

\* What a file may hold: the WAD comes from the disk or, whole, from the
\* initial filesystem.
Media(path) == {path} \cup (IF path = WadPath THEN {"disk"} ELSE {})

\* The program reads what is on the medium: the bytes of a file up to its size
\* come from one medium and are in their places, also when the disk failed in
\* the middle of the WAD; a read returns the bytes before the new position;
\* and each slot in use is held once or belongs to the fopen in progress, so
\* that failed opens do not use up the table.
FilesReadBack ==
    /\ \A h \in handles :
          LET file == s_files[h.slot]
          IN  /\ file.size <= Len(file.data)
              /\ \E m \in Media(h.path) : \A i \in 0 .. file.size - 1 : file.data[i + 1] = <<m, i>>
    /\ out.cells # <<>> =>
          LET last == s_files[out.slot]
          IN  \A i \in DOMAIN out.cells :
                 out.cells[i][2] = last.pos - Len(out.cells) + i - 1 /\ out.cells[i][1] # "zero"
    /\ {i \in Slots : s_files[i].in_use} =
          {h.slot : h \in handles} \cup (IF Idle THEN {} ELSE {call.slot})
    /\ Cardinality({h.slot : h \in handles}) = Cardinality(handles)

=============================================================================
