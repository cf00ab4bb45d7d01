------------------------------ MODULE FdTable ------------------------------
(***************************************************************************)
(* The file-descriptor table of a process (user/FdTable.zig), the open,    *)
(* close, read, write and lseek system calls on it (user/handlers/file.zig)*)
(* and the flat file system below (SimpleFs).                              *)
(*                                                                         *)
(* The table's spinlock is held for one step at a time and never across a  *)
(* VFS call, so that the threads of the process race between the steps     *)
(* that resolve a descriptor, use the disk and commit the result.  Every   *)
(* call of the disk may fail.                                              *)
(***************************************************************************)
EXTENDS SimpleFs, Optional, Naturals, Sequences

CONSTANTS
    Callers,
    max_descriptors,
    StdFds,         \* the descriptors of the terminal and the keyboard
    Lengths,        \* what a call reads or writes
    MaxOpens,       \* bounds on the files opened,
    MaxSize         \* and on sizes and offsets

ASSUME FdAssumption ==
    /\ max_descriptors \in Nat /\ MaxOpens \in Nat
    /\ IsFiniteSet(Callers)

VARIABLES
    fd_slots,          \* the table: desc and gen
    caller,         \* of a thread: the call it makes
    directory,      \* the directory sector on the disk
    opened,         \* the files opened so far are 1 .. opened
    closed          \* how often each of them was closed at the VFS

dvars == <<fd_slots, caller, directory, opened, closed>>

----------------------------------------------------------------------------

Fds == 0 .. max_descriptors - 1

\* A descriptor is "closed", "tty", or a file; a file carries the number of
\* its open, which the code does not have and no guard reads.
Closed == [kind |-> "closed"]
Tty == [kind |-> "tty"]
File(node, offset, writable, id) ==
    [kind |-> "file", node |-> node, offset |-> offset, writable |-> writable, id |-> id]

\* What a thread's call has in its locals; most calls use some of it.
InUser ==
    [at |-> "user", fd |-> 0, gen |-> 0, file |-> Closed, all |-> FALSE,
     name |-> None, create |-> FALSE, dir |-> EmptyDirectory]

reset == [fd \in Fds |-> [desc |-> IF fd \in StdFds THEN Tty ELSE Closed, gen |-> 0]]

FdInit ==
    /\ fd_slots = reset
    /\ caller = [t \in Callers |-> InUser]
    /\ directory = EmptyDirectory
    /\ opened = 0
    /\ closed = [id \in 1 .. MaxOpens |-> 0]

Becomes(t, locals) == caller' = [caller EXCEPT ![t] = locals]

----------------------------------------------------------------------------
\* open: the directory is read, perhaps changed and written, and the file put
\* into the table.

open(t) ==
    /\ caller[t].at = "user"
    /\ \E name \in Names, want_write \in BOOLEAN :
        Becomes(t, [InUser EXCEPT !.at = "lookup", !.name = name, !.create = want_write,
                                !.dir = directory])
    /\ UNCHANGED <<fd_slots, directory, opened, closed>>

Opens(t, node) ==
    /\ opened < MaxOpens /\ opened' = opened + 1
    /\ Becomes(t, [InUser EXCEPT !.at = "insert",
                               !.file = File(node, 0, caller[t].create, opened + 1)])

LookedUp(t) ==
    /\ caller[t].at = "lookup"
    /\ LET dir == caller[t].dir
           name == caller[t].name
           create == caller[t].create
       IN  \/ /\ NamedEntries(dir, name) # {}
              /\ Opens(t, OpenExisting(dir, findEntry(dir, name), create))
              /\ UNCHANGED directory
           \/ /\ NamedEntries(dir, name) = {} /\ create /\ FreeEntries(dir) # {}
              /\ \E start \in allocateSectors(dir, 0) :
                    /\ directory' = CreateEntry(dir, name, start)
                    /\ Opens(t, OpenCreated(dir, start))
           \* NotFound, NoSpace or a failure of the disk.
           \/ Becomes(t, InUser) /\ UNCHANGED <<directory, opened>>
    /\ UNCHANGED <<fd_slots, closed>>

\* Mutant: a file that finds the table full is forgotten.
TableFull_leaks(t) ==
    /\ \A fd \in Fds : fd_slots[fd].desc # Closed
    /\ Becomes(t, InUser) /\ UNCHANGED fd_slots

\* insertFile failed: the handler closes the node.
TableFull(t) ==
    /\ \A fd \in Fds : fd_slots[fd].desc # Closed
    /\ Becomes(t, [caller[t] EXCEPT !.at = "close"]) /\ UNCHANGED fd_slots

\* The lowest free slot is used; its generation stays.
insertFile(t) ==
    /\ caller[t].at = "insert"
    /\ \/ \E fd \in Fds :
            /\ fd_slots[fd].desc = Closed
            /\ \A lower \in 0 .. fd - 1 : fd_slots[lower].desc # Closed
            /\ fd_slots' = [fd_slots EXCEPT ![fd].desc = caller[t].file]
            /\ Becomes(t, InUser)
       \/ TableFull(t)
    /\ UNCHANGED <<directory, opened, closed>>

----------------------------------------------------------------------------
\* close, and closeAll when the process is cleaned up.

ClosedSlot(slot) == [desc |-> Closed, gen |-> slot.gen + 1]

\* What a caller does next: closeAll goes on with the next descriptor.
Continue(fd, all) ==
    IF all THEN [InUser EXCEPT !.at = "closeAll", !.fd = fd + 1, !.all = TRUE] ELSE InUser

\* A file is closed at the VFS by the caller, without the table's lock.
closeFd(t, fd, all) ==
    /\ fd_slots[fd].desc # Closed
    /\ fd_slots' = [fd_slots EXCEPT ![fd] = ClosedSlot(@)]
    /\ Becomes(t, IF fd_slots[fd].desc = Tty THEN Continue(fd, all)
                  ELSE [InUser EXCEPT !.at = "close", !.file = fd_slots[fd].desc,
                                    !.fd = fd, !.all = all])

close(t) ==
    /\ caller[t].at = "user"
    /\ \E fd \in Fds : closeFd(t, fd, FALSE)
    /\ UNCHANGED <<directory, opened, closed>>

\* The process is cleaned up when all its threads have gone, and its memory is
\* used for the next one.
closeAll(t) ==
    /\ \/ /\ caller = [u \in Callers |-> InUser]
          /\ caller' = [u \in Callers |->
                            [InUser EXCEPT !.at = IF u = t THEN "closeAll" ELSE "gone",
                                         !.all = u = t]]
          /\ UNCHANGED fd_slots
       \/ /\ caller[t].at = "closeAll" /\ caller[t].fd \in Fds
          /\ \/ closeFd(t, caller[t].fd, TRUE)
             \/ /\ fd_slots[caller[t].fd].desc = Closed /\ UNCHANGED fd_slots
                /\ Becomes(t, Continue(caller[t].fd, TRUE))
       \/ /\ caller[t].at = "closeAll" /\ caller[t].fd \notin Fds
          /\ fd_slots' = reset
          /\ caller' = [u \in Callers |-> InUser]
    /\ UNCHANGED <<directory, opened, closed>>

\* vfs.close: the size of a writable file goes to the directory, in a read and
\* a write of the sector, each of which may fail.
SyncNode(t) ==
    /\ caller[t].at = "close" /\ caller[t].file.node.writable
    /\ Becomes(t, [caller[t] EXCEPT !.at = "sync",
                                    !.dir = sync(directory, caller[t].file.node)])
    /\ UNCHANGED <<fd_slots, directory, opened, closed>>

CloseNode(t) ==
    /\ caller[t].at \in {"close", "sync"}
    /\ \/ UNCHANGED directory
       \/ caller[t].at = "sync" /\ directory' = caller[t].dir
    /\ closed' = [closed EXCEPT ![caller[t].file.id] = @ + 1]
    /\ Becomes(t, Continue(caller[t].fd, caller[t].all))
    /\ UNCHANGED <<fd_slots, opened>>

----------------------------------------------------------------------------
\* read, write and lseek.

resolve(t) ==
    /\ caller[t].at = "user"
    /\ \E fd \in Fds, op \in {"read", "write"} :
        /\ fd_slots[fd].desc \notin {Closed, Tty}
        /\ op = "write" => fd_slots[fd].desc.writable
        /\ Becomes(t, [InUser EXCEPT !.at = op, !.fd = fd, !.gen = fd_slots[fd].gen,
                                   !.file = fd_slots[fd].desc])
    /\ UNCHANGED <<fd_slots, directory, opened, closed>>

\* The VFS call on the thread's copy of the descriptor; it may fail.
Operate(t) ==
    /\ caller[t].at \in {"read", "write"}
    /\ \/ Becomes(t, InUser)
       \/ \E len \in Lengths :
            LET file == caller[t].file
                node == [file.node EXCEPT !.pos = file.offset]
                after == IF caller[t].at = "read" THEN read(node, len) ELSE write(node, len)
            IN  /\ caller[t].at = "write" => node.writable
                /\ after.pos <= MaxSize
                /\ Becomes(t, [caller[t] EXCEPT !.at = "commit",
                                !.file = [file EXCEPT !.node = after, !.offset = after.pos]])
    /\ UNCHANGED <<fd_slots, directory, opened, closed>>

\* Mutant: the new offset is stored without a look at the generation.
commitFile_unchecked(t) ==
    /\ caller[t].at = "commit"
    /\ LET slot == fd_slots[caller[t].fd]
       IN  fd_slots' = IF slot.desc \notin {Closed, Tty}
                    THEN [fd_slots EXCEPT ![caller[t].fd].desc.offset = caller[t].file.offset]
                    ELSE fd_slots
    /\ Becomes(t, InUser)
    /\ UNCHANGED <<directory, opened, closed>>

commitFile(t) ==
    /\ caller[t].at = "commit"
    /\ LET slot == fd_slots[caller[t].fd]
       IN  fd_slots' = IF slot.gen = caller[t].gen /\ slot.desc \notin {Closed, Tty}
                    THEN [fd_slots EXCEPT ![caller[t].fd].desc = caller[t].file]
                    ELSE fd_slots
    /\ Becomes(t, InUser)
    /\ UNCHANGED <<directory, opened, closed>>

\* From the start, the offset or the end; other results are refused.
lseek(t) ==
    /\ caller[t].at = "user"
    /\ \E fd \in Fds :
        /\ fd_slots[fd].desc \notin {Closed, Tty}
        /\ LET file == fd_slots[fd].desc
           IN  \E base \in {0, file.offset, file.node.size}, offset \in -1 .. 1 :
                /\ base + offset \in 0 .. MaxSize
                /\ fd_slots' = [fd_slots EXCEPT ![fd].desc.offset = base + offset]
    /\ UNCHANGED <<caller, directory, opened, closed>>

FdNext ==
    \E t \in Callers :
        \/ open(t) \/ LookedUp(t) \/ insertFile(t)
        \/ close(t) \/ closeAll(t) \/ SyncNode(t) \/ CloseNode(t)
        \/ resolve(t) \/ Operate(t) \/ commitFile(t) \/ lseek(t)

FdSpec == FdInit /\ [][FdNext]_dvars

----------------------------------------------------------------------------

\* "an in-flight operation racing with close + re-open of the same slot silently
\* drops its offset update instead of corrupting the unrelated new descriptor":
\* what a read or a write commits changes the table only if the slot still holds
\* the file that was resolved.
StaleCommitDropped ==
    [][\A t \in Callers :
        caller[t].at = "commit" /\ caller'[t] # caller[t] =>
            LET desc == fd_slots[caller[t].fd].desc
            IN  \/ desc.kind = "file" /\ desc.id = caller[t].file.id
                \/ UNCHANGED fd_slots]_dvars

\* Every file that was opened is closed at the VFS once: it is closed, or has
\* one place from which it will be, a slot of the table or the call of one
\* thread; whichever threads close descriptors at the same time, fill the table
\* or leave it to the cleanup of the process.
ClosedOnce ==
    \A id \in 1 .. opened :
        LET inSlots == {fd \in Fds : fd_slots[fd].desc.kind = "file" /\ fd_slots[fd].desc.id = id}
            inCalls == {t \in Callers : /\ caller[t].at \in {"insert", "close", "sync"}
                                        /\ caller[t].file.id = id}
        IN  closed[id] + Cardinality(inSlots) + Cardinality(inCalls) = 1

\* "contiguous sector runs": two files never have a sector in common.  Every file
\* counts as far as its entry in the directory or a descriptor says it goes.
FilesDisjoint ==
    LET open_files == {fd_slots[fd].desc.node :
                          fd \in {f \in Fds : fd_slots[f].desc.kind = "file"}}
        on_disk == {OpenExisting(directory, i, FALSE) : i \in {j \in Entries : directory[j].in_use}}
    IN  \A f, g \in open_files \cup on_disk :
            f.dir_idx # g.dir_idx => Extent(f) \cap Extent(g) = {}

=============================================================================
