---------------------------- MODULE MCResources ----------------------------
(* What the kernel hands out, and a program that uses it, explored side by   *)
(* side: Init fixes the kind.                                                *)
(*   "caps"    the capability tables of two processes with a thread each     *)
(*   "flush"   the TLB shootdown                                             *)
(*   "slab"    a slab cache                                                  *)
(*   "fds"     the descriptors of a process, over the filesystem             *)
(*   "accept", "data"   TCP: listeners with several tasks, or one stream     *)
(*   "platform", "heap", "files", "lib", "strings", "clock"   the DOOM port  *)
(* The variables of the components that do not run keep an initial value, or *)
(* None.                                                                     *)
EXTENDS CapabilityTable, FlushRequest, RawCache, FdTable, Integers, TLC

CONSTANTS
    ta, tb,                             \* the threads of the capability tables
    fa, fb, fk, fp,                     \* the shootdown's tasks and a process
    oa, ob, p1, p2, q1, q2              \* owners, peers and acceptors of sockets

VARIABLES
    kind,
    sockets, acceptor,
    raw_kb, in_extended, s_key_queue, s_key_write, s_key_read, s_fb, screen, typed,
    delivered, overrun,
    heap, blocks,
    s_files, file_call, handles, out,
    at, arr, orig, i, j, tmp, key, lo, hi, str, saved, tokens, given,
    string_call, buf, src, n, d, k, old, num,
    now, sleep, first, last

ProcessOfThread == (ta :> 1) @@ (tb :> 2)

\* A process unmaps from inside; the kernel unmaps from the process and from
\* itself, with interrupts disabled.
FlushContext == (fa :> fp) @@ (fb :> Kernel) @@ (fk :> Kernel)
FlushTarget == (fa :> fp) @@ (fb :> fp) @@ (fk :> Kernel)

\* Two peers and two accepting tasks; no data, and as many sockets as can be used.
Accept == INSTANCE Tcp WITH
    Owners <- {oa}, AcceptsFor <- oa, Peers <- {p1, p2}, Acceptors <- {q1, q2}, TCP_MAX <- 3,
    Talkers <- {}, Wrap <- 4, Payloads <- {1}, RX_BUF_SIZE <- 2

\* One connection, with payloads that wrap around the ring and the counters.
Data == INSTANCE Tcp WITH
    Owners <- {oa, ob}, AcceptsFor <- oa, Peers <- {p1}, Acceptors <- {q1}, TCP_MAX <- 1,
    Talkers <- {p1}, Wrap <- 16, Payloads <- {1, 3}, RX_BUF_SIZE <- 4

\* 0xE0, a make and a break code, and an arrow; displays with padded rows, smaller
\* than the picture, and none.
Platform == INSTANCE DoomPlatform WITH
    KeyQueueSize <- 3, RawSize <- 3, RawSlots <- 5, Bytes <- {224, 29, 157, 72}, MaxBytes <- 5,
    Displays <- {[w |-> 6, h |-> 5, stride |-> 7], [w |-> 3, h |-> 4, stride |-> 3],
                 [w |-> 0, h |-> 0, stride |-> 0]},
    DoomW <- 2, DoomH <- 2, Scale <- 2

Heap == INSTANCE DoomHeap WITH
    HeapSize <- 8, PageSize <- 4, Align <- 2, SizeLimit <- 64, Sizes <- {0, 5}, MaxBlocks <- 3

Files == INSTANCE DoomFiles WITH
    MaxFiles <- 2, Paths <- {"wad", "cfg", "none"}, WadPath <- "wad",
    InitfsSize <- ("wad" :> 3) @@ ("cfg" :> 2) @@ ("none" :> -1),
    WadSize <- 5, MinTotal <- 2, Chunk <- 2, PageSize <- 1, Newlines <- {0, 2},
    Wants <- {0, 2, 3}, MaxPos <- 6, call <- file_call

Lib == INSTANCE DoomLib WITH
    N <- 4, Keys <- 1 .. 3, Delims <- {",", ";"},
    Strings <- UNION {[1 .. m -> {"a", "b", ",", ";"}] : m \in 0 .. 4}

Strings == INSTANCE DoomStrings WITH
    Cap <- 5, Texts <- {<<>>, <<"a">>, <<"a", "b">>, <<"b", "a", "c">>}, Bases <- {0, 10, 16},
    Numbers <- UNION {[1 .. m -> {" ", "-", "0", "9", "A", "x"}] : m \in 0 .. 4},
    call <- string_call

Clock == INSTANCE DoomClock WITH
    UsPerMs <- 3, MsPerSecond <- 2, TickWrap <- 3, MaxNow <- 12, MaxSleep <- 7

nvars == <<sockets, acceptor>>
pvars == <<raw_kb, in_extended, s_key_queue, s_key_write, s_key_read, s_fb, screen, typed,
           delivered, overrun>>
hvars == <<heap, blocks>>
svars == <<s_files, file_call, handles, out>>
lvars == <<at, arr, orig, i, j, tmp, key, lo, hi, str, saved, tokens, given>>
uvars == <<string_call, buf, src, n, d, k, old, num>>
kvars == <<now, sleep, first, last>>

kernel == <<vars, fvars, rvars, dvars, nvars>>
doom == <<pvars, hvars, svars, lvars, uvars, kvars>>

\* The variables of components that do not run.
PlatformOff ==
    /\ raw_kb = None /\ in_extended = None /\ s_key_queue = None /\ s_key_write = None
    /\ s_key_read = None /\ s_fb = None /\ screen = None /\ typed = None
    /\ delivered = None /\ overrun = None

FilesOff ==
    /\ s_files = None /\ file_call = None /\ handles = None /\ out = None

LibOff ==
    /\ at = None /\ arr = None /\ orig = None /\ i = None /\ j = None /\ tmp = None
    /\ key = None /\ lo = None /\ hi = None /\ str = None /\ saved = None /\ tokens = None
    /\ given = None

StringsOff ==
    /\ string_call = None /\ buf = None /\ src = None /\ n = None /\ d = None /\ k = None
    /\ old = None /\ num = None

ClockOff ==
    /\ now = None /\ sleep = None /\ first = None /\ last = None

ResourcesInit ==
    /\ kind \in {"caps", "flush", "slab", "fds", "accept", "data",
                 "platform", "heap", "files", "lib", "strings", "clock"}
    /\ Init /\ FlushInit /\ CacheInit /\ FdInit /\ Heap!Init
    /\ kind # "slab" => config = [last_slab |-> "keep", large |-> TRUE]
    /\ IF kind = "data" THEN Data!Init ELSE Accept!Init
    /\ IF kind = "platform" THEN Platform!Init ELSE PlatformOff
    /\ IF kind = "files" THEN Files!Init ELSE FilesOff
    /\ IF kind = "lib" THEN Lib!Init ELSE LibOff
    /\ IF kind = "strings" THEN Strings!Init ELSE StringsOff
    /\ IF kind = "clock" THEN Clock!Init ELSE ClockOff

KernelNext ==
    \/ kind = "caps" /\ Next /\ UNCHANGED <<fvars, rvars, dvars, nvars>>
    \/ kind = "flush" /\ FlushNext /\ UNCHANGED <<vars, rvars, dvars, nvars>>
    \/ kind = "slab" /\ CacheNext /\ UNCHANGED <<vars, fvars, dvars, nvars>>
    \/ kind = "fds" /\ FdNext /\ UNCHANGED <<vars, fvars, rvars, nvars>>
    \/ kind = "accept" /\ Accept!Next /\ UNCHANGED <<vars, fvars, rvars, dvars>>
    \/ kind = "data" /\ Data!Next /\ UNCHANGED <<vars, fvars, rvars, dvars>>

DoomNext ==
    \/ kind = "platform" /\ Platform!Next /\ UNCHANGED <<hvars, svars, lvars, uvars, kvars>>
    \/ kind = "heap" /\ Heap!Next /\ UNCHANGED <<pvars, svars, lvars, uvars, kvars>>
    \/ kind = "files" /\ Files!Next /\ UNCHANGED <<pvars, hvars, lvars, uvars, kvars>>
    \/ kind = "lib" /\ Lib!Next /\ UNCHANGED <<pvars, hvars, svars, uvars, kvars>>
    \/ kind = "strings" /\ Strings!Next /\ UNCHANGED <<pvars, hvars, svars, lvars, kvars>>
    \/ kind = "clock" /\ Clock!Next /\ UNCHANGED <<pvars, hvars, svars, lvars, uvars>>

\* A bound is reached, or a sequential program has ended; all others go on for ever.
Stop == kind \in {"heap", "lib", "strings", "clock"}

ResourcesNext ==
    /\ \/ KernelNext /\ UNCHANGED doom
       \/ DoomNext /\ UNCHANGED kernel
       \/ Stop /\ UNCHANGED <<kernel, doom>>
    /\ UNCHANGED kind

ResourcesSpec == ResourcesInit /\ [][ResourcesNext]_<<kernel, doom, kind>>

\* Tasks blocked in accept() are where a connection or a close finds them.
AcceptorsNotStranded == kind = "accept" => Accept!AcceptorsNotStranded

\* The unread bytes of a connection are the peer's, in their order.
UnreadInOrder == kind = "data" => Data!UnreadInOrder

\* The game gets the keys that were typed, and a frame is drawn inside the
\* display, scaled and centred.
KeysAndFrame == kind = "platform" => Platform!KeysInOrder /\ Platform!FrameInside

\* A heap block keeps its contents.
ContentsKept == kind = "heap" => Heap!ContentsKept

\* The program reads what is on the medium.
FilesReadBack == kind = "files" => Files!FilesReadBack

\* qsort, bsearch, strtok, the string functions, strtol and the clocks do what
\* their callers rely on.
LibraryCorrect ==
    /\ kind = "lib" => Lib!LibraryCorrect
    /\ kind = "strings" => Strings!StringsCopied /\ Strings!NumberParsed
    /\ kind = "clock" => Clock!SleepsLongEnough /\ Clock!ClocksAgree

=============================================================================
