---------------------------- MODULE ProcessProofs ---------------------------
(***************************************************************************)
(* The life of a process, for every number of threads and spawns: holders  *)
(* are counted, nothing is given back while it is in use, and the status   *)
(* of the first exit is the one that is delivered.  And the table of its   *)
(* descriptors, of any size: every file is closed at the VFS once, and a   *)
(* late commit never reaches another file.                                 *)
(***************************************************************************)
EXTENDS Process, FdTable, TLAPS

----------------------------------------------------------------------------
(* Counting.  What the steps need of finite sets; it is proved at the end,    *)
(* with the library's theorems.                                               *)

\* The members of a set, or of a part of it, count for one each.
OneByOne(T) ==
    \A S : S \subseteq T =>
        /\ Cardinality(S) \in Nat
        /\ Cardinality(S) = 0 <=> S = {}
        /\ \A x : x \notin S => Cardinality(S \cup {x}) = Cardinality(S) + 1
        /\ \A x : x \in S => Cardinality(S \ {x}) = Cardinality(S) - 1

SetCounts == OneByOne(Threads) /\ OneByOne(Fds) /\ OneByOne(Callers)

LEMMA NoneCounted ==
    ASSUME SetCounts
    PROVE  Cardinality({}) = 0
BY Zenon DEF SetCounts, OneByOne

\* A thread, a slot or a caller counts for one.
LEMMA CountOne ==
    ASSUME SetCounts, NEW S, S \subseteq Threads \/ S \subseteq Fds \/ S \subseteq Callers, NEW x
    PROVE  /\ Cardinality(S) \in Nat
           /\ x \notin S => Cardinality(S \cup {x}) = Cardinality(S) + 1
           /\ x \in S => Cardinality(S \ {x}) = Cardinality(S) - 1
           /\ Cardinality(S) = 0 <=> S = {}
BY Zenon DEF SetCounts, OneByOne

----------------------------------------------------------------------------
(* The life of the process: the inductive invariant *)

Statuses == ExitStatuses \cup {{}}
StatusBits == (UNION Statuses) \cup {"exit"} \cup KillStatus

Live == {"entry", "user", "exit", "return", "blocked", "cas", "cascade", "mark"}
Creating == {"grant", "thread", "deref"}
Calling == {"create", "grant", "thread", "deref", "enqueue", "unpark", "finish"}
Reaping == {"clean", "remove", "signal", "release"}

ProcessRecord ==
    [allocated : BOOLEAN, reference_count : Nat, listed : BOOLEAN, threads : SUBSET Threads,
     terminating : BOOLEAN, exit_status : Statuses, queued_for_cleanup : BOOLEAN,
     exit_notify : 0 .. MaxSpawns, granted : Nat]
ThreadRecord ==
    [at : Live \cup {"free", "dead"}, pending_kill : BOOLEAN, status : Statuses,
     todo : SUBSET Threads, queued_for_cleanup : BOOLEAN]
CleanerRecord ==
    [at : {"park", "pop", "clean", "deref", "enqueue", "unpark", "destroy"},
     task : Threads \cup {None}, incoming : Seq(Threads), unparks : Nat, parker : BOOLEAN]
ReaperRecord == [at : {"park", "pop"} \cup Reaping, incoming : Nat, parker : BOOLEAN]
SpawnerRecord == [at : {"idle", "resolve"} \cup Calling, n : 0 .. MaxSpawns, ok : BOOLEAN]
NotifyRecord ==
    [refs : Nat, pending : SUBSET StatusBits, signals : Nat, handle : BOOLEAN,
     killed : BOOLEAN, returned : SUBSET StatusBits]

ProcTypes ==
    /\ process \in ProcessRecord
    /\ thread \in [Threads -> ThreadRecord]
    /\ cleaner \in CleanerRecord
    /\ reaper \in ReaperRecord
    /\ spawner \in SpawnerRecord /\ (spawner.at # "idle" => spawner.n \in Spawns)
    /\ notify \in [Spawns -> NotifyRecord]
    /\ object \in Int /\ decided \in [Spawns -> Statuses]

\* A thread belongs to the process until the cleaner removes it.
ThreadsInv ==
    \A t \in Threads :
        /\ thread[t].at = "free" => t \notin process.threads
        /\ thread[t].at \in Live => t \in process.threads /\ ~ thread[t].queued_for_cleanup
        /\ thread[t].at = "dead" => (t \in process.threads <=> thread[t].queued_for_cleanup)
        /\ thread[t].todo \subseteq process.threads
        /\ thread[t].at # "mark" => thread[t].todo = {}

\* What the cleaner's list holds, once each, and what the cleaner works on.
Queued(t) == thread[t].at = "dead" /\ thread[t].queued_for_cleanup

CleanerInv ==
    /\ \A i \in 1 .. Len(cleaner.incoming) : Queued(cleaner.incoming[i])
    /\ \A i, j \in 1 .. Len(cleaner.incoming) : i # j => cleaner.incoming[i] # cleaner.incoming[j]
    /\ cleaner.at = "clean" =>
          /\ cleaner.task \in Threads /\ Queued(cleaner.task)
          /\ \A i \in 1 .. Len(cleaner.incoming) : cleaner.incoming[i] # cleaner.task
    /\ cleaner.at \in {"deref", "enqueue", "unpark", "destroy"} =>
          /\ cleaner.task \in Threads /\ thread[cleaner.task].at = "dead"
          /\ ~ thread[cleaner.task].queued_for_cleanup

\* References are counted.
RefsInv ==
    process.reference_count =
        Cardinality(process.threads) + Count(cleaner.at = "deref") + Count(spawner.at \in Creating)

\* Whoever drops the last reference has the process queued, once: it is about
\* to be, it is on the list, or it is being reaped.
ReapInv ==
    /\ Count(spawner.at = "enqueue") + Count(cleaner.at = "enqueue") + reaper.incoming
         + Count(reaper.at \in Reaping) = Count(process.allocated /\ process.reference_count = 0)
    /\ process.reference_count # 0 => process.allocated

\* How far the process is in its life.
LifeInv ==
    /\ process.queued_for_cleanup <=> reaper.incoming # 0 \/ reaper.at = "clean"
    /\ process.listed <=> process.allocated /\ reaper.at \notin {"signal", "release"}
    /\ process.exit_notify # 0 <=>
          process.allocated /\ spawner.at # "grant" /\ reaper.at # "release"
    /\ spawner.at = "grant" => process.threads = {}

\* Spawns whose process has not got its notification yet.
Fresh(n) == n > spawner.n \/ (n = spawner.n /\ spawner.at \in {"resolve", "create", "grant"})

\* The references to a notification, and that its bits are the first status.
NotifyInv ==
    \A n \in Spawns :
        /\ spawner.at # "resolve" \/ n # spawner.n =>
              notify[n].refs >= Count(notify[n].handle) + Count(process.exit_notify = n)
                + Count(n = spawner.n /\ spawner.at \in Calling)
                + Count(n = spawner.n /\ spawner.at \in {"create", "grant"})
        /\ Fresh(n) => /\ ~ notify[n].handle /\ process.exit_notify # n /\ notify[n].signals = 0
                       /\ decided[n] = {}
        /\ notify[n].signals # 0 => process.exit_notify # n
        /\ ~ notify[n].killed =>
              /\ notify[n].pending # {} =>
                    notify[n].signals # 0 /\ notify[n].pending = {"exit"} \cup decided[n]
              /\ notify[n].returned # {} =>
                    notify[n].signals # 0 /\ notify[n].returned = {"exit"} \cup decided[n]

ObjectInv ==
    object >= 1 + process.granted + Count(spawner.at \in {"resolve", "create", "grant"})

\* The status that was decided is the one that is recorded, or is about to be.
StatusInv ==
    /\ \A t \in Threads : thread[t].at = "cascade" =>
          process.terminating /\ thread[t].status = decided[process.exit_notify]
    /\ spawner.at = "grant" => ~process.terminating /\ process.exit_status = {}
    /\ process.exit_notify # 0 =>
         /\ ~process.terminating => decided[process.exit_notify] = {}
         /\ (\A t \in Threads : thread[t].at # "cascade") =>
               process.exit_status = decided[process.exit_notify]

ProcInv ==
    /\ ProcTypes /\ ThreadsInv /\ CleanerInv /\ RefsInv /\ ReapInv /\ LifeInv
    /\ NotifyInv /\ ObjectInv /\ StatusInv

----------------------------------------------------------------------------
(* Facts that many steps need *)

\* The number of threads of the process.
LEMMA ThreadCount ==
    ASSUME SetCounts, ProcTypes
    PROVE  /\ process.threads \subseteq Threads /\ Cardinality(process.threads) \in Nat
           /\ Cardinality(process.threads) = 0 <=> process.threads = {}
<1>1. process.threads \subseteq Threads
  BY Zenon DEF ProcTypes, ProcessRecord
<1> QED
  BY <1>1, Zenon DEF SetCounts, OneByOne

\* A process with a thread of its own is allocated, and is not being torn down.
LEMMA ThreadKeepsProcess ==
    ASSUME SetCounts, ProcInv, NEW t \in process.threads
    PROVE  /\ process.reference_count > 0 /\ process.allocated
           /\ spawner.at \notin {"enqueue", "grant"} /\ cleaner.at # "enqueue"
           /\ reaper.incoming = 0 /\ reaper.at \notin Reaping /\ process.exit_notify # 0
<1>1. Cardinality(process.threads) \in Nat \ {0}
  BY ThreadCount, Zenon DEF ProcInv
<1>2. process.reference_count \in Nat /\ reaper.incoming \in Nat
  BY Zenon DEF ProcInv, ProcTypes, ProcessRecord, ReaperRecord
<1>3. process.reference_count > 0
  BY <1>1, <1>2 DEF ProcInv, RefsInv, Count
<1>4. process.allocated
  BY <1>3 DEF ProcInv, ReapInv
<1>5. /\ spawner.at # "enqueue" /\ cleaner.at # "enqueue"
      /\ reaper.incoming = 0 /\ reaper.at \notin Reaping
  <2>1. Count(process.allocated /\ process.reference_count = 0) = 0
    BY <1>3 DEF Count
  <2> DEFINE a == Count(spawner.at = "enqueue")
             b == Count(cleaner.at = "enqueue")
             c == Count(reaper.at \in Reaping)
  <2>2. a + b + reaper.incoming + c = 0
    BY <2>1, Zenon DEF ProcInv, ReapInv
  <2>3. a \in Nat /\ b \in Nat /\ c \in Nat
    BY Zenon DEF Count
  <2>4. /\ a = 0 => spawner.at # "enqueue"
        /\ b = 0 => cleaner.at # "enqueue"
        /\ c = 0 => reaper.at \notin Reaping
    BY DEF Count
  <2> HIDE DEF a, b, c
  <2> QED BY <1>2, <2>2, <2>3, <2>4
<1>6. "release" \in Reaping
  BY Zenon DEF Reaping
<1>7. spawner.at # "grant" /\ process.exit_notify # 0
  BY <1>4, <1>5, <1>6, Zenon DEF ProcInv, LifeInv
<1> QED
  BY <1>3, <1>4, <1>5, <1>7, Zenon

\* While the process is queued or reaped it has no threads and no creator.
LEMMA LastReferenceGone ==
    ASSUME SetCounts, ProcInv,
           \/ spawner.at = "enqueue" \/ cleaner.at = "enqueue"
           \/ reaper.incoming # 0 \/ reaper.at \in Reaping
    PROVE  /\ process.allocated /\ process.reference_count = 0 /\ process.threads = {}
           /\ spawner.at \notin Creating /\ cleaner.at # "deref"
           /\ Count(spawner.at = "enqueue") + Count(cleaner.at = "enqueue") + reaper.incoming
                + Count(reaper.at \in Reaping) = 1
<1>1. Cardinality(process.threads) \in Nat /\ (Cardinality(process.threads) = 0 <=> process.threads = {})
  BY ThreadCount, Zenon DEF ProcInv
<1>2. process.reference_count \in Nat /\ reaper.incoming \in Nat
  BY Zenon DEF ProcInv, ProcTypes, ProcessRecord, ReaperRecord
<1>3. process.allocated /\ process.reference_count = 0
  BY <1>2 DEF ProcInv, ReapInv, Count
<1>4. Count(spawner.at = "enqueue") + Count(cleaner.at = "enqueue") + reaper.incoming
        + Count(reaper.at \in Reaping) = 1
  BY <1>3, Zenon DEF ProcInv, ReapInv, Count
<1>5. spawner.at \notin Creating /\ cleaner.at # "deref" /\ Cardinality(process.threads) = 0
  BY <1>1, <1>3 DEF ProcInv, RefsInv, Count
<1> QED
  BY <1>1, <1>3, <1>4, <1>5, Zenon

\* A step that leaves the cleaner alone, and does not touch dead threads.
LEMMA CleanerKept ==
    ASSUME ProcInv, cleaner' = cleaner,
           \A u \in Threads : thread[u].at = "dead" =>
              thread'[u].at = "dead" /\ thread'[u].queued_for_cleanup = thread[u].queued_for_cleanup
    PROVE  CleanerInv'
<1>1. \A i \in 1 .. Len(cleaner.incoming) : cleaner.incoming[i] \in Threads
  BY DEF ProcInv, ProcTypes, CleanerRecord
<1>2. \A u \in Threads : Queued(u) => Queued(u)'
  BY Zenon DEF Queued
<1> QED
  BY <1>1, <1>2, Zenon DEF ProcInv, CleanerInv

----------------------------------------------------------------------------
(* Steps of threads *)

\* Threads that stay alive move on: what they were told, and what they still
\* have to mark, may change with it, but not the status of one that cascades.
LEMMA LiveMoves ==
    ASSUME ProcInv, UNCHANGED <<process, cleaner, reaper, parent, decided>>,
           thread' \in [Threads -> ThreadRecord],
           \A u \in Threads :
              /\ \/ thread'[u].at = thread[u].at
                 \/ thread[u].at \in Live /\ thread'[u].at \in Live
              /\ thread[u].at = "cascade" \/ thread'[u].at = "cascade" =>
                    thread'[u].at = thread[u].at /\ thread'[u].status = thread[u].status
              /\ thread'[u].queued_for_cleanup = thread[u].queued_for_cleanup
              /\ thread'[u].todo \subseteq thread[u].todo
              /\ thread'[u].at # "mark" => thread'[u].todo = {}
    PROVE  ProcInv'
<1>1. Live \cap {"free", "dead"} = {}
  BY Zenon DEF Live
<1>2. ProcTypes'
  BY Zenon DEF ProcInv, ProcTypes, parent
<1>3. ThreadsInv'
  BY <1>1, Zenon DEF ProcInv, ThreadsInv
<1>4. CleanerInv'
  BY <1>1, CleanerKept, Zenon
<1>5. RefsInv' /\ ReapInv' /\ LifeInv' /\ NotifyInv' /\ ObjectInv'
  BY Zenon DEF ProcInv, RefsInv, ReapInv, LifeInv, NotifyInv, ObjectInv, Fresh, Count, parent
<1>6. StatusInv'
  BY Zenon DEF ProcInv, StatusInv, parent
<1> QED
  BY <1>2, <1>3, <1>4, <1>5, <1>6, Zenon DEF ProcInv

\* A thread that goes from one place to another, and is not the one that
\* cascades or marks its siblings.
LEMMA ThreadStepMoves ==
    ASSUME ProcInv, NEW t \in Threads, NEW from \in Live \ {"cascade"}, NEW to \in Live \ {"cascade"},
           ThreadStep(t, from, to), thread[t].todo = {},
           UNCHANGED <<process, cleaner, reaper, parent, decided>>
    PROVE  ProcInv'
<1>1. thread \in [Threads -> ThreadRecord] /\ ThreadsInv
  BY Zenon DEF ProcInv, ProcTypes
<1>2. /\ thread' = [thread EXCEPT ![t].at = to] /\ thread[t].at = from
  BY Zenon DEF ThreadStep
<1>3. thread' \in [Threads -> ThreadRecord]
  BY <1>1, <1>2 DEF ThreadRecord
<1>4. ASSUME NEW u \in Threads
      PROVE  /\ thread'[u].at = IF u = t THEN to ELSE thread[u].at
             /\ thread'[u].status = thread[u].status
             /\ thread'[u].queued_for_cleanup = thread[u].queued_for_cleanup
             /\ thread'[u].todo = thread[u].todo
  BY <1>1, <1>2 DEF ThreadRecord
<1>5. \A u \in Threads : thread[u].at # "mark" => thread[u].todo = {}
  BY <1>1, Zenon DEF ThreadsInv
<1> QED
  BY <1>2, <1>3, <1>4, <1>5, LiveMoves, Zenon

\* Entry, return, system calls that block or end the thread.
LEMMA MovesInv ==
    ASSUME ProcInv, NEW t \in Threads,
           \/ Enter(t) \/ exitThread(t) \/ Block(t) \/ Wake(t)
           \/ spawnThread(t) /\ UNCHANGED process
    PROVE  ProcInv'
<1>1. PICK from \in {"entry", "user", "blocked"}, to \in {"user", "exit", "blocked", "return"} :
        ThreadStep(t, from, to) /\ UNCHANGED <<process, cleaner, reaper, parent, decided>>
  <2>1. CASE spawnThread(t) /\ UNCHANGED process
    <3>1. ASSUME NEW u \in Threads, createThread(u) PROVE FALSE
      <4>1. process \in ProcessRecord
        BY Zenon DEF ProcInv, ProcTypes
      <4>2. process'.reference_count = process.reference_count + 1
        BY <3>1, <4>1, Zenon DEF createThread, ProcessRecord
      <4>3. process.reference_count \in Nat
        BY <4>1, Zenon DEF ProcessRecord
      <4> QED BY <2>1, <4>2, <4>3
    <3> QED BY <2>1, <3>1, Zenon DEF spawnThread
  <2> QED BY <2>1, Zenon DEF Enter, exitThread, Block, Wake
<1>2. from \in Live \ {"cascade"} /\ to \in Live \ {"cascade"} /\ from # "mark"
  BY Zenon DEF Live
<1>3. thread[t].todo = {}
  BY <1>1, <1>2, Zenon DEF ThreadStep, ProcInv, ThreadsInv
<1> QED
  BY <1>1, <1>2, <1>3, ThreadStepMoves, Zenon

LEMMA exitProcessInv ==
    ASSUME ProcInv, NEW t \in Threads, exitProcess(t) PROVE ProcInv'
<1>1. thread \in [Threads -> ThreadRecord] /\ ThreadsInv
  BY Zenon DEF ProcInv, ProcTypes
<1>2. PICK s \in ExitStatuses : thread' = [thread EXCEPT ![t].at = "cas", ![t].status = s]
  BY Zenon DEF exitProcess
<1>3. thread' \in [Threads -> ThreadRecord]
  BY <1>1, <1>2, Zenon DEF ThreadRecord, Live, Statuses
<1>4. ASSUME NEW u \in Threads
      PROVE  /\ thread'[u].at = IF u = t THEN "cas" ELSE thread[u].at
             /\ u # t => thread'[u].status = thread[u].status
             /\ thread'[u].queued_for_cleanup = thread[u].queued_for_cleanup
             /\ thread'[u].todo = thread[u].todo
  BY <1>1, <1>2 DEF ThreadRecord
<1>5. \A u \in Threads : thread[u].at # "mark" => thread[u].todo = {}
  BY <1>1, Zenon DEF ThreadsInv
<1>6. thread[t].at = "user" /\ "user" \in Live /\ "cas" \in Live
  BY Zenon DEF exitProcess, Live
<1>7. UNCHANGED <<process, cleaner, reaper, parent, decided>>
  BY Zenon DEF exitProcess
<1> QED
  BY <1>3, <1>4, <1>5, <1>6, <1>7, LiveMoves, Zenon

LEMMA checkPendingKillInv ==
    ASSUME ProcInv, NEW t \in Threads, checkPendingKill(t) PROVE ProcInv'
<1>1. /\ thread \in [Threads -> ThreadRecord] /\ ThreadsInv /\ process.exit_status \in Statuses
      /\ UNCHANGED <<process, cleaner, reaper, parent, decided>>
  BY Zenon DEF ProcInv, ProcTypes, ProcessRecord, checkPendingKill
<1>2. \A u \in Threads : thread[u].at # "mark" => thread[u].todo = {}
  BY <1>1, Zenon DEF ThreadsInv
<1>3. {"user", "return", "cas"} \subseteq Live \ {"cascade"}
  BY Zenon DEF Live
<1>4. CASE ThreadStep(t, "return", "user")
  BY <1>1, <1>2, <1>3, <1>4, ThreadStepMoves, Zenon DEF ThreadStep
<1>5. CASE /\ thread[t].at \in {"return", "user"}
           /\ thread' = [thread EXCEPT ![t].at = "cas", ![t].pending_kill = FALSE,
                                       ![t].status = process.exit_status]
  <2>1. thread' \in [Threads -> ThreadRecord]
    BY <1>1, <1>3, <1>5, Zenon DEF ThreadRecord
  <2>2. ASSUME NEW u \in Threads
        PROVE  /\ thread'[u].at = IF u = t THEN "cas" ELSE thread[u].at
               /\ u # t => thread'[u].status = thread[u].status
               /\ thread'[u].queued_for_cleanup = thread[u].queued_for_cleanup
               /\ thread'[u].todo = thread[u].todo
    BY <1>1, <1>5, Zenon DEF ThreadRecord
  <2> QED
    BY <1>1, <1>2, <1>3, <1>5, <2>1, <2>2, LiveMoves
<1> QED
  BY <1>4, <1>5, Zenon DEF checkPendingKill

LEMMA forceTerminateSiblingsInv ==
    ASSUME ProcInv, NEW t \in Threads, forceTerminateSiblings(t) PROVE ProcInv'
<1>1. /\ thread \in [Threads -> ThreadRecord] /\ ThreadsInv
      /\ UNCHANGED <<process, cleaner, reaper, parent, decided>> /\ thread[t].at = "mark"
  BY Zenon DEF ProcInv, ProcTypes, forceTerminateSiblings
<1>2. \A u \in Threads : thread[u].at # "mark" => thread[u].todo = {}
  BY <1>1, Zenon DEF ThreadsInv
<1>3. {"mark", "exit"} \subseteq Live \ {"cascade"}
  BY Zenon DEF Live
<1>4. CASE thread[t].todo = {} /\ ThreadStep(t, "mark", "exit")
  BY <1>1, <1>3, <1>4, ThreadStepMoves, Zenon
<1>5. ASSUME NEW v \in thread[t].todo,
             thread' = [thread EXCEPT ![t].todo = @ \ {v}, ![v].pending_kill = TRUE]
      PROVE  ProcInv'
  <2>1. v \in Threads
    BY <1>1, Zenon DEF ThreadRecord
  <2> DEFINE left == [thread EXCEPT ![t].todo = @ \ {v}]
  <2>2. left \in [Threads -> ThreadRecord]
    BY <1>1 DEF ThreadRecord
  <2>3. ASSUME NEW u \in Threads
        PROVE  /\ left[u].at = thread[u].at /\ left[u].status = thread[u].status
               /\ left[u].queued_for_cleanup = thread[u].queued_for_cleanup
               /\ left[u].todo = IF u = t THEN thread[u].todo \ {v} ELSE thread[u].todo
    BY <1>1, Zenon DEF ThreadRecord
  <2>4. thread' = [left EXCEPT ![v].pending_kill = TRUE]
    BY <1>5, Zenon
  <2> HIDE DEF left
  <2>5. thread' \in [Threads -> ThreadRecord]
    <3> DEFINE r == [left[v] EXCEPT !.pending_kill = TRUE]
    <3>1. r \in ThreadRecord
      <4>1. left[v] \in ThreadRecord
        BY <2>1, <2>2, Zenon
      <4> QED BY <4>1, Zenon DEF ThreadRecord
    <3> HIDE DEF r
    <3>2. thread' = [left EXCEPT ![v] = r]
      BY <2>4, Zenon DEF r
    <3> QED BY <2>1, <2>2, <3>1, <3>2, Zenon
  <2>6. ASSUME NEW u \in Threads
        PROVE  /\ thread'[u].at = left[u].at /\ thread'[u].status = left[u].status
               /\ thread'[u].queued_for_cleanup = left[u].queued_for_cleanup
               /\ thread'[u].todo = left[u].todo
    BY <2>1, <2>2, <2>4 DEF ThreadRecord
  <2> QED
    BY <1>1, <1>2, <2>3, <2>5, <2>6, LiveMoves, Zenon
<1> QED
  BY <1>4, <1>5, Zenon DEF forceTerminateSiblings

LEMMA TerminatingInv ==
    ASSUME SetCounts, ProcInv, NEW t \in Threads, Terminating(t) PROVE ProcInv'
<1>1. /\ thread \in [Threads -> ThreadRecord] /\ ThreadsInv /\ process \in ProcessRecord
      /\ thread[t].at = "cas" /\ UNCHANGED <<cleaner, reaper, parent>>
  BY Zenon DEF ProcInv, ProcTypes, Terminating, ThreadStep
<1>2. \A u \in Threads : thread[u].at # "mark" => thread[u].todo = {}
  BY <1>1, Zenon DEF ThreadsInv
<1>3. {"cas", "exit", "cascade"} \subseteq Live
  BY Zenon DEF Live
<1>4. CASE process.terminating
  <2>1. thread' = [thread EXCEPT ![t].at = "exit", ![t].status = {}] /\ UNCHANGED <<process, decided>>
    BY <1>4, Zenon DEF Terminating
  <2>2. thread' \in [Threads -> ThreadRecord]
    BY <1>1, <1>3, <2>1, Zenon DEF ThreadRecord, Statuses
  <2>3. ASSUME NEW u \in Threads
        PROVE  /\ thread'[u].at = IF u = t THEN "exit" ELSE thread[u].at
               /\ u # t => thread'[u].status = thread[u].status
               /\ thread'[u].queued_for_cleanup = thread[u].queued_for_cleanup
               /\ thread'[u].todo = thread[u].todo
    BY <1>1, <2>1, Zenon DEF ThreadRecord
  <2> QED
    BY <1>1, <1>2, <1>3, <2>1, <2>2, <2>3, LiveMoves
<1>5. CASE ~ process.terminating
  <2>1. /\ thread' = [thread EXCEPT ![t].at = "cascade"]
        /\ process' = [process EXCEPT !.terminating = TRUE]
        /\ decided' = [decided EXCEPT ![process.exit_notify] = thread[t].status]
    BY <1>5, Zenon DEF Terminating, ThreadStep
  <2>2. /\ process' \in ProcessRecord /\ process'.terminating
        /\ \A f \in {"allocated", "reference_count", "listed", "threads", "exit_status",
                     "queued_for_cleanup", "exit_notify", "granted"} : process'[f] = process[f]
    BY <1>1, <2>1, Zenon DEF ProcessRecord
  <2>3. /\ process'.allocated = process.allocated /\ process'.reference_count = process.reference_count
        /\ process'.listed = process.listed /\ process'.threads = process.threads
        /\ process'.exit_status = process.exit_status
        /\ process'.queued_for_cleanup = process.queued_for_cleanup
        /\ process'.exit_notify = process.exit_notify /\ process'.granted = process.granted
    BY <2>2, Zenon
  <2>4. thread' \in [Threads -> ThreadRecord]
    BY <1>1, <1>3, <2>1 DEF ThreadRecord
  <2>5. ASSUME NEW u \in Threads
        PROVE  /\ thread'[u].at = IF u = t THEN "cascade" ELSE thread[u].at
               /\ thread'[u].status = thread[u].status
               /\ thread'[u].queued_for_cleanup = thread[u].queued_for_cleanup
               /\ thread'[u].todo = thread[u].todo
    BY <1>1, <2>1, Zenon DEF ThreadRecord
  <2>6. t \in process.threads /\ process.exit_notify \in Spawns
    <3>1. t \in process.threads
      BY <1>1, <1>3 DEF ThreadsInv
    <3>2. process.exit_notify # 0 /\ process.exit_notify \in 0 .. MaxSpawns
      BY <1>1, <3>1, ThreadKeepsProcess, Zenon DEF ProcessRecord
    <3> QED BY <3>1, <3>2, ThreadAssumption DEF Spawns
  <2>7. /\ decided' \in [Spawns -> Statuses] /\ decided'[process.exit_notify] = thread[t].status
        /\ \A n \in Spawns \ {process.exit_notify} : decided'[n] = decided[n]
    <3>1. thread[t].status \in Statuses /\ decided \in [Spawns -> Statuses]
      BY <1>1, Zenon DEF ProcInv, ProcTypes, ThreadRecord
    <3> QED BY <2>1, <2>6, <3>1, Zenon
  <2>8. ProcTypes'
    BY <1>1, <2>2, <2>4, <2>7, Zenon DEF ProcInv, ProcTypes, parent
  <2>9. ThreadsInv' /\ CleanerInv'
    <3>1. "dead" \notin Live
      BY Zenon DEF Live
    <3>4. CleanerInv'
      BY <1>1, <2>5, CleanerKept, Zenon
    <3>5. ThreadsInv'
      BY <1>1, <1>2, <1>3, <2>3, <2>5, <3>1 DEF ThreadsInv
    <3> QED BY <3>4, <3>5, Zenon
  <2>10. RefsInv' /\ ReapInv' /\ LifeInv' /\ ObjectInv'
    BY <1>1, <2>3, Zenon DEF ProcInv, RefsInv, ReapInv, LifeInv, ObjectInv, Count, parent
  <2>11. NotifyInv'
    <3>1. NotifyInv
      BY Zenon DEF ProcInv
    <3> QED BY <1>1, <2>3, <2>6, <2>7, <3>1 DEF NotifyInv, Fresh, Count, parent
  <2>12. StatusInv'
    <3>1. \A u \in Threads : thread[u].at # "cascade"
      BY <1>5, Zenon DEF ProcInv, StatusInv
    <3>2. spawner.at # "grant"
      BY <2>6, ThreadKeepsProcess, Zenon
    <3> QED BY <1>1, <2>2, <2>3, <2>5, <2>7, <3>1, <3>2 DEF StatusInv, parent
  <2> QED BY <2>8, <2>9, <2>10, <2>11, <2>12, Zenon DEF ProcInv
<1> QED
  BY <1>4, <1>5, Zenon

LEMMA CascadeInv ==
    ASSUME SetCounts, ProcInv, NEW t \in Threads, Cascade(t) PROVE ProcInv'
<1>1. /\ thread \in [Threads -> ThreadRecord] /\ ThreadsInv /\ process \in ProcessRecord
      /\ thread[t].at = "cascade" /\ UNCHANGED <<cleaner, reaper, parent, decided>>
      /\ process.threads \subseteq Threads /\ thread[t].status \in Statuses
  BY Zenon DEF ProcInv, ProcTypes, Cascade, ProcessRecord, ThreadRecord
<1>2. \A u \in Threads : thread[u].at # "mark" => thread[u].todo = {}
  BY <1>1, Zenon DEF ThreadsInv
<1>3. {"cascade", "mark"} \subseteq Live
  BY Zenon DEF Live
<1>4. /\ thread' = [thread EXCEPT ![t].at = "mark", ![t].status = {}, ![t].todo = process.threads \ {t}]
      /\ process' = [process EXCEPT !.exit_status = thread[t].status]
  BY Zenon DEF Cascade
<1>5. /\ process' \in ProcessRecord /\ process'.exit_status = thread[t].status
      /\ process'.allocated = process.allocated /\ process'.reference_count = process.reference_count
      /\ process'.listed = process.listed /\ process'.threads = process.threads
      /\ process'.terminating = process.terminating
      /\ process'.queued_for_cleanup = process.queued_for_cleanup
      /\ process'.exit_notify = process.exit_notify /\ process'.granted = process.granted
  BY <1>1, <1>4, Zenon DEF ProcessRecord
<1>6. thread' \in [Threads -> ThreadRecord]
  BY <1>1, <1>3, <1>4, Zenon DEF ThreadRecord, Statuses
<1>7. ASSUME NEW u \in Threads
      PROVE  /\ thread'[u].at = IF u = t THEN "mark" ELSE thread[u].at
             /\ u # t => thread'[u].status = thread[u].status
             /\ thread'[u].queued_for_cleanup = thread[u].queued_for_cleanup
             /\ thread'[u].todo = IF u = t THEN process.threads \ {t} ELSE thread[u].todo
  BY <1>1, <1>4, Zenon DEF ThreadRecord
<1>8. ProcTypes'
  BY <1>1, <1>5, <1>6, Zenon DEF ProcInv, ProcTypes, parent
<1>9. ThreadsInv' /\ CleanerInv'
  <2>1. "dead" \notin Live /\ "free" \notin Live
    BY Zenon DEF Live
  <2>4. CleanerInv'
    BY <1>1, <1>7, CleanerKept, Zenon
  <2>5. ThreadsInv'
    BY <1>1, <1>2, <1>3, <1>5, <1>7, <2>1 DEF ThreadsInv
  <2> QED BY <2>4, <2>5, Zenon
<1>10. RefsInv' /\ ReapInv' /\ LifeInv' /\ ObjectInv' /\ NotifyInv'
  BY <1>1, <1>5
  DEF ProcInv, RefsInv, ReapInv, LifeInv, ObjectInv, NotifyInv, Fresh, Count, parent
<1>11. StatusInv'
  <2>1. thread[t].status = decided[process.exit_notify] /\ process.terminating
    BY <1>1, Zenon DEF ProcInv, StatusInv
  <2>2. t \in process.threads
    BY <1>1, <1>3 DEF ThreadsInv
  <2>3. spawner.at # "grant"
    BY <2>2, ThreadKeepsProcess, Zenon
  <2> QED BY <1>1, <1>5, <1>7, <2>1, <2>3 DEF ProcInv, StatusInv, parent
<1> QED BY <1>8, <1>9, <1>10, <1>11, Zenon DEF ProcInv
----------------------------------------------------------------------------
(* What a step leaves alone *)

LEMMA NotifyKept ==
    ASSUME ProcInv, UNCHANGED <<notify, decided>>, process'.exit_notify = process.exit_notify,
           spawner'.n = spawner.n,
           spawner'.at = "resolve" <=> spawner.at = "resolve",
           spawner'.at \in Calling <=> spawner.at \in Calling,
           spawner'.at \in {"create", "grant"} <=> spawner.at \in {"create", "grant"}
    PROVE  NotifyInv'
<1>1. \A n \in Spawns : Fresh(n)' <=> Fresh(n)
  BY Zenon DEF Fresh
<1> QED
  BY <1>1 DEF ProcInv, NotifyInv, Count

LEMMA StatusKept ==
    ASSUME ProcInv, UNCHANGED decided,
           \A u \in Threads :
              /\ thread'[u].at = "cascade" <=> thread[u].at = "cascade"
              /\ thread[u].at = "cascade" => thread'[u].status = thread[u].status,
           process'.terminating = process.terminating, process'.exit_status = process.exit_status,
           process'.exit_notify = process.exit_notify,
           spawner'.at = "grant" => spawner.at = "grant"
    PROVE  StatusInv'
  BY Zenon DEF ProcInv, StatusInv

LEMMA ObjectKept ==
    ASSUME ProcInv, UNCHANGED object, process'.granted = process.granted,
           spawner'.at \in {"resolve", "create", "grant"} <=> spawner.at \in {"resolve", "create", "grant"}
    PROVE  ObjectInv'
  BY Zenon DEF ProcInv, ObjectInv, Count

\* A thread joins the process: its creator is a thread of the process or the
\* spawner, so that the process has a reference already.
LEMMA createThreadInv ==
    ASSUME SetCounts, ProcInv, NEW u \in Threads, createThread(u),
           UNCHANGED <<cleaner, reaper, notify, object, decided>>,
           thread' \in [Threads -> ThreadRecord], thread'[u] = NewThread,
           \A v \in Threads \ {u} :
              /\ thread'[v].at = thread[v].at \/ (thread[v].at = "user" /\ thread'[v].at = "return")
              /\ thread'[v].status = thread[v].status /\ thread'[v].todo = thread[v].todo
              /\ thread'[v].queued_for_cleanup = thread[v].queued_for_cleanup,
           spawner' \in SpawnerRecord, spawner'.n = spawner.n,
           \/ spawner'.at = spawner.at /\ process.threads # {}
           \/ spawner.at = "thread" /\ spawner'.at = "deref"
    PROVE  ProcInv'
<1>1. /\ process \in ProcessRecord /\ thread \in [Threads -> ThreadRecord] /\ ThreadsInv
      /\ process.reference_count \in Nat /\ process.threads \subseteq Threads
  BY Zenon DEF ProcInv, ProcTypes, ProcessRecord
<1>2. /\ process' \in ProcessRecord /\ process'.threads = process.threads \cup {u}
      /\ process'.reference_count = process.reference_count + 1
      /\ process'.allocated = process.allocated
      /\ process'.listed = process.listed
      /\ process'.terminating = process.terminating /\ process'.exit_status = process.exit_status
      /\ process'.queued_for_cleanup = process.queued_for_cleanup
      /\ process'.exit_notify = process.exit_notify /\ process'.granted = process.granted
  <2>1. process' = [process EXCEPT !.threads = process.threads \cup {u},
                                   !.reference_count = process.reference_count + 1]
    BY Zenon DEF createThread
  <2>2. process.threads \cup {u} \in SUBSET Threads /\ process.reference_count + 1 \in Nat
    BY <1>1
  <2>3. process' \in ProcessRecord
    BY <1>1, <2>1, <2>2, Zenon DEF ProcessRecord
  <2> QED
    BY <1>1, <2>1, <2>3, Zenon DEF ProcessRecord
<1>3. /\ thread'[u].at = "entry" /\ thread'[u].todo = {} /\ ~ thread'[u].queued_for_cleanup
      /\ thread[u].at = "free" /\ u \notin process.threads
  BY <1>1 DEF NewThread, Slot, createThread, ThreadsInv
<1>4. {"entry", "user", "return"} \subseteq Live /\ {"free", "dead"} \cap Live = {}
  BY Zenon DEF Live
<1>5. process.reference_count > 0 /\ process.allocated /\ spawner.at # "grant"
  <2>1. CASE process.threads # {}
    <3> PICK x \in process.threads : TRUE
      BY <2>1, Zenon
    <3> QED BY ThreadKeepsProcess, Zenon
  <2>2. CASE spawner.at = "thread"
    <3>1. "thread" \in Creating /\ Cardinality(process.threads) \in Nat
      BY ThreadCount, Zenon DEF Creating, ProcInv
    <3>2. process.reference_count > 0
      BY <2>2, <3>1 DEF ProcInv, RefsInv, Count
    <3> QED BY <1>1, <2>2, <3>2 DEF ProcInv, ReapInv
  <2> QED BY <2>1, <2>2, Zenon
<1>6. /\ spawner'.at \in Creating <=> spawner.at \in Creating
      /\ spawner'.at \in Calling <=> spawner.at \in Calling
      /\ spawner'.at \in {"create", "grant"} <=> spawner.at \in {"create", "grant"}
      /\ spawner'.at \in {"resolve", "create", "grant"} <=> spawner.at \in {"resolve", "create", "grant"}
      /\ spawner'.at = "resolve" <=> spawner.at = "resolve"
      /\ spawner'.at = "enqueue" <=> spawner.at = "enqueue"
      /\ spawner'.at # "grant" /\ (spawner'.at = "idle" <=> spawner.at = "idle")
  BY <1>5, Zenon DEF Creating, Calling
<1>7. ProcTypes'
  BY <1>2, <1>6, Zenon DEF ProcInv, ProcTypes
<1>8. ThreadsInv'
  BY <1>1, <1>2, <1>3, <1>4 DEF ThreadsInv
<1>9. CleanerInv'
  BY <1>3, CleanerKept, Zenon
<1>10. RefsInv'
  <2>1. Cardinality(process'.threads) = Cardinality(process.threads) + 1
    <3>1. process.threads \subseteq Threads
      BY ThreadCount, Zenon DEF ProcInv
    <3>2. u \notin process.threads
      BY <1>3, Zenon
    <3>3. Cardinality(process.threads \cup {u}) = Cardinality(process.threads) + 1
      BY <3>1, <3>2, CountOne, Zenon
    <3> QED BY <1>2, <3>3, Zenon
  <2>2. Cardinality(process.threads) \in Nat
    BY ThreadCount, Zenon DEF ProcInv
  <2> QED BY <1>1, <1>2, <1>6, <2>1, <2>2 DEF ProcInv, RefsInv, Count
<1>11. ReapInv'
  BY <1>1, <1>2, <1>5, <1>6 DEF ProcInv, ReapInv, Count
<1>12. LifeInv'
  BY <1>2, <1>5, <1>6, Zenon DEF ProcInv, LifeInv
<1>13. NotifyInv' /\ StatusInv' /\ ObjectInv'
  <2>1. \A v \in Threads : (thread'[v].at = "cascade" <=> thread[v].at = "cascade")
          /\ (thread[v].at = "cascade" => thread'[v].status = thread[v].status)
    BY <1>3, Zenon
  <2> QED BY <1>2, <1>6, <2>1, NotifyKept, StatusKept, ObjectKept, Zenon
<1> QED BY <1>7, <1>8, <1>9, <1>10, <1>11, <1>12, <1>13, Zenon DEF ProcInv

LEMMA spawnThreadInv ==
    ASSUME SetCounts, ProcInv, NEW t \in Threads, spawnThread(t) PROVE ProcInv'
<1>1. CASE UNCHANGED process
  BY <1>1, MovesInv, Zenon
<1>2. ASSUME NEW u \in Threads, createThread(u), thread' = [thread EXCEPT ![t].at = "return", ![u] = NewThread]
      PROVE  ProcInv'
  <2>1. thread \in [Threads -> ThreadRecord] /\ thread[t].at = "user" /\ thread[u].at = "free"
        /\ ThreadsInv /\ spawner \in SpawnerRecord
    BY <1>2, Zenon DEF ProcInv, ProcTypes, spawnThread, createThread
  <2>2. NewThread \in ThreadRecord /\ {"user", "return"} \subseteq Live
    BY Zenon DEF NewThread, Slot, ThreadRecord, Live, Statuses
  <2> DEFINE moved == [thread EXCEPT ![t].at = "return"]
  <2>3. /\ moved \in [Threads -> ThreadRecord]
        /\ \A v \in Threads : /\ moved[v].at = IF v = t THEN "return" ELSE thread[v].at
                              /\ moved[v].status = thread[v].status /\ moved[v].todo = thread[v].todo
                              /\ moved[v].queued_for_cleanup = thread[v].queued_for_cleanup
    BY <2>1, <2>2, Zenon DEF ThreadRecord
  <2>4. thread' = [moved EXCEPT ![u] = NewThread]
    BY <1>2, Zenon
  <2> HIDE DEF moved
  <2>5. /\ thread' \in [Threads -> ThreadRecord] /\ thread'[u] = NewThread
        /\ \A v \in Threads \ {u} : thread'[v] = moved[v]
    BY <2>2, <2>3, <2>4, Zenon
  <2>6. t \in process.threads
    BY <2>1, <2>2, Zenon DEF ThreadsInv
  <2>7. UNCHANGED <<cleaner, reaper, notify, object, decided, spawner>>
    BY Zenon DEF spawnThread, parent
  <2> QED
    BY <1>2, <2>1, <2>3, <2>5, <2>6, <2>7, createThreadInv, Zenon
<1> QED
  BY <1>1, <1>2, Zenon DEF spawnThread

LEMMA CreateLoaderInv ==
    ASSUME SetCounts, ProcInv, CreateLoader PROVE ProcInv'
<1>1. /\ process \in ProcessRecord /\ spawner \in SpawnerRecord /\ spawner.at = "thread"
      /\ spawner.n \in Spawns /\ thread \in [Threads -> ThreadRecord]
  BY Zenon DEF ProcInv, ProcTypes, CreateLoader, SpawnStep
<1>2. UNCHANGED <<cleaner, reaper, notify, object, decided>>
  BY Zenon DEF CreateLoader
<1>3. ASSUME NEW u \in Threads, createThread(u), thread' = [thread EXCEPT ![u] = NewThread],
             spawner' = [spawner EXCEPT !.at = "deref", !.ok = TRUE]
      PROVE  ProcInv'
  <2>1. NewThread \in ThreadRecord
    BY Zenon DEF NewThread, Slot, ThreadRecord, Live, Statuses
  <2>2. /\ thread' \in [Threads -> ThreadRecord] /\ thread'[u] = NewThread
        /\ \A v \in Threads \ {u} : thread'[v] = thread[v]
    BY <1>1, <1>3, <2>1, Zenon
  <2>3. spawner' \in SpawnerRecord /\ spawner'.n = spawner.n /\ spawner'.at = "deref"
    BY <1>1, <1>3, Zenon DEF SpawnerRecord, Calling
  <2> QED
    BY <1>1, <1>2, <1>3, <2>2, <2>3, createThreadInv, Zenon
<1>4. CASE SpawnStep("thread", "deref") /\ UNCHANGED <<process, thread>>
  <2>1. spawner' \in SpawnerRecord /\ spawner'.n = spawner.n /\ spawner'.at = "deref"
    BY <1>1, <1>4, Zenon DEF SpawnerRecord, Calling, SpawnStep
  <2>2. {"thread", "deref"} \subseteq Creating \cap Calling
    BY Zenon DEF Creating, Calling
  <2>3. ProcTypes' /\ ThreadsInv'
    BY <1>1, <1>2, <1>4, <2>1, Zenon DEF ProcInv, ProcTypes, ThreadsInv
  <2>4. CleanerInv'
    BY <1>2, <1>4, CleanerKept, Zenon
  <2>5. RefsInv' /\ ReapInv' /\ LifeInv'
    BY <1>1, <1>2, <1>4, <2>1, <2>2, Zenon DEF ProcInv, RefsInv, ReapInv, LifeInv, Count
  <2>6. NotifyInv' /\ StatusInv' /\ ObjectInv'
    BY <1>1, <1>2, <1>4, <2>1, <2>2, NotifyKept, StatusKept, ObjectKept, Zenon
  <2> QED BY <2>3, <2>4, <2>5, <2>6, Zenon DEF ProcInv
<1> QED
  BY <1>3, <1>4, Zenon DEF CreateLoader
----------------------------------------------------------------------------
(* Steps of the spawner *)

\* The spawner moves where it has no part in the process's references.
LEMMA SpawnerMoves ==
    ASSUME ProcInv, UNCHANGED <<process, thread, cleaner, decided>>,
           reaper' \in ReaperRecord, reaper'.at = reaper.at, reaper'.incoming = reaper.incoming,
           spawner' \in SpawnerRecord, spawner'.at # "idle" => spawner'.n \in Spawns,
           spawner.at \notin Creating \cup {"enqueue"}, spawner'.at \notin Creating \cup {"enqueue"},
           notify' \in [Spawns -> NotifyRecord], object' \in Int, NotifyInv', ObjectInv'
    PROVE  ProcInv'
<1>1. "grant" \in Creating
  BY Zenon DEF Creating
<1>2. ProcTypes' /\ ThreadsInv'
  BY Zenon DEF ProcInv, ProcTypes, ThreadsInv
<1>3. CleanerInv'
  BY CleanerKept, Zenon
<1>4. RefsInv' /\ ReapInv' /\ LifeInv'
  BY <1>1, Zenon DEF ProcInv, RefsInv, ReapInv, LifeInv, Count
<1>5. StatusInv'
  BY <1>1, StatusKept, Zenon
<1> QED BY <1>2, <1>3, <1>4, <1>5, Zenon DEF ProcInv

\* The references of one notification.
Refs(n) ==
    Count(notify[n].handle) + Count(process.exit_notify = n)
      + Count(n = spawner.n /\ spawner.at \in Calling)
      + Count(n = spawner.n /\ spawner.at \in {"create", "grant"})

LEMMA ResolveGrantsInv ==
    ASSUME ProcInv, ResolveGrants PROVE ProcInv'
<1>1. /\ spawner \in SpawnerRecord /\ spawner.n \in 0 .. MaxSpawns /\ object \in Int
      /\ notify \in [Spawns -> NotifyRecord]
  BY Zenon DEF ProcInv, ProcTypes, SpawnerRecord
<1>2. /\ spawner.at = "idle" /\ spawner' \in SpawnerRecord /\ spawner'.at = "resolve"
      /\ spawner'.n = spawner.n + 1 /\ spawner'.n \in Spawns
  BY <1>1, ThreadAssumption DEF ResolveGrants, SpawnerRecord, Spawns
<1>3. UNCHANGED <<process, thread, cleaner, reaper, notify, decided>> /\ object' = object + 1
  BY Zenon DEF ResolveGrants
<1>4. {"idle", "resolve"} \cap (Creating \cup Calling \cup {"enqueue"}) = {}
  BY Zenon DEF Creating, Calling
<1>5. ObjectInv'
  <2> process.granted \in Nat
    BY Zenon DEF ProcInv, ProcTypes, ProcessRecord
  <2> QED BY <1>1, <1>2, <1>3 DEF ProcInv, ObjectInv, Count
<1>6. NotifyInv'
  <2>1. \A n \in Spawns : n \in Nat
    BY DEF Spawns
  <2>2. \A n \in Spawns : Fresh(n)' => Fresh(n)
    BY <1>1, <1>2, <2>1 DEF Fresh
  <2>3. \A n \in Spawns : n # spawner'.n \/ spawner'.at # "resolve" => notify[n].refs >= Refs(n)'
    BY <1>2, <1>3, <1>4, Zenon DEF ProcInv, NotifyInv, Refs, Count
  <2> QED BY <1>3, <2>2, <2>3, Zenon DEF ProcInv, NotifyInv, Refs
<1>7. reaper' \in ReaperRecord
  BY <1>3, Zenon DEF ProcInv, ProcTypes
<1> QED BY <1>1, <1>2, <1>3, <1>4, <1>5, <1>6, <1>7, SpawnerMoves

LEMMA SpawnStepFields ==
    ASSUME ProcInv, NEW from, NEW to \in {"idle"} \cup Calling, SpawnStep(from, to)
    PROVE  /\ spawner' \in SpawnerRecord /\ spawner.at = from /\ spawner'.at = to
           /\ spawner'.n = spawner.n /\ spawner'.ok = spawner.ok
           /\ from # "idle" => spawner.n \in Spawns
  BY Zenon DEF ProcInv, ProcTypes, SpawnStep, SpawnerRecord

LEMMA ResolveEndsInv ==
    ASSUME ProcInv, ResolveFails \/ CreateNotify \/ CreateFails \/ Finish PROVE ProcInv'
<1>1. PICK from \in {"resolve", "create", "finish"}, to \in {"idle", "create"} :
        /\ SpawnStep(from, to)
        /\ \/ ResolveFails /\ from = "resolve" /\ to = "idle"
           \/ CreateNotify /\ from = "resolve" /\ to = "create"
           \/ CreateFails /\ from = "create" /\ to = "idle"
           \/ Finish /\ from = "finish" /\ to = "idle"
  BY Zenon DEF ResolveFails, CreateNotify, CreateFails, Finish
<1>2. /\ spawner' \in SpawnerRecord /\ spawner.at = from /\ spawner'.at = to
      /\ spawner'.n = spawner.n /\ spawner.n \in Spawns
  BY <1>1, SpawnStepFields, Zenon DEF Calling
<1>3. /\ UNCHANGED <<process, thread, cleaner, reaper, object, decided>>
      /\ notify \in [Spawns -> NotifyRecord] /\ object \in Int /\ reaper \in ReaperRecord
  BY <1>1, Zenon DEF ResolveFails, CreateNotify, CreateFails, Finish, ProcInv, ProcTypes
<1>4. {"idle", "resolve", "create", "finish"} \cap (Creating \cup {"enqueue"}) = {}
  BY Zenon DEF Creating
<1> DEFINE n == spawner.n
           r == notify'[n].refs
<1>5. /\ notify' \in [Spawns -> NotifyRecord]
      /\ \A m \in Spawns \ {n} : notify'[m] = notify[m]
      /\ r \in Nat
      /\ from = "resolve" /\ to = "idle" => r = notify[n].refs
      /\ from = "resolve" /\ to = "create" => r = 2
      /\ from = "create" => r = notify[n].refs - 1
      /\ from = "finish" => \/ notify'[n].handle /\ r = notify[n].refs
                            \/ notify'[n].handle = notify[n].handle /\ r = notify[n].refs - 1
      /\ from # "finish" => notify'[n].handle = notify[n].handle
      /\ notify'[n].pending = notify[n].pending /\ notify'[n].signals = notify[n].signals
      /\ notify'[n].killed = notify[n].killed /\ notify'[n].returned = notify[n].returned
  <2>1. notify[n] \in NotifyRecord /\ notify[n].refs \in Nat
    BY <1>2, <1>3, Zenon DEF NotifyRecord
  <2>2. from # "resolve" => notify[n].refs >= 1
    <3>1. from # "resolve" => spawner.at \in Calling
      BY <1>1, <1>2, Zenon DEF Calling
    <3> QED BY <1>2, <2>1, <3>1 DEF ProcInv, NotifyInv, Count
  <2>3. CASE ResolveFails /\ from = "resolve" /\ to = "idle"
    BY <1>3, <2>1, <2>3, Zenon DEF ResolveFails
  <2>4. CASE CreateNotify /\ from = "resolve" /\ to = "create"
    <3>1. notify' = [notify EXCEPT ![n].refs = 2]
      BY <2>4, Zenon DEF CreateNotify
    <3>2. notify'[n] = [notify[n] EXCEPT !.refs = 2]
      BY <1>2, <1>3, <3>1, Zenon
    <3> QED BY <1>2, <1>3, <2>1, <2>4, <3>1, <3>2, Zenon DEF NotifyRecord
  <2>5. ASSUME from # "resolve", notify' = [notify EXCEPT ![n].refs = @ - 1]
        PROVE  /\ notify' \in [Spawns -> NotifyRecord]
               /\ \A m \in Spawns \ {n} : notify'[m] = notify[m]
               /\ r = notify[n].refs - 1 /\ r \in Nat
               /\ notify'[n] = [notify[n] EXCEPT !.refs = @ - 1]
               /\ notify'[n].handle = notify[n].handle
               /\ notify'[n].pending = notify[n].pending /\ notify'[n].signals = notify[n].signals
               /\ notify'[n].killed = notify[n].killed /\ notify'[n].returned = notify[n].returned
    <3>1. notify'[n] = [notify[n] EXCEPT !.refs = @ - 1]
      BY <1>2, <1>3, <2>5, Zenon
    <3>2. notify[n].refs - 1 \in Nat
      BY <2>1, <2>2, <2>5
    <3>3. notify'[n] \in NotifyRecord
      BY <2>1, <3>1, <3>2, Zenon DEF NotifyRecord
    <3> QED BY <1>2, <1>3, <2>1, <2>5, <3>1, <3>2, <3>3, Zenon DEF NotifyRecord
  <2>6. CASE CreateFails /\ from = "create" /\ to = "idle"
    BY <2>5, <2>6, Zenon DEF CreateFails
  <2>7. CASE Finish /\ from = "finish" /\ to = "idle"
    <3>1. CASE notify' = [notify EXCEPT ![n].refs = @ - 1]
      BY <2>5, <2>7, <3>1, Zenon
    <3>2. CASE notify' = [notify EXCEPT ![n].handle = TRUE]
      <4>1. notify'[n] = [notify[n] EXCEPT !.handle = TRUE]
        BY <1>2, <1>3, <3>2, Zenon
      <4> QED BY <1>2, <1>3, <2>1, <2>7, <3>2, <4>1, Zenon DEF NotifyRecord
    <3> QED BY <2>7, <3>1, <3>2, Zenon DEF Finish
  <2> QED BY <1>1, <2>3, <2>4, <2>6, <2>7, Zenon
<1>6. NotifyInv'
  <2>1. {"create", "finish"} \subseteq Calling /\ {"idle", "resolve"} \cap Calling = {}
    BY Zenon DEF Calling
  <2>2. \A m \in Spawns : Fresh(m)' => Fresh(m)
    BY <1>1, <1>2, Zenon DEF Fresh
  <2>3. ASSUME NEW m \in Spawns
        PROVE  notify'[m].refs >= Refs(m)'
    <3>1. CASE m # n
      BY <1>2, <1>3, <1>5, <3>1, Zenon DEF ProcInv, NotifyInv, Refs, Count
    <3>2. CASE m = n
      <4>1. from = "resolve" => ~notify[n].handle /\ process.exit_notify # n
        BY <1>2, Zenon DEF ProcInv, NotifyInv, Fresh
      <4>2. from = "create" => ~notify[n].handle /\ process.exit_notify # n
        BY <1>2, Zenon DEF ProcInv, NotifyInv, Fresh
      <4>3. from = "finish" => notify[n].refs >= Count(notify[n].handle) + Count(process.exit_notify = n) + 1
        BY <1>2, <2>1 DEF ProcInv, NotifyInv, Count
      <4>4. from = "create" => notify[n].refs >= 2
        BY <1>2, <2>1, <4>2 DEF ProcInv, NotifyInv, Count
      <4>5. notify[n].refs \in Nat
        BY <1>2, <1>3, Zenon DEF NotifyRecord
      <4>6. CASE from = "resolve"
        BY <1>1, <1>2, <1>3, <1>5, <2>1, <3>2, <4>1, <4>5, <4>6 DEF Refs, Count
      <4>7. CASE from = "create"
        BY <1>1, <1>2, <1>3, <1>5, <2>1, <3>2, <4>2, <4>4, <4>5, <4>7 DEF Refs, Count
      <4>8. CASE from = "finish"
        BY <1>1, <1>2, <1>3, <1>5, <2>1, <3>2, <4>3, <4>5, <4>8 DEF Refs, Count
      <4> QED BY <4>6, <4>7, <4>8, Zenon
    <3> QED BY <3>1, <3>2, Zenon
  <2>4. ASSUME NEW m \in Spawns
        PROVE  /\ notify'[m].signals = notify[m].signals /\ notify'[m].killed = notify[m].killed
               /\ notify'[m].pending = notify[m].pending /\ notify'[m].returned = notify[m].returned
    BY <1>5, Zenon
  <2>5. ASSUME NEW m \in Spawns, Fresh(m)'
        PROVE  notify'[m].handle = notify[m].handle
    <3>1. n \in Nat
      BY <1>2 DEF Spawns
    <3>2. m = n => from # "finish"
      BY <1>1, <1>2, <2>5, <3>1 DEF Fresh
    <3>3. CASE m = n
      BY <1>5, <3>2, <3>3, Zenon
    <3>4. CASE m # n
      BY <1>5, <3>4, Zenon
    <3> QED BY <3>3, <3>4, Zenon
  <2>6. UNCHANGED <<process, decided>>
    BY <1>3, Zenon
  <2> QED BY <2>2, <2>3, <2>4, <2>5, <2>6 DEF ProcInv, NotifyInv, Refs
<1>7. ObjectInv'
  <2> process.granted \in Nat
    BY Zenon DEF ProcInv, ProcTypes, ProcessRecord
  <2> QED BY <1>1, <1>2, <1>3 DEF ProcInv, ObjectInv, Count
<1> QED BY <1>1, <1>2, <1>3, <1>4, <1>5, <1>6, <1>7, SpawnerMoves, Zenon

LEMMA SpawnerUnparkInv ==
    ASSUME ProcInv, SpawnerUnpark PROVE ProcInv'
<1>1. /\ spawner' \in SpawnerRecord /\ spawner.at = "unpark" /\ spawner'.at = "finish"
      /\ spawner'.n = spawner.n /\ spawner.n \in Spawns
  BY SpawnStepFields DEF SpawnerUnpark, Calling
<1>2. UNCHANGED <<process, thread, cleaner, notify, object, decided>>
  BY Zenon DEF SpawnerUnpark
<1>3. reaper' \in ReaperRecord /\ reaper'.at = reaper.at /\ reaper'.incoming = reaper.incoming
  BY Zenon DEF SpawnerUnpark, UnparkReaper, ProcInv, ProcTypes, ReaperRecord
<1>4. "unpark" \in Calling /\ "finish" \in Calling /\ {"unpark", "finish"} \cap Creating = {}
  BY Zenon DEF Calling, Creating
<1>5. NotifyInv'
  BY <1>1, <1>2, <1>4, Zenon DEF ProcInv, NotifyInv, Fresh, Count
<1>6. ObjectInv'
  BY <1>1, <1>2, Zenon DEF ProcInv, ObjectInv, Count
<1>7. notify' \in [Spawns -> NotifyRecord] /\ object' \in Int
  BY <1>2, Zenon DEF ProcInv, ProcTypes
<1> QED BY <1>1, <1>2, <1>3, <1>4, <1>5, <1>6, <1>7, SpawnerMoves, Zenon

\* create() takes a slot that the last process left idle.
LEMMA CreateInv ==
    ASSUME SetCounts, ProcInv, Create PROVE ProcInv'
<1>1. /\ spawner' \in SpawnerRecord /\ spawner.at = "create" /\ spawner'.at = "grant"
      /\ spawner'.n = spawner.n /\ spawner.n \in Spawns
  BY SpawnStepFields, Zenon DEF Create, Calling
<1>2. UNCHANGED <<thread, cleaner, reaper, notify, object, decided>> /\ ~process.allocated
  BY Zenon DEF Create
<1>3. process \in ProcessRecord /\ process.reference_count \in Nat
  BY Zenon DEF ProcInv, ProcTypes, ProcessRecord
<1>4. /\ process' \in ProcessRecord
      /\ process'.allocated /\ process'.listed /\ ~process'.terminating /\ process'.exit_status = {}
      /\ process'.reference_count = process.reference_count + 1
      /\ process'.threads = process.threads /\ process'.exit_notify = process.exit_notify
      /\ process'.queued_for_cleanup = process.queued_for_cleanup
      /\ process'.granted = process.granted
  <2>1. process.reference_count + 1 \in Nat /\ {} \in Statuses
    BY <1>3 DEF Statuses
  <2> QED BY <1>3, <2>1, Zenon DEF Create, ProcessRecord
<1>5. /\ process.reference_count = 0 /\ process.threads = {} /\ process.exit_notify = 0
      /\ reaper.incoming = 0 /\ reaper.at \notin Reaping /\ cleaner.at # "enqueue"
  <2>1. process.reference_count = 0
    BY <1>2, Zenon DEF ProcInv, ReapInv
  <2>2. process.threads = {}
    BY <2>1, ThreadKeepsProcess
  <2>3. reaper.incoming = 0 /\ reaper.at \notin Reaping /\ cleaner.at # "enqueue"
    BY <1>2, LastReferenceGone, Zenon
  <2>4. process.exit_notify = 0
    BY <1>2, Zenon DEF ProcInv, LifeInv
  <2> QED BY <2>1, <2>2, <2>3, <2>4, Zenon
<1>6. ProcTypes' /\ ThreadsInv'
  BY <1>1, <1>2, <1>4, Zenon DEF ProcInv, ProcTypes, ThreadsInv
<1>7. CleanerInv'
  BY <1>2, CleanerKept, Zenon
<1>8. "grant" \in Creating /\ "create" \notin Creating /\ {"signal", "release", "clean"} \subseteq Reaping
  BY Zenon DEF Creating, Reaping
<1>9. RefsInv'
  <2> DEFINE c == Cardinality(process.threads)
             d == Count(cleaner.at = "deref")
  <2>1. c \in Nat /\ d \in Nat
    BY ThreadCount, Zenon DEF ProcInv, Count
  <2>2. process.reference_count = c + d
    BY <1>1, <1>8, <2>1 DEF ProcInv, RefsInv, Count
  <2>3. Count(spawner'.at \in Creating) = 1
    BY <1>1, <1>8, Zenon DEF Count
  <2>4. RefsInv' <=> process'.reference_count = c + d + 1
    BY <1>2, <1>4, <2>3, Zenon DEF RefsInv
  <2> HIDE DEF c, d
  <2> QED BY <1>4, <2>1, <2>2, <2>4, Zenon
<1>10. ReapInv'
  BY <1>1, <1>2, <1>4, <1>5 DEF ReapInv, Count
<1>11. LifeInv'
  <2>1. process'.queued_for_cleanup <=> reaper'.incoming # 0 \/ reaper'.at = "clean"
    BY <1>2, <1>4, Zenon DEF ProcInv, LifeInv
  <2> QED BY <1>1, <1>2, <1>4, <1>5, <1>8, <2>1, Zenon DEF LifeInv
<1>12. NotifyInv'
  <2>1. spawner.at \in Calling /\ spawner'.at \in Calling
    BY <1>1, Zenon DEF Calling
  <2>2. \A n \in Spawns : Fresh(n)' <=> Fresh(n)
    BY <1>1, Zenon DEF Fresh
  <2>3. \A n \in Spawns : /\ (n = spawner'.n /\ spawner'.at \in Calling)
                            <=> (n = spawner.n /\ spawner.at \in Calling)
                         /\ (n = spawner'.n /\ spawner'.at \in {"create", "grant"})
                            <=> (n = spawner.n /\ spawner.at \in {"create", "grant"})
    BY <1>1, <2>1, Zenon
  <2> QED BY <1>1, <1>2, <1>4, <2>2, <2>3 DEF ProcInv, NotifyInv, Count
<1>13. ObjectInv'
  BY <1>1, <1>2, <1>4, Zenon DEF ProcInv, ObjectInv, Count
<1>14. StatusInv'
  <2>1. \A t \in Threads : thread[t].at # "cascade"
    BY <1>5, Zenon DEF ProcInv, ThreadsInv, Live
  <2> QED BY <1>2, <1>4, <1>5, <2>1, Zenon DEF StatusInv
<1> QED BY <1>6, <1>7, <1>9, <1>10, <1>11, <1>12, <1>13, <1>14, Zenon DEF ProcInv

\* From now on the process has the notification of its spawn.
LEMMA GiveGrantsInv ==
    ASSUME SetCounts, ProcInv, GiveGrants PROVE ProcInv'
<1> DEFINE n == spawner.n
<1>1. /\ spawner' \in SpawnerRecord /\ spawner.at = "grant" /\ spawner'.at = "thread"
      /\ spawner'.n = n /\ n \in Spawns /\ n \in Nat /\ n # 0 /\ n \in 0 .. MaxSpawns
  BY SpawnStepFields, ThreadAssumption DEF GiveGrants, Calling, Spawns
<1>2. UNCHANGED <<thread, cleaner, reaper, notify, object, decided>>
  BY Zenon DEF GiveGrants
<1>3. process \in ProcessRecord /\ process.granted \in Nat
  BY Zenon DEF ProcInv, ProcTypes, ProcessRecord
<1>4. /\ process' \in ProcessRecord
      /\ process'.exit_notify = n /\ process'.granted = process.granted + 1
      /\ process'.allocated = process.allocated /\ process'.listed = process.listed
      /\ process'.terminating = process.terminating /\ process'.exit_status = process.exit_status
      /\ process'.reference_count = process.reference_count /\ process'.threads = process.threads
      /\ process'.queued_for_cleanup = process.queued_for_cleanup
  <2>1. process.granted + 1 \in Nat
    BY <1>3
  <2>2. process' = [process EXCEPT !.exit_notify = n, !.granted = process.granted + 1]
    BY Zenon DEF GiveGrants
  <2> QED BY <1>1, <1>3, <2>1, <2>2, Zenon DEF ProcessRecord
<1>5. "grant" \in Creating /\ "thread" \in Creating /\ "release" \in Reaping
  BY Zenon DEF Creating, Reaping
<1>6. process.allocated /\ reaper.at \notin Reaping
  <2>1. reaper.at \notin Reaping
    BY <1>1, <1>5, LastReferenceGone, Zenon
  <2>2. process.reference_count # 0
    <3>1. Cardinality(process.threads) \in Nat
      BY ThreadCount, Zenon DEF ProcInv
    <3> QED BY <1>1, <1>5, <3>1 DEF ProcInv, RefsInv, Count
  <2> QED BY <2>1, <2>2, Zenon DEF ProcInv, ReapInv
<1>7. process.exit_notify = 0
  BY <1>1, Zenon DEF ProcInv, LifeInv
<1>8. ProcTypes' /\ ThreadsInv'
  BY <1>1, <1>2, <1>4, Zenon DEF ProcInv, ProcTypes, ThreadsInv
<1>9. CleanerInv'
  BY <1>2, CleanerKept, Zenon
<1>10. RefsInv' /\ ReapInv'
  BY <1>1, <1>2, <1>4, <1>5, Zenon DEF ProcInv, RefsInv, ReapInv, Count
<1>11. LifeInv'
  BY <1>1, <1>2, <1>4, <1>5, <1>6, Zenon DEF ProcInv, LifeInv
<1>12. ~notify[n].handle /\ notify[n].signals = 0 /\ decided[n] = {}
  BY <1>1, Zenon DEF ProcInv, NotifyInv, Fresh
<1>13. NotifyInv'
  <2>1. "grant" \in Calling /\ "thread" \in Calling
    BY Zenon DEF Calling
  <2>2. \A m \in Spawns : m \in Nat /\ notify[m].refs \in Nat
    BY DEF Spawns, ProcInv, ProcTypes, NotifyRecord
  <2>3. \A m \in Spawns : Fresh(m)' => Fresh(m) /\ m # n
    BY <1>1, <2>2 DEF Fresh
  <2>4. ASSUME NEW m \in Spawns PROVE notify'[m].refs >= Refs(m)'
    <3>1. notify[m].refs >= Refs(m)
      BY <1>1, Zenon DEF ProcInv, NotifyInv, Refs
    <3>2. CASE m = n
      BY <1>1, <1>2, <1>4, <1>7, <2>1, <2>2, <3>1, <3>2 DEF Refs, Count
    <3>3. CASE m # n
      BY <1>1, <1>2, <1>4, <1>7, <2>1, <2>2, <3>1, <3>3 DEF Refs, Count
    <3> QED BY <3>2, <3>3, Zenon
  <2>5. \A m \in Spawns : notify'[m].signals # 0 => process'.exit_notify # m
    BY <1>2, <1>4, <1>12, Zenon
  <2> QED BY <1>2, <1>4, <2>3, <2>4, <2>5, Zenon DEF ProcInv, NotifyInv, Refs
<1>14. ObjectInv'
  <2>1. object \in Int
    BY Zenon DEF ProcInv, ProcTypes
  <2> QED BY <1>1, <1>2, <1>3, <1>4, <2>1 DEF ProcInv, ObjectInv, Count
<1>15. StatusInv'
  <2>1. process.threads = {} /\ ~process.terminating /\ process.exit_status = {}
    BY <1>1, Zenon DEF ProcInv, LifeInv, StatusInv
  <2>2. \A t \in Threads : thread[t].at # "cascade"
    BY <2>1, Zenon DEF ProcInv, ThreadsInv, Live
  <2> QED BY <1>1, <1>2, <1>4, <1>12, <2>1, <2>2, Zenon DEF StatusInv
<1> QED BY <1>8, <1>9, <1>10, <1>11, <1>13, <1>14, <1>15, Zenon DEF ProcInv

\* Steps that change no more of the process than its count and its queueing.
LEMMA CountsMove ==
    ASSUME ProcInv, process' \in ProcessRecord, UNCHANGED <<thread, notify, object, decided>>,
           process'.threads = process.threads /\ process'.exit_notify = process.exit_notify,
           process'.terminating = process.terminating /\ process'.exit_status = process.exit_status,
           process'.granted = process.granted,
           spawner' \in SpawnerRecord /\ spawner'.n = spawner.n,
           \/ spawner'.at = spawner.at
           \/ {spawner.at, spawner'.at} \subseteq {"thread", "deref", "enqueue", "unpark", "finish"},
           cleaner' \in CleanerRecord, reaper' \in ReaperRecord,
           CleanerInv', RefsInv', ReapInv', LifeInv'
    PROVE  ProcInv'
<1>1. {"thread", "deref", "enqueue", "unpark", "finish"} \subseteq Calling
  BY Zenon DEF Calling
<1>2. ProcTypes' /\ ThreadsInv'
  BY Zenon DEF ProcInv, ProcTypes, ThreadsInv
<1>3. NotifyInv'
  BY <1>1 DEF ProcInv, NotifyInv, Fresh, Count
<1>4. ObjectInv'
  BY Zenon DEF ProcInv, ObjectInv, Count
<1>5. StatusInv'
  BY Zenon DEF ProcInv, StatusInv
<1> QED BY <1>2, <1>3, <1>4, <1>5, Zenon DEF ProcInv

LEMMA SpawnerDerefInv ==
    ASSUME SetCounts, ProcInv, SpawnerDeref PROVE ProcInv'
<1>1. /\ spawner' \in SpawnerRecord /\ spawner.at = "deref"
      /\ spawner'.at = (IF process.reference_count = 1 THEN "enqueue" ELSE "finish")
      /\ spawner'.n = spawner.n
  <2>1. {"enqueue", "finish"} \subseteq Calling
    BY Zenon DEF Calling
  <2> QED BY <2>1, SpawnStepFields DEF SpawnerDeref, LastReference
<1>2. UNCHANGED <<thread, cleaner, reaper, notify, object, decided>>
  BY Zenon DEF SpawnerDeref
<1>3. process \in ProcessRecord /\ process.reference_count \in Nat
  BY Zenon DEF ProcInv, ProcTypes, ProcessRecord
<1>4. "deref" \in Creating /\ {"enqueue", "finish"} \cap Creating = {} /\ "grant" \in Creating
  BY Zenon DEF Creating
<1> DEFINE c == Cardinality(process.threads)
           d == Count(cleaner.at = "deref")
<1>5. c \in Nat /\ d \in Nat
  BY ThreadCount, Zenon DEF ProcInv, Count
<1>6. process.reference_count = c + d + 1
  BY <1>1, <1>4, <1>5, Zenon DEF ProcInv, RefsInv, Count
<1>7. /\ process' \in ProcessRecord
      /\ process'.reference_count = process.reference_count - 1
      /\ process'.threads = process.threads /\ process'.exit_notify = process.exit_notify
      /\ process'.terminating = process.terminating /\ process'.exit_status = process.exit_status
      /\ process'.granted = process.granted /\ process'.allocated = process.allocated
      /\ process'.listed = process.listed
      /\ process'.queued_for_cleanup = process.queued_for_cleanup
  <2>1. process.reference_count - 1 \in Nat
    BY <1>5, <1>6
  <2>2. process' = [process EXCEPT !.reference_count = process.reference_count - 1]
    BY Zenon DEF SpawnerDeref
  <2> QED BY <1>3, <2>1, <2>2, Zenon DEF ProcessRecord
<1>8. RefsInv'
  <2>1. Count(spawner'.at \in Creating) = 0
    BY <1>1, <1>4, Zenon DEF Count
  <2>2. RefsInv' <=> process'.reference_count = c + d + 0
    BY <1>2, <1>7, <2>1, Zenon DEF RefsInv
  <2> HIDE DEF c, d
  <2> QED BY <1>5, <1>6, <1>7, <2>2
<1>9. /\ cleaner.at # "enqueue" /\ reaper.incoming = 0 /\ reaper.at \notin Reaping
      /\ process.allocated
  <2>1. process.reference_count # 0
    BY <1>5, <1>6
  <2> QED BY <2>1, LastReferenceGone, Zenon DEF ProcInv, ReapInv
<1>10. ReapInv'
  <2>1. process'.reference_count = 0 <=> spawner'.at = "enqueue"
    BY <1>1, <1>3, <1>7
  <2> QED BY <1>2, <1>7, <1>9, <2>1 DEF ReapInv, Count
<1>11. LifeInv'
  BY <1>1, <1>2, <1>4, <1>7, Zenon DEF ProcInv, LifeInv
<1>12. CleanerInv' /\ cleaner' \in CleanerRecord /\ reaper' \in ReaperRecord
  BY <1>2, CleanerKept, Zenon DEF ProcInv, ProcTypes
<1> QED BY <1>1, <1>2, <1>7, <1>8, <1>10, <1>11, <1>12, CountsMove, Zenon

\* Whoever dropped the last reference puts the process on the reaper's list.
LEMMA EnqueueFacts ==
    ASSUME SetCounts, ProcInv, queueProcessForCleanup, spawner.at = "enqueue" \/ cleaner.at = "enqueue"
    PROVE  /\ process' \in ProcessRecord /\ reaper' \in ReaperRecord
           /\ reaper.incoming = 0 /\ reaper'.incoming = 1
           /\ reaper.at \notin Reaping /\ reaper'.at = reaper.at
           /\ process.allocated /\ process.reference_count = 0
           /\ spawner.at \notin Creating /\ cleaner.at # "deref"
           /\ spawner.at # "enqueue" \/ cleaner.at # "enqueue"
           /\ process'.queued_for_cleanup
           /\ process'.reference_count = process.reference_count
           /\ process'.threads = process.threads /\ process'.exit_notify = process.exit_notify
           /\ process'.terminating = process.terminating
           /\ process'.exit_status = process.exit_status
           /\ process'.granted = process.granted /\ process'.allocated = process.allocated
           /\ process'.listed = process.listed
<1>1. process \in ProcessRecord /\ reaper \in ReaperRecord /\ reaper.incoming \in Nat
  BY Zenon DEF ProcInv, ProcTypes, ReaperRecord
<1>2. /\ process.allocated /\ process.reference_count = 0
      /\ spawner.at \notin Creating /\ cleaner.at # "deref"
      /\ Count(spawner.at = "enqueue") + Count(cleaner.at = "enqueue") + reaper.incoming
           + Count(reaper.at \in Reaping) = 1
  BY LastReferenceGone, Zenon
<1>3. /\ reaper.incoming = 0 /\ reaper.at \notin Reaping
      /\ spawner.at # "enqueue" \/ cleaner.at # "enqueue"
  BY <1>1, <1>2 DEF Count
<1>4. /\ reaper' \in ReaperRecord /\ reaper'.at = reaper.at
      /\ reaper'.incoming = reaper.incoming + 1
  BY <1>1 DEF queueProcessForCleanup, ReaperRecord
<1>5. /\ process' \in ProcessRecord /\ process'.queued_for_cleanup
      /\ process'.reference_count = process.reference_count
      /\ process'.threads = process.threads /\ process'.exit_notify = process.exit_notify
      /\ process'.terminating = process.terminating /\ process'.exit_status = process.exit_status
      /\ process'.granted = process.granted /\ process'.allocated = process.allocated
      /\ process'.listed = process.listed
  BY <1>1, Zenon DEF queueProcessForCleanup, ProcessRecord
<1> QED BY <1>2, <1>3, <1>4, <1>5

LEMMA SpawnerEnqueueInv ==
    ASSUME SetCounts, ProcInv, SpawnerEnqueue PROVE ProcInv'
<1>1. /\ spawner' \in SpawnerRecord /\ spawner.at = "enqueue" /\ spawner'.at = "unpark"
      /\ spawner'.n = spawner.n /\ queueProcessForCleanup
      /\ UNCHANGED <<thread, cleaner, notify, object, decided>>
  BY SpawnStepFields, Zenon DEF SpawnerEnqueue, Calling
<1>2. {"enqueue", "unpark"} \cap Creating = {}
  BY Zenon DEF Creating
<1>3. RefsInv'
  BY <1>1, <1>2, EnqueueFacts, Zenon DEF ProcInv, RefsInv, Count
<1>4. ReapInv'
  BY <1>1, EnqueueFacts DEF ReapInv, Count
<1>5. LifeInv'
  BY <1>1, EnqueueFacts DEF ProcInv, LifeInv
<1>6. CleanerInv' /\ cleaner' \in CleanerRecord
  BY <1>1, CleanerKept, Zenon DEF ProcInv, ProcTypes
<1> QED BY <1>1, <1>3, <1>4, <1>5, <1>6, EnqueueFacts, CountsMove, Zenon

----------------------------------------------------------------------------
(* Steps of the parent that waits or kills *)

\* A step that only changes bits of a notification.
LEMMA ParentInv ==
    ASSUME ProcInv, NEW n \in Spawns, WaitProcess(n) \/ ProcessKill(n) PROVE ProcInv'
<1>1. UNCHANGED <<process, thread, cleaner, reaper, spawner, object, decided>>
  BY Zenon DEF WaitProcess, ProcessKill
<1>2. notify \in [Spawns -> NotifyRecord] /\ notify[n] \in NotifyRecord
  BY Zenon DEF ProcInv, ProcTypes
<1>3. /\ notify' \in [Spawns -> NotifyRecord]
      /\ \A m \in Spawns \ {n} : notify'[m] = notify[m]
      /\ notify'[n].refs = notify[n].refs /\ notify'[n].handle = notify[n].handle
      /\ notify'[n].signals = notify[n].signals
      /\ \/ notify'[n].killed
         \/ /\ notify'[n].killed = notify[n].killed
            /\ notify'[n].pending = {} /\ notify'[n].returned = notify[n].pending
  <2>1. CASE WaitProcess(n)
    <3>1. notify'[n] = [notify[n] EXCEPT !.returned = notify[n].pending, !.pending = {}]
      BY <1>2, <2>1, Zenon DEF WaitProcess
    <3>2. notify'[n] \in NotifyRecord
      BY <1>2, <3>1, Zenon DEF NotifyRecord
    <3>3. \A m \in Spawns \ {n} : notify'[m] = notify[m]
      BY <1>2, <2>1, Zenon DEF WaitProcess
    <3>4. notify' \in [Spawns -> NotifyRecord]
      BY <1>2, <2>1, <3>2, <3>3, Zenon DEF WaitProcess
    <3> QED BY <1>2, <3>1, <3>3, <3>4, Zenon DEF NotifyRecord
  <2>2. CASE ProcessKill(n)
    <3>1. notify'[n] = [notify[n] EXCEPT !.pending = notify[n].pending \cup {"exit"} \cup KillStatus,
                                         !.killed = TRUE]
      BY <1>2, <2>2, Zenon DEF ProcessKill
    <3>2. notify[n].pending \cup {"exit"} \cup KillStatus \in SUBSET StatusBits
      BY <1>2, Zenon DEF NotifyRecord, StatusBits
    <3>3. notify'[n] \in NotifyRecord
      BY <1>2, <3>1, <3>2, Zenon DEF NotifyRecord
    <3>4. \A m \in Spawns \ {n} : notify'[m] = notify[m]
      BY <1>2, <2>2, Zenon DEF ProcessKill
    <3>5. notify' \in [Spawns -> NotifyRecord]
      BY <1>2, <2>2, <3>3, <3>4, Zenon DEF ProcessKill
    <3> QED BY <1>2, <3>1, <3>4, <3>5, Zenon DEF NotifyRecord
  <2> QED BY <2>1, <2>2, Zenon
<1>4. NotifyInv'
  <2>1. ASSUME NEW m \in Spawns
        PROVE  /\ notify'[m].refs = notify[m].refs /\ notify'[m].handle = notify[m].handle
               /\ notify'[m].signals = notify[m].signals
    BY <1>3, Zenon
  <2>2. ASSUME NEW m \in Spawns, ~notify'[m].killed
        PROVE  /\ notify'[m].pending # {} =>
                    notify'[m].signals # 0 /\ notify'[m].pending = {"exit"} \cup decided[m]
               /\ notify'[m].returned # {} =>
                    notify'[m].signals # 0 /\ notify'[m].returned = {"exit"} \cup decided[m]
    <3>1. CASE m = n
      BY <1>3, <2>1, <2>2, <3>1 DEF ProcInv, NotifyInv
    <3>2. CASE m # n
      <4>1. notify'[m] = notify[m]
        BY <1>3, <3>2, Zenon
      <4>2. ~notify[m].killed =>
              /\ notify[m].pending # {} =>
                    notify[m].signals # 0 /\ notify[m].pending = {"exit"} \cup decided[m]
              /\ notify[m].returned # {} =>
                    notify[m].signals # 0 /\ notify[m].returned = {"exit"} \cup decided[m]
        BY Zenon DEF ProcInv, NotifyInv
      <4> QED BY <2>2, <4>1, <4>2, Zenon
    <3> QED BY <3>1, <3>2, Zenon
  <2> QED BY <1>1, <2>1, <2>2 DEF ProcInv, NotifyInv, Fresh, Count
<1>5. ProcTypes' /\ ThreadsInv' /\ RefsInv' /\ ReapInv' /\ LifeInv' /\ ObjectInv' /\ StatusInv'
  BY <1>1, <1>3, Zenon
  DEF ProcInv, ProcTypes, ThreadsInv, RefsInv, ReapInv, LifeInv, ObjectInv, StatusInv
<1>6. CleanerInv'
  BY <1>1, CleanerKept, Zenon
<1> QED BY <1>4, <1>5, <1>6, Zenon DEF ProcInv

----------------------------------------------------------------------------
(* Steps of the service that destroys threads, and the one that feeds it *)

\* terminate() puts a thread on the list once: it was not dead before.
LEMMA terminateInv ==
    ASSUME ProcInv, NEW t \in Threads, terminate(t) PROVE ProcInv'
<1>1. /\ thread \in [Threads -> ThreadRecord] /\ thread[t] \in ThreadRecord
      /\ cleaner \in CleanerRecord /\ cleaner.incoming \in Seq(Threads) /\ cleaner.unparks \in Nat
  BY Zenon DEF ProcInv, ProcTypes, CleanerRecord
<1>2. UNCHANGED <<process, reaper, spawner, notify, object, decided>> /\ thread[t].at = "exit"
  BY Zenon DEF terminate, parent
<1>3. thread' = [thread EXCEPT ![t] = [thread[t] EXCEPT !.at = "dead", !.queued_for_cleanup = TRUE]]
  BY Zenon DEF terminate
<1>4. /\ thread' \in [Threads -> ThreadRecord]
      /\ \A u \in Threads \ {t} : thread'[u] = thread[u]
      /\ thread'[t].at = "dead" /\ thread'[t].queued_for_cleanup
      /\ thread'[t].todo = thread[t].todo
  <2>1. [thread[t] EXCEPT !.at = "dead", !.queued_for_cleanup = TRUE] \in ThreadRecord
    BY <1>1, Zenon DEF ThreadRecord
  <2>2. thread'[t] = [thread[t] EXCEPT !.at = "dead", !.queued_for_cleanup = TRUE]
    BY <1>1, <1>3, Zenon
  <2>3. thread' \in [Threads -> ThreadRecord] /\ \A u \in Threads \ {t} : thread'[u] = thread[u]
    BY <1>1, <1>3, <2>1, Zenon
  <2> QED BY <1>1, <2>2, <2>3, Zenon DEF ThreadRecord
<1> DEFINE q == cleaner.incoming
           r == <<t>> \o q
<1>5. /\ cleaner' \in CleanerRecord /\ cleaner'.at = cleaner.at /\ cleaner'.task = cleaner.task
      /\ cleaner'.incoming = r
  <2>1. r \in Seq(Threads) /\ cleaner.unparks + 1 \in Nat
    BY <1>1
  <2>2. cleaner' = [cleaner EXCEPT !.incoming = r, !.unparks = cleaner.unparks + 1]
    BY Zenon DEF terminate
  <2> HIDE DEF r
  <2> QED BY <1>1, <2>1, <2>2, Zenon DEF CleanerRecord
<1>6. /\ Len(r) = Len(q) + 1 /\ Len(q) \in Nat /\ r[1] = t
      /\ \A i \in 2 .. Len(r) : r[i] = q[i - 1] /\ i - 1 \in 1 .. Len(q)
      /\ \A i \in 1 .. Len(q) : q[i] \in Threads
  BY <1>1
<1>7. \A u \in Threads : Queued(u) => u # t /\ Queued(u)'
  BY <1>2, <1>4, Zenon DEF Queued
<1>8. Queued(t)'
  BY <1>4, Zenon DEF Queued
<1>9. \A i \in 1 .. Len(q) : Queued(q[i]) /\ q[i] # t
  BY <1>6, <1>7, Zenon DEF ProcInv, CleanerInv
<1>10. \A i, j \in 1 .. Len(q) : i # j => q[i] # q[j]
  BY Zenon DEF ProcInv, CleanerInv
<1>11. CleanerInv'
  <2> HIDE DEF q, r
  <2>1. \A i \in 1 .. Len(r) : i = 1 \/ i \in 2 .. Len(r)
    BY <1>6
  <2>2. \A i \in 1 .. Len(r) : r[i] \in Threads /\ thread'[r[i]].at = "dead"
                                  /\ thread'[r[i]].queued_for_cleanup
    BY <1>4, <1>6, <1>7, <1>9, <2>1 DEF Queued
  <2>3. \A i, j \in 1 .. Len(r) : i # j => r[i] # r[j]
    <3> SUFFICES ASSUME NEW i \in 1 .. Len(r), NEW j \in 1 .. Len(r), i # j PROVE r[i] # r[j]
      BY Zenon
    <3>1. CASE i = 1
      BY <1>6, <1>9, <2>1, <3>1, Zenon
    <3>2. CASE j = 1
      BY <1>6, <1>9, <2>1, <3>2, Zenon
    <3>3. CASE i # 1 /\ j # 1
      <4>1. i - 1 \in 1 .. Len(q) /\ j - 1 \in 1 .. Len(q) /\ i - 1 # j - 1
        BY <1>6, <2>1, <3>3
      <4>2. r[i] = q[i - 1] /\ r[j] = q[j - 1]
        BY <1>6, <2>1, <3>3, Zenon
      <4> QED BY <1>10, <4>1, <4>2, Zenon
    <3> QED BY <3>1, <3>2, <3>3, Zenon
  <2>4. ASSUME cleaner.at = "clean"
        PROVE  /\ cleaner.task \in Threads /\ thread'[cleaner.task].at = "dead"
               /\ thread'[cleaner.task].queued_for_cleanup
               /\ \A i \in 1 .. Len(r) : r[i] # cleaner.task
    <3>1. cleaner.task \in Threads /\ Queued(cleaner.task) /\ \A i \in 1 .. Len(q) : q[i] # cleaner.task
      BY <2>4, Zenon DEF ProcInv, CleanerInv, q
    <3>2. cleaner.task # t
      BY <1>7, <3>1, Zenon
    <3> QED BY <1>4, <1>6, <2>1, <3>1, <3>2 DEF Queued
  <2>5. ASSUME cleaner.at \in {"deref", "enqueue", "unpark", "destroy"}
        PROVE  /\ cleaner.task \in Threads /\ thread'[cleaner.task].at = "dead"
               /\ ~ thread'[cleaner.task].queued_for_cleanup
    <3>1. /\ cleaner.task \in Threads /\ thread[cleaner.task].at = "dead"
          /\ ~ thread[cleaner.task].queued_for_cleanup
      BY <2>5, Zenon DEF ProcInv, CleanerInv
    <3> QED BY <1>2, <1>4, <3>1, Zenon
  <2> QED BY <1>5, <2>2, <2>3, <2>4, <2>5, Zenon DEF CleanerInv, Queued
<1>12. ThreadsInv'
  <2>1. thread[t].todo = {} /\ t \in process.threads
    BY <1>2, Zenon DEF ProcInv, ThreadsInv, Live
  <2>2. "dead" \notin Live
    BY Zenon DEF Live
  <2> QED BY <1>2, <1>4, <2>1, <2>2 DEF ProcInv, ThreadsInv
<1>13. ProcTypes'
  BY <1>2, <1>4, <1>5, Zenon DEF ProcInv, ProcTypes
<1>14. RefsInv' /\ ReapInv' /\ LifeInv' /\ NotifyInv' /\ ObjectInv'
  BY <1>2, <1>5, Zenon
  DEF ProcInv, RefsInv, ReapInv, LifeInv, NotifyInv, Fresh, ObjectInv, Count
<1>15. StatusInv'
  BY <1>2, <1>4 DEF ProcInv, StatusInv
<1> QED BY <1>11, <1>12, <1>13, <1>14, <1>15, Zenon DEF ProcInv

\* The cleaner alone moves, where it has no part in the process's references.
LEMMA CleanerMoves ==
    ASSUME ProcInv, UNCHANGED <<process, thread, spawner, notify, object, decided>>,
           reaper' \in ReaperRecord, reaper'.at = reaper.at, reaper'.incoming = reaper.incoming,
           cleaner' \in CleanerRecord, CleanerInv',
           \/ cleaner'.at = cleaner.at
           \/ {cleaner.at, cleaner'.at} \subseteq {"park", "pop", "clean", "unpark", "destroy"}
    PROVE  ProcInv'
<1>1. ProcTypes' /\ ThreadsInv'
  BY Zenon DEF ProcInv, ProcTypes, ThreadsInv
<1>2. RefsInv' /\ ReapInv' /\ LifeInv'
  BY Zenon DEF ProcInv, RefsInv, ReapInv, LifeInv, Count
<1>3. NotifyInv' /\ ObjectInv' /\ StatusInv'
  BY DEF ProcInv, NotifyInv, Fresh, ObjectInv, StatusInv, Count
<1> QED BY <1>1, <1>2, <1>3, Zenon DEF ProcInv

LEMMA CleanerIsUnparkedInv ==
    ASSUME ProcInv, CleanerIsUnparked PROVE ProcInv'
<1>1. cleaner \in CleanerRecord /\ cleaner.unparks \in Nat /\ reaper \in ReaperRecord
  BY Zenon DEF ProcInv, ProcTypes, CleanerRecord
<1>2. UNCHANGED <<process, thread, reaper, spawner, notify, object, decided>>
  BY Zenon DEF CleanerIsUnparked, parent
<1>3. /\ cleaner' \in CleanerRecord /\ cleaner'.at = cleaner.at /\ cleaner'.task = cleaner.task
      /\ cleaner'.incoming = cleaner.incoming
  <2>1. cleaner.unparks - 1 \in Nat
    BY <1>1 DEF CleanerIsUnparked
  <2>2. cleaner' = [cleaner EXCEPT !.unparks = cleaner.unparks - 1, !.parker = TRUE]
    BY Zenon DEF CleanerIsUnparked
  <2> QED BY <1>1, <2>1, <2>2, Zenon DEF CleanerRecord
<1>4. CleanerInv'
  BY <1>2, <1>3, Zenon DEF ProcInv, CleanerInv, Queued
<1> QED BY <1>1, <1>2, <1>3, <1>4, CleanerMoves, Zenon

LEMMA CleanerPopInv ==
    ASSUME ProcInv, CleanerPop PROVE ProcInv'
<1> DEFINE q == cleaner.incoming
<1>1. cleaner \in CleanerRecord /\ q \in Seq(Threads) /\ reaper \in ReaperRecord
  BY Zenon DEF ProcInv, ProcTypes, CleanerRecord
<1>2. UNCHANGED <<process, thread, reaper, spawner, notify, object, decided>>
  BY Zenon DEF CleanerPop, parent
<1>3. CASE cleaner.at = "pop" /\ q # <<>>
           /\ cleaner' = [cleaner EXCEPT !.at = "clean", !.task = Head(q), !.incoming = Tail(q)]
  <2>1. /\ Head(q) = q[1] /\ q[1] \in Threads /\ Tail(q) \in Seq(Threads) /\ Len(q) \in Nat \ {0}
        /\ Len(Tail(q)) = Len(q) - 1 /\ \A i \in 1 .. Len(q) - 1 : Tail(q)[i] = q[i + 1]
    BY <1>1, <1>3
  <2>2. /\ cleaner' \in CleanerRecord /\ cleaner'.at = "clean" /\ cleaner'.task = q[1]
        /\ cleaner'.incoming = Tail(q)
    BY <1>1, <1>3, <2>1, Zenon DEF CleanerRecord
  <2>3. \A i \in 1 .. Len(q) : Queued(q[i])
    BY Zenon DEF ProcInv, CleanerInv
  <2>4. \A i, j \in 1 .. Len(q) : i # j => q[i] # q[j]
    BY Zenon DEF ProcInv, CleanerInv
  <2> DEFINE r == Tail(q)
  <2>5. Len(r) = Len(q) - 1 /\ \A i \in 1 .. Len(r) : r[i] = q[i + 1] /\ i + 1 \in 1 .. Len(q) /\ i + 1 # 1
    BY <2>1
  <2>6. 1 \in 1 .. Len(q)
    BY <2>1
  <2> HIDE DEF q, r
  <2>7. \A i \in 1 .. Len(r) : Queued(r[i]) /\ r[i] # q[1]
    BY <2>3, <2>4, <2>5, <2>6
  <2>8. \A i, j \in 1 .. Len(r) : i # j => r[i] # r[j]
    <3> SUFFICES ASSUME NEW i \in 1 .. Len(r), NEW j \in 1 .. Len(r), i # j PROVE r[i] # r[j]
      BY Zenon
    <3>1. i + 1 # j + 1
      OBVIOUS
    <3> QED BY <2>4, <2>5, <3>1, Zenon
  <2>9. Queued(q[1])
    BY <2>3, <2>6, Zenon
  <2>10. CleanerInv'
    <3>1. cleaner'.incoming = r
      BY <2>2, Zenon DEF r
    <3>2. \A i \in 1 .. Len(cleaner'.incoming) : Queued(cleaner.incoming[i])'
      BY <1>2, <2>7, <3>1, Zenon DEF Queued
    <3>3. \A i, j \in 1 .. Len(cleaner'.incoming) :
            i # j => cleaner'.incoming[i] # cleaner'.incoming[j]
      BY <2>8, <3>1, Zenon
    <3>4. /\ cleaner'.task \in Threads /\ Queued(cleaner.task)'
          /\ \A i \in 1 .. Len(cleaner'.incoming) : cleaner'.incoming[i] # cleaner'.task
      BY <1>2, <2>1, <2>2, <2>7, <2>9, <3>1, Zenon DEF Queued
    <3>5. cleaner'.at \notin {"deref", "enqueue", "unpark", "destroy"}
      BY <2>2, Zenon
    <3> QED BY <3>2, <3>3, <3>4, <3>5, Zenon DEF CleanerInv
  <2> QED BY <1>1, <1>2, <1>3, <2>2, <2>10, CleanerMoves, Zenon
<1>4. CASE \/ CleanerStep("pop", "park")
           \/ cleaner.at = "park" /\ cleaner' = [cleaner EXCEPT !.at = "pop", !.parker = FALSE]
  <2>1. /\ cleaner' \in CleanerRecord /\ cleaner'.incoming = q
        /\ {cleaner.at, cleaner'.at} \subseteq {"park", "pop"}
    BY <1>1, <1>4, Zenon DEF CleanerStep, CleanerRecord
  <2>2. CleanerInv'
    BY <1>2, <2>1, Zenon DEF ProcInv, CleanerInv, Queued
  <2> QED BY <1>1, <1>2, <2>1, <2>2, CleanerMoves, Zenon
<1> QED BY <1>3, <1>4, Zenon DEF CleanerPop

LEMMA CleanerUnparksInv ==
    ASSUME ProcInv, CleanerUnparks PROVE ProcInv'
<1>1. cleaner \in CleanerRecord /\ reaper \in ReaperRecord
  BY Zenon DEF ProcInv, ProcTypes
<1>2. UNCHANGED <<process, thread, spawner, notify, object, decided>>
  BY Zenon DEF CleanerUnparks, parent
<1>3. reaper' \in ReaperRecord /\ reaper'.at = reaper.at /\ reaper'.incoming = reaper.incoming
  BY <1>1, Zenon DEF CleanerUnparks, UnparkReaper, ReaperRecord
<1>4. /\ cleaner' \in CleanerRecord /\ cleaner.at = "unpark" /\ cleaner'.at = "destroy"
      /\ cleaner'.task = cleaner.task /\ cleaner'.incoming = cleaner.incoming
  BY <1>1, Zenon DEF CleanerUnparks, CleanerStep, CleanerRecord
<1>5. CleanerInv'
  BY <1>2, <1>4, Zenon DEF ProcInv, CleanerInv, Queued
<1> QED BY <1>2, <1>3, <1>4, <1>5, CleanerMoves, Zenon

\* The thread leaves the process; its reference stays until the next step.
LEMMA cleanupTaskInv ==
    ASSUME SetCounts, ProcInv, cleanupTask PROVE ProcInv'
<1> DEFINE v == cleaner.task
<1>1. /\ thread \in [Threads -> ThreadRecord] /\ cleaner \in CleanerRecord
      /\ process \in ProcessRecord /\ process.threads \subseteq Threads
      /\ cleaner.incoming \in Seq(Threads)
  BY Zenon DEF ProcInv, ProcTypes, ProcessRecord, CleanerRecord
<1>2. UNCHANGED <<reaper, spawner, notify, object, decided>>
  BY Zenon DEF cleanupTask, parent
<1>3. /\ cleaner' \in CleanerRecord /\ cleaner.at = "clean" /\ cleaner'.at = "deref"
      /\ cleaner'.task = v /\ cleaner'.incoming = cleaner.incoming
  BY <1>1, Zenon DEF cleanupTask, CleanerStep, CleanerRecord
<1>4. /\ v \in Threads /\ thread[v].at = "dead" /\ thread[v].queued_for_cleanup
      /\ \A i \in 1 .. Len(cleaner.incoming) : cleaner.incoming[i] # v
  BY <1>3, Zenon DEF ProcInv, CleanerInv, Queued
<1>5. v \in process.threads
  BY <1>4, Zenon DEF ProcInv, ThreadsInv
<1>6. /\ process' \in ProcessRecord /\ process'.threads = process.threads \ {v}
      /\ process'.reference_count = process.reference_count
      /\ process'.exit_notify = process.exit_notify
      /\ process'.terminating = process.terminating /\ process'.exit_status = process.exit_status
      /\ process'.granted = process.granted /\ process'.allocated = process.allocated
      /\ process'.listed = process.listed
      /\ process'.queued_for_cleanup = process.queued_for_cleanup
  <2>1. process.threads \ {v} \in SUBSET Threads
    BY <1>1, Zenon
  <2>2. process' = [process EXCEPT !.threads = process.threads \ {v}]
    BY Zenon DEF cleanupTask
  <2> QED BY <1>1, <2>1, <2>2, Zenon DEF ProcessRecord
<1>7. /\ thread' \in [Threads -> ThreadRecord]
      /\ \A u \in Threads \ {v} : thread'[u] = thread[u]
      /\ thread'[v].at = "dead" /\ ~thread'[v].queued_for_cleanup
      /\ thread'[v].todo = thread[v].todo
  <2>1. thread[v] \in ThreadRecord
    BY <1>1, <1>4, Zenon
  <2>2. [thread[v] EXCEPT !.queued_for_cleanup = FALSE] \in ThreadRecord
    BY <2>1, Zenon DEF ThreadRecord
  <2>3. thread' = [thread EXCEPT ![v] = [thread[v] EXCEPT !.queued_for_cleanup = FALSE]]
    BY Zenon DEF cleanupTask
  <2>4. /\ thread' \in [Threads -> ThreadRecord] /\ \A u \in Threads \ {v} : thread'[u] = thread[u]
        /\ thread'[v] = [thread[v] EXCEPT !.queued_for_cleanup = FALSE]
    BY <1>1, <1>4, <2>2, <2>3, Zenon
  <2> QED BY <1>4, <2>1, <2>4 DEF ThreadRecord
<1>8. \A u \in Threads : thread'[u].at = thread[u].at /\ thread'[u].todo = thread[u].todo
  BY <1>4, <1>7, Zenon
<1>9. \A u \in Threads : thread[u].todo = {}
  BY Zenon DEF cleanupTask, ThreadsUnlocked, ProcInv, ThreadsInv
<1>10. ThreadsInv'
  <2> SUFFICES ASSUME NEW u \in Threads
               PROVE  /\ thread'[u].at = "free" => u \notin process'.threads
                      /\ thread'[u].at \in Live => u \in process'.threads /\ ~ thread'[u].queued_for_cleanup
                      /\ thread'[u].at = "dead" => (u \in process'.threads <=> thread'[u].queued_for_cleanup)
                      /\ thread'[u].todo \subseteq process'.threads
                      /\ thread'[u].at # "mark" => thread'[u].todo = {}
    BY Zenon DEF ThreadsInv
  <2>1. thread'[u].todo = {}
    BY <1>8, <1>9, Zenon
  <2>2. CASE u = v
    <3>1. u \notin process'.threads /\ thread'[u].at = "dead" /\ ~thread'[u].queued_for_cleanup
      BY <1>6, <1>7, <2>2, Zenon
    <3>2. "dead" \notin Live
      BY Zenon DEF Live
    <3> QED BY <2>1, <3>1, <3>2, Zenon
  <2>3. CASE u # v
    <3>1. u \in process'.threads <=> u \in process.threads
      BY <1>6, <2>3, Zenon
    <3> QED BY <1>7, <2>1, <2>3, <3>1, Zenon DEF ProcInv, ThreadsInv
  <2> QED BY <2>2, <2>3, Zenon
<1>11. CleanerInv'
  <2> DEFINE q == cleaner.incoming
  <2>1. \A i \in 1 .. Len(q) : q[i] \in Threads /\ q[i] # v /\ Queued(q[i])
    BY <1>1, <1>4 DEF ProcInv, CleanerInv
  <2>2. \A i, j \in 1 .. Len(q) : i # j => q[i] # q[j]
    BY Zenon DEF ProcInv, CleanerInv
  <2> HIDE DEF q
  <2>3. \A i \in 1 .. Len(q) : thread'[q[i]].at = "dead" /\ thread'[q[i]].queued_for_cleanup
    BY <1>7, <2>1, Zenon DEF Queued
  <2>4. cleaner'.incoming = q
    BY <1>3, Zenon DEF q
  <2> QED BY <1>3, <1>4, <1>7, <2>2, <2>3, <2>4 DEF CleanerInv, Queued
<1>12. RefsInv'
  <2> DEFINE c == Cardinality(process.threads)
             s == Count(spawner.at \in Creating)
  <2>1. process.threads \subseteq Threads /\ c \in Nat
    BY ThreadCount, Zenon DEF ProcInv
  <2>2. Cardinality(process.threads \ {v}) = c - 1
    BY <1>5, <2>1, CountOne, Zenon
  <2>3. s \in Nat
    BY Zenon DEF Count
  <2>4. process.reference_count = c + 0 + s
    <3>1. Count(cleaner.at = "deref") = 0
      BY <1>3, Zenon DEF Count
    <3> QED BY <3>1, Zenon DEF ProcInv, RefsInv
  <2>5. RefsInv' <=> process'.reference_count = Cardinality(process'.threads) + 1 + s
    <3>1. Count(cleaner'.at = "deref") = 1
      BY <1>3, Zenon DEF Count
    <3> QED BY <1>2, <3>1, Zenon DEF RefsInv
  <2>6. Cardinality(process'.threads) = c - 1
    BY <1>6, <2>2, Zenon
  <2> HIDE DEF c, s
  <2> QED BY <1>6, <2>1, <2>3, <2>4, <2>5, <2>6
<1>13. ReapInv'
  BY <1>2, <1>3, <1>6, Zenon DEF ProcInv, ReapInv, Count
<1>14. LifeInv'
  BY <1>2, <1>6, Zenon DEF ProcInv, LifeInv
<1>15. NotifyInv' /\ ObjectInv'
  BY <1>2, <1>6 DEF ProcInv, NotifyInv, Fresh, ObjectInv, Count
<1>16. StatusInv'
  <2>1. \A u \in Threads : thread'[u].at = "cascade" => u # v
    BY <1>7, Zenon
  <2> QED BY <1>2, <1>6, <1>7, <1>8, <2>1 DEF ProcInv, StatusInv
<1>17. ProcTypes'
  BY <1>2, <1>3, <1>6, <1>7, Zenon DEF ProcInv, ProcTypes
<1> QED BY <1>10, <1>11, <1>12, <1>13, <1>14, <1>15, <1>16, <1>17 DEF ProcInv

LEMMA CleanerDerefInv ==
    ASSUME SetCounts, ProcInv, CleanerDeref PROVE ProcInv'
<1>1. /\ cleaner \in CleanerRecord /\ reaper \in ReaperRecord /\ spawner \in SpawnerRecord
      /\ process \in ProcessRecord /\ process.reference_count \in Nat
  BY Zenon DEF ProcInv, ProcTypes, ProcessRecord
<1>2. UNCHANGED <<thread, reaper, spawner, notify, object, decided>>
  BY Zenon DEF CleanerDeref, parent
<1>3. /\ cleaner' \in CleanerRecord /\ cleaner.at = "deref"
      /\ cleaner'.at = (IF process.reference_count = 1 THEN "enqueue" ELSE "destroy")
      /\ cleaner'.task = cleaner.task /\ cleaner'.incoming = cleaner.incoming
  BY <1>1, Zenon DEF CleanerDeref, CleanerStep, LastReference, CleanerRecord
<1> DEFINE c == Cardinality(process.threads)
           s == Count(spawner.at \in Creating)
<1>4. c \in Nat /\ s \in Nat
  BY ThreadCount, Zenon DEF ProcInv, Count
<1>5. process.reference_count = c + 1 + s
  <2>1. Count(cleaner.at = "deref") = 1
    BY <1>3, Zenon DEF Count
  <2> QED BY <2>1, Zenon DEF ProcInv, RefsInv
<1>6. /\ process' \in ProcessRecord
      /\ process'.reference_count = process.reference_count - 1
      /\ process'.threads = process.threads /\ process'.exit_notify = process.exit_notify
      /\ process'.terminating = process.terminating /\ process'.exit_status = process.exit_status
      /\ process'.granted = process.granted /\ process'.allocated = process.allocated
      /\ process'.listed = process.listed
      /\ process'.queued_for_cleanup = process.queued_for_cleanup
  <2>1. process.reference_count - 1 \in Nat
    BY <1>4, <1>5
  <2>2. process' = [process EXCEPT !.reference_count = process.reference_count - 1]
    BY Zenon DEF CleanerDeref
  <2> QED BY <1>1, <2>1, <2>2, Zenon DEF ProcessRecord
<1>7. RefsInv'
  <2>1. Count(cleaner'.at = "deref") = 0
    BY <1>3, Zenon DEF Count
  <2>2. RefsInv' <=> process'.reference_count = c + 0 + s
    BY <1>2, <1>6, <2>1, Zenon DEF RefsInv
  <2> HIDE DEF c, s
  <2> QED BY <1>4, <1>5, <1>6, <2>2
<1>8. spawner.at # "enqueue" /\ reaper.incoming = 0 /\ reaper.at \notin Reaping /\ process.allocated
  <2>1. process.reference_count # 0
    BY <1>4, <1>5
  <2> QED BY <2>1, LastReferenceGone, Zenon DEF ProcInv, ReapInv
<1>9. ReapInv'
  <2>1. process'.reference_count = 0 <=> cleaner'.at = "enqueue"
    BY <1>1, <1>3, <1>6
  <2> QED BY <1>2, <1>6, <1>8, <2>1 DEF ReapInv, Count
<1>10. LifeInv'
  BY <1>2, <1>6, Zenon DEF ProcInv, LifeInv
<1>11. CleanerInv'
  BY <1>2, <1>3, Zenon DEF ProcInv, CleanerInv, Queued
<1>12. spawner' \in SpawnerRecord /\ reaper' \in ReaperRecord
  BY <1>1, <1>2, Zenon
<1> QED BY <1>2, <1>3, <1>6, <1>7, <1>9, <1>10, <1>11, <1>12, CountsMove

LEMMA CleanerEnqueueInv ==
    ASSUME SetCounts, ProcInv, CleanerEnqueue PROVE ProcInv'
<1>1. /\ cleaner.at = "enqueue" /\ queueProcessForCleanup
      /\ UNCHANGED <<thread, spawner, notify, object, decided>>
  BY Zenon DEF CleanerEnqueue, CleanerStep, parent
<1>2. /\ cleaner' \in CleanerRecord /\ cleaner'.at = "unpark" /\ cleaner'.task = cleaner.task
      /\ cleaner'.incoming = cleaner.incoming
  BY Zenon DEF CleanerEnqueue, CleanerStep, CleanerRecord, ProcInv, ProcTypes
<1>3. RefsInv'
  BY <1>1, <1>2, EnqueueFacts, Zenon DEF ProcInv, RefsInv, Count
<1>4. ReapInv'
  BY <1>1, <1>2, EnqueueFacts DEF ReapInv, Count
<1>5. LifeInv'
  BY <1>1, EnqueueFacts DEF ProcInv, LifeInv
<1>6. CleanerInv'
  BY <1>1, <1>2, Zenon DEF ProcInv, CleanerInv, Queued
<1>7. spawner' \in SpawnerRecord
  BY <1>1, Zenon DEF ProcInv, ProcTypes
<1> QED BY <1>1, <1>2, <1>3, <1>4, <1>5, <1>6, <1>7, EnqueueFacts, CountsMove

\* The slot of a thread that was removed goes back to the cache.
LEMMA DestroyThreadInv ==
    ASSUME ProcInv, DestroyThread PROVE ProcInv'
<1> DEFINE v == cleaner.task
<1>1. /\ thread \in [Threads -> ThreadRecord] /\ cleaner \in CleanerRecord
      /\ cleaner.incoming \in Seq(Threads)
  BY Zenon DEF ProcInv, ProcTypes, CleanerRecord
<1>2. UNCHANGED <<process, reaper, spawner, notify, object, decided>>
  BY Zenon DEF DestroyThread, parent
<1>3. /\ cleaner' \in CleanerRecord /\ cleaner.at = "destroy" /\ cleaner'.at = "pop"
      /\ cleaner'.incoming = cleaner.incoming
  BY <1>1, Zenon DEF DestroyThread, CleanerRecord
<1>4. v \in Threads /\ thread[v].at = "dead" /\ ~thread[v].queued_for_cleanup
  BY <1>3, Zenon DEF ProcInv, CleanerInv
<1>5. v \notin process.threads
  BY <1>4, Zenon DEF ProcInv, ThreadsInv
<1>6. /\ thread' \in [Threads -> ThreadRecord]
      /\ \A u \in Threads \ {v} : thread'[u] = thread[u]
      /\ thread'[v].at = "free" /\ thread'[v].todo = {}
  <2>1. Slot("free") \in ThreadRecord /\ Slot("free").at = "free" /\ Slot("free").todo = {}
    BY Zenon DEF Slot, ThreadRecord, Statuses
  <2>2. thread' = [thread EXCEPT ![v] = Slot("free")]
    BY Zenon DEF DestroyThread
  <2> QED BY <1>1, <1>4, <2>1, <2>2, Zenon
<1>7. ThreadsInv'
  <2>1. "free" \notin Live
    BY Zenon DEF Live
  <2> QED BY <1>2, <1>5, <1>6, <2>1 DEF ProcInv, ThreadsInv
<1>8. CleanerInv'
  <2> DEFINE q == cleaner.incoming
  <2>1. \A i \in 1 .. Len(q) : q[i] \in Threads /\ Queued(q[i])
    BY <1>1 DEF ProcInv, CleanerInv
  <2>2. \A i, j \in 1 .. Len(q) : i # j => q[i] # q[j]
    BY Zenon DEF ProcInv, CleanerInv
  <2> HIDE DEF q
  <2>3. \A i \in 1 .. Len(q) : thread'[q[i]].at = "dead" /\ thread'[q[i]].queued_for_cleanup
    BY <1>4, <1>6, <2>1, Zenon DEF Queued
  <2>4. cleaner'.incoming = q
    BY <1>3, Zenon DEF q
  <2> QED BY <1>3, <2>2, <2>3, <2>4, Zenon DEF CleanerInv, Queued
<1>9. RefsInv' /\ ReapInv' /\ LifeInv' /\ NotifyInv' /\ ObjectInv'
  BY <1>2, <1>3, Zenon
  DEF ProcInv, RefsInv, ReapInv, LifeInv, NotifyInv, Fresh, ObjectInv, Count
<1>10. StatusInv'
  <2>1. \A u \in Threads : (thread'[u].at = "cascade") <=> (thread[u].at = "cascade")
    BY <1>4, <1>6, Zenon
  <2>2. \A u \in Threads : thread'[u].at = "cascade" => thread'[u] = thread[u]
    BY <1>6, Zenon
  <2> QED BY <1>2, <2>1, <2>2 DEF ProcInv, StatusInv
<1>11. ProcTypes'
  BY <1>2, <1>3, <1>6, Zenon DEF ProcInv, ProcTypes
<1> QED BY <1>7, <1>8, <1>9, <1>10, <1>11, Zenon DEF ProcInv

----------------------------------------------------------------------------
(* Steps of the service that destroys processes *)

\* The reaper steps without a change to what the process holds.
LEMMA ReaperMoves ==
    ASSUME ProcInv, process' \in ProcessRecord, reaper' \in ReaperRecord,
           UNCHANGED <<thread, cleaner, spawner, notify, object, decided>>,
           process'.threads = process.threads /\ process'.exit_notify = process.exit_notify,
           process'.terminating = process.terminating /\ process'.exit_status = process.exit_status,
           process'.granted = process.granted /\ process'.allocated = process.allocated,
           process'.reference_count = process.reference_count,
           reaper'.incoming + Count(reaper'.at \in Reaping)
              = reaper.incoming + Count(reaper.at \in Reaping),
           LifeInv'
    PROVE  ProcInv'
<1>1. CleanerInv' /\ spawner' \in SpawnerRecord /\ cleaner' \in CleanerRecord
  BY CleanerKept, Zenon DEF ProcInv, ProcTypes
<1>2. RefsInv'
  BY Zenon DEF ProcInv, RefsInv
<1>3. ReapInv'
  <2> DEFINE a == Count(spawner.at = "enqueue")
             b == Count(cleaner.at = "enqueue")
             c == Count(reaper.at \in Reaping)
             d == Count(reaper'.at \in Reaping)
             i == reaper.incoming
             j == reaper'.incoming
             e == Count(process.allocated /\ process.reference_count = 0)
  <2>1. a \in Nat /\ b \in Nat /\ c \in Nat /\ d \in Nat /\ i \in Nat /\ j \in Nat /\ e \in Nat
    BY Zenon DEF Count, ProcInv, ProcTypes, ReaperRecord
  <2>2. a + b + i + c = e /\ j + d = i + c
    BY Zenon DEF ProcInv, ReapInv
  <2>3. ReapInv' <=> a + b + j + d = e /\ (process.reference_count # 0 => process.allocated)
    BY Zenon DEF ReapInv
  <2>4. process.reference_count # 0 => process.allocated
    BY Zenon DEF ProcInv, ReapInv
  <2> HIDE DEF a, b, c, d, e, i, j
  <2> QED BY <2>1, <2>2, <2>3, <2>4
<1> QED BY <1>1, <1>2, <1>3, CountsMove, Zenon

LEMMA ReaperPopInv ==
    ASSUME ProcInv, ReaperPop PROVE ProcInv'
<1>1. reaper \in ReaperRecord /\ reaper.incoming \in Nat /\ process \in ProcessRecord
  BY Zenon DEF ProcInv, ProcTypes, ReaperRecord
<1>2. UNCHANGED <<process, thread, cleaner, spawner, notify, object, decided>>
  BY Zenon DEF ReaperPop, parent
<1>3. "clean" \in Reaping /\ {"pop", "park"} \cap Reaping = {}
  BY Zenon DEF Reaping
<1>4. /\ reaper' \in ReaperRecord
      /\ reaper.at \in {"pop", "park"}
      /\ \/ /\ reaper.incoming > 0 /\ reaper'.incoming = reaper.incoming - 1
            /\ reaper'.at = "clean"
         \/ reaper'.incoming = reaper.incoming /\ reaper'.at \in {"pop", "park"}
  <2>1. CASE reaper.at = "pop" /\ reaper.incoming > 0
             /\ reaper' = [reaper EXCEPT !.at = "clean", !.incoming = @ - 1]
    <3>1. reaper.incoming - 1 \in Nat
      BY <1>1, <2>1
    <3> QED BY <1>1, <1>3, <2>1, <3>1, Zenon DEF ReaperRecord
  <2>2. CASE \/ ReaperStep("pop", "park")
             \/ reaper.at = "park" /\ reaper' = [reaper EXCEPT !.at = "pop", !.parker = FALSE]
    BY <1>1, <2>2, Zenon DEF ReaperStep, ReaperRecord
  <2> QED BY <2>1, <2>2, Zenon DEF ReaperPop
<1>5. reaper'.incoming + Count(reaper'.at \in Reaping)
        = reaper.incoming + Count(reaper.at \in Reaping)
  BY <1>1, <1>3, <1>4 DEF Count
<1>6. LifeInv'
  BY <1>1, <1>2, <1>4 DEF ProcInv, LifeInv
<1> QED BY <1>1, <1>2, <1>4, <1>5, <1>6, ReaperMoves

LEMMA cleanupProcessInv ==
    ASSUME SetCounts, ProcInv, cleanupProcess \/ RemoveProcess PROVE ProcInv'
<1>1. reaper \in ReaperRecord /\ reaper.incoming \in Nat /\ process \in ProcessRecord
  BY Zenon DEF ProcInv, ProcTypes, ReaperRecord
<1>2. UNCHANGED <<thread, cleaner, spawner, notify, object, decided>>
  BY Zenon DEF cleanupProcess, RemoveProcess, parent
<1>3. {"clean", "remove", "signal"} \subseteq Reaping
  BY Zenon DEF Reaping
<1>4. /\ reaper' \in ReaperRecord /\ reaper'.incoming = reaper.incoming
      /\ \/ reaper.at = "clean" /\ reaper'.at = "remove" /\ cleanupProcess
         \/ reaper.at = "remove" /\ reaper'.at = "signal" /\ RemoveProcess
  BY <1>1, <1>3 DEF cleanupProcess, RemoveProcess, ReaperStep, ReaperRecord
<1>5. /\ process' \in ProcessRecord
      /\ process'.threads = process.threads /\ process'.exit_notify = process.exit_notify
      /\ process'.terminating = process.terminating /\ process'.exit_status = process.exit_status
      /\ process'.granted = process.granted /\ process'.allocated = process.allocated
      /\ process'.reference_count = process.reference_count
      /\ \/ /\ reaper.at = "clean" /\ ~process'.queued_for_cleanup
            /\ process'.listed = process.listed
         \/ /\ reaper.at = "remove" /\ ~process'.listed
            /\ process'.queued_for_cleanup = process.queued_for_cleanup
  BY <1>1, <1>4, Zenon DEF cleanupProcess, RemoveProcess, ProcessRecord
<1>6. Count(reaper'.at \in Reaping) = Count(reaper.at \in Reaping)
  BY <1>3, <1>4, Zenon DEF Count
<1>7. reaper.incoming = 0 /\ process.allocated /\ process.threads = {}
  <2>1. reaper.at \in Reaping
    BY <1>3, <1>4, Zenon
  <2>2. Count(spawner.at = "enqueue") + Count(cleaner.at = "enqueue") + reaper.incoming
          + Count(reaper.at \in Reaping) = 1 /\ process.allocated /\ process.threads = {}
    BY <2>1, LastReferenceGone, Zenon
  <2> QED BY <1>1, <2>1, <2>2 DEF Count
<1>8. LifeInv'
  <2>1. CASE reaper.at = "clean"
    BY <1>2, <1>4, <1>5, <1>7, <2>1, Zenon DEF ProcInv, LifeInv
  <2>2. CASE reaper.at = "remove"
    BY <1>2, <1>4, <1>5, <1>7, <2>2, Zenon DEF ProcInv, LifeInv
  <2> QED BY <1>4, <2>1, <2>2, Zenon
<1> QED BY <1>2, <1>4, <1>5, <1>6, <1>8, ReaperMoves, Zenon

\* The watchers get the status that was decided, and get it once.
LEMMA SignalExitInv ==
    ASSUME SetCounts, ProcInv, SignalExit PROVE ProcInv'
<1> DEFINE n == process.exit_notify
           s == process.exit_status
<1>1. /\ reaper \in ReaperRecord /\ reaper.incoming \in Nat /\ process \in ProcessRecord
      /\ notify \in [Spawns -> NotifyRecord] /\ n \in 0 .. MaxSpawns /\ s \in Statuses
  BY Zenon DEF ProcInv, ProcTypes, ReaperRecord, ProcessRecord
<1>2. UNCHANGED <<thread, cleaner, spawner, object, decided>>
  BY Zenon DEF SignalExit
<1>3. /\ reaper' \in ReaperRecord /\ reaper'.incoming = reaper.incoming
      /\ reaper.at = "signal" /\ reaper'.at = "release"
      /\ "signal" \in Reaping /\ "release" \in Reaping
  BY <1>1, Zenon DEF SignalExit, ReaperStep, ReaperRecord, Reaping
<1>4. process.allocated /\ process.threads = {} /\ spawner.at \notin Creating
  BY <1>3, LastReferenceGone, Zenon
<1>5. "grant" \in Creating
  BY Zenon DEF Creating
<1>6. n # 0 /\ n \in Spawns
  <2>1. n # 0
    BY <1>3, <1>4, <1>5, Zenon DEF ProcInv, LifeInv
  <2> QED BY <1>1, <2>1, ThreadAssumption DEF Spawns
<1>7. /\ process' \in ProcessRecord /\ process'.exit_notify = 0
      /\ process'.threads = process.threads
      /\ process'.terminating = process.terminating /\ process'.exit_status = s
      /\ process'.granted = process.granted /\ process'.allocated = process.allocated
      /\ process'.reference_count = process.reference_count /\ process'.listed = process.listed
      /\ process'.queued_for_cleanup = process.queued_for_cleanup
  <2>1. 0 \in 0 .. MaxSpawns
    BY ThreadAssumption
  <2> QED BY <1>1, <2>1, Zenon DEF SignalExit, ProcessRecord
<1>8. /\ notify[n] \in NotifyRecord /\ notify[n].refs \in Nat /\ notify[n].signals = 0
      /\ notify[n].refs >= 1
  <2>1. spawner.at # "resolve" \/ n # spawner.n
    BY <1>6, Zenon DEF ProcInv, NotifyInv, Fresh
  <2>2. notify[n] \in NotifyRecord /\ notify[n].refs \in Nat
    BY <1>1, <1>6, Zenon DEF NotifyRecord
  <2> QED BY <1>6, <2>1, <2>2 DEF ProcInv, NotifyInv, Count
<1> DEFINE p == notify[n].pending \cup {"exit"} \cup s
<1>9. /\ notify' \in [Spawns -> NotifyRecord]
      /\ \A m \in Spawns \ {n} : notify'[m] = notify[m]
      /\ notify'[n].refs = notify[n].refs - 1 /\ notify'[n].signals = 1 /\ notify'[n].pending = p
      /\ notify'[n].handle = notify[n].handle /\ notify'[n].killed = notify[n].killed
      /\ notify'[n].returned = notify[n].returned
  <2>1. p \in SUBSET StatusBits
    BY <1>1, <1>8, Zenon DEF NotifyRecord, StatusBits
  <2>2. notify[n].refs - 1 \in Nat /\ notify[n].signals + 1 = 1
    BY <1>8
  <2> DEFINE r == [notify[n] EXCEPT !.pending = p, !.signals = 1, !.refs = notify[n].refs - 1]
  <2>3. notify' = [notify EXCEPT ![n] = r]
    BY <2>2, Zenon DEF SignalExit
  <2>4. /\ r \in NotifyRecord /\ r.refs = notify[n].refs - 1 /\ r.signals = 1 /\ r.pending = p
        /\ r.handle = notify[n].handle /\ r.killed = notify[n].killed
        /\ r.returned = notify[n].returned
    <3> HIDE DEF p
    <3> QED BY <1>8, <2>1, <2>2, Zenon DEF NotifyRecord
  <2> HIDE DEF r
  <2>5. /\ notify' \in [Spawns -> NotifyRecord] /\ notify'[n] = r
        /\ \A m \in Spawns \ {n} : notify'[m] = notify[m]
    BY <1>1, <1>6, <2>3, <2>4, Zenon
  <2> QED BY <2>4, <2>5, Zenon
<1>10. \A t \in Threads : thread[t].at # "cascade"
  BY <1>4, Zenon DEF ProcInv, ThreadsInv, Live
<1>11. s = decided[n]
  BY <1>6, <1>10, Zenon DEF ProcInv, StatusInv
<1>12. NotifyInv'
  <2> SUFFICES ASSUME NEW m \in Spawns
               PROVE  /\ spawner.at # "resolve" \/ m # spawner.n => notify'[m].refs >= Refs(m)'
                      /\ Fresh(m)' => /\ ~notify'[m].handle /\ process'.exit_notify # m
                                      /\ notify'[m].signals = 0 /\ decided[m] = {}
                      /\ notify'[m].signals # 0 => process'.exit_notify # m
                      /\ ~notify'[m].killed =>
                           /\ notify'[m].pending # {} =>
                                 /\ notify'[m].signals # 0
                                 /\ notify'[m].pending = {"exit"} \cup decided[m]
                           /\ notify'[m].returned # {} =>
                                 /\ notify'[m].signals # 0
                                 /\ notify'[m].returned = {"exit"} \cup decided[m]
    BY <1>2, Zenon DEF NotifyInv, Refs
  <2>1. m # 0
    BY DEF Spawns
  <2>2. Fresh(m)' <=> Fresh(m)
    BY <1>2, Zenon DEF Fresh
  <2>3. CASE m # n
    <3>1. notify'[m] = notify[m]
      BY <1>9, <2>3, Zenon
    <3>2. Refs(m)' = Refs(m)
      BY <1>2, <1>7, <2>1, <2>3, <3>1, Zenon DEF Refs
    <3>3. spawner.at # "resolve" \/ m # spawner.n => notify[m].refs >= Refs(m)
      BY Zenon DEF ProcInv, NotifyInv, Refs
    <3> QED BY <1>7, <2>1, <2>2, <3>1, <3>2, <3>3 DEF ProcInv, NotifyInv
  <2>4. CASE m = n
    <3>1. ~Fresh(m)
      BY <2>4, Zenon DEF ProcInv, NotifyInv
    <3>2. spawner.at # "resolve" \/ m # spawner.n => notify'[m].refs >= Refs(m)'
      <4>1. spawner.at # "resolve" \/ m # spawner.n => notify[m].refs >= Refs(m)
        BY Zenon DEF ProcInv, NotifyInv, Refs
      <4>2. notify'[m].refs = notify[m].refs - 1 /\ notify[m].refs \in Nat
        BY <1>8, <1>9, <2>4, Zenon
      <4>3. Refs(m)' = Refs(m) - 1
        BY <1>2, <1>7, <1>9, <2>1, <2>4 DEF Refs, Count
      <4>4. Refs(m) \in Nat
        BY DEF Refs, Count
      <4> QED BY <4>1, <4>2, <4>3, <4>4
    <3>3. ~notify'[m].killed => notify[m].pending = {} /\ notify[m].returned = {}
      BY <1>8, <1>9, <2>4, Zenon DEF ProcInv, NotifyInv
    <3>4. notify'[m].signals # 0 /\ process'.exit_notify # m
      BY <1>7, <1>9, <2>1, <2>4
    <3>5. ~notify'[m].killed => notify'[m].pending = {"exit"} \cup decided[m] /\ notify'[m].returned = {}
      BY <1>9, <1>11, <2>4, <3>3, Zenon
    <3> QED BY <2>2, <3>1, <3>2, <3>4, <3>5, Zenon
  <2> QED BY <2>3, <2>4, Zenon
<1>13. CleanerInv' /\ RefsInv'
  BY <1>2, <1>7, CleanerKept, Zenon DEF ProcInv, RefsInv
<1>14. ReapInv'
  BY <1>2, <1>3, <1>7, Zenon DEF ProcInv, ReapInv, Count
<1>15. LifeInv'
  BY <1>2, <1>3, <1>7, Zenon DEF ProcInv, LifeInv
<1>16. ObjectInv'
  BY <1>2, <1>7, Zenon DEF ProcInv, ObjectInv
<1>17. StatusInv'
  BY <1>2, <1>4, <1>5, <1>7, <1>10, Zenon DEF StatusInv
<1>18. ProcTypes' /\ ThreadsInv'
  BY <1>2, <1>3, <1>7, <1>9, Zenon DEF ProcInv, ProcTypes, ThreadsInv
<1> QED BY <1>12, <1>13, <1>14, <1>15, <1>16, <1>17, <1>18 DEF ProcInv

\* The slot goes back idle.
LEMMA ReleaseInv ==
    ASSUME SetCounts, ProcInv, Release PROVE ProcInv'
<1>1. /\ reaper \in ReaperRecord /\ reaper.incoming \in Nat /\ process \in ProcessRecord
      /\ process.granted \in Nat /\ object \in Int
  BY Zenon DEF ProcInv, ProcTypes, ReaperRecord, ProcessRecord
<1>2. UNCHANGED <<thread, cleaner, spawner, notify, decided>> /\ object' = object - process.granted
  BY Zenon DEF Release
<1>3. /\ reaper' \in ReaperRecord /\ reaper'.incoming = reaper.incoming
      /\ reaper.at = "release" /\ reaper'.at = "pop"
      /\ "release" \in Reaping /\ "pop" \notin Reaping
  BY <1>1, Zenon DEF Release, ReaperStep, ReaperRecord, Reaping
<1>4. /\ process.threads = {} /\ process.reference_count = 0 /\ spawner.at \notin Creating
      /\ Count(spawner.at = "enqueue") + Count(cleaner.at = "enqueue") + reaper.incoming
           + Count(reaper.at \in Reaping) = 1
  BY <1>3, LastReferenceGone, Zenon
<1>5. spawner.at # "enqueue" /\ cleaner.at # "enqueue" /\ reaper.incoming = 0
  BY <1>1, <1>3, <1>4 DEF Count
<1>6. "grant" \in Creating
  BY Zenon DEF Creating
<1>7. process.exit_notify = 0 /\ ~process.listed /\ ~process.queued_for_cleanup
  BY <1>3, <1>5, Zenon DEF ProcInv, LifeInv
<1>8. /\ process' \in ProcessRecord /\ ~process'.allocated /\ process'.threads = {}
      /\ process'.granted = 0 /\ process'.exit_notify = process.exit_notify
      /\ process'.terminating = process.terminating /\ process'.exit_status = process.exit_status
      /\ process'.reference_count = process.reference_count /\ process'.listed = process.listed
      /\ process'.queued_for_cleanup = process.queued_for_cleanup
  BY <1>1, Zenon DEF Release, ProcessRecord
<1>9. ProcTypes' /\ ThreadsInv'
  <2>1. object' \in Int
    BY <1>1, <1>2
  <2> QED BY <1>2, <1>3, <1>4, <1>8, <2>1, Zenon DEF ProcInv, ProcTypes, ThreadsInv
<1>10. CleanerInv' /\ RefsInv'
  BY <1>2, <1>4, <1>8, CleanerKept, Zenon DEF ProcInv, RefsInv
<1>11. ReapInv'
  BY <1>2, <1>3, <1>4, <1>5, <1>8 DEF ReapInv, Count
<1>12. LifeInv'
  BY <1>2, <1>3, <1>4, <1>5, <1>6, <1>7, <1>8, Zenon DEF LifeInv
<1>13. NotifyInv'
  BY <1>2, <1>8 DEF ProcInv, NotifyInv, Fresh, Count
<1>14. ObjectInv'
  BY <1>1, <1>2, <1>8 DEF ProcInv, ObjectInv, Count
<1>15. StatusInv'
  <2>1. \A t \in Threads : thread[t].at # "cascade"
    BY <1>4, Zenon DEF ProcInv, ThreadsInv, Live
  <2> QED BY <1>2, <1>4, <1>6, <1>7, <1>8, <2>1, Zenon DEF StatusInv
<1> QED BY <1>9, <1>10, <1>11, <1>12, <1>13, <1>14, <1>15 DEF ProcInv

----------------------------------------------------------------------------
(* The theorems *)

LEMMA InitInv ==
    ASSUME SetCounts, Init
    PROVE  ProcInv
<1> USE DEF Init
<1>1. 0 \in 0 .. MaxSpawns /\ {} \in Statuses
  BY ThreadAssumption DEF Statuses
<1>2. process \in ProcessRecord
  BY <1>1, Zenon DEF ProcessRecord
<1>3. thread \in [Threads -> ThreadRecord]
  <2>1. Slot("free") \in ThreadRecord
    BY <1>1, Zenon DEF Slot, ThreadRecord
  <2> QED BY <2>1, Zenon
<1>4. cleaner \in CleanerRecord /\ reaper \in ReaperRecord /\ spawner \in SpawnerRecord
  <2>1. cleaner \in CleanerRecord
    BY DEF CleanerRecord
  <2>2. reaper \in ReaperRecord
    BY Zenon DEF ReaperRecord
  <2>3. spawner \in SpawnerRecord
    BY <1>1, Zenon DEF SpawnerRecord
  <2> QED BY <2>1, <2>2, <2>3, Zenon
<1>5. notify \in [Spawns -> NotifyRecord] /\ object \in Int /\ decided \in [Spawns -> Statuses]
  BY <1>1 DEF NotifyRecord
<1>6. ProcTypes
  BY <1>2, <1>3, <1>4, <1>5, Zenon DEF ProcTypes
<1>7. ThreadsInv
  BY Zenon DEF ThreadsInv, Slot, Live
<1>8. CleanerInv
  BY DEF CleanerInv
<1>9. RefsInv /\ ReapInv /\ LifeInv
  <2>1. Cardinality(process.threads) = 0
    BY NoneCounted, Zenon
  <2> QED BY <2>1 DEF RefsInv, ReapInv, LifeInv, Count, Creating, Reaping
<1>10. NotifyInv
  <2>1. \A n \in Spawns : n # 0
    BY DEF Spawns
  <2> QED BY <2>1 DEF NotifyInv, Count, Calling
<1>11. ObjectInv /\ StatusInv
  BY DEF ObjectInv, StatusInv, Slot, Count
<1> QED BY <1>6, <1>7, <1>8, <1>9, <1>10, <1>11, Zenon DEF ProcInv

LEMMA NextInv ==
    ASSUME SetCounts, ProcInv, [Next]_vars
    PROVE  ProcInv'
<1>1. CASE ResolveGrants
  BY <1>1, ResolveGrantsInv, Zenon
<1>2. CASE Spawner
  BY <1>2, ResolveEndsInv, CreateInv, GiveGrantsInv, CreateLoaderInv, SpawnerDerefInv,
     SpawnerEnqueueInv, SpawnerUnparkInv DEF Spawner
<1>3. CASE \E n \in Spawns : WaitProcess(n) \/ ProcessKill(n)
  BY <1>3, ParentInv, Zenon
<1>4. CASE \E t \in Threads : Kernel(t) \/ Program(t)
  <2>1. PICK t \in Threads : Kernel(t) \/ Program(t)
    BY <1>4, Zenon
  <2>2. CASE Kernel(t)
    BY <2>2, MovesInv, checkPendingKillInv, TerminatingInv, CascadeInv,
       forceTerminateSiblingsInv, terminateInv DEF Kernel
  <2>3. CASE Program(t)
    BY <2>3, MovesInv, exitProcessInv, spawnThreadInv, Zenon DEF Program
  <2> QED BY <2>1, <2>2, <2>3, Zenon
<1>5. CASE CleanerIsUnparked
  BY <1>5, CleanerIsUnparkedInv, Zenon
<1>6. CASE Cleaner
  BY Zenon, <1>6, CleanerPopInv, cleanupTaskInv, CleanerDerefInv, CleanerEnqueueInv, CleanerUnparksInv,
     DestroyThreadInv DEF Cleaner
<1>7. CASE Reaper
  BY <1>7, ReaperPopInv, cleanupProcessInv, SignalExitInv, ReleaseInv, Zenon DEF Reaper
<1>8. CASE UNCHANGED vars
  <2>1. UNCHANGED <<process, thread, cleaner, reaper, spawner, notify, object, decided>>
    BY <1>8, Zenon DEF vars
  <2>2. CleanerInv'
    BY <2>1, CleanerKept, Zenon
  <2> QED
      BY <2>1, <2>2, Zenon
      DEF ProcInv, ProcTypes, ThreadsInv, RefsInv, ReapInv, LifeInv, NotifyInv,
                            Fresh, ObjectInv, StatusInv
<1> QED BY <1>1, <1>2, <1>3, <1>4, <1>5, <1>6, <1>7, <1>8 DEF Next

----------------------------------------------------------------------------
(* The descriptors of the process: the invariant of their table *)

Ids == 1 .. MaxOpens

IsFile(desc) ==
    \E id \in Ids : \E node, offset, writable : desc = File(node, offset, writable, id)

IsSlot(slot) ==
    /\ slot = [desc |-> slot.desc, gen |-> slot.gen]
    /\ slot.gen \in Nat
    /\ slot.desc \in {Closed, Tty} \/ IsFile(slot.desc)

IsLocals(c) ==
    /\ c = [at |-> c.at, fd |-> c.fd, gen |-> c.gen, file |-> c.file, all |-> c.all,
            name |-> c.name, create |-> c.create, dir |-> c.dir]
    /\ c.all \in BOOLEAN

Shapes ==
    /\ fd_slots = [fd \in Fds |-> fd_slots[fd]] /\ \A fd \in Fds : IsSlot(fd_slots[fd])
    /\ caller = [t \in Callers |-> caller[t]] /\ \A t \in Callers : IsLocals(caller[t])
    /\ opened \in 0 .. MaxOpens /\ closed \in [Ids -> Nat]

Carries == {"insert", "close", "sync"}
Uses == {"read", "write", "commit"}

\* The copy a thread works on: its slot has moved on, or holds the same file.
Resolved(table, c) ==
    /\ c.fd \in Fds /\ c.gen \in Nat /\ c.gen <= table[c.fd].gen
    /\ c.gen = table[c.fd].gen => IsFile(table[c.fd].desc) /\ table[c.fd].desc.id = c.file.id

\* The cleanup is alone, and leaves closed slots behind.
Alone(t) ==
    /\ caller[t].at \in {"closeAll", "close", "sync"} /\ caller[t].fd \in Nat
    /\ \A u \in Callers \ {t} : caller[u].at = "gone"
    /\ \A fd \in Fds : fd < caller[t].fd => fd_slots[fd].desc \in {Closed, Tty}
    /\ caller[t].at # "closeAll" /\ caller[t].fd \in Fds => fd_slots[caller[t].fd].desc \in {Closed, Tty}

Calls ==
    \A t \in Callers :
        /\ caller[t].at \in Carries \cup Uses => IsFile(caller[t].file)
        /\ caller[t].at \in Uses => Resolved(fd_slots, caller[t])
        /\ caller[t].all => Alone(t)
        /\ caller[t].at = "closeAll" => caller[t].all

InSlots(id) == {fd \in Fds : fd_slots[fd].desc.kind = "file" /\ fd_slots[fd].desc.id = id}
InCalls(id) == {t \in Callers : caller[t].at \in Carries /\ caller[t].file.id = id}

Balanced ==
    \A id \in Ids :
        closed[id] + Cardinality(InSlots(id)) + Cardinality(InCalls(id)) = IF id <= opened THEN 1 ELSE 0

FdInv == Shapes /\ Calls /\ Balanced

----------------------------------------------------------------------------
(* Descriptors, slots and locals *)

LEMMA FileShape ==
    ASSUME NEW desc, IsFile(desc)
    PROVE  desc.kind = "file" /\ desc.id \in Ids /\ desc \notin {Closed, Tty}
BY DEF IsFile, File, Closed, Tty

LEMMA NotFile == Closed.kind # "file" /\ Tty.kind # "file" /\ Closed # Tty
BY Zenon DEF Closed, Tty

\* Other offsets, nodes and copies of a file are the same file.
LEMMA FileUpdate ==
    ASSUME NEW desc, IsFile(desc), NEW node, NEW offset
    PROVE  /\ IsFile([desc EXCEPT !.node = node, !.offset = offset])
           /\ [desc EXCEPT !.node = node, !.offset = offset].id = desc.id
           /\ IsFile([desc EXCEPT !.offset = offset])
           /\ [desc EXCEPT !.offset = offset].id = desc.id
<1>1. PICK id \in Ids : \E n, o, w : desc = File(n, o, w, id)
    BY Zenon DEF IsFile
<1>a. PICK n, o, w : desc = File(n, o, w, id)
    BY <1>1, Zenon
<1>b. [desc EXCEPT !.node = node] = File(node, o, w, id)
    BY <1>a DEF File
<1>c. [File(node, o, w, id) EXCEPT !.offset = offset] = File(node, offset, w, id)
    BY DEF File
<1>2. [desc EXCEPT !.node = node, !.offset = offset] = File(node, offset, w, id)
    BY <1>b, <1>c, Zenon
<1>3. [desc EXCEPT !.offset = offset] = File(n, offset, w, id)
    BY <1>a DEF File
<1>4. desc.id = id /\ File(node, offset, w, id).id = id /\ File(n, offset, w, id).id = id
    BY <1>a, Zenon DEF File
<1> QED
    BY <1>2, <1>3, <1>4 DEF IsFile

\* One thread goes on.
LEMMA BecomesRow ==
    ASSUME Shapes, NEW t \in Callers, NEW c, IsLocals(c), Becomes(t, c)
    PROVE  /\ caller' = [u \in Callers |-> caller'[u]]
           /\ caller'[t] = c
           /\ \A u \in Callers : u # t => caller'[u] = caller[u]
           /\ \A u \in Callers : IsLocals(caller'[u])
<1>1. caller' = [caller EXCEPT ![t] = c] /\ caller = [u \in Callers |-> caller[u]]
    BY Zenon DEF Becomes, Shapes
<1>2. caller'[t] = c /\ \A u \in Callers : u # t => caller'[u] = caller[u]
    BY <1>1, Zenon
<1>3. \A u \in Callers : IsLocals(caller'[u])
    BY <1>2, Zenon DEF Shapes
<1> QED
    BY <1>1, <1>2, <1>3, Zenon

LEMMA SlotRow ==
    ASSUME Shapes, NEW fd \in Fds, NEW s, IsSlot(s), fd_slots' = [fd_slots EXCEPT ![fd] = s]
    PROVE  /\ fd_slots' = [f \in Fds |-> fd_slots'[f]]
           /\ fd_slots'[fd] = s
           /\ \A f \in Fds : f # fd => fd_slots'[f] = fd_slots[f]
           /\ \A f \in Fds : IsSlot(fd_slots'[f])
<1>1. fd_slots = [f \in Fds |-> fd_slots[f]]
    BY Zenon DEF Shapes
<1>2. fd_slots'[fd] = s /\ \A f \in Fds : f # fd => fd_slots'[f] = fd_slots[f]
    BY <1>1, Zenon
<1>3. \A f \in Fds : IsSlot(fd_slots'[f])
    BY <1>2, Zenon DEF Shapes
<1> QED
    BY <1>1, <1>2, <1>3, Zenon

\* What is assigned to the descriptor of a slot leaves its generation.
LEMMA DescUpdate ==
    ASSUME NEW slot, IsSlot(slot), NEW desc, desc \in {Closed, Tty} \/ IsFile(desc)
    PROVE  /\ IsSlot([slot EXCEPT !.desc = desc])
           /\ [slot EXCEPT !.desc = desc].desc = desc /\ [slot EXCEPT !.desc = desc].gen = slot.gen
<1>1. [slot EXCEPT !.desc = desc] = [desc |-> desc, gen |-> slot.gen]
    BY DEF IsSlot
<1> QED
    BY <1>1, Zenon DEF IsSlot

\* The balance is kept when no file moves.
LEMMA SameBalance ==
    ASSUME Balanced, opened' = opened, closed' = closed,
           \A id \in Ids : InSlots(id)' = InSlots(id) /\ InCalls(id)' = InCalls(id)
    PROVE  Balanced'
BY Zenon DEF Balanced

\* Threads that do not carry a file, and slots with the same files.
LEMMA SameCalls ==
    ASSUME NEW t \in Callers,
           \A u \in Callers : u # t => caller'[u] = caller[u],
           \/ caller[t].at \notin Carries /\ caller'[t].at \notin Carries
           \/ /\ caller[t].at \in Carries /\ caller'[t].at \in Carries
              /\ caller'[t].file = caller[t].file
    PROVE  \A id \in Ids : InCalls(id)' = InCalls(id)
<1>1. \A u \in Callers, id \in Ids :
          (caller'[u].at \in Carries /\ caller'[u].file.id = id)
             <=> (caller[u].at \in Carries /\ caller[u].file.id = id)
    BY Zenon
<1> QED
    BY <1>1, Zenon DEF InCalls

LEMMA SameSlots ==
    ASSUME \A fd \in Fds : /\ fd_slots'[fd].desc.kind = fd_slots[fd].desc.kind
                           /\ fd_slots[fd].desc.kind = "file" => fd_slots'[fd].desc.id = fd_slots[fd].desc.id
    PROVE  \A id \in Ids : InSlots(id)' = InSlots(id)
BY Zenon DEF InSlots

----------------------------------------------------------------------------
(* The steps *)

LEMMA FreeLocals ==
    /\ IsLocals(InUser) /\ InUser.at = "user" /\ InUser.all = FALSE
    /\ \A fd, all : Continue(fd, all) = IF all THEN [InUser EXCEPT !.at = "closeAll", !.fd = fd + 1, !.all = TRUE] ELSE InUser
BY Zenon DEF InUser, IsLocals, Continue

LEMMA InitFdInv ==
    ASSUME SetCounts, FdInit
    PROVE  FdInv
<1>1. \A fd \in Fds : fd_slots[fd].desc \in {Closed, Tty} /\ fd_slots[fd].gen = 0 /\ IsSlot(fd_slots[fd])
    BY Zenon DEF FdInit, reset, IsSlot
<1>2. \A t \in Callers : caller[t] = InUser
    BY Zenon DEF FdInit
<1>3. Shapes
    <2>1. fd_slots = [fd \in Fds |-> fd_slots[fd]] /\ caller = [t \in Callers |-> caller[t]]
        BY Zenon DEF FdInit, reset
    <2>2. opened \in 0 .. MaxOpens /\ closed \in [Ids -> Nat]
        BY FdAssumption DEF FdInit, Ids
    <2> QED
        BY <1>1, <1>2, <2>1, <2>2, FreeLocals, Zenon DEF Shapes
<1>4. Calls
    BY <1>2, FreeLocals, Zenon DEF Calls, Carries, Uses
<1>5. Balanced
    <2> SUFFICES ASSUME NEW id \in Ids
                 PROVE  closed[id] + Cardinality(InSlots(id)) + Cardinality(InCalls(id))
                           = IF id <= opened THEN 1 ELSE 0
        BY Zenon DEF Balanced
    <2>1. InSlots(id) = {}
        BY <1>1, NotFile, Zenon DEF InSlots
    <2>2. InCalls(id) = {}
        BY <1>2, FreeLocals, Zenon DEF InCalls, Carries
    <2>3. closed[id] = 0 /\ ~ (id <= opened)
        BY FdAssumption DEF FdInit, Ids
    <2> QED
        BY <2>1, <2>2, <2>3, NoneCounted
<1> QED
    BY <1>3, <1>4, <1>5, Zenon DEF FdInv

\* Of two slots with the same number the later has a higher generation, or its
\* file is the same.
LEMMA ResolvedKept ==
    ASSUME Shapes,
           \A fd \in Fds :
              \/ fd_slots'[fd] = fd_slots[fd]
              \/ fd_slots'[fd].gen = fd_slots[fd].gen + 1
              \/ fd_slots'[fd].gen = fd_slots[fd].gen /\ fd_slots[fd].desc \in {Closed, Tty}
              \/ /\ fd_slots'[fd].gen = fd_slots[fd].gen
                 /\ IsFile(fd_slots'[fd].desc) /\ fd_slots'[fd].desc.id = fd_slots[fd].desc.id
    PROVE  \A c : Resolved(fd_slots, c) => Resolved(fd_slots', c)
<1> SUFFICES ASSUME NEW c, Resolved(fd_slots, c) PROVE Resolved(fd_slots', c)
    BY Zenon
<1>1. c.fd \in Fds /\ c.gen \in Nat /\ c.gen <= fd_slots[c.fd].gen /\ fd_slots[c.fd].gen \in Nat
    BY Zenon DEF Resolved, Shapes, IsSlot
<1>2. c.gen = fd_slots[c.fd].gen => fd_slots[c.fd].desc \notin {Closed, Tty}
    BY FileShape, Zenon DEF Resolved
<1>3. CASE fd_slots'[c.fd] = fd_slots[c.fd]
    BY <1>3, Zenon DEF Resolved
<1>4. CASE fd_slots'[c.fd].gen = fd_slots[c.fd].gen + 1
    BY <1>1, <1>4 DEF Resolved
<1>5. CASE fd_slots'[c.fd].gen = fd_slots[c.fd].gen /\ fd_slots[c.fd].desc \in {Closed, Tty}
    BY <1>1, <1>2, <1>5, Zenon DEF Resolved
<1>6. CASE /\ fd_slots'[c.fd].gen = fd_slots[c.fd].gen
           /\ IsFile(fd_slots'[c.fd].desc) /\ fd_slots'[c.fd].desc.id = fd_slots[c.fd].desc.id
    BY <1>1, <1>6, Zenon DEF Resolved
<1> QED
    BY <1>1, <1>3, <1>4, <1>5, <1>6, Zenon

\* A thread goes on; while it is there nobody else is in the cleanup.
LEMMA StepCalls ==
    ASSUME Shapes, Calls, NEW t \in Callers, NEW c, IsLocals(c), Becomes(t, c),
           caller[t].at # "gone",
           \A d : Resolved(fd_slots, d) => Resolved(fd_slots', d),
           c.at \in Carries \cup Uses => IsFile(c.file),
           c.at \in Uses => Resolved(fd_slots', c),
           c.all => Alone(t)', c.at = "closeAll" => c.all
    PROVE  Calls'
<1>1. caller'[t] = c /\ \A u \in Callers : u # t => caller'[u] = caller[u]
    BY BecomesRow, Zenon
<1>2. \A u \in Callers : u # t => ~ caller[u].all
    BY Zenon DEF Calls, Alone
<1>3. ASSUME NEW u \in Callers, u # t
      PROVE  /\ caller'[u].at \in Carries \cup Uses => IsFile(caller'[u].file)
             /\ caller'[u].at \in Uses => Resolved(fd_slots', caller'[u])
             /\ ~ caller'[u].all /\ caller'[u].at # "closeAll"
    BY <1>1, <1>2, <1>3, Zenon DEF Calls
<1> QED
    BY <1>1, <1>3, Zenon DEF Calls

\* No file moves: the slots stay, and a thread goes on.
LEMMA QuietStep ==
    ASSUME FdInv, NEW t \in Callers, NEW c, IsLocals(c), Becomes(t, c),
           fd_slots' = fd_slots, opened' = opened, closed' = closed,
           caller[t].at # "gone",
           c.at \in Carries \cup Uses => IsFile(c.file),
           c.at \in Uses => Resolved(fd_slots, c),
           c.all => Alone(t)', c.at = "closeAll" => c.all,
           \/ caller[t].at \notin Carries /\ c.at \notin Carries
           \/ caller[t].at \in Carries /\ c.at \in Carries /\ c.file = caller[t].file
    PROVE  FdInv'
<1> USE DEF FdInv
<1>1. /\ caller' = [u \in Callers |-> caller'[u]] /\ caller'[t] = c
      /\ \A u \in Callers : u # t => caller'[u] = caller[u]
      /\ \A u \in Callers : IsLocals(caller'[u])
    BY BecomesRow, Zenon
<1>2. Shapes'
    BY <1>1, Zenon DEF Shapes
<1>3. Calls'
    BY StepCalls, Zenon
<1>4. Balanced'
    <2>1. \A id \in Ids : InCalls(id)' = InCalls(id)
        BY <1>1, SameCalls, Zenon
    <2>2. \A id \in Ids : InSlots(id)' = InSlots(id)
        BY Zenon DEF InSlots
    <2> QED
        BY <2>1, <2>2, SameBalance, Zenon
<1> QED
    BY <1>2, <1>3, <1>4, Zenon

LEMMA OpenKeeps ==
    ASSUME FdInv, NEW t \in Callers, open(t)
    PROVE  FdInv'
<1>1. PICK name \in Names, w \in BOOLEAN :
          Becomes(t, [InUser EXCEPT !.at = "lookup", !.name = name, !.create = w, !.dir = directory])
    BY Zenon DEF open
<1>2. PICK c : c = [InUser EXCEPT !.at = "lookup", !.name = name, !.create = w, !.dir = directory]
    BY Zenon
<1>3. IsLocals(c) /\ c.at = "lookup" /\ ~ c.all
    BY <1>2, Zenon DEF InUser, IsLocals
<1>4. Becomes(t, c) /\ fd_slots' = fd_slots /\ opened' = opened /\ closed' = closed /\ caller[t].at = "user"
    BY <1>1, <1>2, Zenon DEF open
<1> QED
    BY <1>3, <1>4, QuietStep, Zenon DEF Carries, Uses

\* A call that fails or is over.
LEMMA OverKeeps ==
    ASSUME FdInv, NEW t \in Callers, Becomes(t, InUser), fd_slots' = fd_slots, opened' = opened, closed' = closed,
           caller[t].at \notin Carries \cup {"gone"}
    PROVE  FdInv'
<1>1. PICK c : c = InUser
    BY Zenon
<1>2. IsLocals(c) /\ c.at = "user" /\ ~ c.all /\ Becomes(t, c)
    BY <1>1, FreeLocals, Zenon
<1> QED
    BY <1>2, QuietStep, Zenon DEF Carries, Uses

LEMMA ResolveKeeps ==
    ASSUME FdInv, NEW t \in Callers, resolve(t)
    PROVE  FdInv'
<1>1. PICK fd \in Fds, op \in {"read", "write"} :
          /\ fd_slots[fd].desc \notin {Closed, Tty}
          /\ Becomes(t, [InUser EXCEPT !.at = op, !.fd = fd, !.gen = fd_slots[fd].gen, !.file = fd_slots[fd].desc])
    BY Zenon DEF resolve
<1>2. PICK c : c = [InUser EXCEPT !.at = op, !.fd = fd, !.gen = fd_slots[fd].gen, !.file = fd_slots[fd].desc]
    BY Zenon
<1>3. IsLocals(c) /\ c.at = op /\ ~ c.all /\ c.fd = fd /\ c.gen = fd_slots[fd].gen /\ c.file = fd_slots[fd].desc
    BY <1>2, Zenon DEF InUser, IsLocals
<1>4. Becomes(t, c) /\ fd_slots' = fd_slots /\ opened' = opened /\ closed' = closed /\ caller[t].at = "user"
    BY <1>1, <1>2, Zenon DEF resolve
<1>5. IsFile(fd_slots[fd].desc) /\ fd_slots[fd].gen \in Nat
    BY <1>1, Zenon DEF FdInv, Shapes, IsSlot
<1>6. Resolved(fd_slots, c)
    BY <1>3, <1>5 DEF Resolved
<1>7. c.at \notin Carries /\ c.at # "closeAll" /\ caller[t].at \notin Carries
    BY <1>1, <1>3, <1>4, Zenon DEF Carries
<1> QED
    BY <1>3, <1>4, <1>5, <1>6, <1>7, QuietStep, Zenon

LEMMA OperateKeeps ==
    ASSUME FdInv, NEW t \in Callers, Operate(t)
    PROVE  FdInv'
<1>1. /\ fd_slots' = fd_slots /\ opened' = opened /\ closed' = closed /\ caller[t].at \in {"read", "write"}
    BY Zenon DEF Operate
<1>2. CASE Becomes(t, InUser)
    BY <1>1, <1>2, OverKeeps, Zenon DEF Carries
<1>3. ASSUME NEW after,
             Becomes(t, [caller[t] EXCEPT !.at = "commit",
                            !.file = [caller[t].file EXCEPT !.node = after, !.offset = after.pos]])
      PROVE  FdInv'
    <2>1. PICK file : file = [caller[t].file EXCEPT !.node = after, !.offset = after.pos]
        BY Zenon
    <2>2. PICK c : c = [caller[t] EXCEPT !.at = "commit", !.file = file]
        BY Zenon
    <2>3. IsLocals(caller[t]) /\ IsFile(caller[t].file) /\ Resolved(fd_slots, caller[t]) /\ ~ caller[t].all
        BY <1>1, Zenon DEF FdInv, Shapes, Calls, Carries, Uses, Alone
    <2>4. IsFile(file) /\ file.id = caller[t].file.id
        <3>1. PICK old : old = caller[t].file
            BY Zenon
        <3>2. PICK offset : offset = after.pos
            BY Zenon
        <3>3. file = [old EXCEPT !.node = after, !.offset = offset]
            BY <2>1, <3>1, <3>2, Zenon
        <3>4. IsFile(old)
            BY <2>3, <3>1, Zenon
        <3>5. /\ IsFile([old EXCEPT !.node = after, !.offset = offset])
              /\ [old EXCEPT !.node = after, !.offset = offset].id = old.id
            BY <3>4, FileUpdate, Zenon
        <3> QED
            BY <3>1, <3>3, <3>5, Zenon
    <2>5. /\ IsLocals(c) /\ c.at = "commit" /\ c.file = file /\ ~ c.all
          /\ c.fd = caller[t].fd /\ c.gen = caller[t].gen
        BY <2>2, <2>3, Zenon DEF IsLocals
    <2>6. Resolved(fd_slots, c)
        BY <2>3, <2>4, <2>5, Zenon DEF Resolved
    <2>7. Becomes(t, c)
        BY <1>3, <2>1, <2>2, Zenon
    <2>8. c.at \notin Carries /\ caller[t].at \notin Carries /\ caller[t].at # "gone"
        BY <1>1, <2>5, Zenon DEF Carries
    <2> QED
        BY <1>1, <2>4, <2>5, <2>6, <2>7, <2>8, QuietStep, Zenon
<1> QED
    BY <1>2, <1>3, Zenon DEF Operate

LEMMA SyncKeeps ==
    ASSUME FdInv, NEW t \in Callers, SyncNode(t)
    PROVE  FdInv'
<1>1. /\ fd_slots' = fd_slots /\ opened' = opened /\ closed' = closed /\ caller[t].at = "close"
      /\ Becomes(t, [caller[t] EXCEPT !.at = "sync", !.dir = sync(directory, caller[t].file.node)])
    BY Zenon DEF SyncNode
<1>2. PICK c : c = [caller[t] EXCEPT !.at = "sync", !.dir = sync(directory, caller[t].file.node)]
    BY Zenon
<1>3. IsLocals(caller[t]) /\ IsFile(caller[t].file)
    BY <1>1, Zenon DEF FdInv, Shapes, Calls, Carries, Uses
<1>4. /\ IsLocals(c) /\ c.at = "sync" /\ c.file = caller[t].file /\ c.all = caller[t].all
      /\ c.fd = caller[t].fd /\ Becomes(t, c)
    BY <1>1, <1>2, <1>3, Zenon DEF IsLocals
<1>5. c.all => Alone(t)'
    <2> SUFFICES ASSUME c.all PROVE Alone(t)'
        BY Zenon
    <2>1. Alone(t)
        BY <1>4, Zenon DEF FdInv, Calls
    <2>2. caller'[t] = c /\ \A u \in Callers : u # t => caller'[u] = caller[u]
        BY <1>4, BecomesRow, Zenon DEF FdInv
    <2> QED
        BY <1>1, <1>4, <2>1, <2>2, Zenon DEF Alone
<1> QED
    BY <1>1, <1>3, <1>4, <1>5, QuietStep, Zenon DEF Carries, Uses

\* A file that is opened is with its thread.
LEMMA OpensKeeps ==
    ASSUME SetCounts, FdInv, NEW t \in Callers, NEW node, Opens(t, node),
           fd_slots' = fd_slots, closed' = closed, caller[t].at = "lookup"
    PROVE  FdInv'
<1> USE DEF FdInv
<1>1. PICK id : id = opened + 1
    BY Zenon
<1>2. PICK file : file = File(node, 0, caller[t].create, id)
    BY Zenon
<1>3. PICK c : c = [InUser EXCEPT !.at = "insert", !.file = file]
    BY Zenon
<1>4. opened' = id /\ Becomes(t, c) /\ id \in Ids /\ opened \in Nat
    BY <1>1, <1>2, <1>3, FdAssumption DEF Opens, Shapes, Ids
<1>5. IsFile(file) /\ file.id = id
    BY <1>2, <1>4, Zenon DEF IsFile, File
<1>6. IsLocals(c) /\ c.at = "insert" /\ c.file = file /\ ~ c.all
    BY <1>3, Zenon DEF InUser, IsLocals
<1>7. /\ caller' = [u \in Callers |-> caller'[u]] /\ caller'[t] = c
      /\ \A u \in Callers : u # t => caller'[u] = caller[u]
      /\ \A u \in Callers : IsLocals(caller'[u])
    BY <1>4, <1>6, BecomesRow, Zenon
<1>8. Shapes'
    BY <1>4, <1>7, FdAssumption DEF Shapes, Ids
<1>9. Calls'
    BY <1>4, <1>5, <1>6, StepCalls, Zenon DEF Carries, Uses
<1>10. Balanced'
    <2>1. \A i \in Ids : InSlots(i)' = InSlots(i)
        BY Zenon DEF InSlots
    <2>2. \A i \in Ids : i # id => InCalls(i)' = InCalls(i)
        BY <1>5, <1>6, <1>7, Zenon DEF InCalls, Carries
    <2>3. InCalls(id)' = InCalls(id) \cup {t} /\ t \notin InCalls(id)
        BY <1>5, <1>6, <1>7, Zenon DEF InCalls, Carries
    <2>4. ASSUME NEW i \in Ids, i # id
          PROVE  closed'[i] + Cardinality(InSlots(i)') + Cardinality(InCalls(i)') = IF i <= opened' THEN 1 ELSE 0
        <3>1. i <= opened' <=> i <= opened
            BY <1>1, <1>4, <2>4, FdAssumption DEF Ids
        <3> QED
            BY <2>1, <2>2, <2>4, <3>1, Zenon DEF Balanced
    <2>5. InSlots(id) \subseteq Fds /\ InCalls(id) \subseteq Callers
        BY Zenon DEF InSlots, InCalls
    <2>6. Cardinality(InSlots(id)) \in Nat /\ Cardinality(InCalls(id)) \in Nat
          /\ Cardinality(InCalls(id) \cup {t}) = Cardinality(InCalls(id)) + 1
        BY <2>3, <2>5, CountOne, Zenon
    <2>7. closed[id] + Cardinality(InSlots(id)) + Cardinality(InCalls(id)) = 0 /\ closed[id] \in Nat
        <3>1. ~ (id <= opened)
            BY <1>1, <1>4
        <3> QED
            BY <1>4, <3>1, Zenon DEF Balanced, Shapes
    <2>8. closed[id] + Cardinality(InSlots(id)) + Cardinality(InCalls(id) \cup {t}) = 1
        BY <2>6, <2>7
    <2>9. closed'[id] + Cardinality(InSlots(id)') + Cardinality(InCalls(id)') = IF id <= opened' THEN 1 ELSE 0
        <3>1. id <= opened'
            BY <1>4, FdAssumption DEF Ids
        <3> QED
            BY <1>4, <2>1, <2>3, <2>8, <3>1, Zenon
    <2> QED
        BY <2>4, <2>9, Zenon DEF Balanced
<1> QED
    BY <1>8, <1>9, <1>10, Zenon

LEMMA LookedUpKeeps ==
    ASSUME SetCounts, FdInv, NEW t \in Callers, LookedUp(t)
    PROVE  FdInv'
<1>1. fd_slots' = fd_slots /\ closed' = closed /\ caller[t].at = "lookup"
    BY Zenon DEF LookedUp
<1>2. (\E node : Opens(t, node)) \/ (Becomes(t, InUser) /\ opened' = opened)
    BY Zenon DEF LookedUp
<1> QED
    BY <1>1, <1>2, OpensKeeps, OverKeeps, Zenon DEF Carries

\* A file goes from the thread that opened it to a slot.
LEMMA InsertKeeps ==
    ASSUME SetCounts, FdInv, NEW t \in Callers, insertFile(t)
    PROVE  FdInv'
<1> USE DEF FdInv
<1>1. /\ opened' = opened /\ closed' = closed /\ caller[t].at = "insert"
    BY Zenon DEF insertFile
<1>2. IsLocals(caller[t]) /\ IsFile(caller[t].file) /\ ~ caller[t].all
    BY <1>1, Zenon DEF Shapes, Calls, Carries, Uses, Alone
<1>3. CASE TableFull(t)
    <2>1. PICK c : c = [caller[t] EXCEPT !.at = "close"]
        BY Zenon
    <2>2. IsLocals(c) /\ c.at = "close" /\ c.file = caller[t].file /\ ~ c.all
        BY <1>2, <2>1, Zenon DEF IsLocals
    <2>3. Becomes(t, c) /\ fd_slots' = fd_slots
        BY <1>3, <2>1, Zenon DEF TableFull
    <2> QED
        BY <1>1, <1>2, <2>2, <2>3, QuietStep, Zenon DEF Carries, Uses
<1>4. ASSUME NEW fd \in Fds, fd_slots[fd].desc = Closed,
             fd_slots' = [fd_slots EXCEPT ![fd].desc = caller[t].file], Becomes(t, InUser)
      PROVE  FdInv'
    <2>1. PICK file : file = caller[t].file
        BY Zenon
    <2>2. PICK s : s = [fd_slots[fd] EXCEPT !.desc = file]
        BY Zenon
    <2>3. fd_slots' = [fd_slots EXCEPT ![fd] = s] /\ IsSlot(fd_slots[fd])
        BY <1>4, <2>1, <2>2, Zenon DEF Shapes
    <2>4. IsSlot(s) /\ s.desc = file /\ s.gen = fd_slots[fd].gen
        BY <1>2, <2>1, <2>2, <2>3, DescUpdate
    <2>5. /\ fd_slots' = [f \in Fds |-> fd_slots'[f]] /\ fd_slots'[fd] = s
          /\ \A f \in Fds : f # fd => fd_slots'[f] = fd_slots[f]
          /\ \A f \in Fds : IsSlot(fd_slots'[f])
        BY <2>3, <2>4, SlotRow, Zenon
    <2>6. PICK c : c = InUser
        BY Zenon
    <2>7. IsLocals(c) /\ c.at = "user" /\ ~ c.all /\ Becomes(t, c)
        BY <1>4, <2>6, FreeLocals, Zenon
    <2>8. /\ caller' = [u \in Callers |-> caller'[u]] /\ caller'[t] = c
          /\ \A u \in Callers : u # t => caller'[u] = caller[u]
          /\ \A u \in Callers : IsLocals(caller'[u])
        BY <2>7, BecomesRow, Zenon
    <2>9. Shapes'
        BY <1>1, <2>5, <2>8, Zenon DEF Shapes
    <2>10. Calls'
        <3>1. \A d : Resolved(fd_slots, d) => Resolved(fd_slots', d)
            BY <1>4, <2>4, <2>5, ResolvedKept, Zenon
        <3> QED
            BY <1>1, <2>7, <3>1, StepCalls, Zenon DEF Carries, Uses
    <2>11. Balanced'
        <3>1. PICK id \in Ids : id = file.id
            BY <1>2, <2>1, FileShape, Zenon
        <3>2. fd_slots[fd].desc.kind # "file" /\ fd_slots'[fd].desc.kind = "file" /\ fd_slots'[fd].desc.id = id
            BY <1>2, <1>4, <2>1, <2>4, <2>5, <3>1, NotFile, FileShape
        <3>3. InSlots(id)' = InSlots(id) \cup {fd} /\ fd \notin InSlots(id)
            BY <2>5, <3>2 DEF InSlots
        <3>4. \A i \in Ids : i # id => InSlots(i)' = InSlots(i)
            BY <2>5, <3>2, Zenon DEF InSlots
        <3>5. InCalls(id)' = InCalls(id) \ {t} /\ t \in InCalls(id)
            BY <1>1, <2>1, <2>7, <2>8, <3>1, Zenon DEF InCalls, Carries
        <3>6. \A i \in Ids : i # id => InCalls(i)' = InCalls(i)
            BY <1>1, <2>1, <2>7, <2>8, <3>1, Zenon DEF InCalls, Carries
        <3>7. InSlots(id) \subseteq Fds /\ InCalls(id) \subseteq Callers
            BY Zenon DEF InSlots, InCalls
        <3>8. /\ Cardinality(InSlots(id)) \in Nat
              /\ Cardinality(InSlots(id) \cup {fd}) = Cardinality(InSlots(id)) + 1
            BY <3>3, <3>7, CountOne, Zenon
        <3>9. /\ Cardinality(InCalls(id)) \in Nat
              /\ Cardinality(InCalls(id) \ {t}) = Cardinality(InCalls(id)) - 1
            BY <3>5, <3>7, CountOne, Zenon
        <3>10. closed[id] \in Nat
            BY Zenon DEF Shapes
        <3>11. closed[id] + Cardinality(InSlots(id) \cup {fd}) + Cardinality(InCalls(id) \ {t})
                  = closed[id] + Cardinality(InSlots(id)) + Cardinality(InCalls(id))
            BY <3>8, <3>9, <3>10
        <3>12. closed'[id] + Cardinality(InSlots(id)') + Cardinality(InCalls(id)') = IF id <= opened' THEN 1 ELSE 0
            BY <1>1, <3>3, <3>5, <3>11, Zenon DEF Balanced
        <3>13. ASSUME NEW i \in Ids, i # id
               PROVE  closed'[i] + Cardinality(InSlots(i)') + Cardinality(InCalls(i)') = IF i <= opened' THEN 1 ELSE 0
            BY <1>1, <3>4, <3>6, <3>13, Zenon DEF Balanced
        <3> QED
            BY <3>12, <3>13, Zenon DEF Balanced
    <2> QED
        BY <2>9, <2>10, <2>11, Zenon
<1> QED
    BY <1>3, <1>4, Zenon DEF insertFile

\* A slot is emptied; a file goes to the thread that closes it.
LEMMA CloseFdKeeps ==
    ASSUME SetCounts, FdInv, NEW t \in Callers, NEW fd \in Fds, NEW all \in BOOLEAN,
           closeFd(t, fd, all), opened' = opened, closed' = closed,
           \/ caller[t].at = "user" /\ ~ all
           \/ caller[t].at = "closeAll" /\ all /\ caller[t].fd = fd
    PROVE  FdInv'
<1> USE DEF FdInv
<1>1. PICK s : s = ClosedSlot(fd_slots[fd])
    BY Zenon
<1>2. fd_slots' = [fd_slots EXCEPT ![fd] = s] /\ IsSlot(fd_slots[fd]) /\ fd_slots[fd].desc # Closed
    BY <1>1, Zenon DEF closeFd, Shapes
<1>3. IsSlot(s) /\ s.desc = Closed /\ s.gen = fd_slots[fd].gen + 1
    BY <1>1, <1>2 DEF ClosedSlot, IsSlot
<1>4. /\ fd_slots' = [f \in Fds |-> fd_slots'[f]] /\ fd_slots'[fd] = s
      /\ \A f \in Fds : f # fd => fd_slots'[f] = fd_slots[f]
      /\ \A f \in Fds : IsSlot(fd_slots'[f])
    BY <1>2, <1>3, SlotRow, Zenon
<1>5. \A d : Resolved(fd_slots, d) => Resolved(fd_slots', d)
    BY <1>3, <1>4, ResolvedKept, Zenon
<1>6. caller[t].at \notin Carries \cup {"gone"} /\ fd \in Nat
    BY FdAssumption DEF Carries, Fds
\* With a caller that goes on as c.
<1>7. ASSUME NEW c, IsLocals(c), Becomes(t, c), c.all = all,
             c.at \in {"user", "closeAll", "close"}, c.at = "close" => IsFile(c.file),
             all => c.at # "user", c.at = "closeAll" => all /\ c.fd = fd + 1, c.at = "close" => c.fd = fd
      PROVE  /\ Shapes' /\ Calls' /\ caller'[t] = c
             /\ \A u \in Callers : u # t => caller'[u] = caller[u]
    <2>1. /\ caller' = [u \in Callers |-> caller'[u]] /\ caller'[t] = c
          /\ \A u \in Callers : u # t => caller'[u] = caller[u]
          /\ \A u \in Callers : IsLocals(caller'[u])
        BY <1>7, BecomesRow, Zenon
    <2>2. Shapes'
        BY <1>4, <2>1, Zenon DEF Shapes
    <2>3. c.all => Alone(t)'
        <3> SUFFICES ASSUME c.all PROVE Alone(t)'
            BY Zenon
        <3>1. caller[t].all /\ Alone(t) /\ caller[t].fd = fd
            BY <1>7, Zenon DEF Calls
        <3>2. \A u \in Callers \ {t} : caller'[u].at = "gone"
            BY <2>1, <3>1 DEF Alone
        <3>3. fd_slots'[fd].desc \in {Closed, Tty}
            BY <1>3, <1>4, Zenon
        <3>4. \A f \in Fds : f < fd => fd_slots'[f].desc \in {Closed, Tty}
            BY <1>3, <1>4, <3>1, Zenon DEF Alone
        <3>5. \A f \in Fds : f < fd + 1 => f < fd \/ f = fd
            BY <1>6, FdAssumption DEF Fds
        <3>6. CASE c.at = "close"
            BY <1>6, <1>7, <2>1, <3>2, <3>3, <3>4, <3>6, Zenon DEF Alone
        <3>7. CASE c.at = "closeAll"
            <4>1. \A f \in Fds : f < c.fd => fd_slots'[f].desc \in {Closed, Tty}
                BY <1>7, <3>3, <3>4, <3>5, <3>7, Zenon
            <4>2. c.fd \in Nat
                BY <1>6, <1>7, <3>7
            <4> QED
                BY <2>1, <3>2, <3>7, <4>1, <4>2, Zenon DEF Alone
        <3> QED
            BY <1>7, <3>6, <3>7, Zenon
    <2>4. Calls'
        BY <1>5, <1>6, <1>7, <2>3, StepCalls, Zenon DEF Carries, Uses
    <2> QED
        BY <2>1, <2>2, <2>4, Zenon
<1>8. CASE fd_slots[fd].desc = Tty
    <2>1. PICK c : c = Continue(fd, all)
        BY Zenon
    <2>2. /\ IsLocals(c) /\ Becomes(t, c) /\ c.all = all /\ c.at = IF all THEN "closeAll" ELSE "user"
          /\ all => c.fd = fd + 1
        BY <1>8, <2>1, Zenon DEF closeFd, Continue, InUser, IsLocals
    <2>3. /\ Shapes' /\ Calls' /\ caller'[t] = c
          /\ \A u \in Callers : u # t => caller'[u] = caller[u]
        BY <1>7, <2>2, Zenon
    <2>4. \A id \in Ids : InCalls(id)' = InCalls(id)
        BY <1>6, <2>2, <2>3, SameCalls, Zenon DEF Carries
    <2>5. \A id \in Ids : InSlots(id)' = InSlots(id)
        BY <1>3, <1>4, <1>8, NotFile, Zenon DEF InSlots
    <2> QED
        BY <2>3, <2>4, <2>5, SameBalance, Zenon
<1>9. CASE fd_slots[fd].desc # Tty
    <2>1. PICK file : file = fd_slots[fd].desc
        BY Zenon
    <2>2. PICK c : c = [InUser EXCEPT !.at = "close", !.file = file, !.fd = fd, !.all = all]
        BY Zenon
    <2>3. IsFile(file)
        BY <1>2, <1>9, <2>1, Zenon DEF IsSlot
    <2>4. IsLocals(c) /\ c.at = "close" /\ c.file = file /\ c.fd = fd /\ c.all = all /\ Becomes(t, c)
        BY <1>9, <2>1, <2>2, Zenon DEF closeFd, InUser, IsLocals
    <2>5. /\ Shapes' /\ Calls' /\ caller'[t] = c
          /\ \A u \in Callers : u # t => caller'[u] = caller[u]
        BY <1>7, <2>3, <2>4, Zenon
    <2>6. Balanced'
        <3>1. PICK id \in Ids : id = file.id
            BY <2>3, FileShape, Zenon
        <3>2. fd_slots[fd].desc.kind = "file" /\ fd_slots[fd].desc.id = id /\ fd_slots'[fd].desc.kind # "file"
            BY <1>3, <1>4, <2>1, <2>3, <3>1, NotFile, FileShape, Zenon
        <3>3. InSlots(id)' = InSlots(id) \ {fd} /\ fd \in InSlots(id)
            BY <1>4, <3>2, Zenon DEF InSlots
        <3>4. \A i \in Ids : i # id => InSlots(i)' = InSlots(i)
            BY <1>4, <3>2, Zenon DEF InSlots
        <3>5. InCalls(id)' = InCalls(id) \cup {t} /\ t \notin InCalls(id)
            BY <1>6, <2>4, <2>5, <3>1, Zenon DEF InCalls, Carries
        <3>6. \A i \in Ids : i # id => InCalls(i)' = InCalls(i)
            BY <1>6, <2>4, <2>5, <3>1, Zenon DEF InCalls, Carries
        <3>7. InSlots(id) \subseteq Fds /\ InCalls(id) \subseteq Callers
            BY Zenon DEF InSlots, InCalls
        <3>8. /\ Cardinality(InSlots(id)) \in Nat
              /\ Cardinality(InSlots(id) \ {fd}) = Cardinality(InSlots(id)) - 1
            BY <3>3, <3>7, CountOne, Zenon
        <3>9. /\ Cardinality(InCalls(id)) \in Nat
              /\ Cardinality(InCalls(id) \cup {t}) = Cardinality(InCalls(id)) + 1
            BY <3>5, <3>7, CountOne, Zenon
        <3>10. closed[id] \in Nat
            BY Zenon DEF Shapes
        <3>11. closed[id] + Cardinality(InSlots(id) \ {fd}) + Cardinality(InCalls(id) \cup {t})
                  = closed[id] + Cardinality(InSlots(id)) + Cardinality(InCalls(id))
            BY <3>8, <3>9, <3>10
        <3>12. closed'[id] + Cardinality(InSlots(id)') + Cardinality(InCalls(id)') = IF id <= opened' THEN 1 ELSE 0
            BY <3>3, <3>5, <3>11, Zenon DEF Balanced
        <3>13. ASSUME NEW i \in Ids, i # id
               PROVE  closed'[i] + Cardinality(InSlots(i)') + Cardinality(InCalls(i)') = IF i <= opened' THEN 1 ELSE 0
            BY <3>4, <3>6, <3>13, Zenon DEF Balanced
        <3> QED
            BY <3>12, <3>13, Zenon DEF Balanced
    <2> QED
        BY <2>5, <2>6, Zenon
<1> QED
    BY <1>8, <1>9, Zenon

\* The cleanup of the process begins, goes on with a slot, or ends.
LEMMA CloseAllKeeps ==
    ASSUME SetCounts, FdInv, NEW t \in Callers, closeAll(t)
    PROVE  FdInv'
<1> USE DEF FdInv
<1>1. opened' = opened /\ closed' = closed
    BY Zenon DEF closeAll
<1>2. CASE /\ caller = [u \in Callers |-> InUser]
           /\ caller' = [u \in Callers |->
                            [InUser EXCEPT !.at = IF u = t THEN "closeAll" ELSE "gone", !.all = u = t]]
           /\ fd_slots' = fd_slots
    <2>1. \A u \in Callers :
              /\ IsLocals(caller'[u]) /\ caller'[u].all = (u = t) /\ caller'[u].fd = 0
              /\ caller'[u].at = IF u = t THEN "closeAll" ELSE "gone"
        BY <1>2, Zenon DEF InUser, IsLocals
    <2>2. \A u \in Callers : caller[u].at \notin Carries /\ caller'[u].at \notin Carries \cup Uses
        <3>1. \A u \in Callers : caller[u].at = "user"
            BY <1>2, FreeLocals, Zenon
        <3>2. \A u \in Callers : caller'[u].at \in {"closeAll", "gone"}
            BY <2>1, Zenon
        <3> QED
            BY <3>1, <3>2, Zenon DEF Carries, Uses
    <2>3. Shapes'
        BY <1>1, <1>2, <2>1, Zenon DEF Shapes
    <2>4. Alone(t)'
        <3>1. \A fd \in Fds : ~ (fd < 0)
            BY FdAssumption DEF Fds
        <3> QED
            BY <2>1, <3>1 DEF Alone
    <2>5. Calls'
        BY <2>1, <2>2, <2>4, Zenon DEF Calls
    <2>6. Balanced'
        <3>1. \A id \in Ids : InSlots(id)' = InSlots(id) /\ InCalls(id)' = InCalls(id)
            BY <1>2, <2>2, Zenon DEF InSlots, InCalls
        <3> QED
            BY <1>1, <3>1, SameBalance, Zenon
    <2> QED
        BY <2>3, <2>5, <2>6, Zenon
<1>3. CASE /\ caller[t].at = "closeAll" /\ caller[t].fd \in Fds
           /\ closeFd(t, caller[t].fd, TRUE)
    BY <1>1, <1>3, CloseFdKeeps, Zenon
<1>4. CASE /\ caller[t].at = "closeAll" /\ caller[t].fd \in Fds
           /\ fd_slots[caller[t].fd].desc = Closed /\ fd_slots' = fd_slots
           /\ Becomes(t, Continue(caller[t].fd, TRUE))
    <2>1. PICK c : c = Continue(caller[t].fd, TRUE)
        BY Zenon
    <2>2. IsLocals(c) /\ c.at = "closeAll" /\ c.all /\ c.fd = caller[t].fd + 1 /\ Becomes(t, c)
        BY <1>4, <2>1, Zenon DEF Continue, InUser, IsLocals
    <2>3. caller'[t] = c /\ \A u \in Callers : u # t => caller'[u] = caller[u]
        BY <2>2, BecomesRow, Zenon
    <2>4. Alone(t)'
        <3>1. Alone(t)
            BY <1>4, Zenon DEF Calls
        <3>2. \A fd \in Fds : fd < caller[t].fd + 1 => fd < caller[t].fd \/ fd = caller[t].fd
            BY <1>4, FdAssumption DEF Fds
        <3>3. \A fd \in Fds : fd < c.fd => fd_slots[fd].desc \in {Closed, Tty}
            BY <1>4, <2>2, <3>1, <3>2, Zenon DEF Alone
        <3>4. c.fd \in Nat
            BY <2>2, <3>1 DEF Alone
        <3> QED
            BY <1>4, <2>2, <2>3, <3>1, <3>3, <3>4, Zenon DEF Alone
    <2> QED
        BY <1>1, <1>4, <2>2, <2>4, QuietStep, Zenon DEF Carries, Uses
<1>5. CASE /\ caller[t].at = "closeAll" /\ caller[t].fd \notin Fds
           /\ fd_slots' = reset /\ caller' = [u \in Callers |-> InUser]
    <2>1. Alone(t)
        BY <1>5, Zenon DEF Calls
    <2>2. \A fd \in Fds : fd_slots[fd].desc \in {Closed, Tty}
        <3>1. \A fd \in Fds : fd < caller[t].fd
            BY <1>5, <2>1, FdAssumption DEF Alone, Fds
        <3> QED
            BY <2>1, <3>1, Zenon DEF Alone
    <2>3. \A fd \in Fds : fd_slots'[fd].desc \in {Closed, Tty} /\ IsSlot(fd_slots'[fd])
        BY <1>5, Zenon DEF reset, IsSlot
    <2>4. \A u \in Callers : caller'[u] = InUser /\ caller[u].at \notin Carries
        BY <1>5, <2>1, Zenon DEF Alone, Carries
    <2>5. Shapes'
        <3>1. fd_slots' = [fd \in Fds |-> fd_slots'[fd]] /\ caller' = [u \in Callers |-> caller'[u]]
            BY <1>5, Zenon DEF reset
        <3> QED
            BY <1>1, <2>3, <2>4, <3>1, FreeLocals, Zenon DEF Shapes
    <2>6. Calls'
        BY <2>4, FreeLocals, Zenon DEF Calls, Carries, Uses
    <2>7. Balanced'
        <3>1. \A id \in Ids : InSlots(id) = {} /\ InSlots(id)' = {}
            BY <2>2, <2>3, NotFile, Zenon DEF InSlots
        <3>2. \A id \in Ids : InCalls(id) = {} /\ InCalls(id)' = {}
            BY <2>4, FreeLocals, Zenon DEF InCalls, Carries
        <3> QED
            BY <1>1, <3>1, <3>2, SameBalance, Zenon
    <2> QED
        BY <2>5, <2>6, <2>7, Zenon
<1> QED
    BY <1>2, <1>3, <1>4, <1>5, Zenon DEF closeAll

\* A thread has closed its file.
LEMMA CloseNodeKeeps ==
    ASSUME SetCounts, FdInv, NEW t \in Callers, CloseNode(t)
    PROVE  FdInv'
<1> USE DEF FdInv
<1>1. PICK c : c = Continue(caller[t].fd, caller[t].all)
    BY Zenon
<1>2. PICK id : id = caller[t].file.id
    BY Zenon
<1>3. /\ fd_slots' = fd_slots /\ opened' = opened /\ caller[t].at \in {"close", "sync"}
      /\ closed' = [closed EXCEPT ![id] = @ + 1] /\ Becomes(t, c)
    BY <1>1, <1>2, Zenon DEF CloseNode
<1>4. IsFile(caller[t].file) /\ id \in Ids /\ caller[t].all \in BOOLEAN
    <2>1. IsFile(caller[t].file) /\ IsLocals(caller[t])
        BY <1>3, Zenon DEF Calls, Shapes, Carries
    <2> QED
        BY <1>2, <2>1, FileShape, Zenon DEF IsLocals
<1>5. /\ IsLocals(c) /\ c.all = caller[t].all
      /\ c.at = IF caller[t].all THEN "closeAll" ELSE "user"
      /\ caller[t].all => c.fd = caller[t].fd + 1
    BY <1>1, <1>4, Zenon DEF Continue, InUser, IsLocals
<1>6. /\ caller' = [u \in Callers |-> caller'[u]] /\ caller'[t] = c
      /\ \A u \in Callers : u # t => caller'[u] = caller[u]
      /\ \A u \in Callers : IsLocals(caller'[u])
    BY <1>3, <1>5, BecomesRow, Zenon
<1>7. /\ closed' \in [Ids -> Nat] /\ closed'[id] = closed[id] + 1 /\ closed[id] \in Nat
      /\ \A i \in Ids : i # id => closed'[i] = closed[i]
    BY <1>3, <1>4 DEF Shapes
<1>8. Shapes'
    BY <1>3, <1>6, <1>7, Zenon DEF Shapes
<1>9. c.all => Alone(t)'
    <2> SUFFICES ASSUME c.all PROVE Alone(t)'
        BY Zenon
    <2>1. Alone(t) /\ c.at = "closeAll" /\ c.fd = caller[t].fd + 1
        BY <1>5, Zenon DEF Calls
    <2>2. \A fd \in Fds : fd < caller[t].fd + 1 => fd < caller[t].fd \/ fd = caller[t].fd
        BY <2>1, FdAssumption DEF Alone, Fds
    <2>3. \A fd \in Fds : fd < c.fd => fd_slots[fd].desc \in {Closed, Tty}
        BY <1>3, <2>1, <2>2, Zenon DEF Alone
    <2>4. c.fd \in Nat
        BY <2>1 DEF Alone
    <2> QED
        BY <1>3, <1>6, <2>1, <2>3, <2>4, Zenon DEF Alone
<1>10. Calls'
    BY <1>3, <1>5, <1>9, StepCalls, Zenon DEF Carries, Uses
<1>11. Balanced'
    <2>1. \A i \in Ids : InSlots(i)' = InSlots(i)
        BY <1>3, Zenon DEF InSlots
    <2>2. InCalls(id)' = InCalls(id) \ {t} /\ t \in InCalls(id)
        BY <1>2, <1>3, <1>5, <1>6, Zenon DEF InCalls, Carries
    <2>3. \A i \in Ids : i # id => InCalls(i)' = InCalls(i)
        BY <1>2, <1>3, <1>5, <1>6, Zenon DEF InCalls, Carries
    <2>4. InSlots(id) \subseteq Fds /\ InCalls(id) \subseteq Callers
        BY Zenon DEF InSlots, InCalls
    <2>5. /\ Cardinality(InSlots(id)) \in Nat /\ Cardinality(InCalls(id)) \in Nat
          /\ Cardinality(InCalls(id) \ {t}) = Cardinality(InCalls(id)) - 1
        BY <2>2, <2>4, CountOne, Zenon
    <2>6. closed[id] + 1 + Cardinality(InSlots(id)) + Cardinality(InCalls(id) \ {t})
             = closed[id] + Cardinality(InSlots(id)) + Cardinality(InCalls(id))
        BY <1>7, <2>5
    <2>7. closed'[id] + Cardinality(InSlots(id)') + Cardinality(InCalls(id)') = IF id <= opened' THEN 1 ELSE 0
        BY <1>3, <1>4, <1>7, <2>1, <2>2, <2>6, Zenon DEF Balanced
    <2>8. ASSUME NEW i \in Ids, i # id
          PROVE  closed'[i] + Cardinality(InSlots(i)') + Cardinality(InCalls(i)') = IF i <= opened' THEN 1 ELSE 0
        BY <1>3, <1>7, <2>1, <2>3, <2>8, Zenon DEF Balanced
    <2> QED
        BY <2>7, <2>8, Zenon DEF Balanced
<1> QED
    BY <1>8, <1>10, <1>11, Zenon

\* The descriptor in a slot becomes another state of the same file.
LEMMA SameFileKeeps ==
    ASSUME FdInv, NEW t \in Callers, NEW fd \in Fds, NEW file, IsFile(fd_slots[fd].desc),
           IsFile(file), file.id = fd_slots[fd].desc.id,
           fd_slots' = [fd_slots EXCEPT ![fd].desc = file], opened' = opened, closed' = closed,
           \/ caller' = caller
           \/ Becomes(t, InUser) /\ caller[t].at \notin Carries \cup {"gone"}
    PROVE  FdInv'
<1> USE DEF FdInv
<1>1. PICK s : s = [fd_slots[fd] EXCEPT !.desc = file]
    BY Zenon
<1>2. fd_slots' = [fd_slots EXCEPT ![fd] = s] /\ IsSlot(fd_slots[fd])
    BY <1>1, Zenon DEF Shapes
<1>3. IsSlot(s) /\ s.desc = file /\ s.gen = fd_slots[fd].gen
    BY <1>1, <1>2, DescUpdate
<1>4. /\ fd_slots' = [f \in Fds |-> fd_slots'[f]] /\ fd_slots'[fd] = s
      /\ \A f \in Fds : f # fd => fd_slots'[f] = fd_slots[f]
      /\ \A f \in Fds : IsSlot(fd_slots'[f])
    BY <1>2, <1>3, SlotRow, Zenon
<1>5. \A d : Resolved(fd_slots, d) => Resolved(fd_slots', d)
    BY <1>3, <1>4, ResolvedKept, Zenon
<1>6. \A id \in Ids : InSlots(id)' = InSlots(id)
    BY <1>3, <1>4, FileShape, SameSlots
<1>7. CASE caller' = caller
    <2>1. Shapes'
        BY <1>4, <1>7, Zenon DEF Shapes
    <2>2. \A u \in Callers : caller[u].all => Alone(u)'
        <3> SUFFICES ASSUME NEW u \in Callers, Alone(u) PROVE Alone(u)'
            BY Zenon DEF Calls
        <3>1. \A f \in Fds : fd_slots[f].desc \in {Closed, Tty} => fd_slots'[f].desc \in {Closed, Tty}
            BY <1>4, FileShape, Zenon
        <3> QED
            BY <1>7, <3>1, Zenon DEF Alone
    <2>3. Calls'
        BY <1>5, <1>7, <2>2, Zenon DEF Calls
    <2>4. \A id \in Ids : InCalls(id)' = InCalls(id)
        BY <1>7, Zenon DEF InCalls
    <2> QED
        BY <1>6, <2>1, <2>3, <2>4, SameBalance, Zenon
<1>8. CASE Becomes(t, InUser) /\ caller[t].at \notin Carries \cup {"gone"}
    <2>1. PICK c : c = InUser
        BY Zenon
    <2>2. IsLocals(c) /\ c.at = "user" /\ ~ c.all /\ Becomes(t, c)
        BY <1>8, <2>1, FreeLocals, Zenon
    <2>3. /\ caller' = [u \in Callers |-> caller'[u]] /\ caller'[t] = c
          /\ \A u \in Callers : u # t => caller'[u] = caller[u]
          /\ \A u \in Callers : IsLocals(caller'[u])
        BY <2>2, BecomesRow, Zenon
    <2>4. Shapes'
        BY <1>4, <2>3, Zenon DEF Shapes
    <2>5. Calls'
        BY <1>5, <1>8, <2>2, StepCalls, Zenon DEF Carries, Uses
    <2>6. \A id \in Ids : InCalls(id)' = InCalls(id)
        BY <1>8, <2>2, <2>3, SameCalls, Zenon DEF Carries
    <2> QED
        BY <1>6, <2>4, <2>5, <2>6, SameBalance, Zenon
<1> QED
    BY <1>7, <1>8, Zenon

\* A commit that takes effect finds the file that was resolved.
LEMMA CommitFinds ==
    ASSUME FdInv, NEW t \in Callers, caller[t].at = "commit", fd_slots[caller[t].fd].gen = caller[t].gen
    PROVE  /\ caller[t].fd \in Fds /\ IsFile(fd_slots[caller[t].fd].desc) /\ IsFile(caller[t].file)
           /\ fd_slots[caller[t].fd].desc.id = caller[t].file.id
BY Zenon DEF FdInv, Calls, Resolved, Carries, Uses

LEMMA CommitKeeps ==
    ASSUME FdInv, NEW t \in Callers, commitFile(t)
    PROVE  FdInv'
<1>1. opened' = opened /\ closed' = closed /\ caller[t].at = "commit" /\ Becomes(t, InUser)
    BY Zenon DEF commitFile
<1>2. CASE fd_slots' = fd_slots
    BY <1>1, <1>2, OverKeeps, Zenon DEF Carries
<1>3. CASE /\ fd_slots[caller[t].fd].gen = caller[t].gen
           /\ fd_slots' = [fd_slots EXCEPT ![caller[t].fd].desc = caller[t].file]
    <2>1. PICK fd : fd = caller[t].fd
        BY Zenon
    <2>2. PICK file : file = caller[t].file
        BY Zenon
    <2>3. fd \in Fds /\ IsFile(fd_slots[fd].desc) /\ IsFile(file) /\ file.id = fd_slots[fd].desc.id
        BY <1>1, <1>3, <2>1, <2>2, CommitFinds, Zenon
    <2>4. fd_slots' = [fd_slots EXCEPT ![fd].desc = file]
        BY <1>3, <2>1, <2>2, Zenon
    <2> QED
        BY <1>1, <2>3, <2>4, SameFileKeeps, Zenon DEF Carries
<1> QED
    BY <1>2, <1>3, Zenon DEF commitFile

LEMMA LseekKeeps ==
    ASSUME FdInv, NEW t \in Callers, lseek(t)
    PROVE  FdInv'
<1>1. PICK fd \in Fds : fd_slots[fd].desc \notin {Closed, Tty} /\ \E o : fd_slots' = [fd_slots EXCEPT ![fd].desc.offset = o]
    BY Zenon DEF lseek
<1>2. PICK o : fd_slots' = [fd_slots EXCEPT ![fd].desc.offset = o]
    BY <1>1, Zenon
<1>3. PICK old : old = fd_slots[fd].desc
    BY Zenon
<1>4. IsFile(old)
    BY <1>1, <1>3, Zenon DEF FdInv, Shapes, IsSlot
<1>5. PICK file : file = [old EXCEPT !.offset = o]
    BY Zenon
<1>6. IsFile(file) /\ file.id = old.id
    BY <1>4, <1>5, FileUpdate, Zenon
<1>7. fd_slots' = [fd_slots EXCEPT ![fd].desc = file]
    BY <1>2, <1>3, <1>5, Zenon
<1>8. caller' = caller /\ opened' = opened /\ closed' = closed
    BY Zenon DEF lseek
<1> QED
    BY <1>3, <1>4, <1>6, <1>7, <1>8, SameFileKeeps, Zenon


LEMMA StepKeeps ==
    ASSUME SetCounts, FdInv, [FdNext]_dvars
    PROVE  FdInv'
<1>1. CASE UNCHANGED dvars
    <2>1. fd_slots' = fd_slots /\ caller' = caller /\ opened' = opened /\ closed' = closed
        BY <1>1, Zenon DEF dvars
    <2>2. Shapes' /\ Calls'
        BY <2>1, Zenon DEF FdInv, Shapes, Calls, Alone
    <2>3. \A id \in Ids : InSlots(id)' = InSlots(id) /\ InCalls(id)' = InCalls(id)
        BY <2>1, Zenon DEF InSlots, InCalls
    <2> QED
        BY <2>1, <2>2, <2>3, SameBalance, Zenon DEF FdInv
<1>2. ASSUME NEW t \in Callers,
             \/ open(t) \/ LookedUp(t) \/ insertFile(t)
             \/ close(t) \/ closeAll(t) \/ SyncNode(t) \/ CloseNode(t)
             \/ resolve(t) \/ Operate(t) \/ commitFile(t) \/ lseek(t)
      PROVE  FdInv'
    <2>1. CASE close(t)
        BY <2>1, CloseFdKeeps, Zenon DEF close
    <2> QED
        BY Zenon, <1>2, <2>1, OpenKeeps, LookedUpKeeps, InsertKeeps, CloseAllKeeps, SyncKeeps, CloseNodeKeeps,
           ResolveKeeps, OperateKeeps, CommitKeeps, LseekKeeps
<1> QED
    BY <1>1, <1>2, Zenon DEF FdNext

----------------------------------------------------------------------------
(* With the library's theorems on finite sets *)

INSTANCE FiniteSetTheorems

LEMMA SetsCount == SetCounts
<1>1. IsFiniteSet(Fds)
    BY FS_Interval, FdAssumption DEF Fds
<1>2. ASSUME NEW T, IsFiniteSet(T)
      PROVE  OneByOne(T)
    <2> SUFFICES ASSUME NEW S, S \subseteq T
                 PROVE  /\ Cardinality(S) \in Nat
                        /\ Cardinality(S) = 0 <=> S = {}
                        /\ \A x : x \notin S => Cardinality(S \cup {x}) = Cardinality(S) + 1
                        /\ \A x : x \in S => Cardinality(S \ {x}) = Cardinality(S) - 1
        BY Zenon DEF OneByOne
    <2>1. IsFiniteSet(S)
        BY <1>2, FS_Subset, Zenon
    <2> QED
        BY <2>1, FS_CardinalityType, FS_EmptySet, FS_AddElement, FS_RemoveElement, Zenon
<1> QED
    BY <1>1, <1>2, FdAssumption, ThreadAssumption, Zenon DEF SetCounts

\* The invariant holds of every behaviour of the table.
THEOREM FdInvHolds == FdSpec => []FdInv
<1>1. FdInit => FdInv
    BY SetsCount, InitFdInv, Zenon
<1>2. FdInv /\ [FdNext]_dvars => FdInv'
    BY SetsCount, StepKeeps, Zenon
<1> QED
    BY <1>1, <1>2, PTL DEF FdSpec

\* closeFd, TableFull and closeAll between them close every opened file at the
\* VFS once: the file is in one place, from which one thread takes it.
THEOREM FilesAreClosedOnce == FdSpec => []ClosedOnce
<1>1. FdInv => ClosedOnce
    <2> SUFFICES ASSUME FdInv, NEW id \in 1 .. opened
                 PROVE  closed[id] + Cardinality(InSlots(id)) + Cardinality(InCalls(id)) = 1
        BY Zenon DEF ClosedOnce, InSlots, InCalls, Carries
    <2>1. id \in Ids /\ id <= opened
        BY FdAssumption DEF FdInv, Shapes, Ids
    <2> QED
        BY <2>1, Zenon DEF FdInv, Balanced
<1> QED
    BY <1>1, FdInvHolds, PTL

\* commitFile changes a slot only while it holds the file that was resolved:
\* closeFd raises the generation, and nothing but the end of the process, when
\* no call is under way, resets it.
THEOREM StaleCommitsAreDropped == FdSpec => StaleCommitDropped
<1> DEFINE Dropped(t) ==
        caller[t].at = "commit" /\ caller'[t] # caller[t] =>
            LET desc == fd_slots[caller[t].fd].desc
            IN  \/ desc.kind = "file" /\ desc.id = caller[t].file.id
                \/ UNCHANGED fd_slots
<1>1. FdInv /\ [FdNext]_dvars => [\A t \in Callers : Dropped(t)]_dvars
    <2> SUFFICES ASSUME FdInv, FdNext, NEW t \in Callers,
                        caller[t].at = "commit", caller'[t] # caller[t]
                 PROVE  \/ /\ fd_slots[caller[t].fd].desc.kind = "file"
                           /\ fd_slots[caller[t].fd].desc.id = caller[t].file.id
                        \/ fd_slots' = fd_slots
        BY Zenon
    <2>1. PICK u \in Callers :
              \/ open(u) \/ LookedUp(u) \/ insertFile(u)
              \/ close(u) \/ closeAll(u) \/ SyncNode(u) \/ CloseNode(u)
              \/ resolve(u) \/ Operate(u) \/ commitFile(u) \/ lseek(u)
        BY Zenon DEF FdNext
    <2>2. caller = [v \in Callers |-> caller[v]]
        BY Zenon DEF FdInv, Shapes
    <2>3. ASSUME u # t PROVE FALSE
        <3>1. \A c : ~ Becomes(u, c)
            BY <2>2, <2>3, Zenon DEF Becomes
        <3>2. ~ closeAll(u)
            <4>1. caller # [v \in Callers |-> InUser]
                BY FreeLocals, Zenon
            <4>2. caller[u].at # "closeAll"
                BY <2>3, Zenon DEF FdInv, Calls, Alone
            <4> QED
                BY <4>1, <4>2, Zenon DEF closeAll
        <3>3. caller' # caller
            BY Zenon
        <3> QED
            BY <2>1, <3>1, <3>2, <3>3, Zenon DEF open, LookedUp, Opens, insertFile, TableFull, close, closeFd,
               SyncNode, CloseNode, resolve, Operate, commitFile, lseek
    <2>4. commitFile(t)
        <3>1. ~ closeAll(t)
            <4>1. caller # [v \in Callers |-> InUser]
                BY FreeLocals, Zenon
            <4> QED
                BY <4>1, Zenon DEF closeAll
        <3> QED
            BY <2>1, <2>3, <3>1, Zenon DEF open, LookedUp, insertFile, close, SyncNode, CloseNode, resolve, Operate, lseek
    <2>5. CASE fd_slots[caller[t].fd].gen = caller[t].gen
        BY <2>5, CommitFinds, FileShape, Zenon
    <2>6. CASE fd_slots[caller[t].fd].gen # caller[t].gen
        BY <2>4, <2>6, Zenon DEF commitFile
    <2> QED
        BY <2>5, <2>6, Zenon
<1> QED
    BY <1>1, FdInvHolds, PTL DEF FdSpec, StaleCommitDropped

\* The inductive invariant holds in every reachable state.
THEOREM ProcessInvariant == Spec => []ProcInv
  <1>1. Init => ProcInv
  BY SetsCount, InitInv, Zenon
<1>2. ProcInv /\ [Next]_vars => ProcInv'
  BY SetsCount, NextInv, Zenon
<1> QED
  BY <1>1, <1>2, PTL DEF Spec

\* References to the process, to its exit notification and to the object that
\* it was granted are never fewer than their holders: createThread(),
\* decrementReferenceCount() and the two services count them right.
THEOREM ReferencesAreCounted == Spec => []HoldersCounted
<1>1. ProcInv => HoldersCounted
  <2> SUFFICES ASSUME ProcInv PROVE HoldersCounted
    BY Zenon
  <2>1. /\ process.reference_count \in Nat /\ process.granted \in Nat /\ object \in Int
        /\ \A n \in Spawns : notify[n].refs \in Nat
    BY Zenon DEF ProcInv, ProcTypes, ProcessRecord, NotifyRecord
  <2>2. process.reference_count > 0 => process.allocated /\ process.listed
    <3> SUFFICES ASSUME process.reference_count > 0 PROVE process.allocated /\ process.listed
      BY Zenon
    <3>1. process.allocated
      BY DEF ProcInv, ReapInv
    <3>2. reaper.at \notin Reaping
      BY SetsCount, LastReferenceGone, <2>1
    <3>3. {"signal", "release"} \subseteq Reaping
      BY Zenon DEF Reaping
    <3> QED BY <3>1, <3>2, <3>3, Zenon DEF ProcInv, LifeInv
  <2>3. ASSUME NEW n \in Spawns
        PROVE  notify[n].refs >= Count(notify[n].handle) + Count(process.exit_notify = n)
    <3>1. CASE spawner.at = "resolve" /\ n = spawner.n
      <4>1. ~notify[n].handle /\ process.exit_notify # n
        BY <3>1, Zenon DEF ProcInv, NotifyInv, Fresh
      <4> QED BY <2>1, <4>1 DEF Count
    <3>2. CASE spawner.at # "resolve" \/ n # spawner.n
      BY <2>1, <3>2 DEF ProcInv, NotifyInv, Count
    <3> QED BY <3>1, <3>2, Zenon
  <2>4. process.reference_count =
          Cardinality(process.threads) + Count(cleaner.at = "deref")
            + Count(spawner.at \in {"grant", "thread", "deref"})
    BY Zenon DEF ProcInv, RefsInv, Creating
  <2>5. object >= 1 + process.granted + Count(spawner.at \in {"resolve", "create", "grant"})
    BY Zenon DEF ProcInv, ObjectInv
  <2> QED BY <2>2, <2>3, <2>4, <2>5, Zenon DEF HoldersCounted
<1> QED
  BY <1>1, ProcessInvariant, PTL

\* No panic or assertion of TaskCleanup, of the process cleanup service or of
\* create() fires, and no thread runs without its process.
THEOREM TeardownNeverPanics == Spec => []TeardownIsSafe
<1>1. ProcInv => TeardownIsSafe
  <2> SUFFICES ASSUME ProcInv PROVE TeardownIsSafe
    BY Zenon
  <2>1. ASSUME NEW t \in Threads
        PROVE  /\ thread[t].at \notin {"free", "dead"} => process.allocated /\ t \in process.threads
               /\ thread[t].todo \subseteq process.threads
               /\ thread[t].at = "exit" => ~thread[t].queued_for_cleanup
    <3>1. thread[t].at \in Live \cup {"free", "dead"} /\ "exit" \in Live
      BY Zenon DEF ProcInv, ProcTypes, ThreadRecord, Live
    <3>2. thread[t].at \in Live => t \in process.threads /\ ~thread[t].queued_for_cleanup
      BY Zenon DEF ProcInv, ThreadsInv
    <3>3. t \in process.threads => process.allocated
      BY SetsCount, ThreadKeepsProcess, Zenon
    <3>4. thread[t].todo \subseteq process.threads
      BY Zenon DEF ProcInv, ThreadsInv
    <3> QED BY <3>1, <3>2, <3>3, <3>4, Zenon
  <2>2. \A t \in process.threads : thread[t].at # "free"
    BY Zenon DEF ProcInv, ProcTypes, ProcessRecord, ThreadsInv
  <2>3. cleaner.at = "clean" =>
          thread[cleaner.task].queued_for_cleanup /\ cleaner.task \in process.threads
    BY Zenon DEF ProcInv, CleanerInv, ThreadsInv, Queued
  <2>4. reaper.incoming \in Nat /\ process.reference_count \in Nat
    BY Zenon DEF ProcInv, ProcTypes, ReaperRecord, ProcessRecord
  <2>5. {"clean", "remove", "signal", "release"} = Reaping /\ "grant" \in Creating
    BY Zenon DEF Reaping, Creating
  <2>6. cleaner.at = "enqueue" \/ spawner.at = "enqueue" => ~process.queued_for_cleanup
    <3> SUFFICES ASSUME cleaner.at = "enqueue" \/ spawner.at = "enqueue"
                 PROVE  ~process.queued_for_cleanup
      BY Zenon
    <3>1. Count(spawner.at = "enqueue") + Count(cleaner.at = "enqueue") + reaper.incoming
            + Count(reaper.at \in Reaping) = 1
      BY SetsCount, LastReferenceGone, Zenon
    <3>2. reaper.incoming = 0 /\ reaper.at \notin Reaping
      BY <2>4, <3>1 DEF Count
    <3> QED BY <2>5, <3>2, Zenon DEF ProcInv, LifeInv
  <2>7. reaper.at = "clean" => process.queued_for_cleanup
    BY Zenon DEF ProcInv, LifeInv
  <2>8. reaper.at = "remove" => process.listed /\ process.reference_count = 0
    BY <2>5, SetsCount, LastReferenceGone, Zenon DEF ProcInv, LifeInv
  <2>9. ASSUME ~process.allocated
        PROVE  /\ process.reference_count = 0 /\ ~process.queued_for_cleanup
               /\ process.exit_notify = 0 /\ process.threads = {} /\ ~process.listed
    <3>1. reaper.incoming = 0 /\ reaper.at \notin Reaping
      BY <2>9, SetsCount, LastReferenceGone, Zenon
    <3>2. process.threads = {}
      BY <2>9, SetsCount, ThreadKeepsProcess, Zenon
    <3> QED BY <2>5, <2>9, <3>1, <3>2, Zenon DEF ProcInv, ReapInv, LifeInv
  <2> QED BY <2>1, <2>2, <2>3, <2>6, <2>7, <2>8, <2>9, Zenon DEF TeardownIsSafe
<1> QED
  BY <1>1, ProcessInvariant, PTL

\* Whatever threads race to exit the process, wait_process returns the status
\* that the first of them recorded, unless process_kill overlaid it.
THEOREM FirstStatusIsDelivered == Spec => []StatusDelivered
<1>1. ProcInv => StatusDelivered
  BY Zenon DEF ProcInv, NotifyInv, StatusDelivered
<1> QED
  BY <1>1, ProcessInvariant, PTL

=============================================================================
