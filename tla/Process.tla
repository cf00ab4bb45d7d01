------------------------------ MODULE Process ------------------------------
(***************************************************************************)
(* A userspace process from spawn() to its teardown (user/Process.zig,     *)
(* user/Thread.zig, user/handlers/spawn.zig and process.zig, and           *)
(* task/core/TaskCleanup.zig).  A parent spawns one process after the      *)
(* other; the model has one slot of the process cache, which they reuse,   *)
(* and a few slots of the thread cache.  Two services tear down threads    *)
(* and processes that were given to them on lists, and sleep on a Parker,  *)
(* of which only what SleepProofs shows is used: an unpark() makes the     *)
(* next park() return.                                                     *)
(*                                                                         *)
(* threads_lock is held for writing only within one action; it is held for *)
(* reading by the thread that is at "mark".                                *)
(***************************************************************************)
EXTENDS Optional, Naturals, Sequences, FiniteSets

CONSTANTS
    Threads,        \* slots of the thread cache
    ExitStatuses,   \* exit statuses, as sets of bits of a notification
    KillStatus,     \* the status of process_kill
    MaxSpawns,      \* bound on calls of spawn()
    MaxKills,       \* bound on notifications that are killed
    MaxUnparks      \* bound on executors that are about to unpark the cleaner

ASSUME ThreadAssumption ==
    IsFiniteSet(Threads) /\ None \notin Threads /\ MaxSpawns \in Nat

VARIABLES
    process,        \* the slot of the process cache
    thread,         \* the slots of the thread cache
    cleaner,        \* the service that destroys threads
    reaper,         \* the service that destroys processes
    spawner,        \* the call of spawn() in progress in the parent
    notify,         \* the exit notification of each spawn
    object,         \* reference count of the object that the parent grants
    decided         \* history: the status of the first exit of each spawn

vars == <<process, thread, cleaner, reaper, spawner, notify, object, decided>>
parent == <<spawner, notify, object>>

Spawns == 1..MaxSpawns

\* A slot of the thread cache with the fields that init() gives them; what is
\* left in a slot that is free is never read.
Slot(at) ==
    [at |-> at, pending_kill |-> FALSE, status |-> {}, todo |-> {}, queued_for_cleanup |-> FALSE]

Init ==
    /\ process = [allocated |-> FALSE, reference_count |-> 0, listed |-> FALSE, threads |-> {},
                  terminating |-> FALSE, exit_status |-> {}, queued_for_cleanup |-> FALSE,
                  exit_notify |-> 0, granted |-> 0]
    /\ thread = [t \in Threads |-> Slot("free")]
    /\ cleaner = [at |-> "park", task |-> None, incoming |-> <<>>, unparks |-> 0, parker |-> FALSE]
    /\ reaper = [at |-> "park", incoming |-> 0, parker |-> FALSE]
    /\ spawner = [at |-> "idle", n |-> 0, ok |-> FALSE]
    /\ notify = [n \in Spawns |-> [refs |-> 0, pending |-> {}, signals |-> 0, handle |-> FALSE,
                                   killed |-> FALSE, returned |-> {}]]
    /\ object = 1
    /\ decided = [n \in Spawns |-> {}]

----------------------------------------------------------------------------

\* threads_lock may be taken for writing.
ThreadsUnlocked == \A t \in Threads : thread[t].at # "mark"

\* Whether decrementReferenceCount() is to queue the process.
LastReference == process.reference_count = 1

\* queueProcessForCleanup(), up to the unpark() at its end.
queueProcessForCleanup ==
    /\ process' = [process EXCEPT !.queued_for_cleanup = TRUE]
    /\ reaper' = [reaper EXCEPT !.incoming = @ + 1]

UnparkReaper ==
    reaper' = [reaper EXCEPT !.parker = TRUE]

\* createThread(): a slot is initialised, and under the lock the thread joins
\* the process and takes a reference.  Nobody sees the thread run before the
\* caller's queueTask(), which is part of this step.
NewThread == Slot("entry")

\* Mutant: the thread takes no reference to its process.
createThreadUnreferenced(t) ==
    /\ thread[t].at = "free" /\ ThreadsUnlocked
    /\ process' = [process EXCEPT !.threads = @ \cup {t}]

createThread(t) ==
    /\ thread[t].at = "free" /\ ThreadsUnlocked
    /\ process' = [process EXCEPT !.threads = @ \cup {t}, !.reference_count = @ + 1]

----------------------------------------------------------------------------
(* spawn() and spawnFromInitfs() in the parent *)

SpawnStep(from, to) ==
    /\ spawner.at = from
    /\ spawner' = [spawner EXCEPT !.at = to]

\* The handler resolves its grants against the parent's table: it holds a
\* reference for each, here for one.
ResolveGrants ==
    /\ spawner.at = "idle" /\ spawner.n < MaxSpawns
    /\ spawner' = [at |-> "resolve", n |-> spawner.n + 1, ok |-> FALSE]
    /\ object' = object + 1
    /\ UNCHANGED <<process, thread, cleaner, reaper, notify, decided>>

\* The file is missing or badly signed, or there is no memory for the
\* notification: an error is returned, and the grant's reference stays.
ResolveFails ==
    /\ SpawnStep("resolve", "idle")
    /\ UNCHANGED <<process, thread, cleaner, reaper, notify, object, decided>>

\* The notification is created with a reference for the caller and one for
\* the process.
CreateNotify ==
    /\ SpawnStep("resolve", "create")
    /\ notify' = [notify EXCEPT ![spawner.n].refs = 2]
    /\ UNCHANGED <<process, thread, cleaner, reaper, object, decided>>

\* create() fails: only the caller's reference to the notification goes.
CreateFails ==
    /\ SpawnStep("create", "idle")
    /\ notify' = [notify EXCEPT ![spawner.n].refs = @ - 1]
    /\ UNCHANGED <<process, thread, cleaner, reaper, object, decided>>

\* Mutant: the exit status of the slot's last process is not reset.
CreateStale ==
    /\ SpawnStep("create", "grant")
    /\ ~process.allocated
    /\ process' = [process EXCEPT !.allocated = TRUE, !.listed = TRUE, !.terminating = FALSE,
                                  !.reference_count = @ + 1]
    /\ UNCHANGED <<thread, cleaner, reaper, notify, object, decided>>

\* create(): a slot is taken from the cache, its stale fields are reset, and
\* the process is listed and referenced.
Create ==
    /\ SpawnStep("create", "grant")
    /\ ~process.allocated
    /\ process' = [process EXCEPT !.allocated = TRUE, !.listed = TRUE, !.terminating = FALSE,
                                  !.exit_status = {}, !.reference_count = @ + 1]
    /\ UNCHANGED <<thread, cleaner, reaper, notify, object, decided>>

\* The notification and the grant go to the child.  Its table is new and has
\* room for all grants (max_cap_grants).
GiveGrants ==
    /\ SpawnStep("grant", "thread")
    /\ process' = [process EXCEPT !.exit_notify = spawner.n, !.granted = @ + 1]
    /\ UNCHANGED <<thread, cleaner, reaper, notify, object, decided>>

\* The loader thread is created and queued, or there is no memory for it.
CreateLoader ==
    /\ spawner.at = "thread"
    /\ \/ \E t \in Threads :
             /\ createThread(t)
             /\ thread' = [thread EXCEPT ![t] = NewThread]
             /\ spawner' = [spawner EXCEPT !.at = "deref", !.ok = TRUE]
       \/ /\ SpawnStep("thread", "deref")
          /\ UNCHANGED <<process, thread>>
    /\ UNCHANGED <<cleaner, reaper, notify, object, decided>>

\* The reference of create() is dropped on the way out.
SpawnerDeref ==
    /\ SpawnStep("deref", IF LastReference THEN "enqueue" ELSE "finish")
    /\ process' = [process EXCEPT !.reference_count = @ - 1]
    /\ UNCHANGED <<thread, cleaner, reaper, notify, object, decided>>

SpawnerEnqueue ==
    /\ SpawnStep("enqueue", "unpark")
    /\ queueProcessForCleanup
    /\ UNCHANGED <<thread, cleaner, notify, object, decided>>

SpawnerUnpark ==
    /\ SpawnStep("unpark", "finish")
    /\ UnparkReaper
    /\ UNCHANGED <<process, thread, cleaner, notify, object, decided>>

\* The parent gets a handle to the notification, unless spawn failed or the
\* parent's table is full: then the caller's reference goes.
Finish ==
    /\ SpawnStep("finish", "idle")
    /\ \/ spawner.ok /\ notify' = [notify EXCEPT ![spawner.n].handle = TRUE]
       \/ notify' = [notify EXCEPT ![spawner.n].refs = @ - 1]
    /\ UNCHANGED <<process, thread, cleaner, reaper, object, decided>>

Spawner ==
    \/ ResolveFails \/ CreateNotify \/ CreateFails \/ Create \/ GiveGrants \/ CreateLoader
    \/ SpawnerDeref \/ SpawnerEnqueue \/ SpawnerUnpark \/ Finish

----------------------------------------------------------------------------
(* wait_process and process_kill in the parent *)

\* wait() or poll() finds the exit bit and takes it with the status.
WaitProcess(n) ==
    /\ notify[n].handle /\ "exit" \in notify[n].pending
    /\ notify' = [notify EXCEPT ![n].returned = notify[n].pending, ![n].pending = {}]
    /\ UNCHANGED <<process, thread, cleaner, reaper, spawner, object, decided>>

\* process_kill signals the notification, not the process.
ProcessKill(n) ==
    /\ notify[n].handle /\ ~notify[n].killed
    /\ Cardinality({m \in Spawns : notify[m].killed}) < MaxKills
    /\ notify' = [notify EXCEPT ![n].pending = @ \cup {"exit"} \cup KillStatus, ![n].killed = TRUE]
    /\ UNCHANGED <<process, thread, cleaner, reaper, spawner, object, decided>>

----------------------------------------------------------------------------
(* The threads of the process *)

ThreadStep(t, from, to) ==
    /\ thread[t].at = from
    /\ thread' = [thread EXCEPT ![t].at = to]

\* The kernel entry of a thread maps what it needs and enters user mode, for
\* which it does not look at pending_kill, or fails and returns.
Enter(t) ==
    /\ ThreadStep(t, "entry", "user") \/ ThreadStep(t, "entry", "exit")
    /\ UNCHANGED <<process, cleaner, reaper, parent, decided>>

exitThread(t) ==
    /\ ThreadStep(t, "user", "exit")
    /\ UNCHANGED <<process, cleaner, reaper, parent, decided>>

\* exit_process, or a fault that the kernel does not handle.
exitProcess(t) ==
    /\ thread[t].at = "user"
    /\ \E s \in ExitStatuses : thread' = [thread EXCEPT ![t].at = "cas", ![t].status = s]
    /\ UNCHANGED <<process, cleaner, reaper, parent, decided>>

\* spawn_thread creates a thread, or fails for want of memory.
spawnThread(t) ==
    /\ thread[t].at = "user"
    /\ \/ \E u \in Threads :
             /\ createThread(u)
             /\ thread' = [thread EXCEPT ![t].at = "return", ![u] = NewThread]
       \/ /\ ThreadStep(t, "user", "return")
          /\ UNCHANGED process
    /\ UNCHANGED <<cleaner, reaper, parent, decided>>

\* Any other system call may block, until something wakes the thread.
Block(t) ==
    /\ ThreadStep(t, "user", "blocked")
    /\ UNCHANGED <<process, cleaner, reaper, parent, decided>>

Wake(t) ==
    /\ ThreadStep(t, "blocked", "return")
    /\ UNCHANGED <<process, cleaner, reaper, parent, decided>>

\* checkPendingKill(): the return to user mode from a system call, or from an
\* interrupt taken in user mode.
checkPendingKill(t) ==
    /\ \/ /\ thread[t].at \in {"return", "user"} /\ thread[t].pending_kill
          /\ thread' = [thread EXCEPT ![t].at = "cas", ![t].pending_kill = FALSE,
                                      ![t].status = process.exit_status]
       \/ ~thread[t].pending_kill /\ ThreadStep(t, "return", "user")
    /\ UNCHANGED <<process, cleaner, reaper, parent, decided>>

\* terminateCallingThread(): the first to exchange `terminating` goes on to
\* record its status.
Terminating(t) ==
    /\ \/ /\ ~process.terminating
          /\ ThreadStep(t, "cas", "cascade")
          /\ process' = [process EXCEPT !.terminating = TRUE]
          /\ decided' = [decided EXCEPT ![process.exit_notify] = thread[t].status]
       \/ /\ process.terminating
          /\ thread[t].at = "cas"
          /\ thread' = [thread EXCEPT ![t].at = "exit", ![t].status = {}]
          /\ UNCHANGED <<process, decided>>
    /\ UNCHANGED <<cleaner, reaper, parent>>

\* The status is stored and threads_lock taken for reading.
Cascade(t) ==
    /\ thread[t].at = "cascade"
    /\ process' = [process EXCEPT !.exit_status = thread[t].status]
    /\ thread' = [thread EXCEPT ![t].at = "mark", ![t].status = {},
                                ![t].todo = process.threads \ {t}]
    /\ UNCHANGED <<cleaner, reaper, parent, decided>>

\* forceTerminateSiblings() marks one thread after the other; the lock is
\* released after the last.
forceTerminateSiblings(t) ==
    /\ thread[t].at = "mark"
    /\ \/ \E u \in thread[t].todo :
             thread' = [thread EXCEPT ![t].todo = @ \ {u}, ![u].pending_kill = TRUE]
       \/ thread[t].todo = {} /\ ThreadStep(t, "mark", "exit")
    /\ UNCHANGED <<process, cleaner, reaper, parent, decided>>

\* terminate(): once the thread has been switched away from, the executor
\* drops the task's own reference, the only one there is, and gives the task
\* to the cleanup service; the unpark() arrives later.
terminate(t) ==
    /\ thread[t].at = "exit" /\ cleaner.unparks < MaxUnparks
    /\ thread' = [thread EXCEPT ![t].at = "dead", ![t].queued_for_cleanup = TRUE]
    /\ cleaner' = [cleaner EXCEPT !.incoming = <<t>> \o @, !.unparks = @ + 1]
    /\ UNCHANGED <<process, reaper, parent, decided>>

----------------------------------------------------------------------------
(* The service that destroys threads *)

CleanerStep(from, to) ==
    /\ cleaner.at = from
    /\ cleaner' = [cleaner EXCEPT !.at = to]

\* The unpark() at the end of queueTaskForCleanup().
CleanerIsUnparked ==
    /\ cleaner.unparks > 0
    /\ cleaner' = [cleaner EXCEPT !.unparks = @ - 1, !.parker = TRUE]
    /\ UNCHANGED <<process, thread, reaper, parent, decided>>

\* execute(): the next task from the list, or park() when there is none.
CleanerPop ==
    /\ \/ /\ cleaner.at = "pop" /\ cleaner.incoming # <<>>
          /\ cleaner' = [cleaner EXCEPT !.at = "clean", !.task = Head(cleaner.incoming),
                                        !.incoming = Tail(@)]
       \/ /\ cleaner.incoming = <<>>
          /\ CleanerStep("pop", "park")
       \/ /\ cleaner.at = "park" /\ cleaner.parker
          /\ cleaner' = [cleaner EXCEPT !.at = "pop", !.parker = FALSE]
    /\ UNCHANGED <<process, thread, reaper, parent, decided>>

\* Mutant: the thread is removed without threads_lock.
cleanupTaskUnlocked ==
    /\ CleanerStep("clean", "deref")
    /\ thread' = [thread EXCEPT ![cleaner.task].queued_for_cleanup = FALSE]
    /\ process' = [process EXCEPT !.threads = @ \ {cleaner.task}]
    /\ UNCHANGED <<reaper, parent, decided>>

\* cleanupTask(), up to the release of threads_lock.  Nobody takes a reference
\* to a task, so the returns for one that is in use again are not reached.
cleanupTask ==
    /\ CleanerStep("clean", "deref")
    /\ ThreadsUnlocked
    /\ thread' = [thread EXCEPT ![cleaner.task].queued_for_cleanup = FALSE]
    /\ process' = [process EXCEPT !.threads = @ \ {cleaner.task}]
    /\ UNCHANGED <<reaper, parent, decided>>

CleanerDeref ==
    /\ CleanerStep("deref", IF LastReference THEN "enqueue" ELSE "destroy")
    /\ process' = [process EXCEPT !.reference_count = @ - 1]
    /\ UNCHANGED <<thread, reaper, parent, decided>>

CleanerEnqueue ==
    /\ CleanerStep("enqueue", "unpark")
    /\ queueProcessForCleanup
    /\ UNCHANGED <<thread, parent, decided>>

CleanerUnparks ==
    /\ CleanerStep("unpark", "destroy")
    /\ UnparkReaper
    /\ UNCHANGED <<process, thread, parent, decided>>

\* Mutant: the service parks after each task, with others on its list.
DestroyThreadParks ==
    /\ cleaner.at = "destroy"
    /\ cleaner' = [cleaner EXCEPT !.at = "park", !.task = None]
    /\ thread' = [thread EXCEPT ![cleaner.task] = Slot("free")]
    /\ UNCHANGED <<process, reaper, parent, decided>>

DestroyThread ==
    /\ cleaner.at = "destroy"
    /\ cleaner' = [cleaner EXCEPT !.at = "pop", !.task = None]
    /\ thread' = [thread EXCEPT ![cleaner.task] = Slot("free")]
    /\ UNCHANGED <<process, reaper, parent, decided>>

Cleaner ==
    \/ CleanerPop \/ cleanupTask \/ CleanerDeref \/ CleanerEnqueue \/ CleanerUnparks
    \/ DestroyThread

----------------------------------------------------------------------------
(* The service that destroys processes *)

ReaperStep(from, to) ==
    /\ reaper.at = from
    /\ reaper' = [reaper EXCEPT !.at = to]

\* execute(): the next process from the list, or park() when there is none.
ReaperPop ==
    /\ \/ /\ reaper.at = "pop" /\ reaper.incoming > 0
          /\ reaper' = [reaper EXCEPT !.at = "clean", !.incoming = @ - 1]
       \/ /\ reaper.incoming = 0
          /\ ReaperStep("pop", "park")
       \/ /\ reaper.at = "park" /\ reaper.parker
          /\ reaper' = [reaper EXCEPT !.at = "pop", !.parker = FALSE]
    /\ UNCHANGED <<process, thread, cleaner, parent, decided>>

\* cleanupProcess(): as for tasks, nobody takes a reference from zero.
cleanupProcess ==
    /\ ReaperStep("clean", "remove")
    /\ process' = [process EXCEPT !.queued_for_cleanup = FALSE]
    /\ UNCHANGED <<thread, cleaner, parent, decided>>

RemoveProcess ==
    /\ ReaperStep("remove", "signal")
    /\ process' = [process EXCEPT !.listed = FALSE]
    /\ UNCHANGED <<thread, cleaner, parent, decided>>

\* The watchers are told, and the process's reference to the notification goes.
SignalExit ==
    LET n == process.exit_notify IN
    /\ ReaperStep("signal", "release")
    /\ notify' = [notify EXCEPT ![n].pending = @ \cup {"exit"} \cup process.exit_status,
                                ![n].signals = @ + 1, ![n].refs = @ - 1]
    /\ process' = [process EXCEPT !.exit_notify = 0]
    /\ UNCHANGED <<thread, cleaner, spawner, object, decided>>

\* Files are closed, every capability is released, the address space is
\* emptied and the slot goes back to the cache.
Release ==
    /\ ReaperStep("release", "pop")
    /\ object' = object - process.granted
    /\ process' = [process EXCEPT !.granted = 0, !.threads = {}, !.allocated = FALSE]
    /\ UNCHANGED <<thread, cleaner, spawner, notify, decided>>

Reaper ==
    \/ ReaperPop \/ cleanupProcess \/ RemoveProcess \/ SignalExit \/ Release

----------------------------------------------------------------------------

\* What a thread does in the kernel, and what a program may do.
Kernel(t) ==
    \/ Enter(t) \/ checkPendingKill(t) \/ Terminating(t) \/ Cascade(t)
    \/ forceTerminateSiblings(t) \/ terminate(t)

Program(t) ==
    \/ exitThread(t) \/ exitProcess(t) \/ spawnThread(t) \/ Block(t) \/ Wake(t)

Next ==
    \/ ResolveGrants \/ Spawner
    \/ \E n \in Spawns : WaitProcess(n) \/ ProcessKill(n)
    \/ \E t \in Threads : Kernel(t) \/ Program(t)
    \/ CleanerIsUnparked \/ Cleaner \/ Reaper

Spec == Init /\ [][Next]_vars

\* Tasks in the kernel are scheduled, so that they finish what they do; what
\* a program does is up to it, and so is what wakes a thread.
Fairness ==
    /\ WF_vars(Spawner) /\ WF_vars(Cleaner) /\ WF_vars(Reaper)
    /\ WF_vars(CleanerIsUnparked)
    /\ \A t \in Threads : WF_vars(Kernel(t))

FairSpec == Spec /\ Fairness

----------------------------------------------------------------------------
(* Properties *)

Count(condition) == IF condition THEN 1 ELSE 0

\* References are counted: the process has one for each of its threads, for a
\* thread that was removed and is not accounted for yet, and for the spawner;
\* and the exit notification and the granted object never have fewer than
\* their holders, so that neither is freed while the process, the parent or
\* the spawner can still reach it.
HoldersCounted ==
    /\ process.reference_count =
          Cardinality(process.threads) + Count(cleaner.at = "deref")
            + Count(spawner.at \in {"grant", "thread", "deref"})
    /\ process.reference_count > 0 => process.allocated /\ process.listed
    /\ \A n \in Spawns :
          notify[n].refs >= Count(notify[n].handle) + Count(process.exit_notify = n)
    /\ object >= 1 + process.granted + Count(spawner.at \in {"resolve", "create", "grant"})

\* Nothing is given back while it is in use: a thread that runs belongs to an
\* allocated process, and siblings are marked only while they belong to it.
\* The panics and assertions of the two services and of create() cannot fire:
\* nothing is queued twice, what is removed is there, and a slot that is taken
\* from the cache was left idle.
TeardownIsSafe ==
    /\ \A t \in Threads :
          /\ thread[t].at \notin {"free", "dead"} => process.allocated /\ t \in process.threads
          /\ thread[t].todo \subseteq process.threads
          /\ thread[t].at = "exit" => ~thread[t].queued_for_cleanup
    /\ \A t \in process.threads : thread[t].at # "free"
    /\ cleaner.at = "clean" =>
          thread[cleaner.task].queued_for_cleanup /\ cleaner.task \in process.threads
    /\ cleaner.at = "enqueue" \/ spawner.at = "enqueue" => ~process.queued_for_cleanup
    /\ reaper.at = "clean" => process.queued_for_cleanup
    /\ reaper.at = "remove" => process.listed /\ process.reference_count = 0
    /\ ~process.allocated =>
          /\ process.reference_count = 0 /\ ~process.queued_for_cleanup
          /\ process.exit_notify = 0 /\ process.threads = {} /\ ~process.listed

\* wait_process returns the status of the exit that came first, "the recorded
\* status byte" (handlers/process.zig:73), or zero if no thread exited the
\* process; unless the notification was also killed.
StatusDelivered ==
    \A n \in Spawns :
        notify[n].returned # {} /\ ~notify[n].killed => notify[n].returned = {"exit"} \cup decided[n]

\* When the loader was created, or was not for want of memory, and every thread
\* of the process is on its way out, its watchers are told: the process lets go
\* of its notification, and who has a handle to one was signalled once.
Leaving ==
    /\ process.exit_notify # 0 /\ spawner.at # "thread"
    /\ \A t \in process.threads : thread[t].at \in {"exit", "dead"}

Told ==
    /\ process.exit_notify = 0
    /\ \A n \in Spawns : notify[n].handle => notify[n].signals = 1

ExitIsSignalled == Leaving ~> Told

\* "the first call's cascade already reaches every other sibling"
\* (Process.zig:248): when it is over, every thread of the process is marked
\* or is on its way out.
CascadeIsTotal ==
    process.terminating /\ (\A t \in Threads : thread[t].at \notin {"cascade", "mark"}) =>
        \A t \in process.threads :
            thread[t].pending_kill \/ thread[t].at \in {"cas", "exit", "dead"}

=============================================================================
