------------------------------ MODULE Scheduler ------------------------------
(***************************************************************************)
(* The multi-executor scheduler (task/Handle.zig, Scheduler.zig,           *)
(* Runqueue.zig, Task.wakeFromBlocked): switching between tasks under the  *)
(* scheduler lock of the executor, blocking through a deferred action,     *)
(* placing woken tasks on idle executors, stealing, and the handshake      *)
(* between the idle loop's halt and a waker.                               *)
(*                                                                         *)
(* An actor is a task or an executor, the latter standing for that         *)
(* executor's scheduler task (the idle loop and the deferred actions).     *)
(* Which fair task is picked is left open: the order of the EEVDF tree is  *)
(* not part of this module.  A step is what an actor does up to the next   *)
(* access to state that another executor can see without the lock.         *)
(***************************************************************************)
EXTENDS Machine, Optional, Naturals, FiniteSets

CONSTANTS
    SchedTasks,
    RtTasks,    \* tasks of the real-time class; the others are fair
    Pinned,     \* tasks that block with migration disabled
    Cleaner,    \* the task of the cleanup service
    Boot        \* the task that runs first

ASSUME TaskAssumption ==
    /\ IsFiniteSet(SchedTasks)
    /\ SchedTasks \cap Executors = {} /\ None \notin SchedTasks \cup Executors
    /\ RtTasks \subseteq SchedTasks /\ Pinned \subseteq SchedTasks
    /\ Boot \in SchedTasks /\ Cleaner \in (SchedTasks \cup {None}) \ ({Boot} \cup Pinned)

VARIABLES
    lock,           \* single_spin_lock: the executor that holds it
    queue,          \* the tasks in the runqueue
    nr_running,     \* the runqueue's count, and
    queued_hint,    \* its copy for other executors
    current_task,        \* the actor that runs on an executor
    idle,           \* the idle handshake flag
    ipi,            \* a reschedule IPI is pending
    missed,         \* an IPI was taken between the idle flag and the halt
    task_state,          \* of a task; "new" until it is first queued
    stealable,      \* of a task
    known_executor, \* where a task runs or ran last
    handle,         \* the scheduler a suspended yield() will unlock
    sched_pc, ret,        \* of an actor; where a task goes on after the current call
    task, target    \* the task and executor an actor's call is about

queueVars == <<queue, nr_running, queued_hint>>
taskVars == <<task_state, stealable, known_executor, handle>>
idleVars == <<idle, ipi, missed>>
schedVars == <<lock, queueVars, current_task, idleVars, taskVars, sched_pc, ret, task, target>>

----------------------------------------------------------------------------

Actors == SchedTasks \cup Executors

TaskPcs ==
    {"run", "put", "pick", "resume", "rederive", "block", "exit", "enlock", "enspin",
     "enqueue", "enunlock", "kick"}

IdlePcs ==
    {"loop", "next", "leave", "defer", "scan", "trysteal", "steal", "giveup", "stolen", "relock",
     "readd", "reunlock", "final", "check", "sleep", "prehalt", "halted", "awake"}

\* The scheduler's variables have their types.
SchedTypeOK ==
    /\ lock \in [Executors -> Executors \cup {None}]
    /\ queue \in [Executors -> SUBSET SchedTasks]
    /\ nr_running \in [Executors -> 0..Cardinality(SchedTasks)]
    /\ queued_hint \in [Executors -> 0..Cardinality(SchedTasks)]
    /\ current_task \in [Executors -> Actors]
    /\ idle \in [Executors -> BOOLEAN] /\ ipi \in [Executors -> BOOLEAN]
    /\ missed \in [Executors -> BOOLEAN]
    /\ task_state \in [SchedTasks -> {"new", "ready", "running", "blocked", "terminated"}]
    /\ stealable \in [SchedTasks -> BOOLEAN]
    /\ known_executor \in [SchedTasks -> Executors \cup {None}]
    /\ handle \in [SchedTasks -> Executors \cup {None}]
    /\ \A t \in SchedTasks : sched_pc[t] \in TaskPcs /\ ret[t] \in {"run", "enlock", "kick"}
    /\ \A e \in Executors : sched_pc[e] \in IdlePcs
    /\ task \in [Actors -> SchedTasks \cup {None}]
    /\ target \in [Actors -> Executors \cup {None}]

SchedInit ==
    \E boot \in Executors :
        /\ lock = [e \in Executors |-> None]
        /\ queue = [e \in Executors |-> {}]
        /\ nr_running = [e \in Executors |-> 0]
        /\ queued_hint = [e \in Executors |-> 0]
        /\ current_task = [e \in Executors |-> IF e = boot THEN Boot ELSE e]
        /\ idle = [e \in Executors |-> FALSE]
        /\ ipi = [e \in Executors |-> FALSE]
        /\ missed = [e \in Executors |-> FALSE]
        /\ task_state = [t \in SchedTasks |-> IF t = Boot THEN "running" ELSE "new"]
        /\ stealable = [t \in SchedTasks |-> FALSE]
        /\ known_executor = [t \in SchedTasks |-> IF t = Boot THEN boot ELSE None]
        /\ handle = [t \in SchedTasks |-> None]
        /\ sched_pc = [a \in Actors |->
                    IF a \in Executors THEN "loop" ELSE IF a = Boot THEN "run" ELSE "rederive"]
        /\ ret = [t \in SchedTasks |-> "run"]
        /\ task = [a \in Actors |-> None]
        /\ target = [a \in Actors |-> None]

----------------------------------------------------------------------------
(* Pieces of the actions *)

SchedGoto(a, from, to) == sched_pc[a] = from /\ sched_pc' = [sched_pc EXCEPT ![a] = to]

\* lock() disables interrupts and spins; the holder is the executor.
Lock(e, x) == lock[x] = None /\ lock' = [lock EXCEPT ![x] = e]

\* unlock() panics when the executor does not hold the lock: see NoPanic.
Unlock(x) == lock' = [lock EXCEPT ![x] = None]

\* Runqueue.enqueueTask() and the putPrev of both classes.
Add(x, t, steal) ==
    /\ queue' = [queue EXCEPT ![x] = @ \cup {t}]
    /\ nr_running' = [nr_running EXCEPT ![x] = @ + 1]
    /\ queued_hint' = [queued_hint EXCEPT ![x] = nr_running[x] + 1]
    /\ stealable' = [stealable EXCEPT ![t] = steal]

\* Mutant: the hint is not synchronised.
RemoveNoHint(x, t) ==
    /\ queue' = [queue EXCEPT ![x] = @ \ {t}]
    /\ nr_running' = [nr_running EXCEPT ![x] = @ - 1]
    /\ UNCHANGED queued_hint

\* dequeueTask(), and pickNext() followed by setNextRunning().
Remove(x, t) ==
    /\ queue' = [queue EXCEPT ![x] = @ \ {t}]
    /\ nr_running' = [nr_running EXCEPT ![x] = @ - 1]
    /\ queued_hint' = [queued_hint EXCEPT ![x] = nr_running[x] - 1]

\* pickNext(): a real-time task before a fair one.
Candidates(x) == IF queue[x] \cap RtTasks # {} THEN queue[x] \cap RtTasks ELSE queue[x]

\* The executor's current task becomes n.  It goes on where it was suspended.
SwitchTo(e, n, st) ==
    /\ current_task' = [current_task EXCEPT ![e] = n]
    /\ task_state' = [st EXCEPT ![n] = "running"]
    /\ known_executor' = [known_executor EXCEPT ![n] = e]

----------------------------------------------------------------------------
(* Tasks: Runs(e, t) is task t executing on e *)

RunsOn(e, t) == current_task[e] = t

\* yield() by the task itself, or by a timer interrupt at a point where
\* interrupts are enabled: between the steps of a wake-up too, but a tick does
\* not preempt a real-time task.
YieldLock(e, t) ==
    /\ RunsOn(e, t)
    /\ sched_pc[t] \in (IF t \in RtTasks THEN {"run"} ELSE {"run", "enlock", "kick"})
    /\ Lock(e, e)
    /\ sched_pc' = [sched_pc EXCEPT ![t] = "put"]
    /\ ret' = [ret EXCEPT ![t] = sched_pc[t]]
    /\ handle' = [handle EXCEPT ![t] = e]
    /\ UNCHANGED <<queueVars, current_task, idleVars, task_state, stealable, known_executor, task,
                   target>>

\* Mutant: the yielding task is queued as one that may be stolen.
YieldPutStealable(e, t) ==
    /\ RunsOn(e, t)
    /\ SchedGoto(t, "put", "pick")
    /\ task_state' = [task_state EXCEPT ![t] = "ready"]
    /\ Add(e, t, TRUE)
    /\ UNCHANGED <<lock, current_task, idleVars, known_executor, handle, ret, task, target>>

YieldPut(e, t) ==
    /\ RunsOn(e, t)
    /\ SchedGoto(t, "put", "pick")
    /\ task_state' = [task_state EXCEPT ![t] = "ready"]
    /\ Add(e, t, FALSE)
    /\ UNCHANGED <<lock, current_task, idleVars, known_executor, handle, ret, task, target>>

\* The task picked may be the yielding one.
YieldPick(e, t) ==
    /\ RunsOn(e, t)
    /\ SchedGoto(t, "pick", "resume")
    /\ \E n \in Candidates(e) : Remove(e, n) /\ SwitchTo(e, n, task_state)
    /\ UNCHANGED <<lock, idleVars, stealable, handle, ret, task, target>>

\* A task that has been switched to holds the lock of the executor it runs on.
\* After yield() it unlocks the handle it took before; a fresh task, and one
\* returning from block(), asks which executor it is on.
Unlocks(e, t) == IF sched_pc[t] = "resume" THEN handle[t] ELSE e

Resume(e, t) ==
    /\ RunsOn(e, t) /\ sched_pc[t] \in {"resume", "rederive"}
    /\ Unlock(Unlocks(e, t))
    /\ sched_pc' = [sched_pc EXCEPT ![t] = ret[t]]
    /\ ret' = [ret EXCEPT ![t] = "run"]
    /\ handle' = [handle EXCEPT ![t] = None]
    /\ UNCHANGED <<queueVars, current_task, idleVars, task_state, stealable, known_executor, task,
                   target>>

\* block() and terminate(), until the task's stack is left: the scheduler task
\* takes over with the lock held, the next task already out of the queue.
DropLock(e, t) ==
    /\ RunsOn(e, t)
    /\ \/ SchedGoto(t, "run", "block")
       \/ t \notin {Boot, Cleaner} /\ SchedGoto(t, "run", "exit")
    /\ Lock(e, e)
    /\ UNCHANGED <<queueVars, current_task, idleVars, taskVars, ret, task, target>>

Drop(e, t) ==
    /\ RunsOn(e, t) /\ sched_pc[t] \in {"block", "exit"}
    /\ stealable' = [stealable EXCEPT ![t] = FALSE]
    /\ current_task' = [current_task EXCEPT ![e] = e]
    /\ sched_pc' = [sched_pc EXCEPT ![e] = "defer"]
    /\ \/ queue[e] = {} /\ task' = [task EXCEPT ![e] = None] /\ UNCHANGED queueVars
       \/ \E n \in Candidates(e) : Remove(e, n) /\ task' = [task EXCEPT ![e] = n]
    /\ UNCHANGED <<lock, idleVars, task_state, known_executor, handle, ret, target>>

\* wakeFromBlocked(): the task is claimed and its executor chosen: its own if
\* it is pinned, an idle one if another executor says it is idle, else the
\* waker's.  A new task may be queued on any executor.
Idle(e) == {x \in Executors \ {e} : idle[x]}

Wake(e, t) ==
    /\ RunsOn(e, t)
    /\ SchedGoto(t, "run", "enlock")
    /\ \E u \in SchedTasks, x \in Executors :
          /\ \/ task_state[u] = "new"
             \/ /\ task_state[u] = "blocked"
                /\ CASE u \in Pinned -> x = known_executor[u]
                     [] u \notin Pinned /\ Idle(e) # {} -> x \in Idle(e)
                     [] OTHER -> x = e
          /\ task_state' = [task_state EXCEPT ![u] = "ready"]
          /\ task' = [task EXCEPT ![t] = u]
          /\ target' = [target EXCEPT ![t] = x]
    /\ UNCHANGED <<lock, queueVars, current_task, idleVars, stealable, known_executor, handle, ret>>

\* lock() disables interrupts before it spins.
EnqueueSpin(e, t) ==
    /\ RunsOn(e, t)
    /\ SchedGoto(t, "enlock", "enspin")
    /\ UNCHANGED <<lock, queueVars, current_task, idleVars, taskVars, ret, task, target>>

EnqueueLock(e, t) ==
    /\ RunsOn(e, t)
    /\ SchedGoto(t, "enspin", "enqueue")
    /\ Lock(e, target[t])
    /\ UNCHANGED <<queueVars, current_task, idleVars, taskVars, ret, task, target>>

Enqueue(e, t) ==
    /\ RunsOn(e, t)
    /\ SchedGoto(t, "enqueue", "enunlock")
    /\ Add(target[t], task[t], TRUE)
    /\ task' = [task EXCEPT ![t] = None]
    /\ UNCHANGED <<lock, current_task, idleVars, task_state, known_executor, handle, ret, target>>

EnqueueUnlock(e, t) ==
    /\ RunsOn(e, t) /\ sched_pc[t] = "enunlock"
    /\ Unlock(target[t])
    /\ \/ target[t] # e /\ SchedGoto(t, "enunlock", "kick") /\ UNCHANGED target
       \/ /\ target[t] = e /\ SchedGoto(t, "enunlock", "run")
          /\ target' = [target EXCEPT ![t] = None]
    /\ UNCHANGED <<queueVars, current_task, idleVars, taskVars, ret, task>>

\* Mutant: the executor is not kicked out of its halt.
KickNot(e, t) ==
    /\ RunsOn(e, t)
    /\ SchedGoto(t, "kick", "run")
    /\ target' = [target EXCEPT ![t] = None]
    /\ UNCHANGED <<lock, queueVars, current_task, idleVars, taskVars, ret, task>>

\* kickIfIdle()
Kick(e, t) ==
    /\ RunsOn(e, t)
    /\ SchedGoto(t, "kick", "run")
    /\ ipi' = [ipi EXCEPT ![target[t]] = @ \/ idle[target[t]]]
    /\ target' = [target EXCEPT ![t] = None]
    /\ UNCHANGED <<lock, queueVars, current_task, idle, missed, taskVars, ret, task>>

----------------------------------------------------------------------------
(* The scheduler task of executor e *)

Sched(e, from, to) == current_task[e] = e /\ SchedGoto(e, from, to)

\* The old task: the one that was switched away from on e and not resumed.
Dropped(e) == {t \in SchedTasks : sched_pc[t] \in {"block", "exit"} /\ known_executor[t] = e}

\* The deferred action.  Terminating a task hands it to the cleanup service,
\* whose parked task is woken with the lock held, so on this executor.
Deferred(e) ==
    /\ current_task[e] = e /\ sched_pc[e] = "defer"
    /\ \E t \in Dropped(e) :
          LET wake == sched_pc[t] = "exit" /\ Cleaner # None /\ task_state[Cleaner] = "blocked"
              final == IF sched_pc[t] = "exit" THEN "terminated" ELSE "blocked"
              st == [u \in SchedTasks |->
                        IF u = t THEN final
                        ELSE IF wake /\ u = Cleaner THEN "ready" ELSE task_state[u]]
          IN  /\ sched_pc' = [sched_pc EXCEPT ![t] = "rederive",
                                  ![e] = IF task[e] = None THEN "leave" ELSE "loop"]
              /\ \/ wake /\ Add(e, Cleaner, TRUE)
                 \/ ~wake /\ UNCHANGED <<queueVars, stealable>>
              /\ \/ task[e] # None /\ SwitchTo(e, task[e], st)
                 \/ /\ task[e] = None /\ task_state' = st
                    /\ UNCHANGED <<current_task, known_executor>>
    /\ task' = [task EXCEPT ![e] = None]
    /\ UNCHANGED <<lock, idleVars, handle, ret, target>>

\* The idle loop: pick a task under the lock.
IdleLock(e) ==
    /\ Sched(e, "loop", "next") /\ Lock(e, e)
    /\ UNCHANGED <<queueVars, current_task, idleVars, taskVars, ret, task, target>>

IdlePick(e) ==
    /\ \E n \in Candidates(e) : Remove(e, n) /\ SwitchTo(e, n, task_state)
    /\ Sched(e, "next", "loop")
    /\ UNCHANGED <<lock, idleVars, stealable, handle, ret, task, target>>

IdleNone(e) ==
    /\ queue[e] = {}
    /\ Sched(e, "next", "scan") /\ Unlock(e)
    /\ UNCHANGED <<queueVars, current_task, idleVars, taskVars, ret, task, target>>

\* idle() entered from a deferred action unlocks first.
IdleEntry(e) ==
    /\ Sched(e, "leave", "loop") /\ Unlock(e)
    /\ UNCHANGED <<queueVars, current_task, idleVars, taskVars, ret, task, target>>

\* tryStealOne(): the victim is chosen by the hints, without a lock.
Busiest(e) ==
    {x \in Executors \ {e} :
        queued_hint[x] > 0 /\ \A y \in Executors \ {e} : queued_hint[y] <= queued_hint[x]}

StealScan(e) ==
    /\ \/ /\ Busiest(e) = {} /\ Sched(e, "scan", "final") /\ UNCHANGED target
       \/ \E x \in Busiest(e) :
             Sched(e, "scan", "trysteal") /\ target' = [target EXCEPT ![e] = x]
    /\ UNCHANGED <<lock, queueVars, current_task, idleVars, taskVars, ret, task>>

StealTryLock(e) ==
    /\ \/ Sched(e, "trysteal", "steal") /\ Lock(e, target[e]) /\ UNCHANGED target
       \/ /\ Sched(e, "trysteal", "final") /\ lock[target[e]] # None /\ UNCHANGED lock
          /\ target' = [target EXCEPT ![e] = None]
    /\ UNCHANGED <<queueVars, current_task, idleVars, taskVars, ret, task>>

\* findStealable(): fair, marked stealable and with migration enabled.
\* Mutant: migration is not looked at.
StealableAny(x) == {t \in queue[x] \ RtTasks : stealable[t]}

Stealable(x) == {t \in queue[x] \ RtTasks : stealable[t] /\ t \notin Pinned}

\* Mutant: the stolen task stays in the victim's queue.
StealCopy(e) ==
    /\ current_task[e] = e /\ sched_pc[e] = "steal"
    /\ \/ Stealable(target[e]) = {} /\ Sched(e, "steal", "giveup") /\ UNCHANGED task
       \/ \E t \in Stealable(target[e]) :
             Sched(e, "steal", "stolen") /\ task' = [task EXCEPT ![e] = t]
    /\ UNCHANGED <<lock, queueVars, current_task, idleVars, taskVars, ret, target>>

StealTake(e) ==
    /\ current_task[e] = e /\ sched_pc[e] = "steal"
    /\ \/ /\ Stealable(target[e]) = {} /\ Sched(e, "steal", "giveup")
          /\ UNCHANGED <<queueVars, task>>
       \/ \E t \in Stealable(target[e]) :
             Sched(e, "steal", "stolen") /\ Remove(target[e], t) /\ task' = [task EXCEPT ![e] = t]
    /\ UNCHANGED <<lock, current_task, idleVars, taskVars, ret, target>>

\* Mutant: the victim stays locked while the thief locks its own scheduler.
StealKeepLock(e) ==
    /\ \/ Sched(e, "giveup", "final") /\ Unlock(target[e])
       \/ Sched(e, "stolen", "relock") /\ UNCHANGED lock
    /\ UNCHANGED <<queueVars, current_task, idleVars, taskVars, ret, task, target>>

StealUnlock(e) ==
    /\ Sched(e, "giveup", "final") \/ Sched(e, "stolen", "relock")
    /\ Unlock(target[e])
    /\ target' = [target EXCEPT ![e] = None]
    /\ UNCHANGED <<queueVars, current_task, idleVars, taskVars, ret, task>>

StealRelock(e) ==
    /\ Sched(e, "relock", "readd") /\ Lock(e, e)
    /\ UNCHANGED <<queueVars, current_task, idleVars, taskVars, ret, task, target>>

StealAdd(e) ==
    /\ Sched(e, "readd", "reunlock")
    /\ Add(e, task[e], TRUE)
    /\ task' = [task EXCEPT ![e] = None]
    /\ UNCHANGED <<lock, current_task, idleVars, task_state, known_executor, handle, ret, target>>

StealDone(e) ==
    /\ Sched(e, "reunlock", "loop") /\ Unlock(e)
    /\ UNCHANGED <<queueVars, current_task, idleVars, taskVars, ret, task, target>>

\* The handshake: the last look at the queue and the flag are under the lock.
FinalLock(e) ==
    /\ Sched(e, "final", "check") /\ Lock(e, e)
    /\ UNCHANGED <<queueVars, current_task, idleVars, taskVars, ret, task, target>>

FinalRetry(e) ==
    /\ queue[e] # {}
    /\ Sched(e, "check", "loop") /\ Unlock(e)
    /\ UNCHANGED <<queueVars, current_task, idleVars, taskVars, ret, task, target>>

DeclareIdle(e) ==
    /\ queue[e] = {}
    /\ Sched(e, "check", "sleep")
    /\ idle' = [idle EXCEPT ![e] = TRUE]
    /\ UNCHANGED <<lock, queueVars, current_task, ipi, missed, taskVars, ret, task, target>>

FinalUnlock(e) ==
    /\ Sched(e, "sleep", "prehalt") /\ Unlock(e)
    /\ UNCHANGED <<queueVars, current_task, idleVars, taskVars, ret, task, target>>

\* The processor halts unless an interrupt is already pending, and stays
\* halted until one comes: the 5 ms tick or a reschedule IPI.
Halt(e) ==
    /\ ~ipi[e] /\ Sched(e, "prehalt", "halted")
    /\ UNCHANGED <<lock, queueVars, current_task, idleVars, taskVars, ret, task, target>>

Tick(e) ==
    /\ Sched(e, "halted", "awake")
    /\ UNCHANGED <<lock, queueVars, current_task, idleVars, taskVars, ret, task, target>>

\* The handler of the IPI is empty: its only effect is to end a halt.
Interruptible(e) ==
    sched_pc[current_task[e]] \in {"run", "enlock", "kick", "loop", "scan", "trysteal", "relock",
                                   "final", "prehalt", "halted", "awake"}

TakeIpi(e) ==
    /\ ipi[e] /\ Interruptible(e)
    /\ ipi' = [ipi EXCEPT ![e] = FALSE]
    /\ \/ Sched(e, "halted", "awake") /\ UNCHANGED missed
       \/ Sched(e, "prehalt", "prehalt") /\ missed' = [missed EXCEPT ![e] = TRUE]
       \/ /\ current_task[e] = e => sched_pc[e] \notin {"halted", "prehalt"}
          /\ UNCHANGED <<sched_pc, missed>>
    /\ UNCHANGED <<lock, queueVars, current_task, idle, taskVars, ret, task, target>>

Awake(e) ==
    /\ Sched(e, "awake", "loop")
    /\ idle' = [idle EXCEPT ![e] = FALSE]
    /\ missed' = [missed EXCEPT ![e] = FALSE]
    /\ UNCHANGED <<lock, queueVars, current_task, ipi, taskVars, ret, task, target>>

----------------------------------------------------------------------------

TaskStep(e, t) ==
    \/ YieldPut(e, t) \/ YieldPick(e, t) \/ Resume(e, t) \/ Drop(e, t)
    \/ EnqueueSpin(e, t) \/ EnqueueLock(e, t) \/ Enqueue(e, t) \/ EnqueueUnlock(e, t) \/ Kick(e, t)

\* What a task does of its own accord, or is made to do by the timer.
TaskCall(e, t) == YieldLock(e, t) \/ DropLock(e, t) \/ Wake(e, t)

IdleStep(e) ==
    \/ Deferred(e) \/ IdleEntry(e) \/ IdleLock(e) \/ IdlePick(e) \/ IdleNone(e)
    \/ StealScan(e) \/ StealTryLock(e) \/ StealTake(e) \/ StealUnlock(e) \/ StealRelock(e)
    \/ StealAdd(e) \/ StealDone(e) \/ FinalLock(e) \/ FinalRetry(e) \/ DeclareIdle(e)
    \/ FinalUnlock(e) \/ Halt(e) \/ Tick(e) \/ TakeIpi(e) \/ Awake(e)

SchedNext ==
    \E e \in Executors :
        \/ IdleStep(e)
        \/ \E t \in SchedTasks : TaskStep(e, t) \/ TaskCall(e, t)

SchedSpec == SchedInit /\ [][SchedNext]_schedVars

----------------------------------------------------------------------------
(* Properties *)

\* Where a task is: running on an executor, in a runqueue, being placed by a
\* waker, a thief or a deferred action.
Places(t) ==
    {<<"on", e>> : e \in {e \in Executors : current_task[e] = t}}
    \cup {<<"in", e>> : e \in {e \in Executors : t \in queue[e]}}
    \cup {<<"by", a>> : a \in {a \in Actors : task[a] = t}}

\* A runnable task is in exactly one place, so that it neither runs twice nor
\* is forgotten, and one that is blocked, new or dead is in none.  Only between
\* putPrev and the next pick is a yielding task both current and queued, and
\* only its executor knows.
InOnePlace ==
    \A t \in SchedTasks :
        IF task_state[t] \in {"new", "blocked", "terminated"} THEN Places(t) = {}
        ELSE IF sched_pc[t] = "pick" THEN
            \E e \in Executors : Places(t) = {<<"on", e>>, <<"in", e>>}
        ELSE IF sched_pc[t] \in {"block", "exit"} THEN
            Places(t) = {} <=> \E e \in Executors : known_executor[t] = e /\ sched_pc[e] = "defer"
        ELSE Cardinality(Places(t)) = 1

\* Assertions and panics of the scheduler: a lock is released by the executor
\* that holds it and never locked again by it, queued tasks are ready, the
\* runqueue's count never underflows, and a task that was switched to finds its
\* executor locked.
NoPanic ==
    /\ \A e \in Executors, t \in SchedTasks :
          /\ t \in queue[e] => task_state[t] = "ready"
          /\ RunsOn(e, t) /\ sched_pc[t] \in {"resume", "rederive"} => lock[Unlocks(e, t)] = e
          /\ RunsOn(e, t) /\ sched_pc[t] \in {"put", "pick", "block", "exit"} => lock[e] = e
          /\ RunsOn(e, t) /\ sched_pc[t] \in {"enqueue", "enunlock"} => lock[target[t]] = e
          /\ RunsOn(e, t) /\ sched_pc[t] \in {"run", "enlock", "enspin", "kick"} =>
                \A x \in Executors : lock[x] # e
          /\ RunsOn(e, t) /\ sched_pc[t] = "enqueue" => task_state[task[t]] = "ready"
    /\ \A e \in Executors :
          /\ current_task[e] = e
               /\ sched_pc[e] \in {"next", "leave", "defer", "readd", "reunlock", "check", "sleep"} =>
                lock[e] = e
          /\ current_task[e] = e /\ sched_pc[e] \in {"steal", "giveup", "stolen"} =>
                lock[target[e]] = e

\* The count, and the hint that thieves read, agree with the queue at all times.
CountsAgree ==
    /\ SchedTypeOK
    /\ \A e \in Executors : nr_running[e] = Cardinality(queue[e]) /\ queued_hint[e] = nr_running[e]

\* Scheduler.zig:122 "no path in the kernel ever holds two scheduler locks at
\* the same time", whichever actors share an executor.
OneSchedulerLock ==
    \A x, y \in Executors : x # y /\ lock[x] # None => lock[x] # lock[y]

\* A task that blocks with migration disabled only runs and queues on the
\* executor that it was on, wakers and thieves notwithstanding.
PinnedStays ==
    \A t \in Pinned, e \in Executors :
        known_executor[t] # None /\ (current_task[e] = t \/ t \in queue[e]) =>
            known_executor[t] = e

\* A task runs on or queues at one executor, a pinned one always the same, and
\* the runqueue's counts, which thieves read without the lock, agree with it.
OnePlace == InOnePlace /\ CountsAgree /\ PinnedStays

\* No assertion or panic of the scheduler fires, and no executor ever holds two
\* scheduler locks.
SchedulerSound == NoPanic /\ OneSchedulerLock

\* A halted executor with work has an interrupt coming: one is pending, or the
\* waker that queued the task has yet to kick, or the IPI came in the window
\* before the halt, which Handle.zig:504 leaves to the tick.
HaltSeesWork ==
    \A e \in Executors :
        current_task[e] = e /\ sched_pc[e] = "halted" /\ queue[e] # {} =>
            \/ ipi[e] \/ missed[e]
            \/ \E t \in SchedTasks :
                  target[t] = e /\ (sched_pc[t] \in {"enunlock", "kick"} \/ ret[t] = "kick")

=============================================================================
