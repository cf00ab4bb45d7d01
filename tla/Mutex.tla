------------------------------- MODULE Mutex -------------------------------
(***************************************************************************)
(* The sleeping mutex of the kernel (sync/Mutex.zig) together with the     *)
(* wait queue it blocks on (sync/WaitQueue.zig).                           *)
(*                                                                         *)
(* Each task cycles through lock(), a critical section and unlock().  One  *)
(* action is one access to shared memory; the inner TicketSpinLock is an   *)
(* abstract lock here (TicketSpinLock.tla is about its implementation).    *)
(* A task that waits is taken off its executor; the deferred action that   *)
(* marks it blocked and releases the spinlock runs afterwards, on the      *)
(* scheduler's stack, so it is a step of its own.  A running task that     *)
(* holds no spinlock (interrupts enabled) can be preempted at any point.   *)
(***************************************************************************)
EXTENDS Naturals, Sequences

CONSTANTS
    Tasks,      \* the tasks that use the mutex
    None        \* the null task pointer

ASSUME NoneIsNoTask == None \notin Tasks

VARIABLES
    locked_by,      \* Mutex.locked_by: a task or None
    unlock_type,    \* Mutex.unlock_type
    spinlock,       \* owner of Mutex.spinlock, or None
    waiting_tasks,  \* Mutex.wait_queue, first waiter at the head
    waiter,         \* per task: the waiter unlock() popped (a local of unlock)
    state,          \* Task.state of each task
    pc              \* where each task is in lock() / unlock()

vars == <<locked_by, unlock_type, spinlock, waiting_tasks, waiter, state, pc>>

\* Program points.
LockPcs   == {"cas", "type", "spin", "cas2", "enqueue", "switch"}
HeldPcs   == {"release", "held", "uspin", "upop", "uplain", "upass", "ucas", "ucaspass"}
UnlockPcs == {"uwake", "urelease"}
Pcs       == {"idle"} \cup LockPcs \cup HeldPcs \cup UnlockPcs

Types ==
    /\ locked_by \in Tasks \cup {None}
    /\ unlock_type \in {"unlocked", "passed_to_waiter"}
    /\ spinlock \in Tasks \cup {None}
    /\ waiting_tasks \in Seq(Tasks)
    /\ waiter \in [Tasks -> Tasks \cup {None}]
    /\ state \in [Tasks -> {"running", "ready", "blocked"}]
    /\ pc \in [Tasks -> Pcs]

\* The variables have their types, and the queue is a proper list: each task
\* has one next_task_node, so it is linked at most once.
TypeOK ==
    /\ Types
    /\ \A i, j \in DOMAIN waiting_tasks :
          waiting_tasks[i] = waiting_tasks[j] => i = j

Init ==
    /\ locked_by = None
    /\ unlock_type = "unlocked"
    /\ spinlock = None
    /\ waiting_tasks = <<>>
    /\ waiter = [t \in Tasks |-> None]
    /\ state = [t \in Tasks |-> "running"]
    /\ pc = [t \in Tasks |-> "idle"]

\* Only a running task executes: t leaves program point from for to.
Goto(t, from, to) ==
    /\ state[t] = "running"
    /\ pc[t] = from
    /\ pc' = [pc EXCEPT ![t] = to]

----------------------------------------------------------------------------
(* lock() *)

StartLock(t) ==
    /\ Goto(t, "idle", "cas")
    /\ UNCHANGED <<locked_by, unlock_type, spinlock, waiting_tasks, waiter, state>>

\* cmpxchgWeak(null, me): it may fail although locked_by is null.
FastCas(t) ==
    /\ \/ Goto(t, "cas", "held") /\ locked_by = None /\ locked_by' = t
       \/ Goto(t, "cas", "spin") /\ locked_by # t /\ UNCHANGED locked_by
       \/ Goto(t, "cas", "type") /\ locked_by = t /\ UNCHANGED locked_by
    /\ UNCHANGED <<unlock_type, spinlock, waiting_tasks, waiter, state>>

\* The exchange returned the current task: the mutex was passed to it.
FastType(t) ==
    /\ Goto(t, "type", "held") /\ unlock_type = "passed_to_waiter"
    /\ UNCHANGED <<locked_by, unlock_type, spinlock, waiting_tasks, waiter, state>>

LockSpin(t) ==
    /\ Goto(t, "spin", "cas2")
    /\ spinlock = None
    /\ spinlock' = t
    /\ UNCHANGED <<locked_by, unlock_type, waiting_tasks, waiter, state>>

\* cmpxchgStrong(null, me) under the spinlock.  It cannot find the current
\* task (NoPanic), so the code's switch on that case has no disjunct here.
SlowCas(t) ==
    /\ \/ Goto(t, "cas2", "release") /\ locked_by = None /\ locked_by' = t
       \/ Goto(t, "cas2", "enqueue") /\ locked_by \notin {None, t} /\ UNCHANGED locked_by
    /\ UNCHANGED <<unlock_type, spinlock, waiting_tasks, waiter, state>>

SlowRelease(t) ==
    /\ Goto(t, "release", "held")
    /\ spinlock' = None
    /\ UNCHANGED <<locked_by, unlock_type, waiting_tasks, waiter, state>>

\* Mutants: wait() queues the task and drops the spinlock before the switch;
\* wait() queues it at the front.
EnqueueUnlocks(t) ==
    /\ Goto(t, "enqueue", "switch")
    /\ waiting_tasks' = Append(waiting_tasks, t)
    /\ spinlock' = None
    /\ UNCHANGED <<locked_by, unlock_type, waiter, state>>

EnqueueInFront(t) ==
    /\ Goto(t, "enqueue", "switch")
    /\ waiting_tasks' = <<t>> \o waiting_tasks
    /\ UNCHANGED <<locked_by, unlock_type, spinlock, waiter, state>>

\* WaitQueue.wait: the node is appended before the task leaves its executor.
Enqueue(t) ==
    /\ Goto(t, "enqueue", "switch")
    /\ waiting_tasks' = Append(waiting_tasks, t)
    /\ UNCHANGED <<locked_by, unlock_type, spinlock, waiter, state>>

\* The deferred action of WaitQueue.wait, once the task has been switched
\* away from: it is blocked and the spinlock is released on its behalf.  The
\* task continues in lock()'s loop when it is dispatched again.
DeferredBlock(t) ==
    /\ Goto(t, "switch", "cas")
    /\ state' = [state EXCEPT ![t] = "blocked"]
    /\ spinlock' = None
    /\ UNCHANGED <<locked_by, unlock_type, waiting_tasks, waiter>>

----------------------------------------------------------------------------
(* tryLock(): its panic needs a task that already owns the mutex. *)

TryLock(t) ==
    /\ \/ Goto(t, "idle", "held") /\ locked_by = None /\ locked_by' = t
       \/ Goto(t, "idle", "idle") /\ locked_by \notin {None, t} /\ UNCHANGED locked_by
    /\ UNCHANGED <<unlock_type, spinlock, waiting_tasks, waiter, state>>

----------------------------------------------------------------------------
(* unlock() *)

StartUnlock(t) ==
    /\ Goto(t, "held", "uspin")
    /\ UNCHANGED <<locked_by, unlock_type, spinlock, waiting_tasks, waiter, state>>

UnlockSpin(t) ==
    /\ Goto(t, "uspin", "upop")
    /\ spinlock = None
    /\ spinlock' = t
    /\ UNCHANGED <<locked_by, unlock_type, waiting_tasks, waiter, state>>

UnlockPop(t) ==
    /\ \/ /\ Goto(t, "upop", "uplain")
          /\ waiting_tasks = <<>>
          /\ UNCHANGED <<waiting_tasks, waiter>>
       \/ /\ Goto(t, "upop", "upass")
          /\ waiting_tasks # <<>>
          /\ waiter' = [waiter EXCEPT ![t] = Head(waiting_tasks)]
          /\ waiting_tasks' = Tail(waiting_tasks)
    /\ UNCHANGED <<locked_by, unlock_type, spinlock, state>>

UnlockType(t) ==
    /\ \/ Goto(t, "uplain", "ucas") /\ unlock_type' = "unlocked"
       \/ Goto(t, "upass", "ucaspass") /\ unlock_type' = "passed_to_waiter"
    /\ UNCHANGED <<locked_by, spinlock, waiting_tasks, waiter, state>>

\* cmpxchgStrong(me, null) or cmpxchgStrong(me, waiter).
UnlockCas(t) ==
    /\ \/ Goto(t, "ucas", "urelease") /\ locked_by = t /\ locked_by' = None
       \/ Goto(t, "ucaspass", "uwake") /\ locked_by = t /\ locked_by' = waiter[t]
    /\ UNCHANGED <<unlock_type, spinlock, waiting_tasks, waiter, state>>

\* Mutant: the new owner is not woken.
UnlockNoWake(t) ==
    /\ Goto(t, "uwake", "urelease")
    /\ waiter' = [waiter EXCEPT ![t] = None]
    /\ UNCHANGED <<locked_by, unlock_type, spinlock, waiting_tasks, state>>

\* wakeFromBlocked asserts that the task it wakes is blocked.
UnlockWake(t) ==
    /\ Goto(t, "uwake", "urelease")
    /\ state[waiter[t]] = "blocked"
    /\ state' = [state EXCEPT ![waiter[t]] = "ready"]
    /\ waiter' = [waiter EXCEPT ![t] = None]
    /\ UNCHANGED <<locked_by, unlock_type, spinlock, waiting_tasks>>

UnlockRelease(t) ==
    /\ Goto(t, "urelease", "idle")
    /\ spinlock' = None
    /\ UNCHANGED <<locked_by, unlock_type, waiting_tasks, waiter, state>>

----------------------------------------------------------------------------
(* The scheduler, as far as the mutex sees it. *)

\* A running task is preempted only while its interrupts are enabled, that is
\* while it neither holds the spinlock nor spins for it.
Preempt(t) ==
    /\ state[t] = "running"
    /\ spinlock # t
    /\ pc[t] \notin {"spin", "uspin"}
    /\ state' = [state EXCEPT ![t] = "ready"]
    /\ UNCHANGED <<locked_by, unlock_type, spinlock, waiting_tasks, waiter, pc>>

Dispatch(t) ==
    /\ state[t] = "ready"
    /\ state' = [state EXCEPT ![t] = "running"]
    /\ UNCHANGED <<locked_by, unlock_type, spinlock, waiting_tasks, waiter, pc>>

----------------------------------------------------------------------------

Lock(t) ==
    \/ FastCas(t) \/ FastType(t) \/ SlowCas(t)
    \/ SlowRelease(t) \/ Enqueue(t) \/ DeferredBlock(t)

Unlock(t) ==
    \/ StartUnlock(t) \/ UnlockPop(t) \/ UnlockType(t) \/ UnlockCas(t)
    \/ UnlockWake(t) \/ UnlockRelease(t)

Spin(t) == LockSpin(t) \/ UnlockSpin(t)

Next ==
    \E t \in Tasks :
        \/ StartLock(t) \/ TryLock(t)
        \/ Lock(t) \/ Unlock(t) \/ Spin(t)
        \/ Preempt(t) \/ Dispatch(t)

Spec == Init /\ [][Next]_vars

\* A task in the code below keeps running, the spinlock is FIFO (so a task
\* that spins gets it), a critical section ends, and a ready task is
\* dispatched again.  Preemption can recur, hence the strong fairness.
Fairness ==
    \A t \in Tasks :
        /\ SF_vars(Lock(t)) /\ SF_vars(Unlock(t)) /\ SF_vars(Spin(t))
        /\ WF_vars(Dispatch(t))

FairSpec == Spec /\ Fairness

----------------------------------------------------------------------------
(* Properties *)

\* A task owns the mutex from the return of lock() to the exchange in unlock().
Holds(t) == pc[t] \in HeldPcs

\* lock() is exclusive: two tasks are never past lock() and before the
\* exchange that gives the mutex up in unlock().
MutualExclusion ==
    \A t, u \in Tasks : Holds(t) /\ Holds(u) => t = u

\* None of the panics and assertions of lock(), tryLock(), unlock() and
\* wakeFromBlocked() fires for callers that never lock recursively: the
\* unlock_type read outside the spinlock is never stale, the exchange in
\* unlock() finds its own task, and the popped waiter is already blocked
\* although it was queued before it left its executor.
NoPanic ==
    \A t \in Tasks :
        /\ pc[t] = "type" => unlock_type = "passed_to_waiter"
        /\ pc[t] \in {"idle", "cas2"} => locked_by # t
        /\ pc[t] \in {"ucas", "ucaspass"} => locked_by = t
        /\ pc[t] = "uwake" => state[waiter[t]] = "blocked"

\* A free mutex has no waiters: unlock() cannot miss a task that is about to
\* wait, and no task that arrives later can barge past the queue.
WaitersHaveOwner == waiting_tasks # <<>> => locked_by # None

\* The mutex is passed on in queue order: a task that owns the mutex without
\* having returned from lock() was waiting, and nobody else owns it meanwhile.
HandoffIsExclusive ==
    \A t \in Tasks :
        locked_by = t /\ ~Holds(t) =>
            /\ unlock_type = "passed_to_waiter"
            /\ \A u \in Tasks : ~Holds(u)

\* No waiter is forgotten: a blocked task is in the queue, or an unlock() that
\* has popped it is on its way to wake it.
NoLostWaiter ==
    \A t \in Tasks :
        state[t] = "blocked" =>
            \/ \E i \in DOMAIN waiting_tasks : waiting_tasks[i] = t
            \/ \E u \in Tasks : waiter[u] = t /\ spinlock = u

\* The queue as the next owner sees it: a waiter that unlock() has popped but
\* not yet made the owner is still first in line.
PendingQueue ==
    IF spinlock # None /\ pc[spinlock] \in {"upass", "ucaspass"}
    THEN <<waiter[spinlock]>> \o waiting_tasks
    ELSE waiting_tasks

Abstract == INSTANCE FairLock WITH owner <- locked_by, queue <- PendingQueue

\* "A fair in order mutex" (Mutex.zig:1): ownership moves only as FairLock
\* allows, to a newcomer when nobody waits and otherwise to the first waiter.
IsFairLock == Abstract!Spec

\* Every lock() returns: no waiter is stranded and no fast path starves one.
LockReturns ==
    \A t \in Tasks : pc[t] = "cas" ~> pc[t] = "held"

============================================================================
