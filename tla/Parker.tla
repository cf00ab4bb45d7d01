------------------------------- MODULE Parker -------------------------------
(***************************************************************************)
(* One task parks, others unpark it (sync/Parker.zig).  The cleanup        *)
(* services of tasks and processes sleep on a Parker.  One action is one   *)
(* access to shared memory; the parker's TicketSpinLock is an abstract     *)
(* lock.  The deferred action that marks the task blocked runs after the   *)
(* task has been switched away from.                                       *)
(***************************************************************************)
EXTENDS Optional, Naturals

CONSTANTS
    Unparkers,      \* the tasks that call unpark()
    Sleeper,        \* the task that calls park()
    MaxAttempts     \* bound on unpark_attempts (a usize in the code)

ASSUME ParkerAssumption ==
    /\ Sleeper \notin Unparkers /\ None \notin Unparkers \cup {Sleeper}
    /\ MaxAttempts \in Nat \ {0}

VARIABLES
    unpark_attempts,
    lock,           \* owner of Parker.lock, or None
    parked_task,    \* Sleeper or None
    state,          \* Task.state of the sleeper
    pc,             \* of the sleeper and of each unparker
    owed            \* history: unpark() was called since park() last returned

vars == <<unpark_attempts, lock, parked_task, state, pc, owed>>

Actors == Unparkers \cup {Sleeper}

ParkPcs   == {"idle", "swap", "lock", "swap2", "swap3", "unlock", "switch"}
UnparkPcs == {"idle", "lock", "take", "store", "unlock", "release", "wake"}

\* The variables have their types; in particular the count never underflows.
TypeOK ==
    /\ unpark_attempts \in Nat
    /\ lock \in Actors \cup {None}
    /\ parked_task \in {Sleeper, None}
    /\ state \in {"running", "ready", "blocked"}
    /\ pc \in [Actors -> ParkPcs \cup UnparkPcs]
    /\ owed \in BOOLEAN

\* withParkedTask: the service's task starts out parked.
Init ==
    /\ unpark_attempts = 0
    /\ lock = None
    /\ parked_task = Sleeper
    /\ state = "blocked"
    /\ pc = [a \in Actors |-> "idle"]
    /\ owed = FALSE

Goto(a, from, to) ==
    /\ pc[a] = from
    /\ pc' = [pc EXCEPT ![a] = to]

----------------------------------------------------------------------------
(* park() *)

StartPark ==
    /\ state = "running"
    /\ Goto(Sleeper, "idle", "swap")
    /\ UNCHANGED <<unpark_attempts, lock, parked_task, state, owed>>

\* The first unpark_attempts.swap(0): a pending attempt ends park().
ParkSwap ==
    /\ \/ Goto(Sleeper, "swap", "lock") /\ unpark_attempts = 0 /\ UNCHANGED owed
       \/ Goto(Sleeper, "swap", "idle") /\ unpark_attempts # 0 /\ owed' = FALSE
    /\ unpark_attempts' = 0
    /\ UNCHANGED <<lock, parked_task, state>>

ParkLock ==
    /\ Goto(Sleeper, "lock", "swap2")
    /\ lock = None
    /\ lock' = Sleeper
    /\ UNCHANGED <<unpark_attempts, parked_task, state, owed>>

\* Mutants: the attempts are not looked at again; they are reset unseen.
NoRecheck(from, to) ==
    /\ Goto(Sleeper, from, to)
    /\ UNCHANGED <<unpark_attempts, lock, parked_task, state, owed>>

RecheckDrops(from, to) ==
    /\ Goto(Sleeper, from, to)
    /\ unpark_attempts' = 0
    /\ UNCHANGED <<lock, parked_task, state, owed>>

\* The attempts are looked at again under the lock, and once more after the
\* scheduler has been locked.
Recheck(from, to) ==
    /\ \/ Goto(Sleeper, from, to) /\ unpark_attempts = 0
       \/ Goto(Sleeper, from, "unlock") /\ unpark_attempts # 0
    /\ unpark_attempts' = 0
    /\ UNCHANGED <<lock, parked_task, state, owed>>

ParkSwap2 == Recheck("swap2", "swap3")

ParkSwap3 == Recheck("swap3", "switch")

ParkUnlock ==
    /\ Goto(Sleeper, "unlock", "idle")
    /\ lock' = None
    /\ owed' = FALSE
    /\ UNCHANGED <<unpark_attempts, parked_task, state>>

\* The deferred action of park().
DeferredPark ==
    /\ Goto(Sleeper, "switch", "idle")
    /\ state' = "blocked"
    /\ parked_task' = Sleeper
    /\ lock' = None
    /\ UNCHANGED <<unpark_attempts, owed>>

----------------------------------------------------------------------------
(* unpark() *)

\* fetchAdd(1): only the first attempt goes on to wake the task.
UnparkAdd(u) ==
    /\ unpark_attempts < MaxAttempts
    /\ \/ Goto(u, "idle", "lock") /\ unpark_attempts = 0
       \/ Goto(u, "idle", "idle") /\ unpark_attempts # 0
    /\ unpark_attempts' = unpark_attempts + 1
    /\ owed' = TRUE
    /\ UNCHANGED <<lock, parked_task, state>>

UnparkLock(u) ==
    /\ Goto(u, "lock", "take")
    /\ lock = None
    /\ lock' = u
    /\ UNCHANGED <<unpark_attempts, parked_task, state, owed>>

\* Mutant: parked_task is read and not cleared.
UnparkTakeKeeps(u) ==
    /\ \/ Goto(u, "take", "release") /\ parked_task = None
       \/ Goto(u, "take", "store") /\ parked_task # None
    /\ UNCHANGED <<unpark_attempts, lock, parked_task, state, owed>>

UnparkTake(u) ==
    /\ \/ Goto(u, "take", "release") /\ parked_task = None
       \/ Goto(u, "take", "store") /\ parked_task # None
    /\ parked_task' = None
    /\ UNCHANGED <<unpark_attempts, lock, state, owed>>

\* The attempts this wake satisfies are consumed under the lock.
UnparkStore(u) ==
    /\ Goto(u, "store", "unlock")
    /\ unpark_attempts' = 0
    /\ UNCHANGED <<lock, parked_task, state, owed>>

UnparkUnlock(u) ==
    /\ Goto(u, "unlock", "wake") \/ Goto(u, "release", "idle")
    /\ lock' = None
    /\ UNCHANGED <<unpark_attempts, parked_task, state, owed>>

\* wakeFromBlocked
UnparkWake(u) ==
    /\ Goto(u, "wake", "idle")
    /\ state' = "ready"
    /\ UNCHANGED <<unpark_attempts, lock, parked_task, owed>>

----------------------------------------------------------------------------

\* The woken task runs again and park() returns.
Dispatch ==
    /\ state = "ready"
    /\ state' = "running"
    /\ owed' = FALSE
    /\ UNCHANGED <<unpark_attempts, lock, parked_task, pc>>

Park == ParkSwap \/ ParkLock \/ ParkSwap2 \/ ParkSwap3 \/ ParkUnlock \/ DeferredPark

Unpark(u) ==
    UnparkLock(u) \/ UnparkTake(u) \/ UnparkStore(u) \/ UnparkUnlock(u) \/ UnparkWake(u)

Next ==
    \/ StartPark \/ Park \/ Dispatch
    \/ \E u \in Unparkers : UnparkAdd(u) \/ Unpark(u)

Spec == Init /\ [][Next]_vars

\* The parker's lock is a fair spinlock and started operations go on.
FairSpec ==
    /\ Spec
    /\ SF_vars(Park) /\ WF_vars(Dispatch)
    /\ \A u \in Unparkers : SF_vars(Unpark(u))

----------------------------------------------------------------------------
(* Properties *)

\* An unparker that will wake the sleeper.
Responsible(u) == pc[u] \in {"lock", "take", "store", "unlock", "wake"}

\* No unpark() is lost: when the task sleeps although unpark() was called since
\* park() last returned, an unparker is on its way to wake it.
NoLostUnpark ==
    owed /\ state = "blocked" => \E u \in Unparkers : Responsible(u)

\* wakeFromBlocked() is called only for a task that is blocked, and by one
\* unparker: parked_task is set after the state and cleared by whoever wakes.
WakesBlockedTask ==
    \A u \in Unparkers :
        pc[u] \in {"store", "unlock", "wake"} =>
            /\ state = "blocked" /\ parked_task = None
            /\ \A v \in Unparkers \ {u} : pc[v] \notin {"store", "unlock", "wake"}

\* The assertion of park() that nothing is parked when it takes the lock.
NothingParkedWhileRunning == state # "blocked" => parked_task = None

\* A blocked task can be woken: it is recorded as parked, or is being woken.
BlockedIsWakeable ==
    state = "blocked" =>
        \/ parked_task = Sleeper
        \/ \E u \in Unparkers : pc[u] \in {"store", "unlock", "wake"}

\* unpark() is followed by a return of park(), whichever way they race.
UnparkWakes == owed /\ state = "blocked" ~> state = "running"

=============================================================================
