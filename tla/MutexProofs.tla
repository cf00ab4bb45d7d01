---------------------------- MODULE MutexProofs ----------------------------
(***************************************************************************)
(* Mutex.tla is correct for any set of tasks: the invariants the model     *)
(* checker establishes for three tasks are consequences of the inductive   *)
(* invariant IInv, and every step of the mutex is a step of FairLock.      *)
(***************************************************************************)
EXTENDS Mutex, TLAPS

\* The program points at which a task holds the spinlock.
SpinlockPcs ==
    {"cas2", "release", "enqueue", "switch", "upop", "uplain", "upass",
     "ucas", "ucaspass", "uwake", "urelease"}

\* The program points at which unlock() holds a popped waiter.
PoppedPcs == {"upass", "ucaspass", "uwake"}

Queued(t) == \E i \in DOMAIN waiting_tasks : waiting_tasks[i] = t

\* Off its executor (or about to be), and continuing with lock()'s loop.
Parked(t) == state[t] = "blocked" /\ pc[t] = "cas"

OwnerInv ==
    \A t \in Tasks :
        /\ Holds(t) => locked_by = t
        /\ locked_by = t /\ ~Holds(t) =>
              unlock_type = "passed_to_waiter" /\ pc[t] \in {"cas", "type"}
        /\ pc[t] = "type" => locked_by = t
        /\ pc[t] = "ucaspass" => unlock_type = "passed_to_waiter"

SpinlockInv ==
    \A t \in Tasks :
        /\ pc[t] \in SpinlockPcs <=> spinlock = t
        /\ pc[t] \in SpinlockPcs => state[t] = "running"

QueueInv ==
    /\ \A i \in DOMAIN waiting_tasks :
          /\ Parked(waiting_tasks[i]) \/ pc[waiting_tasks[i]] = "switch"
          /\ locked_by # waiting_tasks[i]
    /\ \A i, j \in DOMAIN waiting_tasks :
          waiting_tasks[i] = waiting_tasks[j] => i = j
    /\ waiting_tasks # <<>> => locked_by # None
    /\ \A t \in Tasks :
          /\ pc[t] \in {"uplain", "ucas"} => waiting_tasks = <<>>
          /\ pc[t] \in {"enqueue", "switch"} => locked_by \notin {None, t}
          /\ pc[t] = "switch" => Queued(t)

WaiterInv ==
    \A t \in Tasks :
        /\ pc[t] \in PoppedPcs =>
              waiter[t] \in Tasks /\ Parked(waiter[t]) /\ ~Queued(waiter[t])
        /\ pc[t] \in {"upass", "ucaspass"} => locked_by # waiter[t]
        /\ pc[t] \notin PoppedPcs => waiter[t] = None

BlockedInv ==
    \A t \in Tasks :
        state[t] = "blocked" =>
            \/ Queued(t)
            \/ spinlock # None /\ pc[spinlock] \in PoppedPcs /\ waiter[spinlock] = t

IInv == Types /\ OwnerInv /\ SpinlockInv /\ QueueInv /\ WaiterInv /\ BlockedInv

----------------------------------------------------------------------------

\* What popping the head of a wait queue leaves (WaitQueue.pop).
LEMMA PopFacts ==
    ASSUME NEW q \in Seq(Tasks), q # <<>>
    PROVE  /\ Head(q) \in Tasks /\ Head(q) = q[1] /\ 1 \in DOMAIN q
           /\ Tail(q) \in Seq(Tasks)
           /\ \A i \in DOMAIN Tail(q) : i + 1 \in DOMAIN q /\ Tail(q)[i] = q[i + 1]
           /\ \A i \in DOMAIN q : i # 1 => i - 1 \in DOMAIN Tail(q) /\ Tail(q)[i - 1] = q[i]
  OBVIOUS

\* What appending to a wait queue leaves (WaitQueue.wait).
LEMMA AppendFacts ==
    ASSUME NEW q \in Seq(Tasks), NEW t \in Tasks
    PROVE  /\ Append(q, t) \in Seq(Tasks) /\ Append(q, t) # <<>>
           /\ Len(q) + 1 \in DOMAIN Append(q, t) /\ Append(q, t)[Len(q) + 1] = t
           /\ \A i \in DOMAIN q : i \in DOMAIN Append(q, t) /\ Append(q, t)[i] = q[i]
           /\ \A i \in DOMAIN Append(q, t) : i \in DOMAIN q \/ i = Len(q) + 1
           /\ Len(q) + 1 \notin DOMAIN q
  OBVIOUS

\* The inductive invariant holds initially.
LEMMA InitIInv == Init => IInv
  BY NoneIsNoTask DEF Init, IInv, Types, OwnerInv, SpinlockInv, QueueInv,
     WaiterInv, BlockedInv, Holds, Queued, Parked, Pcs, LockPcs, HeldPcs, UnlockPcs,
     SpinlockPcs, PoppedPcs

\* Every step of the mutex preserves the inductive invariant.
LEMMA NextIInv == IInv /\ [Next]_vars => IInv'
<1> SUFFICES ASSUME IInv, [Next]_vars PROVE IInv'
  OBVIOUS
<1> USE NoneIsNoTask DEF IInv, Goto, Pcs, LockPcs, HeldPcs, UnlockPcs
<1>1. ASSUME NEW t \in Tasks, StartLock(t) PROVE IInv'
  <2>1. Types'
    BY <1>1 DEF Types, StartLock
  <2>2. OwnerInv'
    BY <1>1 DEF Types, OwnerInv, SpinlockInv, QueueInv, WaiterInv, Holds, StartLock, SpinlockPcs, PoppedPcs, Parked
  <2>3. SpinlockInv'
    BY <1>1 DEF Types, SpinlockInv, SpinlockPcs, StartLock
  <2>4. QueueInv'
    BY <1>1, <2>1 DEF Types, OwnerInv, SpinlockInv, QueueInv, WaiterInv, Queued, Parked, Holds, SpinlockPcs, PoppedPcs, StartLock
  <2>0. \A u : Queued(u)' <=> Queued(u)
    BY <1>1 DEF Queued, StartLock
  <2>5. WaiterInv'
    BY <1>1, <2>0, <2>1 DEF Types, SpinlockInv, WaiterInv, Parked, SpinlockPcs, PoppedPcs, StartLock
  <2>6. BlockedInv'
    BY <1>1, <2>0, <2>1 DEF Types, SpinlockInv, QueueInv, WaiterInv, BlockedInv, SpinlockPcs, PoppedPcs, StartLock
  <2> QED BY <2>1, <2>2, <2>3, <2>4, <2>5, <2>6
<1>2. ASSUME NEW t \in Tasks, FastCas(t) PROVE IInv'
  <2>1. Types'
    BY <1>2 DEF Types, FastCas
  <2>2. OwnerInv'
    BY <1>2 DEF Types, OwnerInv, SpinlockInv, QueueInv, WaiterInv, Holds, FastCas, SpinlockPcs, PoppedPcs, Parked
  <2>3. SpinlockInv'
    BY <1>2 DEF Types, SpinlockInv, SpinlockPcs, FastCas
  <2>4. QueueInv'
    BY <1>2, <2>1 DEF Types, OwnerInv, SpinlockInv, QueueInv, WaiterInv, Queued, Parked, Holds, SpinlockPcs, PoppedPcs, FastCas
  <2>0. \A u : Queued(u)' <=> Queued(u)
    BY <1>2 DEF Queued, FastCas
  <2>5. WaiterInv'
    BY <1>2, <2>0, <2>1 DEF Types, SpinlockInv, WaiterInv, Parked, SpinlockPcs, PoppedPcs, FastCas
  <2>6. BlockedInv'
    BY <1>2, <2>0, <2>1 DEF Types, SpinlockInv, QueueInv, WaiterInv, BlockedInv, SpinlockPcs, PoppedPcs, FastCas
  <2> QED BY <2>1, <2>2, <2>3, <2>4, <2>5, <2>6
<1>3. ASSUME NEW t \in Tasks, FastType(t) PROVE IInv'
  <2>1. Types'
    BY <1>3 DEF Types, FastType
  <2>2. OwnerInv'
    BY <1>3 DEF Types, OwnerInv, SpinlockInv, QueueInv, WaiterInv, Holds, FastType, SpinlockPcs, PoppedPcs, Parked
  <2>3. SpinlockInv'
    BY <1>3 DEF Types, SpinlockInv, SpinlockPcs, FastType
  <2>4. QueueInv'
    BY <1>3, <2>1 DEF Types, OwnerInv, SpinlockInv, QueueInv, WaiterInv, Queued, Parked, Holds, SpinlockPcs, PoppedPcs, FastType
  <2>0. \A u : Queued(u)' <=> Queued(u)
    BY <1>3 DEF Queued, FastType
  <2>5. WaiterInv'
    BY <1>3, <2>0, <2>1 DEF Types, SpinlockInv, WaiterInv, Parked, SpinlockPcs, PoppedPcs, FastType
  <2>6. BlockedInv'
    BY <1>3, <2>0, <2>1 DEF Types, SpinlockInv, QueueInv, WaiterInv, BlockedInv, SpinlockPcs, PoppedPcs, FastType
  <2> QED BY <2>1, <2>2, <2>3, <2>4, <2>5, <2>6
<1>4. ASSUME NEW t \in Tasks, LockSpin(t) PROVE IInv'
  <2>1. Types'
    BY <1>4 DEF Types, LockSpin
  <2>2. OwnerInv'
    BY <1>4 DEF Types, OwnerInv, SpinlockInv, QueueInv, WaiterInv, Holds, LockSpin, SpinlockPcs, PoppedPcs, Parked
  <2>3. SpinlockInv'
    BY <1>4 DEF Types, SpinlockInv, SpinlockPcs, LockSpin
  <2>4. QueueInv'
    BY <1>4, <2>1 DEF Types, OwnerInv, SpinlockInv, QueueInv, WaiterInv, Queued, Parked, Holds, SpinlockPcs, PoppedPcs, LockSpin
  <2>0. \A u : Queued(u)' <=> Queued(u)
    BY <1>4 DEF Queued, LockSpin
  <2>5. WaiterInv'
    BY <1>4, <2>0, <2>1 DEF Types, SpinlockInv, WaiterInv, Parked, SpinlockPcs, PoppedPcs, LockSpin
  <2>6. BlockedInv'
    BY <1>4, <2>0, <2>1 DEF Types, SpinlockInv, QueueInv, WaiterInv, BlockedInv, SpinlockPcs, PoppedPcs, LockSpin
  <2> QED BY <2>1, <2>2, <2>3, <2>4, <2>5, <2>6
<1>5. ASSUME NEW t \in Tasks, SlowCas(t) PROVE IInv'
  <2>1. Types'
    BY <1>5 DEF Types, SlowCas
  <2>2. OwnerInv'
    BY <1>5 DEF Types, OwnerInv, SpinlockInv, QueueInv, WaiterInv, Holds, SlowCas, SpinlockPcs, PoppedPcs, Parked
  <2>3. SpinlockInv'
    BY <1>5 DEF Types, SpinlockInv, SpinlockPcs, SlowCas
  <2>4. QueueInv'
    BY <1>5, <2>1 DEF Types, OwnerInv, SpinlockInv, QueueInv, WaiterInv, Queued, Parked, Holds, SpinlockPcs, PoppedPcs, SlowCas
  <2>0. \A u : Queued(u)' <=> Queued(u)
    BY <1>5 DEF Queued, SlowCas
  <2>5. WaiterInv'
    BY <1>5, <2>0, <2>1 DEF Types, SpinlockInv, WaiterInv, Parked, SpinlockPcs, PoppedPcs, SlowCas
  <2>6. BlockedInv'
    BY <1>5, <2>0, <2>1 DEF Types, SpinlockInv, QueueInv, WaiterInv, BlockedInv, SpinlockPcs, PoppedPcs, SlowCas
  <2> QED BY <2>1, <2>2, <2>3, <2>4, <2>5, <2>6
<1>6. ASSUME NEW t \in Tasks, SlowRelease(t) PROVE IInv'
  <2>1. Types'
    BY <1>6 DEF Types, SlowRelease
  <2>2. OwnerInv'
    BY <1>6 DEF Types, OwnerInv, SpinlockInv, QueueInv, WaiterInv, Holds, SlowRelease, SpinlockPcs, PoppedPcs, Parked
  <2>3. SpinlockInv'
    BY <1>6 DEF Types, SpinlockInv, SpinlockPcs, SlowRelease
  <2>4. QueueInv'
    BY <1>6, <2>1 DEF Types, OwnerInv, SpinlockInv, QueueInv, WaiterInv, Queued, Parked, Holds, SpinlockPcs, PoppedPcs, SlowRelease
  <2>0. \A u : Queued(u)' <=> Queued(u)
    BY <1>6 DEF Queued, SlowRelease
  <2>5. WaiterInv'
    BY <1>6, <2>0, <2>1 DEF Types, SpinlockInv, WaiterInv, Parked, SpinlockPcs, PoppedPcs, SlowRelease
  <2>6. BlockedInv'
    BY <1>6, <2>0, <2>1 DEF Types, SpinlockInv, QueueInv, WaiterInv, BlockedInv, SpinlockPcs, PoppedPcs, SlowRelease
  <2> QED BY <2>1, <2>2, <2>3, <2>4, <2>5, <2>6
<1>7. ASSUME NEW t \in Tasks, Enqueue(t) PROVE IInv'
  <2>1. Types'
    BY <1>7 DEF Types, Enqueue
  <2>2. OwnerInv'
    BY <1>7 DEF Types, OwnerInv, SpinlockInv, QueueInv, WaiterInv, Holds, Enqueue, SpinlockPcs, PoppedPcs, Parked
  <2>3. SpinlockInv'
    BY <1>7 DEF Types, SpinlockInv, SpinlockPcs, Enqueue
  <2>4. QueueInv'
    BY <1>7, <2>1 DEF Types, OwnerInv, SpinlockInv, QueueInv, WaiterInv, Queued, Parked, Holds, SpinlockPcs, PoppedPcs, Enqueue
  <2>5. WaiterInv'
    BY <1>7, <2>1, PopFacts, AppendFacts DEF Types, SpinlockInv, QueueInv, WaiterInv, Queued, Parked, SpinlockPcs, PoppedPcs, Enqueue
  <2>6. BlockedInv'
    BY <1>7, <2>1, PopFacts, AppendFacts DEF Types, SpinlockInv, BlockedInv, Queued, SpinlockPcs, PoppedPcs, Enqueue
  <2> QED BY <2>1, <2>2, <2>3, <2>4, <2>5, <2>6
<1>8. ASSUME NEW t \in Tasks, DeferredBlock(t) PROVE IInv'
  <2>1. Types'
    BY <1>8 DEF Types, DeferredBlock
  <2>2. OwnerInv'
    BY <1>8 DEF Types, OwnerInv, SpinlockInv, QueueInv, WaiterInv, Holds, DeferredBlock, SpinlockPcs, PoppedPcs, Parked
  <2>3. SpinlockInv'
    BY <1>8 DEF Types, SpinlockInv, SpinlockPcs, DeferredBlock
  <2>4. QueueInv'
    BY <1>8, <2>1 DEF Types, OwnerInv, SpinlockInv, QueueInv, WaiterInv, Queued, Parked, Holds, SpinlockPcs, PoppedPcs, DeferredBlock
  <2>0. \A u : Queued(u)' <=> Queued(u)
    BY <1>8 DEF Queued, DeferredBlock
  <2>5. WaiterInv'
    BY <1>8, <2>0, <2>1 DEF Types, SpinlockInv, WaiterInv, Parked, SpinlockPcs, PoppedPcs, DeferredBlock
  <2>6. BlockedInv'
    BY <1>8, <2>0, <2>1 DEF Types, SpinlockInv, QueueInv, WaiterInv, BlockedInv, SpinlockPcs, PoppedPcs, DeferredBlock
  <2> QED BY <2>1, <2>2, <2>3, <2>4, <2>5, <2>6
<1>9. ASSUME NEW t \in Tasks, TryLock(t) PROVE IInv'
  <2>1. Types'
    BY <1>9 DEF Types, TryLock
  <2>2. OwnerInv'
    BY <1>9 DEF Types, OwnerInv, SpinlockInv, QueueInv, WaiterInv, Holds, TryLock, SpinlockPcs, PoppedPcs, Parked
  <2>3. SpinlockInv'
    BY <1>9 DEF Types, SpinlockInv, SpinlockPcs, TryLock
  <2>4. QueueInv'
    BY <1>9, <2>1 DEF Types, OwnerInv, SpinlockInv, QueueInv, WaiterInv, Queued, Parked, Holds, SpinlockPcs, PoppedPcs, TryLock
  <2>0. \A u : Queued(u)' <=> Queued(u)
    BY <1>9 DEF Queued, TryLock
  <2>5. WaiterInv'
    BY <1>9, <2>0, <2>1 DEF Types, SpinlockInv, WaiterInv, Parked, SpinlockPcs, PoppedPcs, TryLock
  <2>6. BlockedInv'
    BY <1>9, <2>0, <2>1 DEF Types, SpinlockInv, QueueInv, WaiterInv, BlockedInv, SpinlockPcs, PoppedPcs, TryLock
  <2> QED BY <2>1, <2>2, <2>3, <2>4, <2>5, <2>6
<1>10. ASSUME NEW t \in Tasks, StartUnlock(t) PROVE IInv'
  <2>1. Types'
    BY <1>10 DEF Types, StartUnlock
  <2>2. OwnerInv'
    BY <1>10 DEF Types, OwnerInv, SpinlockInv, QueueInv, WaiterInv, Holds, StartUnlock, SpinlockPcs, PoppedPcs, Parked
  <2>3. SpinlockInv'
    BY <1>10 DEF Types, SpinlockInv, SpinlockPcs, StartUnlock
  <2>4. QueueInv'
    BY <1>10, <2>1 DEF Types, OwnerInv, SpinlockInv, QueueInv, WaiterInv, Queued, Parked, Holds, SpinlockPcs, PoppedPcs, StartUnlock
  <2>0. \A u : Queued(u)' <=> Queued(u)
    BY <1>10 DEF Queued, StartUnlock
  <2>5. WaiterInv'
    BY <1>10, <2>0, <2>1 DEF Types, SpinlockInv, WaiterInv, Parked, SpinlockPcs, PoppedPcs, StartUnlock
  <2>6. BlockedInv'
    BY <1>10, <2>0, <2>1 DEF Types, SpinlockInv, QueueInv, WaiterInv, BlockedInv, SpinlockPcs, PoppedPcs, StartUnlock
  <2> QED BY <2>1, <2>2, <2>3, <2>4, <2>5, <2>6
<1>11. ASSUME NEW t \in Tasks, UnlockSpin(t) PROVE IInv'
  <2>1. Types'
    BY <1>11 DEF Types, UnlockSpin
  <2>2. OwnerInv'
    BY <1>11 DEF Types, OwnerInv, SpinlockInv, QueueInv, WaiterInv, Holds, UnlockSpin, SpinlockPcs, PoppedPcs, Parked
  <2>3. SpinlockInv'
    BY <1>11 DEF Types, SpinlockInv, SpinlockPcs, UnlockSpin
  <2>4. QueueInv'
    BY <1>11, <2>1 DEF Types, OwnerInv, SpinlockInv, QueueInv, WaiterInv, Queued, Parked, Holds, SpinlockPcs, PoppedPcs, UnlockSpin
  <2>0. \A u : Queued(u)' <=> Queued(u)
    BY <1>11 DEF Queued, UnlockSpin
  <2>5. WaiterInv'
    BY <1>11, <2>0, <2>1 DEF Types, SpinlockInv, WaiterInv, Parked, SpinlockPcs, PoppedPcs, UnlockSpin
  <2>6. BlockedInv'
    BY <1>11, <2>0, <2>1 DEF Types, SpinlockInv, QueueInv, WaiterInv, BlockedInv, SpinlockPcs, PoppedPcs, UnlockSpin
  <2> QED BY <2>1, <2>2, <2>3, <2>4, <2>5, <2>6
<1>12. ASSUME NEW t \in Tasks, UnlockPop(t) PROVE IInv'
  <2>1. CASE waiting_tasks = <<>>
    BY <1>12, <2>1 DEF Types, OwnerInv, SpinlockInv, QueueInv, WaiterInv,
       BlockedInv, Queued, Parked, Holds, SpinlockPcs, PoppedPcs, UnlockPop
  <2>2. CASE waiting_tasks # <<>>
    <3> DEFINE q == waiting_tasks
    <3>0. PICK h \in Tasks : h = Head(q)
      BY <2>2, PopFacts DEF Types
    <3>1. /\ spinlock = t /\ pc[t] = "upop" /\ state[t] = "running"
          /\ pc' = [pc EXCEPT ![t] = "upass"]
          /\ waiter' = [waiter EXCEPT ![t] = h]
          /\ waiting_tasks' = Tail(q)
          /\ UNCHANGED <<locked_by, unlock_type, spinlock, state>>
      BY <1>12, <2>2, <3>0 DEF UnlockPop, SpinlockInv, SpinlockPcs
    <3>2. /\ h \in Tasks /\ h = q[1] /\ 1 \in DOMAIN q
          /\ Tail(q) \in Seq(Tasks)
          /\ \A i \in DOMAIN Tail(q) : i + 1 \in DOMAIN q /\ Tail(q)[i] = q[i + 1]
          /\ \A i \in DOMAIN q : i # 1 => i - 1 \in DOMAIN Tail(q) /\ Tail(q)[i - 1] = q[i]
          /\ DOMAIN Tail(q) \subseteq Nat \ {0}
      BY <2>2, <3>0, PopFacts DEF Types
    <3>3. h # t /\ Parked(h) /\ locked_by # h
      BY <3>1, <3>2 DEF QueueInv, SpinlockInv, SpinlockPcs, Parked
    <3>4. ~Queued(h)'
      BY <3>1, <3>2 DEF QueueInv, Queued
    <3>5. \A u : Queued(u) => Queued(u)' \/ u = h
      BY <3>1, <3>2, Zenon DEF Queued
    <3>6. \A u : Queued(u)' => Queued(u)
      BY <3>1, <3>2 DEF Queued
    <3> HIDE DEF q
    <3>7. Types'
      BY <3>1, <3>2 DEF Types
    <3>8. OwnerInv' /\ SpinlockInv'
      BY <3>1 DEF Types, OwnerInv, SpinlockInv, Holds, SpinlockPcs
    <3>9. QueueInv'
      <4>1. \A i \in DOMAIN waiting_tasks' :
                /\ Parked(waiting_tasks'[i]) \/ pc[waiting_tasks'[i]] = "switch"
                /\ locked_by # waiting_tasks'[i]
        BY <3>1, <3>2 DEF q, QueueInv
      <4>2. \A i, j \in DOMAIN waiting_tasks' :
                waiting_tasks'[i] = waiting_tasks'[j] => i = j
        BY <3>1, <3>2 DEF q, QueueInv
      <4> QED
        BY <3>1, <3>5, <3>6, <3>3, <4>1, <4>2, <2>2
           DEF Types, QueueInv, SpinlockInv, SpinlockPcs, Parked
    <3>10. WaiterInv'
      BY <3>1, <3>2, <3>3, <3>4, <3>6
         DEF Types, SpinlockInv, WaiterInv, Parked, SpinlockPcs, PoppedPcs
    <3>11. BlockedInv'
      BY <3>1, <3>5 DEF Types, BlockedInv, PoppedPcs
    <3> QED BY <3>7, <3>8, <3>9, <3>10, <3>11
  <2> QED BY <2>1, <2>2
<1>13. ASSUME NEW t \in Tasks, UnlockType(t) PROVE IInv'
  <2>1. Types'
    BY <1>13 DEF Types, UnlockType
  <2>2. OwnerInv'
    BY <1>13 DEF Types, OwnerInv, SpinlockInv, QueueInv, WaiterInv, Holds, UnlockType, SpinlockPcs, PoppedPcs, Parked
  <2>3. SpinlockInv'
    BY <1>13 DEF Types, SpinlockInv, SpinlockPcs, UnlockType
  <2>4. QueueInv'
    BY <1>13, <2>1 DEF Types, OwnerInv, SpinlockInv, QueueInv, WaiterInv, Queued, Parked, Holds, SpinlockPcs, PoppedPcs, UnlockType
  <2>0. \A u : Queued(u)' <=> Queued(u)
    BY <1>13 DEF Queued, UnlockType
  <2>5. WaiterInv'
    BY <1>13, <2>0, <2>1 DEF Types, SpinlockInv, WaiterInv, Parked, SpinlockPcs, PoppedPcs, UnlockType
  <2>6. BlockedInv'
    BY <1>13, <2>0, <2>1 DEF Types, SpinlockInv, QueueInv, WaiterInv, BlockedInv, SpinlockPcs, PoppedPcs, UnlockType
  <2> QED BY <2>1, <2>2, <2>3, <2>4, <2>5, <2>6
<1>14. ASSUME NEW t \in Tasks, UnlockCas(t) PROVE IInv'
  <2>1. Types'
    BY <1>14 DEF Types, UnlockCas
  <2>2. OwnerInv'
    BY <1>14 DEF Types, OwnerInv, SpinlockInv, QueueInv, WaiterInv, Holds, UnlockCas, SpinlockPcs, PoppedPcs, Parked
  <2>3. SpinlockInv'
    BY <1>14 DEF Types, SpinlockInv, SpinlockPcs, UnlockCas
  <2>4. QueueInv'
    BY <1>14, <2>1 DEF Types, OwnerInv, SpinlockInv, QueueInv, WaiterInv, Queued, Parked, Holds, SpinlockPcs, PoppedPcs, UnlockCas
  <2>0. \A u : Queued(u)' <=> Queued(u)
    BY <1>14 DEF Queued, UnlockCas
  <2>5. WaiterInv'
    BY <1>14, <2>0, <2>1 DEF Types, SpinlockInv, WaiterInv, Parked, SpinlockPcs, PoppedPcs, UnlockCas
  <2>6. BlockedInv'
    BY <1>14, <2>0, <2>1 DEF Types, SpinlockInv, QueueInv, WaiterInv, BlockedInv, SpinlockPcs, PoppedPcs, UnlockCas
  <2> QED BY <2>1, <2>2, <2>3, <2>4, <2>5, <2>6
<1>15. ASSUME NEW t \in Tasks, UnlockWake(t) PROVE IInv'
  <2>1. Types'
    BY <1>15, Zenon DEF Types, UnlockWake
  <2>2. OwnerInv'
    BY <1>15 DEF Types, OwnerInv, SpinlockInv, QueueInv, WaiterInv, Holds, UnlockWake, SpinlockPcs, PoppedPcs, Parked
  <2>3. SpinlockInv'
    BY <1>15 DEF Types, SpinlockInv, SpinlockPcs, UnlockWake
  <2>4. QueueInv'
    BY <1>15, <2>1 DEF Types, OwnerInv, SpinlockInv, QueueInv, WaiterInv, Queued, Parked, Holds, SpinlockPcs, PoppedPcs, UnlockWake
  <2>0. \A u : Queued(u)' <=> Queued(u)
    BY <1>15 DEF Queued, UnlockWake
  <2>5. WaiterInv'
    BY <1>15, <2>0, <2>1 DEF Types, SpinlockInv, WaiterInv, Parked, SpinlockPcs, PoppedPcs, UnlockWake
  <2>6. BlockedInv'
    BY <1>15, <2>0, <2>1 DEF Types, SpinlockInv, QueueInv, WaiterInv, BlockedInv, SpinlockPcs, PoppedPcs, UnlockWake
  <2> QED BY <2>1, <2>2, <2>3, <2>4, <2>5, <2>6
<1>16. ASSUME NEW t \in Tasks, UnlockRelease(t) PROVE IInv'
  <2>1. Types'
    BY <1>16 DEF Types, UnlockRelease
  <2>2. OwnerInv'
    BY <1>16 DEF Types, OwnerInv, SpinlockInv, QueueInv, WaiterInv, Holds, UnlockRelease, SpinlockPcs, PoppedPcs, Parked
  <2>3. SpinlockInv'
    BY <1>16 DEF Types, SpinlockInv, SpinlockPcs, UnlockRelease
  <2>4. QueueInv'
    BY <1>16, <2>1 DEF Types, OwnerInv, SpinlockInv, QueueInv, WaiterInv, Queued, Parked, Holds, SpinlockPcs, PoppedPcs, UnlockRelease
  <2>0. \A u : Queued(u)' <=> Queued(u)
    BY <1>16 DEF Queued, UnlockRelease
  <2>5. WaiterInv'
    BY <1>16, <2>0, <2>1 DEF Types, SpinlockInv, WaiterInv, Parked, SpinlockPcs, PoppedPcs, UnlockRelease
  <2>6. BlockedInv'
    BY <1>16, <2>0, <2>1 DEF Types, SpinlockInv, QueueInv, WaiterInv, BlockedInv, SpinlockPcs, PoppedPcs, UnlockRelease
  <2> QED BY <2>1, <2>2, <2>3, <2>4, <2>5, <2>6
<1>17. ASSUME NEW t \in Tasks, Preempt(t) PROVE IInv'
  <2>1. Types'
    BY <1>17 DEF Types, Preempt
  <2>2. OwnerInv'
    BY <1>17 DEF Types, OwnerInv, SpinlockInv, QueueInv, WaiterInv, Holds, Preempt, SpinlockPcs, PoppedPcs, Parked
  <2>3. SpinlockInv'
    BY <1>17 DEF Types, SpinlockInv, SpinlockPcs, Preempt
  <2>4. QueueInv'
    BY <1>17, <2>1 DEF Types, OwnerInv, SpinlockInv, QueueInv, WaiterInv, Queued, Parked, Holds, SpinlockPcs, PoppedPcs, Preempt
  <2>0. \A u : Queued(u)' <=> Queued(u)
    BY <1>17 DEF Queued, Preempt
  <2>5. WaiterInv'
    BY <1>17, <2>0, <2>1 DEF Types, SpinlockInv, WaiterInv, Parked, SpinlockPcs, PoppedPcs, Preempt
  <2>6. BlockedInv'
    BY <1>17, <2>0, <2>1 DEF Types, SpinlockInv, QueueInv, WaiterInv, BlockedInv, SpinlockPcs, PoppedPcs, Preempt
  <2> QED BY <2>1, <2>2, <2>3, <2>4, <2>5, <2>6
<1>18. ASSUME NEW t \in Tasks, Dispatch(t) PROVE IInv'
  <2>1. Types'
    BY <1>18 DEF Types, Dispatch
  <2>2. OwnerInv'
    BY <1>18 DEF Types, OwnerInv, SpinlockInv, QueueInv, WaiterInv, Holds, Dispatch, SpinlockPcs, PoppedPcs, Parked
  <2>3. SpinlockInv'
    BY <1>18 DEF Types, SpinlockInv, SpinlockPcs, Dispatch
  <2>4. QueueInv'
    BY <1>18, <2>1 DEF Types, OwnerInv, SpinlockInv, QueueInv, WaiterInv, Queued, Parked, Holds, SpinlockPcs, PoppedPcs, Dispatch
  <2>0. \A u : Queued(u)' <=> Queued(u)
    BY <1>18 DEF Queued, Dispatch
  <2>5. WaiterInv'
    BY <1>18, <2>0, <2>1 DEF Types, SpinlockInv, WaiterInv, Parked, SpinlockPcs, PoppedPcs, Dispatch
  <2>6. BlockedInv'
    BY <1>18, <2>0, <2>1 DEF Types, SpinlockInv, QueueInv, WaiterInv, BlockedInv, SpinlockPcs, PoppedPcs, Dispatch
  <2> QED BY <2>1, <2>2, <2>3, <2>4, <2>5, <2>6
<1>19. CASE UNCHANGED vars
  BY <1>19 DEF vars, Types, OwnerInv, SpinlockInv, QueueInv, WaiterInv, BlockedInv, Queued, Parked, Holds
<1> QED
  BY <1>1, <1>2, <1>3, <1>4, <1>5, <1>6, <1>7, <1>8, <1>9, <1>10, <1>11, <1>12, <1>13, <1>14, <1>15, <1>16, <1>17, <1>18, <1>19 DEF Next, Lock, Unlock, Spin

\* The inductive invariant holds in every reachable state.
LEMMA Inductive == Spec => []IInv
  BY InitIInv, NextIInv, PTL DEF Spec

\* Every reachable state is well typed, and no task is linked twice into the
\* wait queue.
THEOREM TypeCorrect == Spec => []TypeOK
<1>1. IInv => TypeOK
  BY DEF IInv, QueueInv, TypeOK
<1> QED BY <1>1, Inductive, PTL

\* lock() is exclusive: no two tasks own the mutex at once, whatever their
\* number, and a mutex that is being passed on is owned by nobody else.
THEOREM Exclusive == Spec => [](MutualExclusion /\ HandoffIsExclusive)
<1>1. IInv => MutualExclusion /\ HandoffIsExclusive
  BY NoneIsNoTask DEF IInv, OwnerInv, MutualExclusion, HandoffIsExclusive, Holds
<1> QED BY <1>1, Inductive, PTL

\* No panic or assertion of lock(), tryLock(), unlock() and wakeFromBlocked()
\* fires.
THEOREM PanicFree == Spec => []NoPanic
<1>1. IInv => NoPanic
  BY NoneIsNoTask, Zenon DEF IInv, Types, OwnerInv, WaiterInv, NoPanic, Holds,
     Parked, HeldPcs, PoppedPcs
<1> QED BY <1>1, Inductive, PTL

\* A waiter always has an owner to wait for, and a blocked task is queued or
\* about to be woken: no interleaving of lock() and unlock() loses a waiter.
THEOREM WaitersServed == Spec => [](WaitersHaveOwner /\ NoLostWaiter)
<1>1. IInv => WaitersHaveOwner
  BY DEF IInv, QueueInv, WaitersHaveOwner
<1>2. IInv => NoLostWaiter
  BY NoneIsNoTask DEF IInv, Types, BlockedInv, NoLostWaiter, Queued
<1> QED BY <1>1, <1>2, Inductive, PTL

----------------------------------------------------------------------------
(* The mutex implements FairLock. *)

\* Putting the popped waiter back in front and serving it are inverse.
LEMMA PendingFacts ==
    ASSUME NEW q \in Seq(Tasks), NEW w \in Tasks
    PROVE  /\ <<w>> \o q # <<>> /\ Head(<<w>> \o q) = w /\ Tail(<<w>> \o q) = q
           /\ q # <<>> => <<Head(q)>> \o Tail(q) = q
  OBVIOUS

\* While the mutex is free nobody waits, popped or not.
LEMMA FreeHasNoPending == IInv /\ locked_by = None => PendingQueue = <<>>
  BY NoneIsNoTask DEF IInv, Types, OwnerInv, QueueInv, PendingQueue, Holds, HeldPcs

\* Every step of the mutex is a step of FairLock or leaves it unchanged.
LEMMA StepRefines ==
    IInv /\ IInv' /\ [Next]_vars => [Abstract!Next]_<<locked_by, PendingQueue>>
<1> SUFFICES ASSUME IInv, IInv', [Next]_vars
             PROVE  Abstract!Next \/ UNCHANGED <<locked_by, PendingQueue>>
  OBVIOUS
<1> USE NoneIsNoTask DEF IInv, Goto
<1> DEFINE Goal == Abstract!Next \/ UNCHANGED <<locked_by, PendingQueue>>
<1>1. ASSUME NEW t \in Tasks, StartLock(t) PROVE Goal
  BY <1>1 DEF StartLock, PendingQueue, Types, SpinlockInv, SpinlockPcs
<1>2. ASSUME NEW t \in Tasks, FastType(t) PROVE Goal
  BY <1>2 DEF FastType, PendingQueue, Types, SpinlockInv, SpinlockPcs
<1>3. ASSUME NEW t \in Tasks, LockSpin(t) PROVE Goal
  BY <1>3 DEF LockSpin, PendingQueue, Types, SpinlockInv, SpinlockPcs
<1>4. ASSUME NEW t \in Tasks, SlowRelease(t) PROVE Goal
  BY <1>4 DEF SlowRelease, PendingQueue, Types, SpinlockInv, SpinlockPcs
<1>5. ASSUME NEW t \in Tasks, DeferredBlock(t) PROVE Goal
  BY <1>5 DEF DeferredBlock, PendingQueue, Types, SpinlockInv, SpinlockPcs
<1>6. ASSUME NEW t \in Tasks, StartUnlock(t) PROVE Goal
  BY <1>6 DEF StartUnlock, PendingQueue, Types, SpinlockInv, SpinlockPcs
<1>7. ASSUME NEW t \in Tasks, UnlockSpin(t) PROVE Goal
  BY <1>7 DEF UnlockSpin, PendingQueue, Types, SpinlockInv, SpinlockPcs
<1>8. ASSUME NEW t \in Tasks, UnlockType(t) PROVE Goal
  BY <1>8 DEF UnlockType, PendingQueue, Types, SpinlockInv, SpinlockPcs
<1>9. ASSUME NEW t \in Tasks, UnlockWake(t) PROVE Goal
  BY <1>9 DEF UnlockWake, PendingQueue, Types, SpinlockInv, SpinlockPcs
<1>10. ASSUME NEW t \in Tasks, UnlockRelease(t) PROVE Goal
  BY <1>10 DEF UnlockRelease, PendingQueue, Types, SpinlockInv, SpinlockPcs
<1>11. ASSUME NEW t \in Tasks, Preempt(t) PROVE Goal
  BY <1>11 DEF Preempt, PendingQueue, Types, SpinlockInv, SpinlockPcs
<1>12. ASSUME NEW t \in Tasks, Dispatch(t) PROVE Goal
  BY <1>12 DEF Dispatch, PendingQueue, Types, SpinlockInv, SpinlockPcs
<1>13. ASSUME NEW t \in Tasks, FastCas(t) PROVE Goal
  <2>1. UNCHANGED PendingQueue
    BY <1>13 DEF FastCas, PendingQueue, Types, SpinlockInv, SpinlockPcs
  <2>2. CASE locked_by' = locked_by
    BY <2>1, <2>2
  <2>3. CASE locked_by = None /\ locked_by' = t
    BY <2>1, <2>3, FreeHasNoPending DEF Abstract!Next, Abstract!Acquire
  <2> QED BY <1>13, <2>2, <2>3 DEF FastCas
<1>14. ASSUME NEW t \in Tasks, SlowCas(t) PROVE Goal
  <2>1. UNCHANGED PendingQueue
    BY <1>14 DEF SlowCas, PendingQueue, Types, SpinlockInv, SpinlockPcs
  <2>2. CASE locked_by' = locked_by
    BY <2>1, <2>2
  <2>3. CASE locked_by = None /\ locked_by' = t
    BY <2>1, <2>3, FreeHasNoPending DEF Abstract!Next, Abstract!Acquire
  <2> QED BY <1>14, <2>2, <2>3 DEF SlowCas
<1>15. ASSUME NEW t \in Tasks, TryLock(t) PROVE Goal
  <2>1. UNCHANGED PendingQueue
    BY <1>15 DEF TryLock, PendingQueue, Types, SpinlockInv, SpinlockPcs
  <2>2. CASE locked_by' = locked_by
    BY <2>1, <2>2
  <2>3. CASE locked_by = None /\ locked_by' = t
    BY <2>1, <2>3, FreeHasNoPending DEF Abstract!Next, Abstract!Acquire
  <2> QED BY <1>15, <2>2, <2>3 DEF TryLock
<1>16. ASSUME NEW t \in Tasks, Enqueue(t) PROVE Goal
  <2>1. spinlock = t /\ pc[t] = "enqueue" /\ pc'[t] = "switch" /\ UNCHANGED spinlock
    BY <1>16 DEF Enqueue, SpinlockInv, SpinlockPcs, Types
  <2>2. PendingQueue = waiting_tasks /\ PendingQueue' = Append(waiting_tasks, t)
    BY <1>16, <2>1 DEF Enqueue, PendingQueue
  <2>3. \A i \in DOMAIN waiting_tasks : waiting_tasks[i] # t
    BY <2>1 DEF QueueInv, Parked
  <2>4. locked_by \notin {None, t} /\ UNCHANGED locked_by
    BY <1>16 DEF Enqueue, QueueInv
  <2>5. Abstract!Wait(t)
    BY <2>2, <2>3, <2>4 DEF Abstract!Wait
  <2> QED BY <2>5 DEF Abstract!Next
<1>17. ASSUME NEW t \in Tasks, UnlockPop(t) PROVE Goal
  <2>1. spinlock = t /\ pc[t] = "upop" /\ UNCHANGED <<spinlock, locked_by>>
    BY <1>17 DEF UnlockPop, SpinlockInv, SpinlockPcs
  <2>2. PendingQueue = waiting_tasks
    BY <2>1 DEF PendingQueue
  <2>3. CASE waiting_tasks = <<>>
    BY <1>17, <2>1, <2>2, <2>3 DEF UnlockPop, PendingQueue, Types
  <2>4. CASE waiting_tasks # <<>>
    <3>1. /\ pc'[t] = "upass" /\ waiter'[t] = Head(waiting_tasks)
          /\ waiting_tasks' = Tail(waiting_tasks)
      BY <1>17, <2>4 DEF UnlockPop, Types
    <3>2. PendingQueue' = <<Head(waiting_tasks)>> \o Tail(waiting_tasks)
      BY <2>1, <3>1 DEF PendingQueue
    <3> QED BY <2>1, <2>2, <2>4, <3>2, PendingFacts DEF Types
  <2> QED BY <2>3, <2>4
<1>18. ASSUME NEW t \in Tasks, UnlockCas(t) PROVE Goal
  <2>1. spinlock = t /\ locked_by = t /\ UNCHANGED <<spinlock, waiting_tasks, waiter>>
    BY <1>18 DEF UnlockCas, SpinlockInv, SpinlockPcs
  <2>2. CASE pc[t] = "ucas"
    <3>1. PendingQueue = <<>> /\ PendingQueue' = <<>> /\ locked_by' = None
      BY <1>18, <2>1, <2>2 DEF UnlockCas, PendingQueue, QueueInv, Types
    <3> QED BY <2>1, <3>1 DEF Abstract!Next, Abstract!Release
  <2>3. CASE pc[t] = "ucaspass"
    <3>1. /\ PendingQueue = <<waiter[t]>> \o waiting_tasks
          /\ PendingQueue' = waiting_tasks
          /\ locked_by' = waiter[t]
      BY <1>18, <2>1, <2>3 DEF UnlockCas, PendingQueue, Types
    <3>2. waiter[t] \in Tasks
      BY <2>3 DEF WaiterInv, PoppedPcs
    <3>3. Abstract!Release(t)
      BY <2>1, <3>1, <3>2, PendingFacts DEF Abstract!Release, Types
    <3> QED BY <3>3 DEF Abstract!Next
  <2> QED BY <1>18, <2>2, <2>3 DEF UnlockCas
<1>19. CASE UNCHANGED vars
  BY <1>19 DEF vars, PendingQueue
<1> QED
  BY <1>1, <1>2, <1>3, <1>4, <1>5, <1>6, <1>7, <1>8, <1>9, <1>10, <1>11, <1>12, <1>13, <1>14, <1>15, <1>16, <1>17, <1>18, <1>19 DEF Next, Lock, Unlock, Spin

\* The mutex is "a fair in order mutex": for any set of tasks it implements
\* FairLock, so ownership never passes a waiter over.
THEOREM ImplementsFairLock == Spec => IsFairLock
<1>1. Init => Abstract!Init
  BY DEF Init, Abstract!Init, PendingQueue
<1> QED BY <1>1, Inductive, StepRefines, PTL DEF Spec, IsFairLock, Abstract!Spec

============================================================================
