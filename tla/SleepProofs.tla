---------------------------- MODULE SleepProofs ----------------------------
(***************************************************************************)
(* What tasks sleep on, for every number of tasks: no interleaving of      *)
(* park() with unpark() calls loses a wakeup (Parker.tla), no notification *)
(* leaves a bit behind while its waiters sleep (Notify.tla), and a thread's*)
(* completion, on whose word its owner sleeps, is freed once (Futex.tla).  *)
(***************************************************************************)
EXTENDS Parker, Notify, Futex, FiniteSetTheorems, WellFoundedInduction, TLAPS

----------------------------------------------------------------------------
(* The parker *)

\* The unparker that has taken the parked task and is going to wake it.
Waking(u) == pc[u] \in {"store", "unlock", "wake"}

\* Who holds the lock, and what the sleeper's state allows.
LockInv ==
    /\ pc[Sleeper] \in ParkPcs
    /\ \A u \in Unparkers : pc[u] \in UnparkPcs
    /\ pc[Sleeper] \in {"swap2", "swap3", "unlock", "switch"} <=> lock = Sleeper
    /\ \A u \in Unparkers :
          pc[u] \in {"take", "store", "unlock", "release"} <=> lock = u
    /\ pc[Sleeper] # "idle" => state = "running"

\* The parked task is blocked, and at most one unparker is waking it.
ParkedInv ==
    /\ state # "blocked" => parked_task = None
    /\ \A u \in Unparkers : Waking(u) => state = "blocked" /\ parked_task = None
    /\ \A u, v \in Unparkers : Waking(u) /\ Waking(v) => u = v
    /\ state = "blocked" /\ parked_task = None => \E u \in Unparkers : Waking(u)

\* Attempts that a sleeping task cannot see any more have an unparker that
\* acts on them, and an unpark() is owed only as long as it left a trace.
AttemptsInv ==
    /\ unpark_attempts # 0 /\ (state = "blocked" \/ pc[Sleeper] = "switch") =>
          \E u \in Unparkers : Responsible(u)
    /\ owed =>
          \/ unpark_attempts # 0
          \/ pc[Sleeper] = "unlock"
          \/ state = "ready"
          \/ \E u \in Unparkers : Waking(u)

ParkerInv == TypeOK /\ LockInv /\ ParkedInv /\ AttemptsInv

\* The inductive invariant holds when the sleeper starts out parked.
LEMMA ParkerInitInv == Init => ParkerInv
<1> SUFFICES ASSUME Init PROVE ParkerInv
  OBVIOUS
<1> USE ParkerAssumption DEF Init, Actors, ParkPcs, UnparkPcs
<1>1. TypeOK
  BY Zenon DEF TypeOK
<1>2. LockInv
  BY DEF LockInv
<1>3. ParkedInv /\ AttemptsInv
  BY DEF ParkedInv, AttemptsInv, Waking, Responsible
<1> QED BY <1>1, <1>2, <1>3 DEF ParkerInv

\* Every step of park() and unpark() preserves the inductive invariant.
LEMMA ParkerNextInv == ParkerInv /\ [Next]_vars => ParkerInv'
<1> SUFFICES ASSUME ParkerInv, [Next]_vars PROVE ParkerInv'
  OBVIOUS
<1> USE ParkerAssumption DEF ParkerInv, Goto, Actors, ParkPcs, UnparkPcs
<1>1. CASE StartPark
  <2>1. TypeOK'
    BY <1>1 DEF TypeOK, StartPark
  <2>2. LockInv'
    BY <1>1 DEF TypeOK, LockInv, StartPark
  <2>3. ParkedInv'
    BY <1>1 DEF TypeOK, LockInv, ParkedInv, Waking, StartPark
  <2>4. AttemptsInv'
    BY <1>1, Zenon DEF TypeOK, LockInv, ParkedInv, AttemptsInv, Waking, Responsible, StartPark
  <2> QED BY <2>1, <2>2, <2>3, <2>4
<1>2. CASE ParkSwap
  <2>1. TypeOK'
    BY <1>2, Zenon DEF TypeOK, ParkSwap
  <2>2. LockInv'
    BY <1>2 DEF TypeOK, LockInv, ParkSwap
  <2>3. ParkedInv'
    BY <1>2 DEF TypeOK, LockInv, ParkedInv, Waking, ParkSwap
  <2>4. AttemptsInv'
    BY <1>2 DEF TypeOK, LockInv, ParkedInv, AttemptsInv, Waking, Responsible, ParkSwap
  <2> QED BY <2>1, <2>2, <2>3, <2>4
<1>3. CASE ParkLock
  <2>1. TypeOK'
    BY <1>3 DEF TypeOK, ParkLock
  <2>2. LockInv'
    BY <1>3 DEF TypeOK, LockInv, ParkLock
  <2>3. ParkedInv'
    BY <1>3 DEF TypeOK, LockInv, ParkedInv, Waking, ParkLock
  <2>4. AttemptsInv'
    BY <1>3, Zenon DEF TypeOK, LockInv, ParkedInv, AttemptsInv, Waking, Responsible, ParkLock
  <2> QED BY <2>1, <2>2, <2>3, <2>4
<1>4. CASE ParkSwap2
  <2>1. TypeOK'
    BY <1>4 DEF TypeOK, ParkSwap2, Recheck
  <2>2. LockInv'
    BY <1>4, Zenon DEF TypeOK, LockInv, ParkSwap2, Recheck
  <2>3. ParkedInv'
    BY <1>4, Zenon DEF TypeOK, LockInv, ParkedInv, Waking, ParkSwap2, Recheck
  <2>4. AttemptsInv'
    BY <1>4, Zenon
    DEF TypeOK, LockInv, ParkedInv, AttemptsInv, Waking, Responsible, ParkSwap2, Recheck
  <2> QED BY <2>1, <2>2, <2>3, <2>4
<1>5. CASE ParkSwap3
  <2>1. TypeOK'
    BY <1>5 DEF TypeOK, ParkSwap3, Recheck
  <2>2. LockInv'
    BY <1>5 DEF TypeOK, LockInv, ParkSwap3, Recheck
  <2>3. ParkedInv'
    BY <1>5 DEF TypeOK, LockInv, ParkedInv, Waking, ParkSwap3, Recheck
  <2>4. AttemptsInv'
    BY <1>5, Zenon
    DEF TypeOK, LockInv, ParkedInv, AttemptsInv, Waking, Responsible, ParkSwap3, Recheck
  <2> QED BY <2>1, <2>2, <2>3, <2>4
<1>6. CASE ParkUnlock
  <2>1. TypeOK'
    BY <1>6, Zenon DEF TypeOK, ParkUnlock
  <2>2. LockInv'
    BY <1>6 DEF TypeOK, LockInv, ParkUnlock
  <2>3. ParkedInv'
    BY <1>6 DEF TypeOK, LockInv, ParkedInv, Waking, ParkUnlock
  <2>4. AttemptsInv'
    BY <1>6, Zenon DEF TypeOK, LockInv, ParkedInv, AttemptsInv, Waking, Responsible, ParkUnlock
  <2> QED BY <2>1, <2>2, <2>3, <2>4
<1>7. CASE DeferredPark
  <2>1. TypeOK'
    BY <1>7 DEF TypeOK, DeferredPark
  <2>2. LockInv'
    BY <1>7 DEF TypeOK, LockInv, DeferredPark
  <2>3. ParkedInv'
    BY <1>7 DEF TypeOK, LockInv, ParkedInv, Waking, DeferredPark
  <2>4. AttemptsInv'
    BY <1>7, Zenon
    DEF TypeOK, LockInv, ParkedInv, AttemptsInv, Waking, Responsible, DeferredPark
  <2> QED BY <2>1, <2>2, <2>3, <2>4
<1>8. CASE Dispatch
  <2>1. TypeOK'
    BY <1>8, Zenon DEF TypeOK, Dispatch
  <2>2. LockInv'
    BY <1>8 DEF TypeOK, LockInv, Dispatch
  <2>3. ParkedInv'
    BY <1>8 DEF TypeOK, LockInv, ParkedInv, Waking, Dispatch
  <2>4. AttemptsInv'
    BY <1>8 DEF TypeOK, LockInv, ParkedInv, AttemptsInv, Waking, Responsible, Dispatch
  <2> QED BY <2>1, <2>2, <2>3, <2>4
<1>9. ASSUME NEW u \in Unparkers, UnparkAdd(u) PROVE ParkerInv'
  <2>1. TypeOK'
    BY <1>9 DEF TypeOK, UnparkAdd
  <2>2. LockInv'
    BY <1>9 DEF TypeOK, LockInv, UnparkAdd
  <2>3. ParkedInv'
    BY <1>9 DEF TypeOK, LockInv, ParkedInv, Waking, UnparkAdd
  <2>4. AttemptsInv'
    BY <1>9 DEF TypeOK, LockInv, ParkedInv, AttemptsInv, Waking, Responsible, UnparkAdd
  <2> QED BY <2>1, <2>2, <2>3, <2>4, Zenon
<1>10. ASSUME NEW u \in Unparkers, UnparkLock(u) PROVE ParkerInv'
  <2>1. TypeOK'
    BY <1>10 DEF TypeOK, UnparkLock
  <2>2. LockInv'
    BY <1>10 DEF TypeOK, LockInv, UnparkLock
  <2>3. ParkedInv'
    BY <1>10 DEF TypeOK, LockInv, ParkedInv, Waking, UnparkLock
  <2>4. AttemptsInv'
    BY <1>10, Zenon DEF TypeOK, LockInv, ParkedInv, AttemptsInv, Waking, Responsible, UnparkLock
  <2> QED BY <2>1, <2>2, <2>3, <2>4
<1>11. ASSUME NEW u \in Unparkers, UnparkTake(u) PROVE ParkerInv'
  <2>1. TypeOK'
    BY <1>11 DEF TypeOK, UnparkTake
  <2>2. LockInv'
    BY <1>11 DEF TypeOK, LockInv, UnparkTake
  <2>3. ParkedInv'
    BY <1>11 DEF TypeOK, LockInv, ParkedInv, Waking, UnparkTake
  <2>4. AttemptsInv'
    BY <1>11 DEF TypeOK, LockInv, ParkedInv, AttemptsInv, Waking, Responsible, UnparkTake
  <2> QED BY <2>1, <2>2, <2>3, <2>4
<1>12. ASSUME NEW u \in Unparkers, UnparkStore(u) PROVE ParkerInv'
  <2>1. TypeOK'
    BY <1>12 DEF TypeOK, UnparkStore
  <2>2. LockInv'
    BY <1>12 DEF TypeOK, LockInv, UnparkStore
  <2>3. ParkedInv'
    BY <1>12 DEF TypeOK, LockInv, ParkedInv, Waking, UnparkStore
  <2>4. AttemptsInv'
    BY <1>12, Zenon
    DEF TypeOK, LockInv, ParkedInv, AttemptsInv, Waking, Responsible, UnparkStore
  <2> QED BY <2>1, <2>2, <2>3, <2>4
<1>13. ASSUME NEW u \in Unparkers, UnparkUnlock(u) PROVE ParkerInv'
  <2>1. TypeOK'
    BY <1>13 DEF TypeOK, UnparkUnlock
  <2>2. LockInv'
    BY <1>13 DEF TypeOK, LockInv, UnparkUnlock
  <2>3. ParkedInv'
    BY <1>13 DEF TypeOK, LockInv, ParkedInv, Waking, UnparkUnlock
  <2>4. AttemptsInv'
    BY <1>13 DEF TypeOK, LockInv, ParkedInv, AttemptsInv, Waking, Responsible, UnparkUnlock
  <2> QED BY <2>1, <2>2, <2>3, <2>4
<1>14. ASSUME NEW u \in Unparkers, UnparkWake(u) PROVE ParkerInv'
  <2>1. TypeOK'
    BY <1>14 DEF TypeOK, UnparkWake
  <2>2. LockInv'
    BY <1>14 DEF TypeOK, LockInv, UnparkWake, ParkedInv, Waking
  <2>3. ParkedInv'
    BY <1>14 DEF TypeOK, LockInv, ParkedInv, Waking, UnparkWake
  <2>4. AttemptsInv'
    BY <1>14 DEF TypeOK, LockInv, ParkedInv, AttemptsInv, Waking, Responsible, UnparkWake
  <2> QED BY <2>1, <2>2, <2>3, <2>4
<1>15. CASE UNCHANGED vars
  BY <1>15 DEF vars, TypeOK, LockInv, ParkedInv, AttemptsInv, Waking, Responsible
<1> QED
  BY <1>1, <1>2, <1>3, <1>4, <1>5, <1>6, <1>7, <1>8, <1>9, <1>10, <1>11, <1>12, <1>13, <1>14,
     <1>15
  DEF Next, Park, Unpark

\* The inductive invariant holds in every reachable state.
LEMMA Inductive == Spec => []ParkerInv
  BY ParkerInitInv, ParkerNextInv, PTL DEF Spec

\* Every reachable state is well typed.
THEOREM TypeCorrect == Spec => []TypeOK
  BY Inductive, PTL DEF ParkerInv

\* A task that sleeps although unpark() was called since park() last returned
\* has an unparker on its way to it, and every blocked task can be woken.
THEOREM UnparkNotLost == Spec => [](NoLostUnpark /\ BlockedIsWakeable)
<1>1. ParkerInv => NoLostUnpark
  BY ParkerAssumption
  DEF ParkerInv, TypeOK, LockInv, AttemptsInv, NoLostUnpark, Waking, Responsible
<1>2. ParkerInv => BlockedIsWakeable
  BY DEF ParkerInv, TypeOK, ParkedInv, BlockedIsWakeable, Waking
<1> QED BY <1>1, <1>2, Inductive, PTL

\* unpark() wakes only a blocked task, and only one unparker does.
THEOREM WakesOnce == Spec => [](WakesBlockedTask /\ NothingParkedWhileRunning)
<1>1. ParkerInv => WakesBlockedTask /\ NothingParkedWhileRunning
  BY DEF ParkerInv, ParkedInv, WakesBlockedTask, NothingParkedWhileRunning, Waking
<1> QED BY <1>1, Inductive, PTL

----------------------------------------------------------------------------
(* Notifications: no signal is lost *)

\* signal() adds bits and wakes a waiter in one critical section, wait() looks
\* at the bits in the section in which it joins the queue: with any number of
\* waiters and signals, a bit that is waited for never stays while all sleep.
THEOREM SignalsAreNotLost == NotifySpec => []NoLostSignal
<1> DEFINE NotifyInv == NotifyTypeOK /\ NoLostSignal
<1>1. NotifyInit => NotifyInv
  BY DEF NotifyInit, NotifyTypeOK, NoLostSignal
<1>2. NotifyInv /\ [NotifyNext]_notifyVars => NotifyInv'
  <2> SUFFICES ASSUME NotifyTypeOK, NoLostSignal, [NotifyNext]_notifyVars
               PROVE  NotifyTypeOK' /\ NoLostSignal'
    OBVIOUS
  <2>1. ASSUME NEW w \in Waiters, WaitTakes(w) PROVE NotifyTypeOK' /\ NoLostSignal'
    BY <2>1 DEF WaitTakes, NotifyTypeOK, NoLostSignal
  <2>2. ASSUME NEW w \in Waiters, WaitBlocks(w) PROVE NotifyTypeOK' /\ NoLostSignal'
    BY <2>2 DEF WaitBlocks, NotifyTypeOK, NoLostSignal
  <2>3. ASSUME NEW bits \in SUBSET Bits, Signal(bits) PROVE NotifyTypeOK' /\ NoLostSignal'
    <3>1. CASE wait_queue = <<>>
      BY <2>3, <3>1 DEF Signal, NotifyTypeOK, NoLostSignal
    <3>2. CASE wait_queue # <<>>
      <4>1. Head(wait_queue) \in Waiters /\ Tail(wait_queue) \in Seq(Waiters)
        BY <3>2 DEF NotifyTypeOK
      <4>2. waiter' = [waiter EXCEPT ![Head(wait_queue)] = "woken"] /\ wait_queue' = Tail(wait_queue)
            /\ pending' = pending \cup bits
        BY <2>3, <3>2 DEF Signal
      <4> QED BY <4>1, <4>2 DEF NotifyTypeOK, NoLostSignal
    <3> QED BY <3>1, <3>2
  <2>4. ASSUME NEW bits \in SUBSET Bits, Poll(bits) PROVE NotifyTypeOK' /\ NoLostSignal'
    BY <2>4 DEF Poll, NotifyTypeOK, NoLostSignal
  <2>5. ASSUME UNCHANGED notifyVars PROVE NotifyTypeOK' /\ NoLostSignal'
    BY <2>5 DEF notifyVars, NotifyTypeOK, NoLostSignal
  <2> QED BY <2>1, <2>2, <2>3, <2>4, <2>5, Zenon DEF NotifyNext
<1> QED
  BY <1>1, <1>2, PTL DEF NotifySpec

----------------------------------------------------------------------------
(* What Without() computes *)

\* f holds what is kept of the first n elements of q, for each n.
Keeps(q, W, n, f) ==
    f = [i \in 0 .. n |-> IF i = 0 THEN <<>>
                          ELSE IF q[i] \in W THEN f[i - 1] ELSE Append(f[i - 1], q[i])]

\* A set of numbers that is not empty has a least element.
LEMMA LeastNumber ==
    ASSUME NEW S \in SUBSET Nat, S # {}
    PROVE  \E m \in S : \A k \in S : m <= k
<1>1. IsWellFoundedOn(OpToRel(<, Nat), Nat)
  BY NatLessThanWellFounded, Zenon
<1>2. PICK m \in S : \A k \in Nat : <<k, m>> \in OpToRel(<, Nat) => k \notin S
  BY <1>1, WFMin, Zenon
<1> SUFFICES ASSUME NEW k \in S PROVE m <= k
  OBVIOUS
<1>3. m \in Nat /\ k \in Nat
  OBVIOUS
<1>4. k < m => <<k, m>> \in OpToRel(<, Nat)
  BY <1>3 DEF OpToRel
<1>5. ~ (k < m)
  BY <1>2, <1>3, <1>4, Zenon
<1> QED
  BY <1>3, <1>5

\* The recursion of Without() has a solution: were there a first n without
\* one, the solution for n - 1 could be extended.
LEMMA KeepsExist ==
    ASSUME NEW S, NEW q \in Seq(S), NEW W
    PROVE  \E f : Keeps(q, W, Len(q), f)
<1> DEFINE Bad == {n \in 0 .. Len(q) : ~ \E f : Keeps(q, W, n, f)}
<1>0. Len(q) \in Nat
  OBVIOUS
<1> SUFFICES ASSUME Bad # {} PROVE FALSE
  <2> Len(q) \in 0 .. Len(q)
    BY <1>0
  <2> QED OBVIOUS
<1>1. PICK m \in Bad : \A k \in Bad : m <= k
  <2> Bad \in SUBSET Nat
    BY <1>0
  <2> HIDE DEF Bad
  <2> QED BY LeastNumber
<1>2. CASE m = 0
  <2> Keeps(q, W, 0, [i \in 0 .. 0 |-> <<>>])
    BY DEF Keeps
  <2> QED BY <1>2
<1>3. CASE m # 0
  <2>1. m - 1 \in 0 .. Len(q) /\ m - 1 \notin Bad /\ m \in 1 .. Len(q)
    BY <1>1, <1>3
  <2>2. PICK f : Keeps(q, W, m - 1, f)
    BY <2>1
  <2> DEFINE last == IF q[m] \in W THEN f[m - 1] ELSE Append(f[m - 1], q[m])
             g == [i \in 0 .. m |-> IF i = m THEN last ELSE f[i]]
  <2>3. \A i \in 0 .. m - 1 : g[i] = f[i]
    BY <2>1
  <2>4. ASSUME NEW i \in 0 .. m
        PROVE  g[i] = IF i = 0 THEN <<>>
                      ELSE IF q[i] \in W THEN g[i - 1] ELSE Append(g[i - 1], q[i])
    <3>1. CASE i = m
      <4> g[m - 1] = f[m - 1] BY <2>3, <2>1
      <4> QED BY <3>1, <1>3
    <3>2. CASE i # m
      <4>1. i \in 0 .. m - 1 BY <2>1, <3>2
      <4>2. g[i] = f[i] BY <4>1, <2>3, Zenon
      <4>3. i # 0 => g[i - 1] = f[i - 1] BY <4>1, <2>3
      <4>4. f[i] = IF i = 0 THEN <<>>
                   ELSE IF q[i] \in W THEN f[i - 1] ELSE Append(f[i - 1], q[i])
        BY <4>1, <2>2, Zenon DEF Keeps
      <4> HIDE DEF g
      <4> QED BY <4>2, <4>3, <4>4, Zenon
    <3> QED BY <3>1, <3>2, Zenon
  <2>5. Keeps(q, W, m, g)
    BY <2>4 DEF Keeps
  <2> QED
    BY <2>5
<1> QED
  BY <1>2, <1>3

\* Without() takes tasks out of a queue, and nothing else.
LEMMA WithoutType ==
    ASSUME NEW S, NEW q \in Seq(S), NEW W
    PROVE  Without(q, W) \in Seq(S \ W)
<1> DEFINE f == CHOOSE f : Keeps(q, W, Len(q), f)
<1>1. Keeps(q, W, Len(q), f)
  BY KeepsExist, Zenon
<1>2. Without(q, W) = f[Len(q)]
  BY Zenon DEF Without, Keeps
<1> HIDE DEF f
<1> DEFINE Bad == {n \in 0 .. Len(q) : f[n] \notin Seq(S \ W)}
<1>3. Len(q) \in Nat /\ Len(q) \in 0 .. Len(q)
  OBVIOUS
<1> SUFFICES ASSUME Bad # {} PROVE FALSE
  BY <1>2, <1>3
<1>4. PICK m \in Bad : \A k \in Bad : m <= k
  <2> Bad \in SUBSET Nat
    BY <1>3
  <2> HIDE DEF Bad
  <2> QED BY LeastNumber
<1>5. f[m] = IF m = 0 THEN <<>> ELSE IF q[m] \in W THEN f[m - 1] ELSE Append(f[m - 1], q[m])
  BY <1>1, Zenon DEF Keeps
<1>6. CASE m = 0
  <2> f[m] \in Seq(S \ W)
    BY <1>5, <1>6
  <2> QED OBVIOUS
<1>7. CASE m # 0
  <2>1. m - 1 \in 0 .. Len(q) /\ m - 1 \notin Bad /\ m \in 1 .. Len(q)
    BY <1>3, <1>4, <1>7
  <2>2. f[m - 1] \in Seq(S \ W) /\ q[m] \in S
    BY <2>1
  <2>3. f[m] \in Seq(S \ W)
    BY <1>5, <1>7, <2>2
  <2> QED
    BY <2>3
<1> QED
  BY <1>6, <1>7

----------------------------------------------------------------------------
(* Futexes: a thread's completion is freed once *)

Words == [completion : {running, completed, detached}, other : {"old", "new"}]

TaskPlaces ==
    {"swap", "wake", "destroy", "done", "store", "load", "detach", "wait", "blocked", "woken",
     "claim", "clock", "sleep", "sleeping"}

TaskRecords ==
    [at : TaskPlaces,
     futex_addr : {"completion", "other", None},
     futex_timeout_ms : Deadlines \cup {0, None}, sleep_deadline_ms : Deadlines \cup {0, None}]

Blocked == {t \in Owners \cup Sleepers : task[t].at = "blocked"}
Sleeping == {t \in Sleepers : task[t].at = "sleeping"}

\* The tasks in the queues are blocked, so that who is woken was not at work.
QueuesInv ==
    /\ task \in [Tasks -> TaskRecords] /\ due \in [Sleepers -> Deadlines \cup {None}]
    /\ word \in Words /\ allocated \in BOOLEAN
    /\ queue \in Seq(Blocked) /\ sleep_queue \in Seq(Sleeping)

\* How far the thread and its owner o are, the state they exchange and whether
\* the record is allocated, in the combinations there are.
CompletionInv(o) ==
    LET worker == task[Worker].at
        owner == task[o].at
        joins == {"load", "wait", "blocked", "woken"}
    IN  \/ /\ word.completion = running /\ allocated
           /\ worker = "swap" /\ owner \in joins \cup {"detach"}
        \/ /\ word.completion = detached /\ allocated
           /\ worker = "swap" /\ owner = "done"
        \/ /\ word.completion = completed /\ allocated
           /\ worker \in {"wake", "done"} /\ owner \in joins \cup {"detach", "claim"}
        \/ /\ word.completion = completed /\ allocated
           /\ worker = "destroy" /\ owner = "done"
        \/ /\ word.completion = detached /\ allocated
           /\ worker \in {"wake", "done"} /\ owner = "destroy"
        \/ /\ word.completion # running /\ ~allocated
           /\ worker \in {"wake", "done"} /\ owner = "done"

FutexInv(o) == QueuesInv /\ CompletionInv(o)

\* Every element of a sequence is in every set that its elements are in.
LEMMA WiderSeq ==
    ASSUME NEW A, NEW B, A \subseteq B, NEW s \in Seq(A)
    PROVE  s \in Seq(B)
  OBVIOUS

\* A step of a task t that was not queued, which may queue it.
LEMMA TaskMoves ==
    ASSUME QueuesInv, NEW t \in Tasks, NEW r \in TaskRecords,
           task' = [task EXCEPT ![t] = r],
           task[t].at \notin {"blocked", "sleeping"},
           \/ queue' = queue
           \/ r.at = "blocked" /\ t \in Owners \cup Sleepers /\ queue' = Append(queue, t),
           \/ sleep_queue' = sleep_queue
           \/ r.at = "sleeping" /\ t \in Sleepers /\ sleep_queue' = Append(sleep_queue, t),
           word' \in Words, allocated' \in BOOLEAN, due' = due
    PROVE  QueuesInv'
<1> USE DEF QueuesInv
<1>1. task' \in [Tasks -> TaskRecords] /\ Owners \cup Sleepers \subseteq Tasks
  BY DEF Tasks
<1>2. Blocked \subseteq Blocked' /\ Sleeping \subseteq Sleeping'
  BY <1>1 DEF Blocked, Sleeping
<1>3. queue \in Seq(Blocked') /\ sleep_queue \in Seq(Sleeping')
  BY <1>2, WiderSeq
<1>4. r.at = "blocked" /\ t \in Owners \cup Sleepers => t \in Blocked'
  BY <1>1 DEF Blocked
<1>5. r.at = "sleeping" /\ t \in Sleepers => t \in Sleeping'
  BY <1>1 DEF Sleeping
<1>6. queue' \in Seq(Blocked')
  <2>1. CASE queue' = queue
    BY <1>3, <2>1
  <2>2. CASE r.at = "blocked" /\ t \in Owners \cup Sleepers /\ queue' = Append(queue, t)
    BY <1>3, <1>4, <2>2
  <2> QED BY <2>1, <2>2, Zenon
<1>7. sleep_queue' \in Seq(Sleeping')
  <2>1. CASE sleep_queue' = sleep_queue
    BY <1>3, <2>1, Zenon
  <2>2. CASE r.at = "sleeping" /\ t \in Sleepers /\ sleep_queue' = Append(sleep_queue, t)
    BY <1>3, <1>5, <2>2
  <2> QED BY <2>1, <2>2, Zenon
<1> QED
  BY <1>1, <1>6, <1>7

\* Tasks W of a queue are woken, by a task that goes on or by a tick.
LEMMA TasksWoken ==
    ASSUME QueuesInv, NEW W, task' \in [Tasks -> TaskRecords],
           \/ W \subseteq Blocked /\ queue' = Without(queue, W) /\ sleep_queue' = sleep_queue
           \/ W \subseteq Sleeping /\ sleep_queue' = Without(sleep_queue, W) /\ queue' = queue,
           \A u \in (Blocked \cup Sleeping) \ W : task'[u] = task[u],
           UNCHANGED <<word, allocated, due>>
    PROVE  QueuesInv'
<1> USE DEF QueuesInv
<1>1. Blocked \cap Sleeping = {} /\ Blocked \cup Sleeping \subseteq Tasks
  BY DEF Blocked, Sleeping, Tasks
<1>2. Blocked \ W \subseteq Blocked' /\ Sleeping \ W \subseteq Sleeping'
  BY DEF Blocked, Sleeping
<1>3. CASE W \subseteq Blocked /\ queue' = Without(queue, W) /\ sleep_queue' = sleep_queue
  <2>1. Sleeping \subseteq Sleeping'
    BY <1>1, <1>2, <1>3, Zenon
  <2>2. queue' \in Seq(Blocked \ W)
    BY <1>3, WithoutType, Zenon
  <2>3. queue' \in Seq(Blocked') /\ sleep_queue' \in Seq(Sleeping')
    BY <1>2, <1>3, <2>1, <2>2, WiderSeq, Zenon
  <2> QED
    BY <2>3
<1>4. CASE W \subseteq Sleeping /\ sleep_queue' = Without(sleep_queue, W) /\ queue' = queue
  <2>1. Blocked \subseteq Blocked'
    BY <1>1, <1>2, <1>4, Zenon
  <2>2. sleep_queue' \in Seq(Sleeping \ W)
    BY <1>4, WithoutType, Zenon
  <2>3. queue' \in Seq(Blocked') /\ sleep_queue' \in Seq(Sleeping')
    BY <1>2, <1>4, <2>1, <2>2, WiderSeq, Zenon
  <2> QED
    BY <2>3
<1> QED
  BY <1>3, <1>4, Zenon

\* What wake() takes from the bucket was blocked there.
LEMMA ToWakeBlocked ==
    ASSUME QueuesInv, NEW addr, NEW n \in Nat
    PROVE  Range(ToWake(addr, n)) \subseteq Blocked
<1> DEFINE others == {t \in Tasks : task[t].futex_addr # addr}
           waiting == Without(queue, others)
<1>1. waiting \in Seq(Blocked \ others)
  BY WithoutType DEF QueuesInv
<1> HIDE DEF waiting
<1>2. ToWake(addr, n) \in Seq(Blocked)
  <2> SUFFICES SubSeq(waiting, 1, IF Len(waiting) < n THEN Len(waiting) ELSE n) \in Seq(Blocked)
    BY DEF ToWake, waiting
  <2> DEFINE k == IF Len(waiting) < n THEN Len(waiting) ELSE n
  <2>1. k \in 0 .. Len(waiting) /\ waiting \in Seq(Blocked)
    BY <1>1, WiderSeq
  <2> QED
    BY <2>1
<1> QED
  BY <1>2 DEF Range

\* The steps of the kernel's queues keep the tasks in them blocked.
LEMMA wakeStep ==
    ASSUME QueuesInv, NEW t \in Tasks, t \in {Worker, Setter}, NEW addr, NEW n \in Nat,
           NEW to \in {"wake", "done"},
           wake(t, addr, n, to), UNCHANGED <<word, allocated, sleep_queue, due>>
    PROVE  /\ QueuesInv' /\ task'[t].at = to
           /\ \A u \in Tasks \ {t} : task'[u].at = task[u].at \/ (task[u].at = "blocked" /\ task'[u].at = "woken")
<1> DEFINE W == Range(ToWake(addr, n))
<1>1. W \subseteq Blocked
  BY ToWakeBlocked, Zenon
<1>2. /\ queue' = Without(queue, W)
      /\ task' = [u \in Tasks |->
                  IF u \in W THEN [task[u] EXCEPT !.at = "woken", !.futex_addr = None]
                  ELSE IF u = t THEN [task[u] EXCEPT !.at = to] ELSE task[u]]
  BY Zenon DEF wake, WakeFromQueue
<1> HIDE DEF W
<1>3. t \notin Blocked \cup Sleeping /\ Blocked \subseteq Tasks /\ Sleeping \subseteq Tasks
  BY FutexAssumption, Zenon DEF Blocked, Sleeping, Tasks
<1>4. task' \in [Tasks -> TaskRecords]
  <2>1. \A r \in TaskRecords : /\ [r EXCEPT !.at = "woken", !.futex_addr = None] \in TaskRecords
                               /\ [r EXCEPT !.at = to] \in TaskRecords
    BY Zenon DEF TaskRecords, TaskPlaces
  <2>2. \A u \in Tasks : task[u] \in TaskRecords
    BY DEF QueuesInv
  <2> QED BY <1>2, <2>1, <2>2, Zenon
<1>5. \A u \in (Blocked \cup Sleeping) \ W : task'[u] = task[u]
  BY <1>2, <1>3, Zenon
<1>6. QueuesInv'
  BY <1>1, <1>2, <1>4, <1>5, TasksWoken, Zenon
<1>7. task'[t].at = to
  BY <1>1, <1>2, <1>3, Zenon DEF QueuesInv, TaskRecords
<1>8. ASSUME NEW u \in Tasks \ {t}
      PROVE  task'[u].at = task[u].at \/ (task[u].at = "blocked" /\ task'[u].at = "woken")
  BY <1>1, <1>2, Zenon DEF QueuesInv, TaskRecords, Blocked
<1> QED
  BY <1>6, <1>7, <1>8

LEMMA ticksStep ==
    ASSUME QueuesInv, futex_tick \/ nanosleep_tick
    PROVE  /\ QueuesInv' /\ UNCHANGED <<word, allocated>>
           /\ \A u \in Tasks : \/ task'[u].at = task[u].at
                               \/ task[u].at = "blocked" /\ task'[u].at = "woken"
                               \/ task[u].at = "sleeping"
<1>1. CASE futex_tick
  <2> DEFINE W == {t \in Range(queue) : Expired(t)}
  <2>1. W \subseteq Blocked
    BY DEF QueuesInv, Range
  <2>2. /\ queue' = Without(queue, W)
        /\ task' = [t \in Tasks |->
                  IF t \in W
                  THEN [task[t] EXCEPT !.at = "woken", !.futex_addr = None, !.futex_timeout_ms = 0]
                  ELSE task[t]]
        /\ UNCHANGED <<word, allocated, sleep_queue, due>>
    BY <1>1, Zenon DEF futex_tick, WakeFromQueue
  <2> HIDE DEF W
  <2>3. task' \in [Tasks -> TaskRecords]
    <3>1. \A r \in TaskRecords :
            [r EXCEPT !.at = "woken", !.futex_addr = None, !.futex_timeout_ms = 0] \in TaskRecords
      BY Zenon DEF TaskRecords, TaskPlaces
    <3>2. \A u \in Tasks : task[u] \in TaskRecords
      BY DEF QueuesInv
    <3> QED BY <2>2, <3>1, <3>2, Zenon
  <2>4. Blocked \subseteq Tasks /\ Sleeping \subseteq Tasks
    BY DEF Blocked, Sleeping, Tasks
  <2>5. QueuesInv'
    <3> \A u \in (Blocked \cup Sleeping) \ W : task'[u] = task[u]
      BY <2>2, <2>4, Zenon
    <3> QED BY <2>1, <2>2, <2>3, TasksWoken, Zenon
  <2>6. \A u \in Tasks : task'[u].at = task[u].at \/ (task[u].at = "blocked" /\ task'[u].at = "woken")
    BY <2>1, <2>2, Zenon DEF QueuesInv, TaskRecords, Blocked
  <2> QED
    BY <2>2, <2>5, <2>6, Zenon
<1>2. CASE nanosleep_tick
  <2> DEFINE W == {t \in Range(sleep_queue) : task[t].sleep_deadline_ms <= now}
  <2>1. W \subseteq Sleeping
    BY DEF QueuesInv, Range
  <2>2. /\ sleep_queue' = Without(sleep_queue, W)
        /\ task' = [t \in Tasks |-> IF t \in W THEN Task("done") ELSE task[t]]
        /\ UNCHANGED <<word, allocated, queue, due>>
    BY <1>2, Zenon DEF nanosleep_tick
  <2> HIDE DEF W
  <2>3. task' \in [Tasks -> TaskRecords]
    BY <2>2 DEF QueuesInv, TaskRecords, TaskPlaces, Task
  <2>4. Blocked \subseteq Tasks /\ Sleeping \subseteq Tasks
    BY DEF Blocked, Sleeping, Tasks
  <2>5. QueuesInv'
    <3> \A u \in (Blocked \cup Sleeping) \ W : task'[u] = task[u]
      BY <2>2, <2>4, Zenon
    <3> QED BY <2>1, <2>2, <2>3, TasksWoken, Zenon
  <2>6. \A u \in Tasks : task'[u].at = task[u].at \/ task[u].at = "sleeping"
    BY <2>1, <2>2, Zenon DEF QueuesInv, TaskRecords, Sleeping
  <2> QED
    BY <2>2, <2>5, <2>6, Zenon
<1> QED
  BY <1>1, <1>2, Zenon

LEMMA GotoMoves ==
    ASSUME QueuesInv, NEW t \in Tasks, NEW from, NEW to \in TaskPlaces,
           FutexGoto(t, from, to), from \notin {"blocked", "sleeping"},
           UNCHANGED <<queue, sleep_queue, due>>, word' \in Words, allocated' \in BOOLEAN
    PROVE  /\ QueuesInv' /\ task[t].at = from /\ task'[t].at = to
           /\ \A u \in Tasks \ {t} : task'[u] = task[u]
<1> DEFINE r == [task[t] EXCEPT !.at = to]
<1>1. task[t] \in TaskRecords
  BY DEF QueuesInv
<1>2. r \in TaskRecords /\ r.at = to
  BY <1>1 DEF TaskRecords
<1>3. task' = [task EXCEPT ![t] = r] /\ task[t].at = from
  BY DEF FutexGoto
<1> HIDE DEF r
<1>4. QueuesInv'
  BY <1>2, <1>3, TaskMoves, Zenon
<1> QED
  BY <1>2, <1>3, <1>4, Zenon DEF QueuesInv

\* wait() queues a task, or sends it back to load the word again.
LEMMA waitStep ==
    ASSUME QueuesInv, NEW t \in Owners \cup Sleepers, NEW addr \in {"completion", "other"},
           NEW expected, NEW deadline \in Deadlines \cup {0, None},
           wait(t, addr, expected, deadline), UNCHANGED <<word, allocated, sleep_queue, due>>
    PROVE  /\ QueuesInv' /\ task[t].at = "wait" /\ task'[t].at \in {"blocked", "load"}
           /\ \A u \in Tasks \ {t} : task'[u] = task[u]
<1>1. t \in Tasks /\ task[t] \in TaskRecords
  BY DEF QueuesInv, Tasks
<1>2. CASE Holds(addr, expected)
  <2> DEFINE r == [task[t] EXCEPT !.at = "blocked", !.futex_addr = addr,
                                  !.futex_timeout_ms = deadline]
  <2>1. r \in TaskRecords /\ r.at = "blocked"
    BY <1>1, Zenon DEF TaskRecords, TaskPlaces
  <2>2. task' = [task EXCEPT ![t] = r] /\ queue' = Append(queue, t) /\ task[t].at = "wait"
    BY <1>2, Zenon DEF wait, Enqueue
  <2> HIDE DEF r
  <2>3. QueuesInv'
    BY <1>1, <2>1, <2>2, TaskMoves, Zenon DEF QueuesInv
  <2> QED
    BY <1>1, <2>1, <2>2, <2>3 DEF QueuesInv
<1>3. CASE ~ Holds(addr, expected)
  <2>1. FutexGoto(t, "wait", "load") /\ UNCHANGED queue
    BY <1>3 DEF wait
  <2>2. "load" \in TaskPlaces
    BY DEF TaskPlaces
  <2> QED
    BY <1>1, <2>1, <2>2, GotoMoves DEF QueuesInv
<1> QED
  BY <1>2, <1>3

\* Steps of sleepers, of the setter and of the clock leave the completion alone.
LEMMA SleeperSteps ==
    ASSUME NEW o, Owners = {o}, FutexInv(o), NEW t \in Sleepers,
           SleeperLoad(t) \/ SleeperClock(t) \/ SleeperWait(t) \/ SleeperSleep(t) \/ Woken(t)
    PROVE  FutexInv(o)'
<1>1. t \in Tasks /\ t \notin {o, Worker} /\ {o, Worker} \subseteq Tasks /\ QueuesInv
      /\ task[t] \in TaskRecords /\ due[t] \in Deadlines \cup {None}
  BY FutexAssumption, Zenon DEF Tasks, FutexInv, QueuesInv
<1> SUFFICES QueuesInv' /\ (\A u \in Tasks \ {t} : task'[u] = task[u]) /\ UNCHANGED <<word, allocated>>
  BY <1>1, Zenon DEF FutexInv, CompletionInv
<1>2. CASE SleeperLoad(t)
  <2>1. PICK to \in {"done", "clock", "wait"} : FutexGoto(t, "load", to)
    BY <1>2 DEF SleeperLoad
  <2>2. to \in TaskPlaces
    BY Zenon DEF TaskPlaces
  <2> QED BY <1>1, <1>2, <2>1, <2>2, GotoMoves, Zenon DEF SleeperLoad, QueuesInv
<1>3. CASE SleeperClock(t)
  <2>1. PICK to \in {"done", "wait"} : FutexGoto(t, "clock", to)
    BY <1>3 DEF SleeperClock
  <2>2. to \in TaskPlaces
    BY Zenon DEF TaskPlaces
  <2> QED BY <1>1, <1>3, <2>1, <2>2, GotoMoves, Zenon DEF SleeperClock, QueuesInv
<1>4. CASE SleeperWait(t)
  <2>1. PICK d \in Deadlines \cup {0, None} : wait(t, "other", "old", d)
    BY <1>1, <1>4, Zenon DEF SleeperWait
  <2> QED BY <1>1, <1>4, <2>1, waitStep, Zenon DEF SleeperWait
<1>5. CASE SleeperSleep(t)
  <2>1. CASE now >= due[t]
    <3>1. FutexGoto(t, "sleep", "done") /\ UNCHANGED sleep_queue
      BY <1>5, <2>1, Zenon DEF SleeperSleep
    <3>2. "done" \in TaskPlaces
      BY DEF TaskPlaces
    <3> QED BY <1>1, <1>5, <3>1, <3>2, GotoMoves, Zenon DEF SleeperSleep, QueuesInv
  <2>2. CASE ~ (now >= due[t])
    <3> DEFINE r == [task[t] EXCEPT !.at = "sleeping", !.sleep_deadline_ms = due[t]]
    <3>1. r \in TaskRecords /\ r.at = "sleeping"
      BY <1>1, Zenon DEF TaskRecords, TaskPlaces
    <3>2. task' = [task EXCEPT ![t] = r] /\ sleep_queue' = Append(sleep_queue, t) /\ task[t].at = "sleep"
      BY <1>5, <2>2, Zenon DEF SleeperSleep
    <3> HIDE DEF r
    <3>3. QueuesInv'
      BY <1>1, <1>5, <3>1, <3>2, TaskMoves, Zenon DEF QueuesInv, SleeperSleep
    <3> QED
      BY <1>1, <1>5, <3>1, <3>2, <3>3, Zenon DEF QueuesInv, SleeperSleep
  <2> QED BY <2>1, <2>2, Zenon
<1>6. CASE Woken(t)
  <2>1. Task("load") \in TaskRecords /\ Task("load").at = "load"
    BY DEF Task, TaskRecords, TaskPlaces
  <2>2. QueuesInv'
    BY <1>1, <1>6, <2>1, TaskMoves, Zenon DEF QueuesInv, Woken
  <2> QED
    BY <1>1, <1>6, <2>2 DEF QueuesInv, Woken
<1> QED
  BY <1>2, <1>3, <1>4, <1>5, <1>6, Zenon

LEMMA OwnerSteps ==
    ASSUME NEW o, Owners = {o}, FutexInv(o),
           Detach(o) \/ JoinLoad(o) \/ JoinWait(o) \/ JoinClaim(o) \/ Destroy(o) \/ Woken(o)
    PROVE  FutexInv(o)'
<1>1. o \in Tasks /\ Worker \in Tasks \ {o} /\ QueuesInv /\ CompletionInv(o) /\ task[o] \in TaskRecords
      /\ word \in Words /\ allocated \in BOOLEAN
  BY FutexAssumption DEF Tasks, FutexInv, QueuesInv
<1>2. {"load", "claim", "wait", "done", "destroy"} \subseteq TaskPlaces
  BY DEF TaskPlaces
<1>3. \A c \in {running, completed, detached} :
         [word EXCEPT !.completion = c] \in Words /\ [word EXCEPT !.completion = c].completion = c
  BY <1>1, Zenon DEF Words
<1> USE DEF FutexInv
<1>4. CASE Detach(o)
  <2>1. PICK to \in {"done", "destroy"} :
          FutexGoto(o, "detach", to) /\ (to = "destroy" <=> word.completion = completed)
    BY <1>4 DEF Detach, completed, detached, running
  <2>2. word' = [word EXCEPT !.completion = detached] /\ UNCHANGED <<allocated, queue, sleep_queue, due>>
    BY <1>4 DEF Detach
  <2>3. QueuesInv' /\ task[o].at = "detach" /\ task'[o].at = to /\ task'[Worker] = task[Worker]
    BY <1>1, <1>2, <1>3, <2>1, <2>2, GotoMoves
  <2>4. CompletionInv(o)'
    BY <1>1, <1>3, <2>1, <2>2, <2>3, Zenon DEF CompletionInv, completed, detached, running
  <2> QED BY <2>3, <2>4, Zenon
<1>5. CASE JoinLoad(o)
  <2>1. PICK to \in {"wait", "claim"} :
          FutexGoto(o, "load", to) /\ (to = "wait" <=> word.completion = running)
    BY <1>5, Zenon DEF JoinLoad
  <2>2. UNCHANGED <<word, allocated, queue, sleep_queue, due>>
    BY <1>5, Zenon DEF JoinLoad
  <2>3. QueuesInv' /\ task[o].at = "load" /\ task'[o].at = to /\ task'[Worker] = task[Worker]
    BY <1>1, <1>2, <2>1, <2>2, GotoMoves
  <2>4. CompletionInv(o)'
    BY <1>1, <2>1, <2>2, <2>3, Zenon DEF CompletionInv
  <2> QED BY <2>3, <2>4, Zenon
<1>6. CASE JoinWait(o)
  <2>1. wait(o, "completion", running, 0) /\ UNCHANGED <<word, allocated, sleep_queue, due>>
    BY <1>6, Zenon DEF JoinWait
  <2>2. /\ QueuesInv' /\ task[o].at = "wait" /\ task'[o].at \in {"blocked", "load"}
        /\ task'[Worker] = task[Worker]
    BY <1>1, <2>1, waitStep, Zenon
  <2>3. CompletionInv(o)'
    BY <1>1, <2>1, <2>2, Zenon DEF CompletionInv
  <2> QED BY <2>2, <2>3, Zenon
<1>7. CASE JoinClaim(o)
  <2>1. PICK to \in {"destroy", "done"} :
          /\ FutexGoto(o, "claim", to)
          /\ to = "destroy" <=> word.completion = completed
          /\ word' = IF to = "destroy" THEN [word EXCEPT !.completion = detached] ELSE word
    BY <1>7 DEF JoinClaim, completed, detached
  <2>2. UNCHANGED <<allocated, queue, sleep_queue, due>> /\ word' \in Words
    BY <1>1, <1>3, <1>7, <2>1, Zenon DEF JoinClaim
  <2>3. QueuesInv' /\ task[o].at = "claim" /\ task'[o].at = to /\ task'[Worker] = task[Worker]
    BY <1>1, <1>2, <2>1, <2>2, GotoMoves
  <2>4. CompletionInv(o)'
    BY <1>1, <1>3, <2>1, <2>2, <2>3, Zenon DEF CompletionInv, completed, detached, running
  <2> QED BY <2>3, <2>4, Zenon
<1>8. CASE Destroy(o)
  <2>1. QueuesInv' /\ task[o].at = "destroy" /\ task'[o].at = "done" /\ task'[Worker] = task[Worker]
        /\ word' = word /\ ~ allocated'
    <3>1. FutexGoto(o, "destroy", "done") /\ allocated' = FALSE /\ UNCHANGED <<word, queue, sleep_queue, due>>
      BY <1>8 DEF Destroy
    <3>2. allocated' \in BOOLEAN /\ ~ allocated' /\ word' \in Words /\ "done" \in TaskPlaces
      BY <1>1, <1>2, <3>1, Zenon
    <3>3. o \in Tasks /\ UNCHANGED <<queue, sleep_queue, due>>
      BY <1>1, <3>1
    <3>4. QueuesInv' /\ task[o].at = "destroy" /\ task'[o].at = "done"
          /\ \A u \in Tasks \ {o} : task'[u] = task[u]
      BY <1>1, <3>1, <3>2, <3>3, GotoMoves
    <3> QED BY <1>1, <3>1, <3>2, <3>4, Zenon
  <2>2. CompletionInv(o)'
    BY <1>1, <2>1, Zenon DEF CompletionInv, completed, detached, running
  <2> QED BY <2>1, <2>2, Zenon
<1>9. CASE Woken(o)
  <2>1. Task("load") \in TaskRecords /\ Task("load").at = "load"
    BY Zenon DEF Task, TaskRecords, TaskPlaces
  <2>2. QueuesInv'
    BY <1>1, <1>9, <2>1, TaskMoves, Zenon DEF QueuesInv, Woken
  <2>3. task'[o].at = "load" /\ task[o].at = "woken" /\ task'[Worker] = task[Worker]
        /\ UNCHANGED <<word, allocated>>
    BY <1>1, <1>9, <2>1 DEF QueuesInv, Woken
  <2>4. CompletionInv(o)'
    BY <1>1, <2>3 DEF CompletionInv
  <2> QED
    BY <2>2, <2>4, Zenon
<1> QED
  BY <1>4, <1>5, <1>6, <1>7, <1>8, <1>9

LEMMA WorkerSteps ==
    ASSUME NEW o, Owners = {o}, FutexInv(o), WorkerSwap \/ WorkerWake \/ Destroy(Worker)
    PROVE  FutexInv(o)'
<1>1. o \in Tasks \ {Worker} /\ Worker \in Tasks /\ QueuesInv /\ CompletionInv(o)
      /\ word \in Words /\ allocated \in BOOLEAN
  BY FutexAssumption, Zenon DEF Tasks, FutexInv, QueuesInv
<1>2. {"wake", "done", "destroy"} \subseteq TaskPlaces
  BY Zenon DEF TaskPlaces
<1> USE DEF FutexInv
<1>3. CASE WorkerSwap
  <2>1. PICK to \in {"wake", "destroy"} :
          FutexGoto(Worker, "swap", to) /\ (to = "destroy" <=> word.completion = detached)
    BY <1>3 DEF WorkerSwap
  <2>2. /\ word' = [word EXCEPT !.completion = completed] /\ UNCHANGED <<allocated, queue, sleep_queue, due>>
        /\ word' \in Words /\ word'.completion = completed
    BY <1>1, <1>3, Zenon DEF WorkerSwap, Words
  <2>3. QueuesInv' /\ task[Worker].at = "swap" /\ task'[Worker].at = to /\ task'[o] = task[o]
    BY <1>1, <1>2, <2>1, <2>2, GotoMoves
  <2>4. CompletionInv(o)'
    BY <1>1, <2>1, <2>2, <2>3, Zenon DEF CompletionInv, completed, detached, running
  <2> QED BY <2>3, <2>4, Zenon
<1>4. CASE WorkerWake
  <2>1. Cardinality(Tasks) \in Nat
    <3> IsFiniteSet({Worker, Setter})
      <4> IsFiniteSet({Worker}) /\ {Worker, Setter} = {Worker} \cup {Setter}
        BY FS_Singleton, Zenon
      <4> QED BY FS_AddElement
    <3> IsFiniteSet({Worker, Setter} \cup (Owners \cup Sleepers))
      BY FutexAssumption, FS_Union, Zenon
    <3> Tasks = {Worker, Setter} \cup (Owners \cup Sleepers)
      BY DEF Tasks
    <3> QED BY FS_CardinalityType, Zenon
  <2>2. /\ task[Worker].at = "wake" /\ wake(Worker, "completion", Cardinality(Tasks), "done")
        /\ UNCHANGED <<word, allocated, sleep_queue, due>>
    BY <1>4, Zenon DEF WorkerWake
  <2>3. /\ QueuesInv' /\ task'[Worker].at = "done"
        /\ task'[o].at = task[o].at \/ (task[o].at = "blocked" /\ task'[o].at = "woken")
    BY <1>1, <2>1, <2>2, wakeStep, Zenon
  <2>4. CompletionInv(o)'
    BY <1>1, <2>2, <2>3, Zenon DEF CompletionInv
  <2> QED BY <2>3, <2>4, Zenon
<1>5. CASE Destroy(Worker)
  <2>1. QueuesInv' /\ task[Worker].at = "destroy" /\ task'[Worker].at = "done" /\ task'[o] = task[o]
        /\ word' = word /\ ~ allocated'
    <3>1. FutexGoto(Worker, "destroy", "done") /\ allocated' = FALSE /\ UNCHANGED <<word, queue, sleep_queue, due>>
      BY <1>5 DEF Destroy
    <3>2. allocated' \in BOOLEAN /\ ~ allocated' /\ word' \in Words /\ "done" \in TaskPlaces
      BY <1>1, <1>2, <3>1, Zenon
    <3>3. Worker \in Tasks /\ UNCHANGED <<queue, sleep_queue, due>>
      BY <1>1, <3>1
    <3>4. QueuesInv' /\ task[Worker].at = "destroy" /\ task'[Worker].at = "done"
          /\ \A u \in Tasks \ {Worker} : task'[u] = task[u]
      BY <1>1, <3>1, <3>2, <3>3, GotoMoves
    <3> QED BY <1>1, <3>1, <3>2, <3>4, Zenon
  <2>2. CompletionInv(o)'
    BY <1>1, <2>1 DEF CompletionInv, completed, detached, running
  <2> QED BY <2>1, <2>2, Zenon
<1> QED
  BY <1>3, <1>4, <1>5, Zenon

LEMMA OtherSteps ==
    ASSUME NEW o, Owners = {o}, FutexInv(o),
           \/ SetterStore \/ SetterWake \/ futex_tick \/ nanosleep_tick \/ Advance
           \/ UNCHANGED futexVars
    PROVE  FutexInv(o)'
<1>1. /\ o \in Tasks \ {Setter} /\ Worker \in Tasks \ {Setter} /\ Setter \in Tasks
      /\ QueuesInv /\ CompletionInv(o) /\ word \in Words /\ allocated \in BOOLEAN
  BY FutexAssumption, Zenon DEF Tasks, FutexInv, QueuesInv
<1>2. task[Worker].at \notin {"blocked", "sleeping"} /\ task[o].at # "sleeping"
  BY <1>1, Zenon DEF CompletionInv
<1> SUFFICES ASSUME QueuesInv', UNCHANGED <<word.completion, allocated>>,
                    task'[Worker].at = task[Worker].at,
                    task'[o].at = task[o].at \/ (task[o].at = "blocked" /\ task'[o].at = "woken")
             PROVE  FutexInv(o)'
  <2>1. CASE SetterStore
    <3>1. FutexGoto(Setter, "store", "wake") /\ UNCHANGED <<allocated, queue, sleep_queue, due>>
          /\ word' \in Words /\ word'.completion = word.completion /\ "wake" \in TaskPlaces
      BY <1>1, <2>1, Zenon DEF SetterStore, Words, TaskPlaces
    <3> QED BY <1>1, <3>1, GotoMoves, Zenon
  <2>2. CASE SetterWake
    <3>1. PICK to \in {"wake", "done"} : wake(Setter, "other", MaxWake, to)
      BY <2>2, Zenon DEF SetterWake
    <3> QED BY <1>1, <1>2, <2>2, <3>1, wakeStep, FutexAssumption, Zenon DEF SetterWake
  <2>3. CASE futex_tick \/ nanosleep_tick
    BY <1>1, <1>2, <2>3, ticksStep, Zenon
  <2>4. CASE Advance \/ UNCHANGED futexVars
    BY <1>1, <2>4 DEF Advance, futexVars, QueuesInv, Blocked, Sleeping
  <2> QED BY <2>1, <2>2, <2>3, <2>4, Zenon
<1> QED
  BY <1>1, Zenon DEF FutexInv, CompletionInv

\* The record of a completion is freed once and not used afterwards, however
\* the thread, its owner, the ticks and the tasks that share their bucket are
\* scheduled, provided that one owner holds the handle.
THEOREM CompletionFreedOnce ==
    ASSUME NEW o, Owners = {o}
    PROVE  FutexSpec => []InstanceFreedOnce
<1>1. FutexInit => FutexInv(o)
  <2> SUFFICES ASSUME FutexInit PROVE FutexInv(o)
    OBVIOUS
  <2>1. o \in Tasks \ {Worker} /\ Worker \in Tasks
    BY FutexAssumption DEF Tasks
  <2>2. PICK start \in [Sleepers -> {"load", "sleep"}], owner \in {"load", "detach"} :
          task = [t \in Tasks |-> Task(CASE t = Worker -> "swap"
                                         [] t = Setter -> "store"
                                         [] t \in Owners -> owner
                                         [] t \in Sleepers -> start[t])]
    BY DEF FutexInit
  <2>3. ASSUME NEW t \in Tasks
        PROVE  \E a \in TaskPlaces : task[t] = Task(a) /\ (t = Worker => a = "swap") /\ (t = o => a = owner)
    BY <2>2, FutexAssumption, Zenon DEF Tasks, TaskPlaces
  <2>4. \A a \in TaskPlaces : Task(a) \in TaskRecords /\ Task(a).at = a
    BY DEF Task, TaskRecords
  <2>5. task \in [Tasks -> TaskRecords] /\ task[Worker].at = "swap" /\ task[o].at = owner
    BY <2>1, <2>2, <2>3, <2>4, Zenon
  <2>6. QueuesInv
    <3>1. word \in Words /\ allocated \in BOOLEAN /\ due \in [Sleepers -> Deadlines \cup {None}]
      BY DEF FutexInit, Words
    <3>2. queue = <<>> /\ sleep_queue = <<>>
      BY DEF FutexInit
    <3>3. queue \in Seq(Blocked) /\ sleep_queue \in Seq(Sleeping)
      BY <3>2
    <3> QED BY <2>5, <3>1, <3>3 DEF QueuesInv
  <2>7. CompletionInv(o)
    BY <2>5, Zenon DEF CompletionInv, FutexInit, running
  <2> QED BY <2>6, <2>7, Zenon DEF FutexInv
<1>2. FutexInv(o) /\ [FutexNext]_futexVars => FutexInv(o)'
  BY SleeperSteps, OwnerSteps, WorkerSteps, OtherSteps DEF FutexNext, Run, Tasks
<1>3. FutexInv(o) => InstanceFreedOnce
  <2> SUFFICES ASSUME FutexInv(o) PROVE InstanceFreedOnce
    BY Zenon
  <2> DEFINE Freeing == {t \in Owners \cup {Worker} : task[t].at = "destroy"}
  <2>1. PICK x : Freeing \subseteq {x}
    BY Zenon DEF FutexInv, CompletionInv
  <2>2. Cardinality(Freeing) <= 1
    <3> IsFiniteSet({x}) /\ Cardinality({x}) = 1
      BY FS_Singleton, Zenon
    <3> QED BY <2>1, FS_Subset, FS_CardinalityType
  <2>3. \A t \in Owners \cup {Worker} :
          task[t].at \in {"swap", "detach", "load", "claim", "destroy"} => allocated
    BY DEF FutexInv, CompletionInv
  <2>4. (\A t \in Owners \cup {Worker} : task[t].at = "done") => ~allocated
    BY DEF FutexInv, CompletionInv
  <2> QED BY <2>2, <2>3, <2>4 DEF InstanceFreedOnce
<1> QED
  BY <1>1, <1>2, <1>3, PTL DEF FutexSpec

=============================================================================
