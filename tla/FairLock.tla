------------------------------ MODULE FairLock ------------------------------
(***************************************************************************)
(* What "a fair in order mutex" (sync/Mutex.zig:1) promises: a lock with   *)
(* at most one owner and a queue of waiters that are served in the order   *)
(* in which they queued.  Nobody acquires the lock past a waiter.          *)
(***************************************************************************)
EXTENDS Sequences

CONSTANTS Tasks, None

VARIABLES
    owner,  \* the task that owns the lock, or None
    queue   \* the waiters, in order

Init == owner = None /\ queue = <<>>

Acquire(t) ==
    /\ owner = None /\ queue = <<>>
    /\ owner' = t
    /\ UNCHANGED queue

Wait(t) ==
    /\ owner \notin {None, t}
    /\ \A i \in DOMAIN queue : queue[i] # t
    /\ queue' = Append(queue, t)
    /\ UNCHANGED owner

Release(t) ==
    /\ owner = t
    /\ IF queue = <<>>
       THEN owner' = None /\ UNCHANGED queue
       ELSE owner' = Head(queue) /\ queue' = Tail(queue)

Next == \E t \in Tasks : Acquire(t) \/ Wait(t) \/ Release(t)

Spec == Init /\ [][Next]_<<owner, queue>>

=============================================================================
