------------------------------- MODULE Notify -------------------------------
(***************************************************************************)
(* Notifications (capabilities/types/Notify.zig): a mask of pending bits   *)
(* and a queue of waiting tasks behind a ticket lock.  A critical section  *)
(* is one action; wait() releases the lock by blocking and takes it again  *)
(* after it was woken, and in between others come first.                   *)
(***************************************************************************)
EXTENDS Sequences

CONSTANTS
    Waiters,        \* tasks that wait
    Bits,
    Mask            \* the bits that they wait for

VARIABLES
    pending,        \* bits signalled and not taken
    wait_queue,
    waiter          \* "idle", "blocked" or "woken" (about to lock again)

notifyVars == <<pending, wait_queue, waiter>>

\* Bits, queue and waiters have their types.
NotifyTypeOK ==
    /\ pending \subseteq Bits
    /\ wait_queue \in Seq(Waiters)
    /\ waiter \in [Waiters -> {"idle", "blocked", "woken"}]

NotifyInit ==
    /\ pending = {}
    /\ wait_queue = <<>>
    /\ waiter = [w \in Waiters |-> "idle"]

----------------------------------------------------------------------------

\* wait() finds a bit of its mask, when it begins or after it was woken, and
\* takes all of them.
WaitTakes(w) ==
    /\ waiter[w] \in {"idle", "woken"}
    /\ pending \cap Mask # {}
    /\ pending' = pending \ Mask
    /\ waiter' = [waiter EXCEPT ![w] = "idle"]
    /\ UNCHANGED wait_queue

\* wait() finds none: it joins the queue, and blocking releases the lock.
WaitBlocks(w) ==
    /\ waiter[w] \in {"idle", "woken"}
    /\ pending \cap Mask = {}
    /\ wait_queue' = Append(wait_queue, w)
    /\ waiter' = [waiter EXCEPT ![w] = "blocked"]
    /\ UNCHANGED pending

\* Mutant: a waiter is woken only if nothing was pending.
SignalFirstOnly(bits) ==
    /\ pending' = pending \cup bits
    /\ \/ /\ wait_queue # <<>> /\ pending = {}
          /\ waiter' = [waiter EXCEPT ![Head(wait_queue)] = "woken"]
          /\ wait_queue' = Tail(wait_queue)
       \/ /\ wait_queue = <<>> \/ pending # {}
          /\ UNCHANGED <<waiter, wait_queue>>

\* signal() adds bits and wakes the first waiter, whatever it waits for.
Signal(bits) ==
    /\ pending' = pending \cup bits
    /\ \/ /\ wait_queue # <<>>
          /\ waiter' = [waiter EXCEPT ![Head(wait_queue)] = "woken"]
          /\ wait_queue' = Tail(wait_queue)
       \/ /\ wait_queue = <<>>
          /\ UNCHANGED <<waiter, wait_queue>>

Poll(mask) ==
    /\ pending' = pending \ mask
    /\ UNCHANGED <<wait_queue, waiter>>

NotifyNext ==
    \/ \E w \in Waiters : WaitTakes(w) \/ WaitBlocks(w)
    \/ \E bits \in SUBSET Bits : Signal(bits) \/ Poll(bits)

NotifySpec == NotifyInit /\ [][NotifyNext]_notifyVars

----------------------------------------------------------------------------

\* No signal is lost: while a bit that waiters wait for is pending and one of
\* them sleeps, another has been woken and is on its way to take it.
NoLostSignal ==
    pending \cap Mask # {} /\ wait_queue # <<>> => \E w \in Waiters : waiter[w] = "woken"

=============================================================================
