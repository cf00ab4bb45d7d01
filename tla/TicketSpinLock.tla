--------------------------- MODULE TicketSpinLock ---------------------------
(***************************************************************************)
(* The ticket spinlock (sync/TicketSpinLock.zig).  Tasks and interrupt     *)
(* handlers on several executors lock, try to lock and unlock it; tickets  *)
(* are 32-bit counters that wrap around, here modulo Wrap.                 *)
(***************************************************************************)
EXTENDS Interrupts, Optional, FiniteSets

CONSTANTS
    Wrap,       \* tickets are taken modulo Wrap, more than there are contexts (2^32)
    MayPoison   \* may a panic poison the lock?

\* Every context waits with at most one ticket, so the outstanding tickets are
\* distinct as long as there are fewer contexts than tickets.
ASSUME WrapAssumption ==
    IsFiniteSet(Executors) /\ Wrap \in Nat /\ Cardinality(Contexts) < Wrap

VARIABLES
    current,            \* the ticket being served
    ticket,             \* the next ticket
    ticket_holder,
    drawn,              \* the ticket a context drew, or the one tryLock() saw
    poisoned,           \* has poison() been called?
    ticket_pc

tvars == <<current, ticket, ticket_holder, drawn, poisoned, ticket_pc>>
ticketVars == <<tvars, ivars>>

TicketPcs == {"idle", "drawn", "spin", "acquired", "held", "released", "cleared", "saw", "cas"}

\* Tickets lie in their width, and interrupt disables are balanced.
TicketTypeOK ==
    /\ InterruptsTypeOK
    /\ current \in 0..(Wrap - 1) /\ ticket \in 0..(Wrap - 1)
    /\ ticket_holder \in Executors \cup {None}
    /\ drawn \in [Contexts -> 0..(Wrap - 1)]
    /\ poisoned \in BOOLEAN
    /\ ticket_pc \in [Contexts -> TicketPcs]

TicketInit ==
    /\ InterruptsInit
    /\ current = 0 /\ ticket = 0
    /\ ticket_holder = None
    /\ drawn = [c \in Contexts |-> 0]
    /\ poisoned = FALSE
    /\ ticket_pc = [c \in Contexts |-> "idle"]

TicketGoto(c, from, to) ==
    /\ Runs(c)
    /\ ticket_pc[c] = from
    /\ ticket_pc' = [ticket_pc EXCEPT ![c] = to]

----------------------------------------------------------------------------
(* lock() *)

\* The ticket is drawn before interrupts are disabled.
LockDraw(c) ==
    /\ TicketGoto(c, "idle", "drawn")
    /\ drawn' = [drawn EXCEPT ![c] = ticket]
    /\ ticket' = (ticket + 1) % Wrap
    /\ UNCHANGED <<current, ticket_holder, poisoned, ivars>>

LockDisable(c) ==
    /\ TicketGoto(c, "drawn", "spin")
    /\ incrementInterruptDisable(ExecutorOf(c))
    /\ UNCHANGED <<current, ticket, ticket_holder, drawn, poisoned>>

LockSpin(c) ==
    /\ TicketGoto(c, "spin", "acquired")
    /\ current = drawn[c]
    /\ UNCHANGED <<current, ticket, ticket_holder, drawn, poisoned, ivars>>

SetHolder(c) ==
    /\ TicketGoto(c, "acquired", "held")
    /\ ticket_holder' = ExecutorOf(c)
    /\ UNCHANGED <<current, ticket, drawn, poisoned, ivars>>

----------------------------------------------------------------------------
(* tryLock(): a snapshot of both counters, then one exchange of both. *)

TryLockLoad(c) ==
    /\ TicketGoto(c, "idle", "saw")
    /\ current = ticket
    /\ drawn' = [drawn EXCEPT ![c] = ticket]
    /\ UNCHANGED <<current, ticket, ticket_holder, poisoned, ivars>>

TryLockDisable(c) ==
    /\ TicketGoto(c, "saw", "cas")
    /\ incrementInterruptDisable(ExecutorOf(c))
    /\ UNCHANGED <<current, ticket, ticket_holder, drawn, poisoned>>

\* Mutant: the exchange compares the ticket being served and not the next one.
TryLockCasHalf(c) ==
    /\ TicketGoto(c, "cas", "acquired")
    /\ current = drawn[c]
    /\ ticket' = (ticket + 1) % Wrap
    /\ UNCHANGED <<current, ticket_holder, drawn, poisoned, ivars>>

TryLockCas(c) ==
    /\ TicketGoto(c, "cas", "acquired")
    /\ current = drawn[c] /\ ticket = drawn[c]
    /\ ticket' = (ticket + 1) % Wrap
    /\ UNCHANGED <<current, ticket_holder, drawn, poisoned, ivars>>

TryLockFails(c) ==
    /\ TicketGoto(c, "cas", "idle")
    /\ current # drawn[c] \/ ticket # drawn[c]
    /\ decrementInterruptDisable(ExecutorOf(c))
    /\ UNCHANGED <<current, ticket, ticket_holder, drawn, poisoned>>

----------------------------------------------------------------------------
(* unlock() *)

ClearHolder(c) ==
    /\ TicketGoto(c, "held", "cleared")
    /\ ticket_holder' = None
    /\ UNCHANGED <<current, ticket, drawn, poisoned, ivars>>

\* Mutant: the ticket drawn last is served next.
AdvanceToLast(c) ==
    /\ TicketGoto(c, "cleared", "released")
    /\ current' = IF current = ticket THEN current ELSE (ticket + Wrap - 1) % Wrap
    /\ UNCHANGED <<ticket, ticket_holder, drawn, poisoned, ivars>>

Advance(c) ==
    /\ TicketGoto(c, "cleared", "released")
    /\ current' = (current + 1) % Wrap
    /\ UNCHANGED <<ticket, ticket_holder, drawn, poisoned, ivars>>

UnlockEnable(c) ==
    /\ TicketGoto(c, "released", "idle")
    /\ decrementInterruptDisable(ExecutorOf(c))
    /\ UNCHANGED <<current, ticket, ticket_holder, drawn, poisoned>>

----------------------------------------------------------------------------

\* poison(): a panicking executor takes one turn back.
Poison ==
    /\ MayPoison /\ ~poisoned
    /\ poisoned' = TRUE
    /\ current' = (current + Wrap - 1) % Wrap
    /\ UNCHANGED <<ticket, ticket_holder, drawn, ticket_pc, ivars>>

TicketEntry(e) == onInterruptEntry(e) /\ UNCHANGED tvars

TicketExit(e) ==
    /\ ticket_pc[<<e, "interrupt">>] = "idle"
    /\ onInterruptExit(e)
    /\ UNCHANGED tvars

\* One step of a context inside lock(), tryLock() or unlock().
TicketStep(c) ==
    \/ LockDisable(c) \/ LockSpin(c) \/ SetHolder(c)
    \/ TryLockDisable(c) \/ TryLockCas(c) \/ TryLockFails(c)
    \/ ClearHolder(c) \/ Advance(c) \/ UnlockEnable(c)

TicketNext ==
    \/ \E c \in Contexts : LockDraw(c) \/ TryLockLoad(c) \/ TicketStep(c)
    \/ \E e \in Executors : TicketEntry(e) \/ TicketExit(e)
    \/ Poison

TicketSpec == TicketInit /\ [][TicketNext]_ticketVars

\* Contexts inside the lock's code keep running and handlers return.
TicketFairSpec ==
    /\ TicketSpec
    /\ \A c \in Contexts : WF_ticketVars(TicketStep(c))
    /\ \A e \in Executors : WF_ticketVars(TicketExit(e))

----------------------------------------------------------------------------
(* Properties *)

\* A context owns the lock from the end of its spin to the addition in unlock().
Holds(c) == ticket_pc[c] \in {"acquired", "held", "cleared"}

\* The lock is exclusive, also when the tickets wrap around and tryLock()
\* competes with tickets already drawn.
TicketExclusion ==
    \A c, d \in Contexts : Holds(c) /\ Holds(d) => c = d

\* The lock is exclusive between contexts, not only between executors, and its
\* tickets and the interrupt disables stay within their bounds.
TicketLockSound == TicketTypeOK /\ TicketExclusion

\* A context that has a ticket, and how many are served before it.
Waits(c) == ticket_pc[c] \in {"drawn", "spin"}
Ahead(c) == (drawn[c] + Wrap - current) % Wrap

\* "A fair in order spinlock" (TicketSpinLock.zig:1): no step of anybody makes
\* a context that waits fall behind one that came later.
InOrder ==
    [][ \A c, d \in Contexts :
          /\ c # d
          /\ Waits(c) /\ Waits(c)' /\ Waits(d)'
          /\ Waits(d) => Ahead(c) < Ahead(d)
          => Ahead(c)' < Ahead(d)' ]_ticketVars

\* Every context that has drawn a ticket gets the lock.
LockReturns ==
    \A c \in Contexts : ticket_pc[c] \in {"drawn", "spin"} ~> ticket_pc[c] = "held"

=============================================================================
