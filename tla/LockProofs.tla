----------------------------- MODULE LockProofs -----------------------------
(***************************************************************************)
(* The kernel's spinlocks and its reader-writer lock, for any number of    *)
(* executors, tasks and tickets.                                           *)
(***************************************************************************)
EXTENDS RwLock, TicketSpinLock, SingleSpinLock, Integers, FiniteSetTheorems, TLAPS

----------------------------------------------------------------------------
(* The contexts of an executor *)

TaskOf(e) == <<e, "task">>
HandlerOf(e) == <<e, "interrupt">>

LEMMA ContextKinds ==
    /\ \A e \in Executors : TaskOf(e) \in Contexts /\ HandlerOf(e) \in Contexts
    /\ \A c \in Contexts :
          /\ c[1] \in Executors
          /\ \/ c = TaskOf(c[1]) /\ c[2] = "task"
             \/ c = HandlerOf(c[1]) /\ c[2] = "interrupt"
    /\ \A e, f : /\ TaskOf(e) # HandlerOf(f)
                 /\ TaskOf(e) = TaskOf(f) => e = f
                 /\ HandlerOf(e) = HandlerOf(f) => e = f
BY DEF Contexts, TaskOf, HandlerOf

----------------------------------------------------------------------------
(* The ticket spinlock.  The outstanding tickets are a run that begins at    *)
(* the one to be served (one later once the lock is poisoned) and ends       *)
(* before the next one to be drawn; there are too few of them for the run to *)
(* meet itself.                                                              *)

Tickets == 0 .. Wrap - 1

\* The steps of a ticket, without a remainder.
Inc(x) == IF x = Wrap - 1 THEN 0 ELSE x + 1
Dec(x) == IF x = 0 THEN Wrap - 1 ELSE x - 1

\* How far ticket x is after ticket b.
Off(x, b) == IF x >= b THEN x - b ELSE x - b + Wrap

----------------------------------------------------------------------------
(* The invariant *)

\* The contexts with a ticket that is not used up.
Outstanding == {c \in Contexts : Waits(c) \/ Holds(c)}

\* The ticket of the holder or, if there is none, of the next.
Base == IF poisoned THEN Inc(current) ELSE current

TicketTypes ==
    /\ current \in Tickets /\ ticket \in Tickets
    /\ drawn \in [Contexts -> Tickets]
    /\ poisoned \in BOOLEAN
    /\ ticket_pc \in [Contexts -> TicketPcs]

\* The run of outstanding tickets ends before the next one.
Run ==
    /\ Off(ticket, Base) = Cardinality(Outstanding)
    /\ \A c \in Outstanding : Off(drawn[c], Base) < Cardinality(Outstanding)

Distinct == \A c, d \in Outstanding : drawn[c] = drawn[d] => c = d

Served == \A c \in Contexts : Holds(c) => drawn[c] = Base

TicketInv == TicketTypes /\ Run /\ Distinct /\ Served

----------------------------------------------------------------------------
(* Arithmetic of tickets *)

LEMMA IncMod ==
    ASSUME Wrap \in Nat, NEW x \in Tickets
    PROVE  (x + 1) % Wrap = Inc(x)
<1>1. CASE x = Wrap - 1
    BY <1>1, SMT DEF Tickets, Inc
<1>2. CASE x # Wrap - 1
    BY <1>2, SMT DEF Tickets, Inc
<1> QED  BY <1>1, <1>2

LEMMA DecMod ==
    ASSUME Wrap \in Nat, NEW x \in Tickets
    PROVE  (x + Wrap - 1) % Wrap = Dec(x)
<1>1. CASE x = 0
    BY <1>1, SMT DEF Tickets, Dec
<1>2. CASE x # 0
    BY <1>2, SMT DEF Tickets, Dec
<1> QED  BY <1>1, <1>2

LEMMA OffMod ==
    ASSUME Wrap \in Nat, NEW x \in Tickets, NEW b \in Tickets
    PROVE  (x + Wrap - b) % Wrap = Off(x, b)
<1>1. CASE x >= b
    BY <1>1, SMT DEF Tickets, Off
<1>2. CASE x < b
    BY <1>2, SMT DEF Tickets, Off
<1> QED  BY <1>1, <1>2 DEF Tickets

LEMMA Steps ==
    ASSUME Wrap \in Nat, NEW x \in Tickets
    PROVE  Inc(x) \in Tickets /\ Dec(x) \in Tickets /\ Inc(Dec(x)) = x
BY DEF Inc, Dec, Tickets

LEMMA OffFacts ==
    ASSUME Wrap \in Nat, NEW x \in Tickets, NEW b \in Tickets
    PROVE  /\ Off(x, b) \in Tickets /\ Off(x, b) \in Nat
           /\ Off(x, b) = 0 <=> x = b
           /\ Off(x, b) # Wrap - 1 => Off(Inc(x), b) = Off(x, b) + 1
           /\ x # b => Off(x, Inc(b)) = Off(x, b) - 1
           /\ Off(b, Inc(b)) = Wrap - 1
BY DEF Off, Inc, Tickets

LEMMA OffBack ==
    ASSUME Wrap \in Nat, NEW x \in Tickets, NEW b \in Tickets, Off(x, Inc(b)) # Wrap - 1
    PROVE  x # b /\ Off(x, b) = Off(x, Inc(b)) + 1
BY DEF Off, Inc, Tickets

----------------------------------------------------------------------------
(* The kinds of steps *)

\* Nobody gets or gives back a ticket; a context may find that it is served.
Keeps ==
    /\ current' = current /\ ticket' = ticket /\ poisoned' = poisoned
    /\ Outstanding' = Outstanding
    /\ \A d \in Outstanding : drawn'[d] = drawn[d]
    /\ \A d \in Contexts : Holds(d)' => Holds(d) \/ (d \in Outstanding /\ drawn[d] = current)
    /\ \A d \in Contexts : Waits(d)' => Waits(d)

\* c gets the next ticket, from lock() or with the lock from tryLock().
Enters(c) ==
    /\ current' = current /\ ticket' = Inc(ticket) /\ poisoned' = poisoned
    /\ c \notin Outstanding /\ Outstanding' = Outstanding \cup {c}
    /\ drawn'[c] = ticket
    /\ \A d \in Outstanding : drawn'[d] = drawn[d]
    /\ \A d \in Contexts : Holds(d)' => Holds(d) \/ (d = c /\ current = ticket)
    /\ \A d \in Contexts : Waits(d)' => Waits(d) \/ d = c

\* c gives the lock back.
Leaves(c) ==
    /\ current' = Inc(current) /\ ticket' = ticket /\ poisoned' = poisoned
    /\ Holds(c) /\ Outstanding' = Outstanding \ {c}
    /\ drawn' = drawn
    /\ \A d \in Contexts : Holds(d)' => d # c /\ Holds(d)
    /\ \A d \in Contexts : Waits(d)' => Waits(d)

Poisons ==
    /\ ~poisoned /\ poisoned' = TRUE /\ current' = Dec(current)
    /\ ticket' = ticket /\ drawn' = drawn /\ ticket_pc' = ticket_pc

LEMMA TicketStepKinds ==
    ASSUME Wrap \in Nat, TicketTypes, [TicketNext]_ticketVars
    PROVE  TicketTypes' /\ (Keeps \/ (\E c \in Contexts : Enters(c) \/ Leaves(c)) \/ Poisons)
<1> USE DEF Outstanding, Waits, Holds
<1>1. ASSUME NEW c \in Contexts, LockDraw(c) PROVE TicketTypes' /\ Enters(c)
    <2>1. ticket' = Inc(ticket) /\ Inc(ticket) \in Tickets
        BY <1>1, IncMod, Steps DEF LockDraw, TicketTypes
    <2>2. TicketTypes'
        BY <1>1, <2>1 DEF LockDraw, TicketGoto, TicketTypes, TicketPcs
    <2> QED  BY <1>1, <2>1, <2>2 DEF LockDraw, TicketGoto, TicketTypes, Enters
<1>2. ASSUME NEW c \in Contexts, TryLockCas(c) PROVE TicketTypes' /\ Enters(c)
    <2>1. ticket' = Inc(ticket) /\ Inc(ticket) \in Tickets
        BY <1>2, IncMod, Steps DEF TryLockCas, TicketTypes
    <2>2. TicketTypes'
        BY <1>2, <2>1, Zenon DEF TryLockCas, TicketGoto, TicketTypes, TicketPcs
    <2> QED  BY <1>2, <2>1, <2>2 DEF TryLockCas, TicketGoto, TicketTypes, Enters
<1>3. ASSUME NEW c \in Contexts, Advance(c) PROVE TicketTypes' /\ Leaves(c)
    <2>1. current' = Inc(current) /\ Inc(current) \in Tickets
        BY <1>3, IncMod, Steps DEF Advance, TicketTypes
    <2>2. TicketTypes'
        BY <1>3, <2>1 DEF Advance, TicketGoto, TicketTypes, TicketPcs
    <2> QED  BY <1>3, <2>1, <2>2 DEF Advance, TicketGoto, TicketTypes, Leaves
<1>4. ASSUME Poison PROVE TicketTypes' /\ Poisons
    <2>1. current' = Dec(current) /\ Dec(current) \in Tickets
        BY <1>4, DecMod, Steps DEF Poison, TicketTypes
    <2> QED  BY <1>4, <2>1 DEF Poison, TicketTypes, Poisons
<1>5. ASSUME NEW c \in Contexts, LockDisable(c) PROVE TicketTypes' /\ Keeps
    BY <1>5 DEF LockDisable, TicketGoto, TicketTypes, TicketPcs, Keeps
<1>6. ASSUME NEW c \in Contexts, LockSpin(c) PROVE TicketTypes' /\ Keeps
    BY <1>6 DEF LockSpin, TicketGoto, TicketTypes, TicketPcs, Keeps
<1>7. ASSUME NEW c \in Contexts, SetHolder(c) PROVE TicketTypes' /\ Keeps
    BY <1>7 DEF SetHolder, TicketGoto, TicketTypes, TicketPcs, Keeps
<1>8. ASSUME NEW c \in Contexts, TryLockLoad(c) PROVE TicketTypes' /\ Keeps
    BY <1>8 DEF TryLockLoad, TicketGoto, TicketTypes, TicketPcs, Keeps
<1>9. ASSUME NEW c \in Contexts, TryLockDisable(c) PROVE TicketTypes' /\ Keeps
    BY <1>9 DEF TryLockDisable, TicketGoto, TicketTypes, TicketPcs, Keeps
<1>10. ASSUME NEW c \in Contexts, TryLockFails(c) PROVE TicketTypes' /\ Keeps
    BY <1>10 DEF TryLockFails, TicketGoto, TicketTypes, TicketPcs, Keeps
<1>11. ASSUME NEW c \in Contexts, ClearHolder(c) PROVE TicketTypes' /\ Keeps
    BY <1>11 DEF ClearHolder, TicketGoto, TicketTypes, TicketPcs, Keeps
<1>12. ASSUME NEW c \in Contexts, UnlockEnable(c) PROVE TicketTypes' /\ Keeps
    BY <1>12 DEF UnlockEnable, TicketGoto, TicketTypes, TicketPcs, Keeps
<1>13. ASSUME UNCHANGED tvars PROVE TicketTypes' /\ Keeps
    BY <1>13 DEF tvars, TicketTypes, Keeps
<1> QED
    BY <1>1, <1>2, <1>3, <1>4, <1>5, <1>6, <1>7, <1>8, <1>9, <1>10, <1>11, <1>12, <1>13, Zenon
    DEF TicketNext, TicketStep, TicketEntry, TicketExit, ticketVars

----------------------------------------------------------------------------
(* The number of outstanding tickets *)

LEMMA Counting ==
    /\ IsFiniteSet(Outstanding) /\ Cardinality(Outstanding) \in Nat
    /\ Cardinality(Outstanding) < Wrap
    /\ \A c \in Contexts \ Outstanding :
          /\ Cardinality(Outstanding \cup {c}) = Cardinality(Outstanding) + 1
          /\ Cardinality(Outstanding) + 1 < Wrap
    /\ \A c \in Outstanding :
          Cardinality(Outstanding \ {c}) = Cardinality(Outstanding) - 1
<1>1. IsFiniteSet({"task", "interrupt"})
    <2>1. IsFiniteSet({"task"})
        BY FS_Singleton
    <2>2. {"task", "interrupt"} = {"task"} \cup {"interrupt"}
        OBVIOUS
    <2> QED  BY <2>1, <2>2, FS_AddElement
<1>2. IsFiniteSet(Contexts) /\ Cardinality(Contexts) \in Nat
    BY <1>1, FS_Product, FS_CardinalityType, WrapAssumption DEF Contexts
<1>3. Outstanding \subseteq Contexts
    BY DEF Outstanding
<1>4. IsFiniteSet(Outstanding) /\ Cardinality(Outstanding) <= Cardinality(Contexts)
    BY <1>2, <1>3, FS_Subset
<1>5. Cardinality(Outstanding) \in Nat
    BY <1>4, FS_CardinalityType
<1>6. ASSUME NEW c \in Contexts \ Outstanding
      PROVE  /\ Cardinality(Outstanding \cup {c}) = Cardinality(Outstanding) + 1
             /\ Cardinality(Outstanding) + 1 <= Cardinality(Contexts)
    <2>1. Cardinality(Outstanding \cup {c}) = Cardinality(Outstanding) + 1
        BY <1>4, FS_AddElement
    <2>2. Outstanding \cup {c} \subseteq Contexts
        BY <1>3
    <2>3. Cardinality(Outstanding \cup {c}) <= Cardinality(Contexts)
        BY <1>2, <2>2, FS_Subset
    <2> QED  BY <2>1, <2>3
<1>7. ASSUME NEW c \in Outstanding
      PROVE  Cardinality(Outstanding \ {c}) = Cardinality(Outstanding) - 1
    BY <1>4, FS_RemoveElement
<1> QED  BY <1>2, <1>4, <1>5, <1>6, <1>7, WrapAssumption

----------------------------------------------------------------------------
(* Every kind of step keeps the invariant *)

LEMMA BaseType ==
    ASSUME TicketTypes
    PROVE  Wrap \in Nat /\ Base \in Tickets
BY Steps, WrapAssumption DEF TicketTypes, Base

LEMMA KeepsInv ==
    ASSUME TicketInv, TicketTypes', Keeps
    PROVE  TicketInv'
<1>1. Base' = Base
    BY DEF Base, Keeps, Inc
<1>2. Run' /\ Distinct'
    BY <1>1 DEF TicketInv, Run, Distinct, Keeps, Off
<1>3. ASSUME NEW d \in Outstanding, drawn[d] = current PROVE drawn[d] = Base
    <2>1. CASE ~poisoned
        BY <1>3, <2>1 DEF Base
    <2>2. CASE poisoned
        <3>1. Off(drawn[d], Base) = Wrap - 1
            BY <1>3, <2>2, OffFacts, WrapAssumption DEF Base, TicketInv, TicketTypes
        <3> QED  BY <3>1, Counting, WrapAssumption DEF TicketInv, Run
    <2> QED  BY <2>1, <2>2
<1>4. Served'
    BY <1>1, <1>3 DEF TicketInv, Served, Keeps, Outstanding
<1> QED  BY <1>2, <1>4 DEF TicketInv

LEMMA EntersInv ==
    ASSUME TicketInv, TicketTypes', NEW c \in Contexts, Enters(c)
    PROVE  TicketInv'
<1>1. PICK b \in Tickets : b = Base
    BY BaseType DEF TicketInv
<1>2. Base' = b
    BY <1>1 DEF Base, Enters, Inc
<1>3. PICK n \in Nat : n = Cardinality(Outstanding)
    BY Counting
<1>4. n + 1 < Wrap /\ Cardinality(Outstanding') = n + 1
    BY <1>3, Counting DEF Enters
<1>5. Off(ticket, b) = n /\ Off(Inc(ticket), b) = n + 1
    BY <1>1, <1>3, <1>4, OffFacts, WrapAssumption DEF TicketInv, Run, TicketTypes
<1>6. \A d \in Outstanding : Off(drawn[d], b) < n /\ Off(drawn[d], b) \in Int
    <2>1. \A d \in Outstanding : drawn[d] \in Tickets
        BY DEF TicketInv, TicketTypes, Outstanding
    <2>2. \A d \in Outstanding : Off(drawn[d], b) \in Int
        BY <2>1, OffFacts, WrapAssumption
    <2> QED  BY <1>1, <1>3, <2>2 DEF TicketInv, Run
<1>7. Run'
    <2>1. Off(ticket, Base)' = n + 1
        BY <1>2, <1>5 DEF Enters, Off
    <2>2. ASSUME NEW d \in Outstanding' PROVE Off(drawn'[d], b) < n + 1
        BY <2>2, <1>5, <1>6 DEF Enters
    <2> QED  BY <1>2, <1>4, <2>1, <2>2 DEF Run, Off
<1>8. Distinct'
    <2>1. \A d \in Outstanding : drawn[d] # ticket
        BY <1>5, <1>6
    <2> QED  BY <2>1 DEF Distinct, Enters, TicketInv
<1>9. current = ticket => ticket = b
    <2>1. CASE poisoned
        <3>1. Off(current, b) = Wrap - 1
            BY <1>1, <2>1, OffFacts, WrapAssumption DEF Base, TicketInv, TicketTypes
        <3> QED  BY <3>1, <1>4, <1>5, WrapAssumption
    <2> QED  BY <2>1, <1>1 DEF Base
<1>10. Served'
    BY <1>1, <1>2, <1>9 DEF Served, Enters, TicketInv, Outstanding
<1> QED  BY <1>7, <1>8, <1>10 DEF TicketInv

LEMMA LeavesInv ==
    ASSUME TicketInv, TicketTypes', NEW c \in Contexts, Leaves(c)
    PROVE  TicketInv'
<1>1. PICK b \in Tickets : b = Base
    BY BaseType DEF TicketInv
<1>2. Base' = Inc(b)
    BY <1>1 DEF Base, Leaves, Inc
<1>3. PICK n \in Nat : n = Cardinality(Outstanding)
    BY Counting
<1>4. c \in Outstanding /\ drawn[c] = b
    BY <1>1 DEF Leaves, Outstanding, TicketInv, Served
<1>5. Cardinality(Outstanding') = n - 1
    BY <1>3, <1>4, Counting DEF Leaves
<1>6. Off(ticket, b) = n /\ Off(drawn[c], b) = 0 /\ 0 < n
    BY <1>1, <1>3, <1>4, OffFacts, WrapAssumption DEF TicketInv, Run, TicketTypes
<1>7. Off(ticket, Inc(b)) = n - 1
    <2>1. ticket \in Tickets /\ Wrap \in Nat
        BY WrapAssumption DEF TicketInv, TicketTypes
    <2>2. ticket # b
        BY <2>1, <1>6, OffFacts
    <2> QED  BY <2>1, <2>2, <1>6, OffFacts
<1>8. ASSUME NEW d \in Outstanding \ {c} PROVE Off(drawn[d], Inc(b)) < n - 1
    <2>1. drawn[d] \in Tickets /\ drawn[d] # b
        BY <1>4 DEF TicketInv, TicketTypes, Distinct, Outstanding
    <2>2. Off(drawn[d], Inc(b)) = Off(drawn[d], b) - 1 /\ Off(drawn[d], b) \in Int
        BY <2>1, OffFacts, WrapAssumption
    <2> QED  BY <2>2, <1>1, <1>3 DEF TicketInv, Run
<1>9. Run'
    BY <1>2, <1>5, <1>7, <1>8, Zenon DEF Run, Leaves, Off
<1>10. Distinct'
    BY DEF Distinct, Leaves, TicketInv
<1>11. Served'
    <2>1. \A d \in Contexts : ~ Holds(d)'
        BY <1>1, <1>4 DEF Leaves, TicketInv, Served, Distinct, Outstanding
    <2> QED  BY <2>1 DEF Served
<1> QED  BY <1>9, <1>10, <1>11 DEF TicketInv

LEMMA PoisonsInv ==
    ASSUME TicketInv, TicketTypes', Poisons
    PROVE  TicketInv'
<1>1. Base' = Base
    BY Steps, WrapAssumption DEF Base, Poisons, Inc, TicketInv, TicketTypes
<1>2. Outstanding' = Outstanding /\ \A d \in Contexts : Holds(d)' = Holds(d)
    BY DEF Outstanding, Holds, Waits, Poisons
<1> QED  BY <1>1, <1>2 DEF TicketInv, Run, Distinct, Served, Poisons, Off

\* The invariant holds in every reachable state: the outstanding tickets of
\* TicketSpinLock.zig are distinct and consecutive, and only the first is served.
THEOREM TicketInvHolds ==
    TicketSpec => []TicketInv
<1>1. TicketInit => TicketInv
    <2> SUFFICES ASSUME TicketInit PROVE TicketInv
        OBVIOUS
    <2>1. Outstanding = {}
        BY DEF TicketInit, Outstanding, Waits, Holds
    <2>2. Cardinality(Outstanding) = 0
        BY <2>1, FS_EmptySet
    <2>3. 0 \in Tickets
        BY Counting, WrapAssumption DEF Tickets
    <2>4. TicketTypes
        BY <2>3, Zenon DEF TicketInit, TicketTypes, TicketPcs
    <2>5. Off(ticket, Base) = 0
        BY DEF TicketInit, Off, Base
    <2> QED  BY <2>1, <2>2, <2>4, <2>5 DEF TicketInv, Run, Distinct, Served, Outstanding
<1>2. TicketInv /\ [TicketNext]_ticketVars => TicketInv'
    BY TicketStepKinds, KeepsInv, EntersInv, LeavesInv, PoisonsInv, WrapAssumption DEF TicketInv
<1> QED  BY <1>1, <1>2, PTL DEF TicketSpec

----------------------------------------------------------------------------
(* The interrupt disables of the ticket lock *)

\* The steps of a call between its increment and its decrement.
Masking == {"spin", "acquired", "held", "released", "cleared", "cas"}

Disables(p) == IF p \in Masking THEN 1 ELSE 0

\* A handler runs only on top of a task that is not between the two, and the
\* count of an executor is what its handler and the context that runs added.
TicketMasked ==
    /\ interrupt_disable_count \in [Executors -> 0..2]
    /\ in_interrupt \in [Executors -> BOOLEAN]
    /\ \A e \in Executors :
          /\ in_interrupt[e] =>
                /\ ticket_pc[TaskOf(e)] \notin Masking
                /\ interrupt_disable_count[e] = 1 + Disables(ticket_pc[HandlerOf(e)])
          /\ ~in_interrupt[e] =>
                /\ ticket_pc[HandlerOf(e)] = "idle"
                /\ interrupt_disable_count[e] = Disables(ticket_pc[TaskOf(e)])

HolderTyped == ticket_holder \in Executors \cup {None}

\* A step of a context that runs changes the count by what its place adds.
LEMMA MaskedStep ==
    ASSUME TicketMasked, TicketTypes, NEW c \in Contexts, NEW from, NEW to,
           TicketGoto(c, from, to), in_interrupt' = in_interrupt,
           interrupt_disable_count' =
               [interrupt_disable_count EXCEPT ![c[1]] = @ + Disables(to) - Disables(from)]
    PROVE  TicketMasked'
<1>1. /\ c[1] \in Executors
      /\ \/ c = TaskOf(c[1]) /\ ~in_interrupt[c[1]]
         \/ c = HandlerOf(c[1]) /\ in_interrupt[c[1]]
    BY ContextKinds DEF TicketGoto, Runs
<1>2. /\ ticket_pc[c] = from /\ ticket_pc' = [ticket_pc EXCEPT ![c] = to]
      /\ \A d \in Contexts : ticket_pc'[d] = IF d = c THEN to ELSE ticket_pc[d]
    BY DEF TicketGoto, TicketTypes
<1>3. /\ \A e \in Executors : e # c[1] => interrupt_disable_count'[e] = interrupt_disable_count[e]
      /\ interrupt_disable_count'[c[1]] =
            interrupt_disable_count[c[1]] + Disables(to) - Disables(from)
    BY <1>1 DEF TicketMasked
<1>4. interrupt_disable_count[c[1]] = (IF in_interrupt[c[1]] THEN 1 ELSE 0) + Disables(from)
    BY <1>1, <1>2 DEF TicketMasked
<1>5. interrupt_disable_count'[c[1]] = (IF in_interrupt[c[1]] THEN 1 ELSE 0) + Disables(to)
    BY <1>3, <1>4 DEF Disables
<1>6. interrupt_disable_count' \in [Executors -> 0..2]
    <2>1. interrupt_disable_count'[c[1]] \in 0..2
        BY <1>5 DEF Disables
    <2> QED  BY <2>1, <1>1, <1>3 DEF TicketMasked
<1>7. ASSUME NEW e \in Executors, e # c[1]
      PROVE  /\ ticket_pc'[TaskOf(e)] = ticket_pc[TaskOf(e)]
             /\ ticket_pc'[HandlerOf(e)] = ticket_pc[HandlerOf(e)]
    BY <1>1, <1>2, <1>7, ContextKinds
<1>8. CASE c = TaskOf(c[1]) /\ ~in_interrupt[c[1]]
    <2> Disables(to) \in {0, 1}
        BY DEF Disables
    <2>1. ticket_pc'[TaskOf(c[1])] = to /\ ticket_pc'[HandlerOf(c[1])] = ticket_pc[HandlerOf(c[1])]
        BY <1>1, <1>2, <1>8, ContextKinds, Zenon
    <2> QED  BY <1>1, <1>3, <1>5, <1>6, <1>7, <1>8, <2>1 DEF TicketMasked
<1>9. CASE c = HandlerOf(c[1]) /\ in_interrupt[c[1]]
    <2>1. ticket_pc'[HandlerOf(c[1])] = to /\ ticket_pc'[TaskOf(c[1])] = ticket_pc[TaskOf(c[1])]
        BY <1>1, <1>2, <1>9, ContextKinds
    <2> QED  BY <1>1, <1>3, <1>5, <1>6, <1>7, <1>9, <2>1 DEF TicketMasked
<1> QED  BY <1>1, <1>8, <1>9

LEMMA MaskedNext ==
    ASSUME TicketMasked, TicketTypes, [TicketNext]_ticketVars
    PROVE  TicketMasked'
<1>1. ASSUME NEW c \in Contexts, NEW from, NEW to, TicketGoto(c, from, to), UNCHANGED ivars,
             Disables(from) = Disables(to)
      PROVE  TicketMasked'
    <2>1. c[1] \in Executors
        BY ContextKinds
    <2>2. interrupt_disable_count[c[1]] =
              interrupt_disable_count[c[1]] + Disables(to) - Disables(from)
        BY <1>1, <2>1 DEF TicketMasked, Disables
    <2>3. interrupt_disable_count' =
              [interrupt_disable_count EXCEPT ![c[1]] = @ + Disables(to) - Disables(from)]
        BY <1>1, <2>1, <2>2 DEF TicketMasked, ivars
    <2> QED  BY <1>1, <2>3, MaskedStep, Zenon DEF ivars
<1>2. ASSUME NEW c \in Contexts, NEW from, NEW to, TicketGoto(c, from, to),
             incrementInterruptDisable(c[1]), Disables(from) = 0, Disables(to) = 1
      PROVE  TicketMasked'
    <2>1. c[1] \in Executors
        BY ContextKinds
    <2>2. interrupt_disable_count[c[1]] + 1 =
              interrupt_disable_count[c[1]] + Disables(to) - Disables(from)
        BY <1>2, <2>1 DEF TicketMasked
    <2>3. interrupt_disable_count' =
              [interrupt_disable_count EXCEPT ![c[1]] = @ + Disables(to) - Disables(from)]
        BY <1>2, <2>1, <2>2 DEF incrementInterruptDisable
    <2> QED  BY <1>2, <2>3, MaskedStep, Zenon DEF incrementInterruptDisable
<1>3. ASSUME NEW c \in Contexts, NEW from, NEW to, TicketGoto(c, from, to),
             decrementInterruptDisable(c[1]), Disables(from) = 1, Disables(to) = 0
      PROVE  TicketMasked'
    <2>1. c[1] \in Executors
        BY ContextKinds
    <2>2. interrupt_disable_count[c[1]] - 1 =
              interrupt_disable_count[c[1]] + Disables(to) - Disables(from)
        BY <1>3, <2>1 DEF TicketMasked
    <2>3. interrupt_disable_count' =
              [interrupt_disable_count EXCEPT ![c[1]] = @ + Disables(to) - Disables(from)]
        BY <1>3, <2>1, <2>2, Zenon DEF decrementInterruptDisable
    <2> QED  BY <1>3, <2>3, MaskedStep, Zenon DEF decrementInterruptDisable
<1> USE DEF Disables, Masking, ExecutorOf
<1>4. ASSUME NEW c \in Contexts, LockDraw(c) \/ LockSpin(c) \/ SetHolder(c) PROVE TicketMasked'
    BY <1>1, <1>4 DEF LockDraw, LockSpin, SetHolder
<1>5. ASSUME NEW c \in Contexts, TryLockLoad(c) \/ TryLockCas(c) PROVE TicketMasked'
    BY <1>1, <1>5 DEF TryLockLoad, TryLockCas
<1>6. ASSUME NEW c \in Contexts, ClearHolder(c) \/ Advance(c) PROVE TicketMasked'
    BY <1>1, <1>6 DEF ClearHolder, Advance
<1>7. ASSUME NEW c \in Contexts, LockDisable(c) \/ TryLockDisable(c) PROVE TicketMasked'
    BY <1>2, <1>7 DEF LockDisable, TryLockDisable
<1>8. ASSUME NEW c \in Contexts, TryLockFails(c) \/ UnlockEnable(c) PROVE TicketMasked'
    BY <1>3, <1>8 DEF TryLockFails, UnlockEnable
<1>9. ASSUME NEW e \in Executors, TicketEntry(e) PROVE TicketMasked'
    BY <1>9, ContextKinds DEF TicketEntry, onInterruptEntry, tvars, TicketMasked
<1>10. ASSUME NEW e \in Executors, TicketExit(e) PROVE TicketMasked'
    BY <1>10, ContextKinds DEF TicketExit, onInterruptExit, HandlerOf, tvars, TicketMasked
<1>11. ASSUME Poison \/ UNCHANGED ticketVars PROVE TicketMasked'
    BY <1>11 DEF Poison, ticketVars, tvars, ivars, TicketMasked
<1> QED
    BY <1>4, <1>5, <1>6, <1>7, <1>8, <1>9, <1>10, <1>11 DEF TicketNext, TicketStep

----------------------------------------------------------------------------
(* Results *)

\* At most one context is between the end of its spin and the addition in
\* unlock() (TicketSpinLock.zig), whatever the width of the tickets, when they
\* wrap around, with tryLock() in between and after poison().
THEOREM TicketExclusive ==
    TicketSpec => []TicketExclusion
<1>1. TicketInv => TicketExclusion
    BY DEF TicketInv, Served, Distinct, TicketExclusion, Outstanding
<1> QED  BY <1>1, TicketInvHolds, PTL

\* TicketSpinLock.zig is exclusive, its tickets stay in their width, and the
\* interrupt disables of lock(), tryLock() and unlock() balance: the count of an
\* executor never exceeds two, one of the handler and one of the lock it takes.
THEOREM TicketSound == TicketSpec => []TicketLockSound
<1>1. TicketInit => TicketMasked /\ HolderTyped
    BY ContextKinds DEF TicketInit, InterruptsInit, TicketMasked, Disables, Masking, HolderTyped
<1>2. TicketInv /\ TicketMasked /\ [TicketNext]_ticketVars => TicketMasked'
    BY MaskedNext DEF TicketInv
<1>3. HolderTyped /\ [TicketNext]_ticketVars => HolderTyped'
    <2>1. ASSUME NEW c \in Contexts PROVE ExecutorOf(c) \in Executors
        BY ContextKinds DEF ExecutorOf
    <2> QED
        BY <2>1, Zenon
        DEF TicketNext, TicketStep, ticketVars, tvars, LockDraw, TryLockLoad, LockDisable,
            LockSpin, SetHolder, TryLockDisable, TryLockCas, TryLockFails, ClearHolder, Advance,
            UnlockEnable, TicketEntry, TicketExit, Poison, HolderTyped
<1>4. TicketInv /\ TicketMasked /\ HolderTyped => TicketTypeOK
    BY DEF TicketInv, TicketTypes, TicketMasked, TicketTypeOK, InterruptsTypeOK, Tickets,
           HolderTyped
<1>5. TicketSpec => [](TicketInv /\ TicketMasked /\ HolderTyped)
    BY <1>1, <1>2, <1>3, TicketInvHolds, PTL DEF TicketSpec
<1> QED  BY <1>4, <1>5, TicketExclusive, PTL DEF TicketLockSound

\* How many are served before a context that waits: as many as its ticket is
\* after the base, and one more once the lock is poisoned.
LEMMA AheadOf ==
    ASSUME TicketInv, NEW c \in Outstanding
    PROVE  /\ Off(drawn[c], Base) \in Nat
           /\ Ahead(c) = Off(drawn[c], Base) + (IF poisoned THEN 1 ELSE 0)
<1>1. /\ Wrap \in Nat /\ current \in Tickets /\ drawn[c] \in Tickets
      /\ Base \in Tickets
    BY BaseType DEF TicketInv, TicketTypes, Outstanding
<1>2. Ahead(c) = Off(drawn[c], current)
    BY <1>1, OffMod DEF Ahead
<1>3. Off(drawn[c], Base) \in Nat /\ Off(drawn[c], Base) < Wrap - 1
    <2>1. Off(drawn[c], Base) \in Nat
        BY <1>1, OffFacts
    <2> QED  BY <1>1, <2>1, Counting DEF TicketInv, Run
<1>4. CASE ~poisoned
    BY <1>2, <1>3, <1>4 DEF Base
<1>5. CASE poisoned
    BY <1>1, <1>2, <1>3, <1>5, OffBack DEF Base
<1> QED  BY <1>4, <1>5 DEF TicketInv, TicketTypes

\* "A fair in order spinlock" (TicketSpinLock.zig:1): nobody who waits falls
\* behind one that came later, in any step of any context.
THEOREM TicketsInOrder ==
    TicketSpec => InOrder
<1>1. ASSUME TicketInv, [TicketNext]_ticketVars, NEW c \in Contexts, NEW d \in Contexts,
             c # d, Waits(c), Waits(c)', Waits(d)', Waits(d) => Ahead(c) < Ahead(d)
      PROVE  Ahead(c)' < Ahead(d)'
    <2>1. c \in Outstanding /\ d \in Outstanding' /\ (Waits(d) => d \in Outstanding)
        BY <1>1 DEF Outstanding
    <2>2. /\ Wrap \in Nat /\ current \in Tickets /\ ticket \in Tickets
          /\ \A x \in Contexts : drawn[x] \in Tickets
        BY <1>1, WrapAssumption DEF TicketInv, TicketTypes
    <2>3. \A x \in Outstanding : Ahead(x) = Off(drawn[x], current) /\ Ahead(x) \in Nat
        <3> SUFFICES ASSUME NEW x \in Outstanding
                     PROVE  Ahead(x) = Off(drawn[x], current) /\ Ahead(x) \in Nat
            OBVIOUS
        <3>1. drawn[x] \in Tickets
            BY <2>2 DEF Outstanding
        <3>2. Ahead(x) = Off(drawn[x], current)
            BY <2>2, <3>1, OffMod, Zenon DEF Ahead
        <3> QED  BY <2>2, <3>1, <3>2, OffFacts
    <2>4. CASE Keeps
        BY <1>1, <2>1, <2>4 DEF Keeps, Ahead
    <2>5. ASSUME NEW e \in Contexts, Enters(e) PROVE Ahead(c)' < Ahead(d)'
        <3>1. Ahead(c)' = Ahead(c) /\ (d # e => Waits(d) /\ Ahead(d)' = Ahead(d))
            BY <1>1, <2>1, <2>5 DEF Enters, Ahead
        <3>2. CASE d = e
            <4>1. Ahead(d)' = Off(ticket, current)
                BY <2>2, <2>5, <3>2, OffMod, Zenon DEF Enters, Ahead
            <4>2. PICK n \in Nat : n = Cardinality(Outstanding) /\ n + 1 < Wrap
                BY <2>5, Counting DEF Enters
            <4>3. Off(ticket, Base) = n /\ Off(drawn[c], Base) < n
                BY <1>1, <2>1, <4>2 DEF TicketInv, Run
            <4>4. Off(ticket, current) = n + (IF poisoned THEN 1 ELSE 0)
                <5>1. CASE ~poisoned
                    BY <4>3, <5>1 DEF Base
                <5>2. CASE poisoned
                    BY <2>2, <4>2, <4>3, <5>2, OffBack DEF Base
                <5> QED  BY <5>1, <5>2
            <4>5. /\ Off(drawn[c], Base) \in Nat
                  /\ Ahead(c) = Off(drawn[c], Base) + (IF poisoned THEN 1 ELSE 0)
                BY <1>1, <2>1, AheadOf
            <4> QED  BY <3>1, <4>1, <4>2, <4>3, <4>4, <4>5
        <3> QED  BY <1>1, <3>1, <3>2
    <2>6. ASSUME NEW e \in Contexts, Leaves(e) PROVE Ahead(c)' < Ahead(d)'
        <3>1. ASSUME NEW x \in Contexts, Waits(x) PROVE Ahead(x)' = Ahead(x) - 1
            <4>1. x \in Outstanding /\ e \in Outstanding /\ x # e /\ drawn[e] = Base
                BY <1>1, <2>6, <3>1 DEF Outstanding, Leaves, Waits, Holds, TicketInv, Served
            <4>2. drawn[x] # current
                <5>1. CASE ~poisoned
                    BY <1>1, <4>1, <5>1 DEF TicketInv, Distinct, Base
                <5>2. CASE poisoned
                    BY <1>1, <2>2, <4>1, <5>2, Counting, OffBack DEF TicketInv, Run, Base
                <5> QED  BY <5>1, <5>2
            <4>3. Inc(current) \in Tickets /\ current' = Inc(current) /\ drawn' = drawn
                BY <2>2, <2>6, Steps DEF Leaves
            <4>4. Ahead(x)' = Off(drawn[x], Inc(current))
                BY <2>2, <4>3, OffMod DEF Ahead
            <4> QED  BY <2>2, <2>3, <4>1, <4>2, <4>4, OffFacts
        <3>2. Waits(d)
            BY <1>1, <2>6 DEF Leaves
        <3> QED  BY <1>1, <2>1, <2>3, <3>1, <3>2
    <2>7. CASE Poisons
        <3>1. ASSUME NEW x \in Contexts, Waits(x) PROVE Ahead(x)' = Ahead(x) + 1
            <4>1. x \in Outstanding
                BY <3>1 DEF Outstanding
            <4>2. Dec(current) \in Tickets /\ Inc(Dec(current)) = current
                BY <2>2, Steps
            <4>3. Ahead(x)' = Off(drawn[x], Dec(current))
                BY <2>2, <2>7, <4>2, OffMod DEF Poisons, Ahead
            <4>4. Off(drawn[x], current) # Wrap - 1
                BY <1>1, <2>2, <2>3, <2>7, <4>1, Counting DEF TicketInv, Run, Base, Poisons
            <4> QED  BY <2>2, <2>3, <4>1, <4>2, <4>3, <4>4, OffBack
        <3>2. Waits(d)
            BY <1>1, <2>7 DEF Poisons, Waits
        <3> QED  BY <1>1, <2>1, <2>3, <3>1, <3>2
    <2> QED  BY <1>1, <2>2, <2>4, <2>5, <2>6, <2>7, TicketStepKinds DEF TicketInv
<1>2. TicketInv /\ [TicketNext]_ticketVars =>
        [\A c, d \in Contexts :
            /\ c # d
            /\ Waits(c) /\ Waits(c)' /\ Waits(d)'
            /\ Waits(d) => Ahead(c) < Ahead(d)
            => Ahead(c)' < Ahead(d)']_ticketVars
    BY <1>1
<1> QED  BY <1>2, TicketInvHolds, PTL DEF TicketSpec, InOrder

----------------------------------------------------------------------------
(* The scheduler's spinlock.  It is owned by an executor, so its exclusion   *)
(* between contexts rests on interrupts: while a task is inside the lock's   *)
(* code no handler runs on top of it.                                        *)

SinglePcs == {"idle", "cas", "try", "spin", "held", "released", "failed"}

SingleTypes ==
    /\ single_pc \in [Contexts -> SinglePcs]
    /\ single_holder \in Executors \cup {None}
    /\ interrupt_disable_count \in [Executors -> Nat]
    /\ in_interrupt \in [Executors -> BOOLEAN]

\* Interrupts are disabled from the first step of a call to its last, so that a
\* handler finds the task below it outside, and a task goes on only after it.
SingleMasked ==
    \A e \in Executors :
        /\ in_interrupt[e] => single_pc[TaskOf(e)] = "idle"
        /\ ~in_interrupt[e] =>
              /\ single_pc[HandlerOf(e)] = "idle"
              /\ single_pc[TaskOf(e)] # "idle" <=> interrupt_disable_count[e] = 1
              /\ single_pc[TaskOf(e)] = "idle" <=> interrupt_disable_count[e] = 0
        /\ in_interrupt[e] =>
              /\ single_pc[HandlerOf(e)] # "idle" <=> interrupt_disable_count[e] = 2
              /\ single_pc[HandlerOf(e)] = "idle" <=> interrupt_disable_count[e] = 1

\* The holder is the executor of the one context inside.
SingleOwned ==
    /\ \A c \in Contexts : single_pc[c] = "held" => single_holder = ExecutorOf(c)
    /\ \A e \in Executors : single_holder = e =>
          single_pc[TaskOf(e)] = "held" \/ single_pc[HandlerOf(e)] = "held"

SingleInv == SingleTypes /\ SingleMasked /\ SingleOwned

----------------------------------------------------------------------------

\* A context that runs on its executor, inside the lock's code or not.
LEMMA RunningContext ==
    ASSUME SingleInv, NEW c \in Contexts, Runs(c)
    PROVE  /\ c[1] \in Executors
           /\ \/ c = TaskOf(c[1]) /\ ~in_interrupt[c[1]]
              \/ c = HandlerOf(c[1]) /\ in_interrupt[c[1]]
           /\ \A d \in Contexts : d[1] = c[1] /\ d # c => single_pc[d] = "idle"
<1>1. /\ c[1] \in Executors
      /\ \/ c = TaskOf(c[1]) /\ ~in_interrupt[c[1]]
         \/ c = HandlerOf(c[1]) /\ in_interrupt[c[1]]
    BY ContextKinds DEF Runs
<1>2. ASSUME NEW d \in Contexts, d[1] = c[1], d # c PROVE single_pc[d] = "idle"
    <2>1. d = TaskOf(c[1]) \/ d = HandlerOf(c[1])
        BY <1>2, ContextKinds
    <2> QED  BY <1>1, <1>2, <2>1 DEF SingleInv, SingleMasked
<1> QED  BY <1>1, <1>2

\* Steps inside the lock's code leave the masking as it is.
LEMMA InsideMasked ==
    ASSUME SingleInv, NEW c \in Contexts, Runs(c), NEW to \in SinglePcs \ {"idle"},
           single_pc[c] # "idle", single_pc' = [single_pc EXCEPT ![c] = to], UNCHANGED ivars
    PROVE  SingleMasked'
BY ContextKinds DEF SingleInv, SingleTypes, SingleMasked, ivars

LEMMA SingleDisableInv ==
    ASSUME SingleInv, NEW c \in Contexts, Disable(c)
    PROVE  SingleInv'
<1>1. PICK to \in {"cas", "try"} : SingleGoto(c, "idle", to)
    BY DEF Disable
<1>2. /\ Runs(c) /\ single_pc[c] = "idle" /\ single_pc' = [single_pc EXCEPT ![c] = to]
      /\ interrupt_disable_count' =
            [interrupt_disable_count EXCEPT ![c[1]] = interrupt_disable_count[c[1]] + 1]
      /\ in_interrupt' = in_interrupt /\ single_holder' = single_holder
    BY <1>1 DEF SingleGoto, Disable, incrementInterruptDisable, ExecutorOf
<1>3. SingleTypes'
    BY <1>2, ContextKinds DEF SingleInv, SingleTypes, SinglePcs
<1>4. SingleMasked'
    BY <1>2, RunningContext, ContextKinds DEF SingleInv, SingleTypes, SingleMasked
<1>5. SingleOwned'
    BY <1>2, ContextKinds DEF SingleInv, SingleTypes, SingleOwned, ExecutorOf
<1> QED  BY <1>3, <1>4, <1>5 DEF SingleInv

\* An exchange that finds the lock free.
LEMMA TakesInv ==
    ASSUME SingleInv, NEW c \in Contexts, NEW from \in SinglePcs \ {"idle"},
           SingleGoto(c, from, "held"), single_holder = None,
           single_holder' = ExecutorOf(c), UNCHANGED ivars
    PROVE  SingleInv'
<1>1. /\ Runs(c) /\ single_pc[c] # "idle"
      /\ single_pc' = [single_pc EXCEPT ![c] = "held"] /\ c[1] \in Executors
    BY ContextKinds DEF SingleGoto
<1>2. SingleTypes'
    BY <1>1 DEF SingleInv, SingleTypes, SinglePcs, ExecutorOf, ivars
<1>3. SingleMasked'
    BY <1>1, InsideMasked, Zenon DEF SinglePcs
<1>4. SingleOwned'
    <2>1. \A d \in Contexts : single_pc[d] # "held"
        BY ContextKinds, HolderAssumption DEF SingleInv, SingleOwned, ExecutorOf
    <2> QED  BY <1>1, <2>1, ContextKinds DEF SingleInv, SingleTypes, SingleOwned, ExecutorOf
<1> QED  BY <1>2, <1>3, <1>4 DEF SingleInv

\* An exchange that fails.
LEMMA FailsInv ==
    ASSUME SingleInv, NEW c \in Contexts, NEW from \in SinglePcs \ {"idle", "held"},
           NEW to \in SinglePcs \ {"idle", "held"},
           SingleGoto(c, from, to), UNCHANGED single_holder, UNCHANGED ivars
    PROVE  SingleInv'
<1>1. /\ Runs(c) /\ single_pc[c] \notin {"idle", "held"}
      /\ single_pc' = [single_pc EXCEPT ![c] = to] /\ c[1] \in Executors
    BY ContextKinds DEF SingleGoto
<1>2. SingleTypes'
    BY <1>1 DEF SingleInv, SingleTypes, ivars
<1>3. SingleMasked'
    BY <1>1, InsideMasked, Zenon
<1>4. SingleOwned'
    BY <1>1, ContextKinds DEF SingleInv, SingleTypes, SingleOwned, ExecutorOf
<1> QED  BY <1>2, <1>3, <1>4 DEF SingleInv

LEMMA SingleUnlockInv ==
    ASSUME SingleInv, NEW c \in Contexts, SingleUnlock(c)
    PROVE  SingleInv'
<1>1. /\ Runs(c) /\ single_pc[c] = "held" /\ single_pc' = [single_pc EXCEPT ![c] = "released"]
      /\ c[1] \in Executors /\ single_holder' = None /\ UNCHANGED ivars
    BY ContextKinds DEF SingleGoto, SingleUnlock
<1>2. SingleTypes'
    BY <1>1 DEF SingleInv, SingleTypes, SinglePcs, ivars
<1>3. SingleMasked'
    BY <1>1, InsideMasked, Zenon DEF SinglePcs
<1>4. SingleOwned'
    <2>1. ASSUME NEW d \in Contexts, d # c PROVE single_pc[d] # "held"
        BY <1>1, <2>1, RunningContext DEF SingleInv, SingleOwned, ExecutorOf
    <2> QED  BY <1>1, <2>1, HolderAssumption, Zenon DEF SingleInv, SingleTypes, SingleOwned
<1> QED  BY <1>2, <1>3, <1>4 DEF SingleInv

LEMMA SingleEnableInv ==
    ASSUME SingleInv, NEW c \in Contexts, Enable(c)
    PROVE  SingleInv'
<1>1. PICK from \in {"released", "failed"} : SingleGoto(c, from, "idle")
    BY DEF Enable
<1>2. /\ Runs(c) /\ single_pc[c] \in {"released", "failed"}
      /\ single_pc' = [single_pc EXCEPT ![c] = "idle"]
      /\ interrupt_disable_count' =
            [interrupt_disable_count EXCEPT ![c[1]] = interrupt_disable_count[c[1]] - 1]
      /\ in_interrupt' = in_interrupt /\ single_holder' = single_holder
    BY <1>1, Zenon DEF SingleGoto, Enable, decrementInterruptDisable, ExecutorOf
<1>3. interrupt_disable_count[c[1]] = IF in_interrupt[c[1]] THEN 2 ELSE 1
    BY <1>2, RunningContext DEF SingleInv, SingleMasked
<1>4. SingleTypes'
    BY <1>2, <1>3, ContextKinds DEF SingleInv, SingleTypes, SinglePcs
<1>5. SingleMasked'
    BY <1>2, <1>3, RunningContext, ContextKinds DEF SingleInv, SingleTypes, SingleMasked
<1>6. SingleOwned'
    BY <1>2, ContextKinds DEF SingleInv, SingleTypes, SingleOwned, ExecutorOf
<1> QED  BY <1>4, <1>5, <1>6 DEF SingleInv

LEMMA SingleInterruptInv ==
    ASSUME SingleInv, NEW e \in Executors, SingleEntry(e) \/ SingleExit(e)
    PROVE  SingleInv'
<1>1. CASE SingleEntry(e)
    <2>1. SingleTypes' /\ SingleMasked'
        BY <1>1 DEF SingleEntry, onInterruptEntry, lvars, SingleInv, SingleTypes, SingleMasked
    <2> QED  BY <1>1, <2>1, Zenon DEF SingleEntry, lvars, SingleInv, SingleOwned
<1>2. CASE SingleExit(e)
    <2>1. SingleTypes' /\ SingleMasked'
        BY <1>2
        DEF SingleExit, onInterruptExit, HandlerOf, lvars, SingleInv, SingleTypes, SingleMasked
    <2> QED  BY <1>2, <2>1 DEF SingleExit, lvars, SingleInv, SingleOwned
<1> QED  BY <1>1, <1>2

\* The invariant holds in every reachable state: SingleSpinLock.zig is inside
\* only where Current.zig has interrupts disabled, and its holder is inside.
THEOREM SingleInvHolds ==
    SingleSpec => []SingleInv
<1>1. SingleInit => SingleInv
    <2> SUFFICES ASSUME SingleInit PROVE SingleInv
        OBVIOUS
    <2>1. SingleTypes
        BY Zenon DEF SingleInit, InterruptsInit, SingleTypes, SinglePcs
    <2>2. SingleMasked
        BY ContextKinds DEF SingleInit, InterruptsInit, SingleMasked
    <2>3. SingleOwned
        BY ContextKinds, HolderAssumption, Zenon DEF SingleInit, SingleOwned
    <2> QED  BY <2>1, <2>2, <2>3 DEF SingleInv
<1>2. SingleInv /\ [SingleNext]_singleVars => SingleInv'
    <2> SUFFICES ASSUME SingleInv, [SingleNext]_singleVars PROVE SingleInv'
        OBVIOUS
    <2>1. ASSUME NEW c \in Contexts, FirstCas(c) \/ PollCas(c) \/ TryCas(c) PROVE SingleInv'
        BY <2>1, TakesInv, FailsInv, Zenon DEF FirstCas, PollCas, TryCas, SinglePcs
    <2>2. CASE UNCHANGED singleVars
        BY <2>2, Zenon DEF singleVars, lvars, ivars, SingleInv, SingleTypes, SingleMasked, SingleOwned
    <2> QED
        BY <2>1, <2>2, SingleDisableInv, SingleUnlockInv, SingleEnableInv, SingleInterruptInv
        DEF SingleNext, SingleStep
<1> QED  BY <1>1, <1>2, PTL DEF SingleSpec

----------------------------------------------------------------------------
(* Results *)

\* At most one context is between the exchange that takes the lock and the store
\* in unlock() (SingleSpinLock.zig), a handler and the task below it included.
THEOREM SingleExclusive ==
    SingleSpec => []SingleExclusion
<1>1. SingleInv => SingleExclusion
    <2> SUFFICES ASSUME SingleInv, NEW c \in Contexts, NEW d \in Contexts,
                        single_pc[c] = "held", single_pc[d] = "held"
                 PROVE  c = d
        BY DEF SingleExclusion
    <2>1. c[1] = d[1]
        BY DEF SingleInv, SingleOwned, ExecutorOf
    <2> QED  BY <2>1, ContextKinds DEF SingleInv, SingleMasked
<1> QED  BY <1>1, SingleInvHolds, PTL

\* The "recursive lock!" panics of SingleSpinLock.zig cannot fire: a context that
\* tries to take the lock does not find it held by its own executor.
THEOREM NeverRecursive ==
    SingleSpec => []NotRecursive
<1>1. SingleInv => NotRecursive
    <2> SUFFICES ASSUME SingleInv, NEW c \in Contexts, Runs(c),
                        single_pc[c] \in {"cas", "spin", "try"}, single_holder = c[1]
                 PROVE  FALSE
        BY DEF NotRecursive, ExecutorOf
    <2>1. c[1] \in Executors
        BY ContextKinds
    <2>2. PICK d \in Contexts : d[1] = c[1] /\ single_pc[d] = "held"
        BY <2>1, ContextKinds, Zenon DEF SingleInv, SingleOwned, TaskOf, HandlerOf
    <2> QED  BY <2>2, RunningContext
<1> QED  BY <1>1, SingleInvHolds, PTL

\* SingleSpinLock.zig is exclusive between contexts and its panics cannot fire.
THEOREM SingleSound == SingleSpec => []SingleLockSound
BY SingleExclusive, NeverRecursive, PTL DEF SingleLockSound

----------------------------------------------------------------------------
(* The reader-writer lock *)

\* Where a task is counted as a reader or as a pending writer, where the
\* writing bit is its own, and where it owns the mutex.
ReadingAt == {"runlock", "reading", "utry", "usub", "udrop"}
PendingAt == {"wlock", "wwait", "wset", "utry", "usub", "uset", "uback", "udrop"}
WritingAt == {"wenqueue", "asleep", "writing"}
OwningAt  == {"wset", "wenqueue", "asleep", "writing", "wrelease", "twload", "twcas",
              "twunlock", "usub", "uset", "uback", "radd", "runlock"}

Writing == {t \in Tasks : pc[t] \in WritingAt}

\* The packed word with its three fields.
Word(w, p, r) == w + 2 * p + READER * r
Bit(S) == IF S = {} THEN 0 ELSE 1

RwTypes ==
    /\ mutex \in Tasks \cup {None} /\ mutex_queue \in Seq(Tasks)
    /\ pc \in [Tasks -> Pcs]
    /\ seen \in [Tasks -> 0..(WordSize - 1)]

RwWord == state = Word(Bit(Writing), Cardinality(Pending), Cardinality(Reading))

\* What a compare-and-exchange will find if it succeeds.
RwSeen ==
    \A t \in Tasks :
        /\ pc[t] \in {"rcas", "trcas"} => Open(seen[t])
        /\ pc[t] = "twcas" => ReaderCount(seen[t]) = 0

\* No reader is left, and none can come, when an upgrade or a write is decided.
RwAlone == \A t \in Tasks : pc[t] \in {"uset", "writing"} => Reading = {}

\* The wait queue holds the writer that sleeps.
RwAsleep ==
    \/ wait_queue = <<>> /\ \A t \in Tasks : pc[t] # "asleep"
    \/ \E w \in Tasks : wait_queue = <<w>> /\ pc[w] = "asleep"

\* A wake-up is on its way to one writer, which has announced itself, once the
\* readers have left; it cannot come late and reach another writer.
RwWake ==
    \A t \in Tasks : pc[t] = "rwake" =>
        /\ Reading = {}
        /\ \E w \in Tasks : pc[w] \in {"wenqueue", "asleep"}
        /\ \A u \in Tasks : pc[u] = "rwake" => u = t

RwInv == RwTypes /\ RwWord /\ WritersSerialised /\ RwSeen /\ RwAlone /\ RwAsleep /\ RwWake

----------------------------------------------------------------------------
(* Arithmetic of the packed word *)

Counts == 0 .. CountSize - 1

LEMMA DivideWord ==
    ASSUME NEW b \in Nat, b > 0, NEW q \in Nat, NEW r \in 0..(b - 1)
    PROVE  (b * q + r) % b = r /\ (b * q + r) \div b = q
OBVIOUS

LEMMA Constants ==
    CountSize \in Nat /\ CountSize > 0 /\ READER \in Nat /\ READER > 0
BY CountAssumption, FS_CardinalityType DEF READER

\* The word has room for its fields.
LEMMA WordRange ==
    ASSUME NEW w \in {0, 1}, NEW p \in Counts, NEW r \in Counts
    PROVE  /\ w + 2 * p \in 0 .. READER - 1
           /\ Word(w, p, r) \in 0 .. WordSize - 1
           /\ READER * r \in Nat /\ WordSize \in Nat
<1> CountSize \in Nat /\ CountSize > 0
    BY Constants
<1>1. w + 2 * p \in 0 .. READER - 1
    BY DEF Counts, READER
<1>2. PICK a \in Nat : a = w + 2 * p /\ a <= READER - 1
    BY <1>1
<1>3. READER \in Nat /\ r \in Nat /\ r + 1 <= CountSize
    BY Constants DEF Counts
<1>4. READER * r \in Nat /\ WordSize \in Nat
    BY <1>3 DEF WordSize
<1>5. READER * (r + 1) <= READER * CountSize
    BY <1>3
<1>6. READER * (r + 1) = READER * r + READER
    BY <1>3
<1>7. a + READER * r <= WordSize - 1
    BY <1>2, <1>3, <1>4, <1>5, <1>6 DEF WordSize
<1> QED  BY <1>1, <1>2, <1>3, <1>4, <1>7 DEF Word

\* The masks and shifts of RwLock.zig find the fields.
LEMMA WordFields ==
    ASSUME NEW w \in {0, 1}, NEW p \in Counts, NEW r \in Counts
    PROVE  /\ IsWriting(Word(w, p, r)) <=> w = 1
           /\ PendingWriters(Word(w, p, r)) = p
           /\ ReaderCount(Word(w, p, r)) = r
           /\ Open(Word(w, p, r)) <=> w = 0 /\ p = 0
<1>1. READER \in Nat /\ READER > 0 /\ r \in Nat /\ p \in Nat /\ CountSize \in Nat
    BY Constants DEF Counts
<1>2. w + 2 * p \in 0 .. READER - 1
    BY WordRange
<1>3. Word(w, p, r) = READER * r + (w + 2 * p)
    BY <1>1 DEF Word
<1>4. Word(w, p, r) % READER = w + 2 * p /\ Word(w, p, r) \div READER = r
    BY <1>1, <1>2, <1>3, DivideWord
<1>5. (w + 2 * p) \div 2 = p
    BY <1>1
<1>6. Word(w, p, r) % 2 = w
    <2>1. PICK k \in Nat : k = CountSize * r
        BY <1>1
    <2>2. READER * r = 2 * k
        BY <1>1, <2>1 DEF READER
    <2>3. Word(w, p, r) = 2 * (k + p) + w
        BY <1>1, <1>3, <2>1, <2>2
    <2> QED  BY <1>1, <2>1, <2>3
<1> QED  BY <1>1, <1>4, <1>5, <1>6 DEF IsWriting, PendingWriters, ReaderCount, Open, WRITER

LEMMA PlusWord ==
    ASSUME NEW s \in 0 .. WordSize - 1, NEW x \in Nat, s + x \in 0 .. WordSize - 1, WordSize \in Nat
    PROVE  Plus(s, x) = s + x
BY DEF Plus

LEMMA MinusWord ==
    ASSUME NEW s \in 0 .. WordSize - 1, NEW x \in Nat, s - x \in 0 .. WordSize - 1, WordSize \in Nat
    PROVE  Minus(s, x) = s - x
<1>1. PICK a \in 0 .. WordSize - 1 : a = s - x
    OBVIOUS
<1>2. s + WordSize - x = WordSize * 1 + a /\ WordSize > 0
    BY <1>1
<1> QED  BY <1>1, <1>2, DivideWord DEF Minus

\* What the atomic additions and subtractions do to the fields.
LEMMA WordSteps ==
    ASSUME NEW w \in {0, 1}, NEW p \in Counts, NEW r \in Counts
    PROVE  /\ r + 1 \in Counts => Plus(Word(w, p, r), READER) = Word(w, p, r + 1)
           /\ r # 0 => Minus(Word(w, p, r), READER) = Word(w, p, r - 1)
           /\ p + 1 \in Counts => Plus(Word(w, p, r), WRITER) = Word(w, p + 1, r)
           /\ p # 0 => Minus(Word(w, p, r), WRITER) = Word(w, p - 1, r)
           /\ p # 0 /\ r # 0 => Minus(Word(w, p, r), READER + WRITER) = Word(w, p - 1, r - 1)
           /\ w = 0 => Plus(Word(w, p, r), IS_WRITING) = Word(1, p, r)
           /\ w = 1 => Minus(Word(w, p, r), IS_WRITING) = Word(0, p, r)
           /\ w = 0 /\ p # 0 => BecomeWriting(Word(w, p, r)) = Word(1, p - 1, r)
<1>1. /\ READER \in Nat /\ READER > 0 /\ r \in Nat /\ p \in Nat /\ CountSize \in Nat
      /\ WordSize \in Nat /\ READER * r \in Nat
    BY Constants, WordRange DEF Counts
<1>2. Word(w, p, r) \in 0 .. WordSize - 1
    BY WordRange
<1>3. ASSUME r + 1 \in Counts PROVE Plus(Word(w, p, r), READER) = Word(w, p, r + 1)
    <2>1. READER * (r + 1) = READER * r + READER
        BY <1>1
    <2>2. Word(w, p, r) + READER = Word(w, p, r + 1)
        BY <1>1, <2>1 DEF Word
    <2>3. Word(w, p, r + 1) \in 0 .. WordSize - 1
        BY <1>3, WordRange
    <2> QED  BY <1>1, <1>2, <2>2, <2>3, PlusWord
<1>4. ASSUME r # 0 PROVE /\ r - 1 \in Counts
                         /\ Minus(Word(w, p, r), READER) = Word(w, p, r - 1)
                         /\ READER * (r - 1) = READER * r - READER
    <2>1. READER * (r - 1) = READER * r - READER /\ r - 1 \in Counts
        BY <1>1, <1>4 DEF Counts
    <2>2. Word(w, p, r) - READER = Word(w, p, r - 1)
        BY <1>1, <2>1 DEF Word
    <2>3. Word(w, p, r - 1) \in 0 .. WordSize - 1
        BY <2>1, WordRange
    <2> QED  BY <1>1, <1>2, <2>1, <2>2, <2>3, MinusWord, Zenon
<1>5. ASSUME p + 1 \in Counts PROVE Plus(Word(w, p, r), WRITER) = Word(w, p + 1, r)
    <2>1. Word(w, p, r) + WRITER = Word(w, p + 1, r)
        BY <1>1 DEF Word, WRITER
    <2>2. Word(w, p + 1, r) \in 0 .. WordSize - 1
        BY <1>5, WordRange
    <2> QED  BY <1>1, <1>2, <2>1, <2>2, PlusWord DEF WRITER
<1>6. ASSUME p # 0 PROVE p - 1 \in Counts /\ Minus(Word(w, p, r), WRITER) = Word(w, p - 1, r)
    <2>1. Word(w, p, r) - WRITER = Word(w, p - 1, r) /\ p - 1 \in Counts
        BY <1>1, <1>6 DEF Word, WRITER, Counts
    <2>2. Word(w, p - 1, r) \in 0 .. WordSize - 1
        BY <2>1, WordRange
    <2> QED  BY <1>1, <1>2, <2>1, <2>2, MinusWord, Zenon DEF WRITER
<1>7. ASSUME p # 0, r # 0
      PROVE  Minus(Word(w, p, r), READER + WRITER) = Word(w, p - 1, r - 1)
    <2>1. Word(w, p, r) - (READER + WRITER) = Word(w, p - 1, r - 1)
        BY <1>1, <1>4, <1>7 DEF Word, WRITER
    <2>2. Word(w, p - 1, r - 1) \in 0 .. WordSize - 1
        BY <1>4, <1>6, <1>7, WordRange, Zenon
    <2> QED  BY <1>1, <1>2, <2>1, <2>2, MinusWord DEF WRITER
<1>8. ASSUME w = 0 PROVE Plus(Word(w, p, r), IS_WRITING) = Word(1, p, r)
    <2>1. Word(w, p, r) + IS_WRITING = Word(1, p, r)
        BY <1>1, <1>8 DEF Word, IS_WRITING
    <2>2. Word(1, p, r) \in 0 .. WordSize - 1
        BY WordRange
    <2> QED  BY <1>1, <1>2, <2>1, <2>2, PlusWord, Zenon DEF IS_WRITING
<1>9. ASSUME w = 1 PROVE Minus(Word(w, p, r), IS_WRITING) = Word(0, p, r)
    <2>1. Word(w, p, r) - IS_WRITING = Word(0, p, r)
        BY <1>1, <1>9 DEF Word, IS_WRITING
    <2>2. Word(0, p, r) \in 0 .. WordSize - 1
        BY WordRange
    <2> QED  BY <1>1, <1>2, <2>1, <2>2, MinusWord DEF IS_WRITING
<1>10. ASSUME w = 0, p # 0 PROVE BecomeWriting(Word(w, p, r)) = Word(1, p - 1, r)
    <2>1. Word(1, p, r) - WRITER = Word(1, p - 1, r) /\ p - 1 \in Counts
        BY <1>1, <1>10 DEF Word, WRITER, Counts
    <2>2. Word(1, p - 1, r) \in 0 .. WordSize - 1 /\ Word(1, p, r) \in 0 .. WordSize - 1
        BY <2>1, WordRange
    <2>3. Minus(Word(1, p, r), WRITER) = Word(1, p - 1, r)
        BY <1>1, <2>1, <2>2, MinusWord, Zenon DEF WRITER
    <2> QED  BY <1>8, <1>10, <2>3 DEF BecomeWriting
<1> QED  BY <1>3, <1>4, <1>5, <1>6, <1>7, <1>8, <1>9, <1>10, Zenon

----------------------------------------------------------------------------
(* What a step of one task does to the sets *)

LEMMA CountOf ==
    ASSUME NEW S, S \subseteq Tasks
    PROVE  /\ IsFiniteSet(S) /\ Cardinality(S) \in Counts
           /\ Cardinality(S) = 0 <=> S = {}
           /\ \A t \in Tasks \ S : /\ Cardinality(S \cup {t}) = Cardinality(S) + 1
                                   /\ Cardinality(S) + 1 \in Counts
           /\ \A t \in S : /\ Cardinality(S \ {t}) = Cardinality(S) - 1
                           /\ Cardinality(S) # 0
                           /\ Cardinality(S) = 1 => S = {t}
<1>1. IsFiniteSet(Tasks) /\ Cardinality(Tasks) \in Nat /\ Cardinality(Tasks) < CountSize
    BY CountAssumption, FS_CardinalityType
<1>2. ASSUME NEW T, T \subseteq Tasks
      PROVE  IsFiniteSet(T) /\ Cardinality(T) \in Counts
    <2>1. IsFiniteSet(T) /\ Cardinality(T) <= Cardinality(Tasks)
        BY <1>1, <1>2, FS_Subset
    <2> QED  BY <1>1, <2>1, FS_CardinalityType, CountAssumption DEF Counts
<1>3. IsFiniteSet(S) /\ Cardinality(S) \in Counts
    BY <1>2
<1>4. Cardinality(S) = 0 <=> S = {}
    BY <1>3, FS_EmptySet
<1>5. ASSUME NEW t \in Tasks \ S
      PROVE  Cardinality(S \cup {t}) = Cardinality(S) + 1 /\ Cardinality(S) + 1 \in Counts
    <2>1. Cardinality(S \cup {t}) = Cardinality(S) + 1
        BY <1>3, FS_AddElement
    <2>2. Cardinality(S \cup {t}) \in Counts
        BY <1>2
    <2> QED  BY <2>1, <2>2
<1>6. ASSUME NEW t \in S
      PROVE  /\ Cardinality(S \ {t}) = Cardinality(S) - 1
             /\ Cardinality(S) # 0 /\ (Cardinality(S) = 1 => S = {t})
    <2>1. Cardinality(S \ {t}) = Cardinality(S) - 1
        BY <1>3, FS_RemoveElement, Zenon
    <2>2. IsFiniteSet(S \ {t}) /\ Cardinality(S \ {t}) \in Counts
        BY <1>2
    <2>3. Cardinality(S \ {t}) = 0 => S \ {t} = {}
        BY <2>2, FS_EmptySet
    <2>4. Cardinality(S) # 0
        BY <1>4
    <2>5. Cardinality(S) = 1 => S = {t}
        <3> SUFFICES ASSUME Cardinality(S) = 1 PROVE S = {t}
            OBVIOUS
        <3>1. S \ {t} = {}
            BY <2>1, <2>3
        <3> QED  BY <3>1
    <2> QED  BY <2>1, <2>4, <2>5
<1> QED  BY <1>3, <1>4, <1>5, <1>6

LEMMA SetsOf ==
    /\ Reading = {t \in Tasks : pc[t] \in ReadingAt}
    /\ Pending = {t \in Tasks : pc[t] \in PendingAt}
    /\ Reading \subseteq Tasks /\ Pending \subseteq Tasks /\ Writing \subseteq Tasks
BY DEF Reading, Pending, Writing, ReadingAt, PendingAt

\* The fields of the word.
LEMMA Fields ==
    ASSUME RwWord
    PROVE  /\ Bit(Writing) \in {0, 1}
           /\ Cardinality(Pending) \in Counts /\ Cardinality(Reading) \in Counts
           /\ state = Word(Bit(Writing), Cardinality(Pending), Cardinality(Reading))
           /\ state \in 0 .. WordSize - 1
           /\ IsWriting(state) <=> Writing # {}
           /\ PendingWriters(state) = Cardinality(Pending)
           /\ ReaderCount(state) = Cardinality(Reading)
           /\ ReaderCount(state) = 0 <=> Reading = {}
           /\ Open(state) <=> Writing = {} /\ Pending = {}
<1>1. Bit(Writing) \in {0, 1} /\ (Bit(Writing) = 1 <=> Writing # {})
    BY DEF Bit
<1>2. /\ Cardinality(Pending) \in Counts /\ Cardinality(Reading) \in Counts
      /\ Cardinality(Pending) = 0 <=> Pending = {}
      /\ Cardinality(Reading) = 0 <=> Reading = {}
    BY SetsOf, CountOf
<1>3. PICK w \in {0, 1}, p \in Counts, r \in Counts :
          w = Bit(Writing) /\ p = Cardinality(Pending) /\ r = Cardinality(Reading)
    BY <1>1, <1>2
<1>4. state = Word(w, p, r)
    BY <1>3 DEF RwWord
<1>5. /\ state \in 0 .. WordSize - 1
      /\ IsWriting(state) <=> w = 1
      /\ PendingWriters(state) = p /\ ReaderCount(state) = r
      /\ Open(state) <=> w = 0 /\ p = 0
    BY <1>4, WordRange, WordFields
<1> QED  BY <1>1, <1>2, <1>3, <1>4, <1>5

\* A task goes from one place to another.
LEMMA Moves ==
    ASSUME RwTypes, NEW t \in Tasks, NEW from, NEW to, Goto(t, from, to)
    PROVE  /\ pc[t] = from /\ pc'[t] = to /\ \A u \in Tasks : u # t => pc'[u] = pc[u]
           /\ from \in ReadingAt <=> t \in Reading
           /\ Reading' = IF to \in ReadingAt THEN Reading \cup {t} ELSE Reading \ {t}
           /\ from \in PendingAt <=> t \in Pending
           /\ Pending' = IF to \in PendingAt THEN Pending \cup {t} ELSE Pending \ {t}
           /\ from \in WritingAt <=> t \in Writing
           /\ Writing' = IF to \in WritingAt THEN Writing \cup {t} ELSE Writing \ {t}
<1>1. pc[t] = from /\ pc' = [pc EXCEPT ![t] = to] /\ pc \in [Tasks -> Pcs]
    BY DEF Goto, RwTypes
<1>2. pc'[t] = to /\ \A u \in Tasks : u # t => pc'[u] = pc[u]
    BY <1>1
<1>3. /\ Reading' = {u \in Tasks : pc'[u] \in ReadingAt}
      /\ Pending' = {u \in Tasks : pc'[u] \in PendingAt}
      /\ Writing' = {u \in Tasks : pc'[u] \in WritingAt}
    BY Zenon DEF Reading, Pending, Writing, ReadingAt, PendingAt
<1>4. Reading' = IF to \in ReadingAt THEN Reading \cup {t} ELSE Reading \ {t}
    BY <1>2, <1>3, SetsOf, Zenon
<1>5. Pending' = IF to \in PendingAt THEN Pending \cup {t} ELSE Pending \ {t}
    BY <1>2, <1>3, SetsOf, Zenon
<1>6. Writing' = IF to \in WritingAt THEN Writing \cup {t} ELSE Writing \ {t}
    BY <1>2, <1>3, Zenon DEF Writing
<1> QED  BY <1>1, <1>2, <1>4, <1>5, <1>6, SetsOf, Zenon DEF Writing

\* The same in numbers.
LEMMA Numbers ==
    ASSUME RwTypes, NEW t \in Tasks, NEW from, NEW to, Goto(t, from, to)
    PROVE  /\ (from \in ReadingAt <=> to \in ReadingAt) => Reading' = Reading
           /\ from \in ReadingAt /\ to \notin ReadingAt =>
                 /\ Cardinality(Reading') = Cardinality(Reading) - 1 /\ Cardinality(Reading) # 0
                 /\ Cardinality(Reading) = 1 => Reading' = {}
           /\ from \notin ReadingAt /\ to \in ReadingAt =>
                 /\ Cardinality(Reading') = Cardinality(Reading) + 1
                 /\ Cardinality(Reading) + 1 \in Counts
           /\ (from \in PendingAt <=> to \in PendingAt) => Pending' = Pending
           /\ from \in PendingAt /\ to \notin PendingAt =>
                 Cardinality(Pending') = Cardinality(Pending) - 1 /\ Cardinality(Pending) # 0
           /\ from \notin PendingAt /\ to \in PendingAt =>
                 /\ Cardinality(Pending') = Cardinality(Pending) + 1
                 /\ Cardinality(Pending) + 1 \in Counts
           /\ (from \in WritingAt <=> to \in WritingAt) => Writing' = Writing
<1>1. /\ Reading \subseteq Tasks /\ Pending \subseteq Tasks
      /\ from \in ReadingAt <=> t \in Reading
      /\ Reading' = IF to \in ReadingAt THEN Reading \cup {t} ELSE Reading \ {t}
      /\ from \in PendingAt <=> t \in Pending
      /\ Pending' = IF to \in PendingAt THEN Pending \cup {t} ELSE Pending \ {t}
      /\ from \in WritingAt <=> t \in Writing
      /\ Writing' = IF to \in WritingAt THEN Writing \cup {t} ELSE Writing \ {t}
    BY Moves, SetsOf
<1>2. /\ (from \in ReadingAt <=> to \in ReadingAt) => Reading' = Reading
      /\ (from \in PendingAt <=> to \in PendingAt) => Pending' = Pending
      /\ (from \in WritingAt <=> to \in WritingAt) => Writing' = Writing
    BY <1>1, Zenon
<1>3. ASSUME from \in ReadingAt, to \notin ReadingAt
      PROVE  /\ Cardinality(Reading') = Cardinality(Reading) - 1 /\ Cardinality(Reading) # 0
             /\ Cardinality(Reading) = 1 => Reading' = {}
    BY <1>1, <1>3, CountOf, Zenon
<1>4. ASSUME from \notin ReadingAt, to \in ReadingAt
      PROVE  /\ Cardinality(Reading') = Cardinality(Reading) + 1
             /\ Cardinality(Reading) + 1 \in Counts
    BY <1>1, <1>4, CountOf, Zenon
<1>5. ASSUME from \in PendingAt, to \notin PendingAt
      PROVE  Cardinality(Pending') = Cardinality(Pending) - 1 /\ Cardinality(Pending) # 0
    BY <1>1, <1>5, CountOf, Zenon
<1>6. ASSUME from \notin PendingAt, to \in PendingAt
      PROVE  /\ Cardinality(Pending') = Cardinality(Pending) + 1
             /\ Cardinality(Pending) + 1 \in Counts
    BY <1>1, <1>6, CountOf
<1> QED  BY <1>2, <1>3, <1>4, <1>5, <1>6, Zenon

----------------------------------------------------------------------------
(* Every step keeps the invariant *)

\* Only the owner of the mutex is at one of the places where it is relied on.
LEMMA OwnersAre ==
    WritersSerialised <=> \A t \in Tasks : pc[t] \in OwningAt => mutex = t
BY DEF WritersSerialised, OwningAt

\* A move away from the wait queue, with what has to be seen to.
LEMMA MoveInv ==
    ASSUME RwInv, NEW t \in Tasks, NEW from, NEW to \in Pcs, Goto(t, from, to),
           wait_queue' = wait_queue, RwWord', mutex_queue' \in Seq(Tasks),
           mutex' \in Tasks \cup {None},
           to \in OwningAt => mutex' = t,
           mutex' = mutex \/ from \in OwningAt \/ mutex = None,
           seen' = seen \/ seen' = [seen EXCEPT ![t] = state],
           to \in {"rcas", "trcas"} => Open(seen'[t]),
           to = "twcas" => ReaderCount(seen'[t]) = 0,
           to \in {"uset", "writing", "rwake"} => Reading' = {},
           \/ Reading' \subseteq Reading
           \/ \A u \in Tasks : pc[u] \notin {"uset", "writing", "rwake"},
           from \notin {"wenqueue", "asleep"}, to # "asleep",
           to = "rwake" => /\ \E w \in Tasks : pc[w] \in {"wenqueue", "asleep"}
                           /\ \A u \in Tasks : pc[u] # "rwake"
    PROVE  RwInv'
<1>1. /\ pc[t] = from /\ pc'[t] = to /\ \A u \in Tasks : u # t => pc'[u] = pc[u]
      /\ pc' \in [Tasks -> Pcs]
    BY Moves, Zenon DEF RwInv, RwTypes, Goto
<1>2. state \in 0 .. WordSize - 1
    BY Fields, Zenon DEF RwInv
<1>3. /\ seen' \in [Tasks -> 0..(WordSize - 1)]
      /\ \A u \in Tasks : u # t => seen'[u] = seen[u]
    BY <1>2, Zenon DEF RwInv, RwTypes
<1>4. RwTypes'
    BY <1>1, <1>3, Zenon DEF RwTypes
<1>5. WritersSerialised'
    <2>1. ASSUME NEW u \in Tasks, pc'[u] \in OwningAt PROVE mutex' = u
        <3>1. CASE u = t
            BY <1>1, <2>1, <3>1, Zenon
        <3>2. CASE u # t
            <4>1. mutex = u
                BY <1>1, <2>1, <3>2, OwnersAre, Zenon DEF RwInv
            <4>2. from \in OwningAt => mutex = t
                BY <1>1, OwnersAre, Zenon DEF RwInv
            <4> QED  BY <3>2, <4>1, <4>2, CountAssumption, Zenon
        <3> QED  BY <3>1, <3>2, Zenon
    <2> QED  BY <2>1 DEF WritersSerialised, OwningAt
<1>6. RwSeen'
    BY <1>1, <1>3, Zenon DEF RwInv, RwSeen, Open, ReaderCount
<1>7. RwAlone'
    BY <1>1, Zenon DEF RwInv, RwAlone
<1>8. RwAsleep'
    BY <1>1, Zenon DEF RwInv, RwAsleep
<1>9. RwWake'
    <2> SUFFICES ASSUME NEW u \in Tasks, pc'[u] = "rwake"
                 PROVE  /\ Reading' = {}
                        /\ \E w \in Tasks : pc'[w] \in {"wenqueue", "asleep"}
                        /\ \A v \in Tasks : pc'[v] = "rwake" => v = u
        BY DEF RwWake
    <2>1. CASE u = t
        BY <1>1, <2>1, Zenon
    <2>2. CASE u # t
        BY <1>1, <2>2, Zenon DEF RwInv, RwWake
    <2> QED  BY <2>1, <2>2, Zenon
<1> QED  BY <1>4, <1>5, <1>6, <1>7, <1>8, <1>9, Zenon DEF RwInv

\* The loads of the word.
LEMMA LoadInv ==
    ASSUME RwInv, NEW t \in Tasks,
           ReadLoad(t) \/ (state # seen[t] /\ ReadCas(t)) \/ TryWriteLoad(t)
             \/ (state # seen[t] /\ TryWriteCas(t))
    PROVE  RwInv'
<1>1. PICK from \in {"idle", "rcas", "trcas", "twload", "twcas"},
           to \in {"rcas", "trcas", "rlock", "trlock", "twload", "twcas", "twunlock"} :
          /\ Load(t, from, to)
          /\ to \in {"rcas", "trcas"} => Open(state)
          /\ to = "twcas" => ReaderCount(state) = 0
          /\ to \in {"twload", "twcas", "twunlock"} => from \in {"twload", "twcas"}
    BY DEF ReadLoad, ReadCas, TryWriteLoad, TryWriteCas
<1>2. /\ Goto(t, from, to) /\ seen' = [seen EXCEPT ![t] = state] /\ state' = state
      /\ mutex' = mutex /\ mutex_queue' = mutex_queue /\ wait_queue' = wait_queue
    BY <1>1 DEF Load, mvars
<1>3. seen'[t] = state
    BY <1>2 DEF RwInv, RwTypes
<1>4. Reading' = Reading /\ Pending' = Pending /\ Writing' = Writing
    BY <1>2, Numbers DEF RwInv, ReadingAt, PendingAt, WritingAt
<1>5. RwWord'
    BY <1>2, <1>4, Zenon DEF RwInv, RwWord
<1>6. to \in OwningAt => mutex' = t
    BY <1>1, <1>2, OwnersAre, Zenon DEF RwInv, OwningAt, Goto
<1>7. to \in Pcs /\ mutex \in Tasks \cup {None} /\ mutex_queue \in Seq(Tasks)
    BY Zenon DEF Pcs, RwInv, RwTypes
<1> QED  BY <1>1, <1>2, <1>3, <1>4, <1>5, <1>6, <1>7, MoveInv, Zenon

\* mutex.lock(), tryLock() and unlock().
LEMMA MutexInv ==
    ASSUME RwInv, NEW t \in Tasks,
           ReadLockMutex(t) \/ TryReadMutex(t) \/ ReadUnlockMutex(t) \/ WriteLockMutex(t)
             \/ WriteRelease(t) \/ TryWriteMutex(t) \/ TryWriteUnlock(t) \/ UpgradeMutex(t)
    PROVE  RwInv'
<1>1. PICK from \in Pcs, to \in Pcs :
          /\ Goto(t, from, to) /\ UNCHANGED <<state, wait_queue, seen>>
          /\ \/ Mutex!Acquire(t)
             \/ Mutex!Wait(t) /\ to \notin OwningAt
             \/ Mutex!Release(t) /\ to \notin OwningAt /\ from \in OwningAt
             \/ UNCHANGED mvars /\ (to \in OwningAt => mutex = t)
          /\ from \in ReadingAt <=> to \in ReadingAt
          /\ from \in PendingAt <=> to \in PendingAt
          /\ from \notin WritingAt /\ to \notin WritingAt
          /\ to \notin {"rcas", "trcas", "twcas", "uset", "writing", "rwake"}
    <2> USE DEF Pcs, OwningAt, ReadingAt, PendingAt, WritingAt
    <2>1. CASE ReadLockMutex(t)
        BY <2>1, Zenon DEF ReadLockMutex, LockMutex
    <2>2. CASE TryReadMutex(t)
        BY <2>2, Zenon DEF TryReadMutex, TryMutex
    <2>3. CASE ReadUnlockMutex(t)
        BY <2>3, Zenon DEF ReadUnlockMutex, UnlockMutex
    <2>4. CASE WriteLockMutex(t)
        BY <2>4, Zenon DEF WriteLockMutex, LockMutex
    <2>5. CASE WriteRelease(t)
        BY <2>5, Zenon DEF WriteRelease, UnlockMutex
    <2>6. CASE TryWriteMutex(t)
        BY <2>6, Zenon DEF TryWriteMutex, TryMutex
    <2>7. CASE TryWriteUnlock(t)
        BY <2>7, Zenon DEF TryWriteUnlock, UnlockMutex
    <2>8. CASE UpgradeMutex(t)
        BY <2>8, Zenon DEF UpgradeMutex, TryMutex
    <2> QED  BY <2>1, <2>2, <2>3, <2>4, <2>5, <2>6, <2>7, <2>8, Zenon
<1>2. Reading' = Reading /\ Pending' = Pending /\ Writing' = Writing
    BY <1>1, Numbers, Zenon DEF RwInv
<1>3. RwWord'
    BY <1>1, <1>2, Zenon DEF RwInv, RwWord
<1>4. from \in OwningAt => mutex = t
    BY <1>1, OwnersAre, Zenon DEF RwInv, Goto
<1>5. /\ mutex' \in Tasks \cup {None} /\ mutex_queue' \in Seq(Tasks)
      /\ to \in OwningAt => mutex' = t
      /\ mutex' = mutex \/ from \in OwningAt \/ mutex = None
    <2>1. mutex \in Tasks \cup {None} /\ mutex_queue \in Seq(Tasks)
        BY DEF RwInv, RwTypes
    <2>2. CASE Mutex!Acquire(t)
        BY <2>1, <2>2, Zenon DEF Mutex!Acquire
    <2>3. CASE Mutex!Wait(t) /\ to \notin OwningAt
        BY <2>1, <2>3 DEF Mutex!Wait
    <2>4. CASE Mutex!Release(t) /\ to \notin OwningAt /\ from \in OwningAt
        BY <2>1, <2>4 DEF Mutex!Release
    <2>5. CASE UNCHANGED mvars /\ (to \in OwningAt => mutex = t)
        BY <2>1, <2>5, Zenon DEF mvars
    <2> QED  BY <1>1, <2>2, <2>3, <2>4, <2>5, Zenon
<1>6. from \notin {"wenqueue", "asleep"} /\ to # "asleep"
    BY <1>1, Zenon DEF WritingAt
<1> QED  BY <1>1, <1>2, <1>3, <1>5, <1>6, MoveInv, Zenon

\* The atomic operations on the word that leave the sleeping writer alone.
LEMMA RmwInv ==
    ASSUME RwInv, NEW t \in Tasks, NEW from, NEW to \in Pcs, NEW s, Rmw(t, from, to, s), RwWord',
           to \in OwningAt => mutex = t,
           to \notin {"rcas", "trcas", "twcas", "rwake"},
           to \in {"uset", "writing"} => Reading' = {},
           \/ Reading' \subseteq Reading
           \/ \A u \in Tasks : pc[u] \notin {"uset", "writing", "rwake"},
           from \notin {"wenqueue", "asleep"}, to # "asleep"
    PROVE  RwInv'
<1>1. /\ Goto(t, from, to) /\ seen' = seen /\ mutex' = mutex /\ mutex_queue' = mutex_queue
      /\ wait_queue' = wait_queue
    BY DEF Rmw, mvars
<1>2. mutex \in Tasks \cup {None} /\ mutex_queue \in Seq(Tasks)
    BY Zenon DEF RwInv, RwTypes
<1> QED  BY <1>1, <1>2, MoveInv, Zenon

\* A reader comes in.
LEMMA ReaderEnters ==
    ASSUME RwInv, NEW t \in Tasks, NEW from, NEW to \in ReadingAt, to \notin PendingAt,
           from \notin ReadingAt \cup PendingAt \cup WritingAt,
           Rmw(t, from, to, Plus(state, READER)),
           \A u \in Tasks : pc[u] \notin {"uset", "writing", "rwake"},
           to \in OwningAt => mutex = t
    PROVE  RwInv'
<1>1. Goto(t, from, to) /\ state' = Plus(state, READER)
    BY Zenon DEF Rmw
<1>2. PICK w \in {0, 1}, p \in Counts, r \in Counts :
          /\ w = Bit(Writing) /\ p = Cardinality(Pending) /\ r = Cardinality(Reading)
          /\ state = Word(w, p, r)
    BY Fields, Zenon DEF RwInv
<1>3. /\ Pending' = Pending /\ Writing' = Writing
      /\ Cardinality(Reading') = r + 1 /\ r + 1 \in Counts
    BY <1>1, <1>2, Numbers, Zenon DEF RwInv, ReadingAt, WritingAt
<1>4. state' = Word(w, p, r + 1)
    BY <1>1, <1>2, <1>3, WordSteps
<1>5. RwWord'
    BY <1>2, <1>3, <1>4, Zenon DEF RwWord
<1>6. to \in Pcs /\ to \notin {"rcas", "trcas", "twcas", "rwake", "uset", "writing", "asleep"}
    BY DEF ReadingAt, Pcs
<1>7. from \notin {"wenqueue", "asleep"}
    BY Zenon DEF WritingAt
<1> QED  BY <1>5, <1>6, <1>7, RmwInv, Zenon

LEMMA ReadCasInv ==
    ASSUME RwInv, NEW t \in Tasks, ReadCas(t), state = seen[t]
    PROVE  RwInv'
<1>1. PICK from \in {"rcas", "trcas"} : Rmw(t, from, "reading", Plus(state, READER))
    BY Zenon DEF ReadCas
<1>2. Open(state)
    BY <1>1, Zenon DEF Rmw, Goto, RwInv, RwSeen
<1>3. Writing = {} /\ Pending = {}
    BY <1>2, Fields, Zenon DEF RwInv
<1>4. \A u \in Tasks : pc[u] \notin {"uset", "writing", "rwake"}
    BY <1>3, SetsOf, Zenon DEF RwInv, RwWake, Writing, WritingAt, PendingAt
<1> QED  BY <1>1, <1>4, ReaderEnters, Zenon DEF ReadingAt, PendingAt, WritingAt, OwningAt

LEMMA ReadAddInv ==
    ASSUME RwInv, NEW t \in Tasks, ReadAdd(t)
    PROVE  RwInv'
<1>1. pc[t] = "radd" /\ Rmw(t, "radd", "runlock", Plus(state, READER))
    BY DEF ReadAdd, Rmw, Goto
<1>2. mutex = t
    BY <1>1, OwnersAre, Zenon DEF RwInv, OwningAt
<1>3. \A u \in Tasks : pc[u] \notin {"uset", "writing", "wenqueue", "asleep"}
    BY <1>1, <1>2, OwnersAre, Zenon DEF RwInv, OwningAt
<1>4. \A u \in Tasks : pc[u] \notin {"uset", "writing", "rwake"}
    BY <1>3, Zenon DEF RwInv, RwWake
<1> QED  BY <1>1, <1>2, <1>4, ReaderEnters, Zenon DEF ReadingAt, PendingAt, WritingAt

\* readUnlock(): the last reader sees the writer that has announced itself.
LEMMA ReadUnlockInv ==
    ASSUME RwInv, NEW t \in Tasks, readUnlock(t)
    PROVE  RwInv'
<1>1. PICK to \in {"rwake", "idle"} :
          /\ to = IF ReaderCount(state) = 1 /\ IsWriting(state) THEN "rwake" ELSE "idle"
          /\ Rmw(t, "reading", to, Minus(state, READER))
    BY DEF readUnlock
<1>2. /\ Goto(t, "reading", to) /\ state' = Minus(state, READER) /\ pc[t] = "reading"
      /\ seen' = seen /\ mutex' = mutex /\ mutex_queue' = mutex_queue /\ wait_queue' = wait_queue
    BY <1>1, Zenon DEF Rmw, Goto, mvars
<1>3. PICK w \in {0, 1}, p \in Counts, r \in Counts :
          /\ w = Bit(Writing) /\ p = Cardinality(Pending) /\ r = Cardinality(Reading)
          /\ state = Word(w, p, r) /\ ReaderCount(state) = r
    BY Fields, Zenon DEF RwInv
<1>4. /\ Pending' = Pending /\ Writing' = Writing
      /\ Cardinality(Reading') = r - 1 /\ r # 0 /\ (r = 1 => Reading' = {})
    BY <1>2, <1>3, Numbers, Zenon DEF RwInv, ReadingAt, PendingAt, WritingAt
<1>5. state' = Word(w, p, r - 1)
    BY <1>2, <1>3, <1>4, WordSteps
<1>6. RwWord'
    BY <1>3, <1>4, <1>5, Zenon DEF RwWord
<1>7. Reading' \subseteq Reading /\ t \in Reading
    BY <1>2, Moves, Zenon DEF RwInv, ReadingAt
<1>8. ASSUME to = "rwake"
      PROVE  /\ Reading' = {} /\ \E v \in Tasks : pc[v] \in {"wenqueue", "asleep"}
             /\ \A u \in Tasks : pc[u] # "rwake"
    <2>1. r = 1 /\ IsWriting(state)
        BY <1>1, <1>3, <1>8, Zenon
    <2>2. PICK v \in Tasks : pc[v] \in WritingAt
        BY <2>1, Fields, Zenon DEF RwInv, Writing
    <2>3. pc[v] # "writing"
        BY <1>7, Zenon DEF RwInv, RwAlone
    <2> QED  BY <1>4, <1>7, <2>1, <2>2, <2>3, Zenon DEF WritingAt, RwInv, RwWake
<1>9. to \in Pcs /\ mutex \in Tasks \cup {None} /\ mutex_queue \in Seq(Tasks) /\ to \notin OwningAt
    BY DEF Pcs, OwningAt, RwInv, RwTypes
<1> QED  BY <1>2, <1>6, <1>7, <1>8, <1>9, MoveInv, Zenon

\* wakeOne(), which may find the queue empty.
LEMMA WakeWriterInv ==
    ASSUME RwInv, NEW t \in Tasks, WakeWriter(t)
    PROVE  RwInv'
<1>1. /\ pc[t] = "rwake" /\ state' = state /\ mutex' = mutex /\ mutex_queue' = mutex_queue
      /\ seen' = seen
    BY Zenon DEF WakeWriter, Goto, mvars
<1>2. CASE wait_queue = <<>>
    <2>1. Goto(t, "rwake", "idle") /\ wait_queue' = wait_queue
        BY <1>2, Zenon DEF WakeWriter
    <2>2. Reading' = Reading /\ Pending' = Pending /\ Writing' = Writing
        BY <2>1, Numbers DEF RwInv, ReadingAt, PendingAt, WritingAt
    <2>3. RwWord'
        BY <1>1, <2>2, Zenon DEF RwInv, RwWord
    <2>4. "idle" \in Pcs \ OwningAt /\ mutex \in Tasks \cup {None} /\ mutex_queue \in Seq(Tasks)
        BY DEF Pcs, OwningAt, RwInv, RwTypes
    <2> QED  BY <1>1, <2>1, <2>2, <2>3, <2>4, MoveInv, Zenon
<1>3. CASE wait_queue # <<>>
    <2>1. PICK v \in Tasks : wait_queue = <<v>> /\ pc[v] = "asleep"
        BY <1>3 DEF RwInv, RwAsleep
    <2>2. pc' = [pc EXCEPT ![t] = "idle", ![v] = "writing"] /\ wait_queue' = <<>>
        BY <1>3, <2>1 DEF WakeWriter
    <2>3. /\ pc'[t] = "idle" /\ pc'[v] = "writing" /\ pc' \in [Tasks -> Pcs] /\ t # v
          /\ \A u \in Tasks : u # t /\ u # v => pc'[u] = pc[u]
        BY <1>1, <2>1, <2>2, Zenon DEF RwInv, RwTypes, Pcs
    <2>4. Reading' = Reading /\ Pending' = Pending
        BY <1>1, <2>1, <2>3, Zenon DEF Reading, Pending
    <2>5. Writing' = Writing
        BY <1>1, <2>1, <2>3, Zenon DEF Writing, WritingAt
    <2>6. RwTypes' /\ RwWord'
        BY <1>1, <2>3, <2>4, <2>5, Zenon DEF RwInv, RwTypes, RwWord
    <2>7. mutex = v
        BY <2>1, OwnersAre, Zenon DEF RwInv, OwningAt
    <2>8. \A u \in Tasks : u # v => pc[u] \notin {"wenqueue", "asleep", "writing"}
        BY <2>7, OwnersAre DEF RwInv, OwningAt
    <2>9. WritersSerialised'
        <3>1. \A u \in Tasks : u # v /\ u # t => (pc'[u] \in OwningAt => mutex = u)
            BY <2>3, OwnersAre, Zenon DEF RwInv
        <3>2. \A u \in Tasks : pc'[u] \in OwningAt => mutex' = u
            BY <1>1, <2>3, <2>7, <3>1, Zenon DEF OwningAt
        <3> QED  BY <3>2 DEF WritersSerialised, OwningAt
    <2>10. RwSeen'
        BY <1>1, <2>3, Zenon DEF RwInv, RwSeen, Open, ReaderCount
    <2>11. RwAlone'
        BY <1>1, <2>4, Zenon DEF RwInv, RwAlone, RwWake
    <2>12. RwAsleep'
        BY <2>2, <2>3, <2>8, Zenon DEF RwAsleep
    <2>13. RwWake'
        BY <1>1, <2>3, Zenon DEF RwInv, RwWake
    <2> QED  BY <2>6, <2>9, <2>10, <2>11, <2>12, <2>13, Zenon DEF RwInv
<1> QED  BY <1>2, <1>3, Zenon

\* A writer announces itself, in writeLock() or tryUpgradeLock().
LEMMA AnnounceInv ==
    ASSUME RwInv, NEW t \in Tasks, WriteAdd(t) \/ UpgradeAdd(t)
    PROVE  RwInv'
<1>1. PICK from \in {"idle", "reading"}, to \in {"wlock", "utry"} :
          /\ from = "idle" <=> to = "wlock"
          /\ Rmw(t, from, to, Plus(state, WRITER))
    BY DEF WriteAdd, UpgradeAdd
<1>2. Goto(t, from, to) /\ state' = Plus(state, WRITER)
    BY <1>1, Zenon DEF Rmw
<1>3. PICK w \in {0, 1}, p \in Counts, r \in Counts :
          /\ w = Bit(Writing) /\ p = Cardinality(Pending) /\ r = Cardinality(Reading)
          /\ state = Word(w, p, r)
    BY Fields, Zenon DEF RwInv
<1>4. /\ Reading' = Reading /\ Writing' = Writing
      /\ Cardinality(Pending') = p + 1 /\ p + 1 \in Counts
    BY <1>1, <1>2, <1>3, Numbers, Zenon DEF RwInv, ReadingAt, PendingAt, WritingAt
<1>5. RwWord'
    BY <1>2, <1>3, <1>4, WordSteps DEF RwWord
<1>6. to \in Pcs \ OwningAt
    BY DEF Pcs, OwningAt
<1> QED  BY <1>1, <1>4, <1>5, <1>6, RmwInv, Zenon

\* The owner of the mutex is the one who may set the writing bit.
LEMMA NobodyWrites ==
    ASSUME RwInv, NEW t \in Tasks, pc[t] \in OwningAt \ WritingAt
    PROVE  mutex = t /\ Writing = {}
<1>1. mutex = t
    BY OwnersAre DEF RwInv
<1>2. WritingAt \subseteq OwningAt
    BY Zenon DEF WritingAt, OwningAt
<1> QED  BY <1>1, <1>2, OwnersAre DEF RwInv, Writing

\* The pending writer that owns the mutex becomes the writer: the addition of
\* IS_WRITING - WRITER touches the other two fields as it should.
LEMMA BecomesInv ==
    ASSUME RwInv, NEW t \in Tasks, WriteSet(t) \/ UpgradeSet(t)
    PROVE  RwInv'
<1>1. PICK from \in {"wset", "uset"}, to \in {"wenqueue", "writing"} :
          /\ Rmw(t, from, to, BecomeWriting(state))
          /\ from = "wset" => to = IF ReaderCount(state) # 0 THEN "wenqueue" ELSE "writing"
          /\ from = "uset" => to = "writing"
    BY DEF WriteSet, UpgradeSet
<1>2. Goto(t, from, to) /\ state' = BecomeWriting(state) /\ pc[t] = from
    BY <1>1, Zenon DEF Rmw, Goto
<1>3. mutex = t /\ Writing = {}
    BY <1>2, NobodyWrites, Zenon DEF OwningAt, WritingAt
<1>4. PICK w \in {0, 1}, p \in Counts, r \in Counts :
          /\ w = Bit(Writing) /\ p = Cardinality(Pending) /\ r = Cardinality(Reading)
          /\ state = Word(w, p, r) /\ (ReaderCount(state) = 0 <=> Reading = {})
    BY Fields, Zenon DEF RwInv
<1>5. w = 0
    BY <1>3, <1>4, Zenon DEF Bit
<1>6. /\ Reading' = Reading
      /\ Cardinality(Pending') = p - 1 /\ p # 0
    BY <1>1, <1>2, <1>4, Numbers, Zenon DEF RwInv, ReadingAt, PendingAt, WritingAt
<1>7. Writing' = {t}
    BY <1>1, <1>2, <1>3, Moves, Zenon DEF RwInv, WritingAt
<1>8. state' = Word(1, p - 1, r)
    BY <1>2, <1>4, <1>5, <1>6, WordSteps, Zenon
<1>9. RwWord'
    BY <1>4, <1>6, <1>7, <1>8, Zenon DEF RwWord, Bit
<1>10. to = "writing" => Reading = {}
    BY <1>1, <1>2, <1>4, Zenon DEF RwInv, RwAlone
<1>11. to \in Pcs
    BY Zenon DEF Pcs
<1> QED  BY <1>1, <1>3, <1>6, <1>9, <1>10, <1>11, RmwInv, Zenon

\* tryWriteLock() sets the bit when the word is the one it saw without readers.
LEMMA TryWriteCasInv ==
    ASSUME RwInv, NEW t \in Tasks, TryWriteCas(t), state = seen[t]
    PROVE  RwInv'
<1>1. Rmw(t, "twcas", "writing", Plus(state, IS_WRITING))
    BY DEF TryWriteCas
<1>2. Goto(t, "twcas", "writing") /\ state' = Plus(state, IS_WRITING) /\ pc[t] = "twcas"
    BY <1>1, Zenon DEF Rmw, Goto
<1>3. mutex = t /\ Writing = {}
    BY <1>2, NobodyWrites, Zenon DEF OwningAt, WritingAt
<1>4. PICK w \in {0, 1}, p \in Counts, r \in Counts :
          /\ w = Bit(Writing) /\ p = Cardinality(Pending) /\ r = Cardinality(Reading)
          /\ state = Word(w, p, r) /\ (ReaderCount(state) = 0 <=> Reading = {})
    BY Fields, Zenon DEF RwInv
<1>5. w = 0 /\ Reading = {}
    BY <1>2, <1>3, <1>4, Zenon DEF Bit, RwInv, RwSeen
<1>6. Reading' = Reading /\ Pending' = Pending /\ Writing' = {t}
    <2> {"twcas", "writing"} \cap (ReadingAt \cup PendingAt) = {}
        BY DEF ReadingAt, PendingAt
    <2>1. Reading' = Reading /\ Pending' = Pending
        BY <1>2, Numbers DEF RwInv
    <2>2. Writing' = {t}
        BY <1>2, <1>3, Moves, Zenon DEF RwInv, WritingAt
    <2> QED  BY <2>1, <2>2, Zenon
<1>7. state' = Word(1, p, r)
    BY <1>2, <1>4, <1>5, WordSteps
<1>8. RwWord'
    BY <1>4, <1>6, <1>7, Zenon DEF RwWord, Bit
<1>9. "writing" \in Pcs
    BY DEF Pcs
<1>10. Reading' = {} /\ Reading' \subseteq Reading
    BY <1>5, <1>6, Zenon
<1>11. /\ "writing" \notin {"rcas", "trcas", "twcas", "rwake", "asleep"}
       /\ "twcas" \notin {"wenqueue", "asleep"}
    OBVIOUS
<1> QED  BY <1>1, <1>3, <1>8, <1>9, <1>10, <1>11, RmwInv, Zenon

LEMMA WriteClearInv ==
    ASSUME RwInv, NEW t \in Tasks, WriteClear(t)
    PROVE  RwInv'
<1>1. pc[t] = "writing"
    BY DEF WriteClear, Rmw, Goto
<1>2. mutex = t /\ Writing = {t}
    <2>1. mutex = t
        BY <1>1, OwnersAre DEF RwInv, OwningAt
    <2>2. WritingAt \subseteq OwningAt /\ "writing" \in WritingAt
        BY Zenon DEF WritingAt, OwningAt
    <2> QED  BY <1>1, <2>1, <2>2, OwnersAre, Zenon DEF RwInv, Writing
<1>3. PICK w \in {0, 1}, p \in Counts, r \in Counts :
          /\ w = Bit(Writing) /\ p = Cardinality(Pending) /\ r = Cardinality(Reading)
          /\ state = Word(w, p, r) /\ (IsWriting(state) <=> Writing # {})
    BY Fields, Zenon DEF RwInv
<1>4. w = 1 /\ IsWriting(state)
    BY <1>2, <1>3, Zenon DEF Bit
<1>5. Rmw(t, "writing", "wrelease", Minus(state, IS_WRITING))
    BY <1>4 DEF WriteClear
<1>6. Goto(t, "writing", "wrelease") /\ state' = Minus(state, IS_WRITING)
    BY <1>5, Zenon DEF Rmw
<1>7. Reading' = Reading /\ Pending' = Pending
    <2> {"writing", "wrelease"} \cap (ReadingAt \cup PendingAt) = {}
        BY DEF ReadingAt, PendingAt
    <2> QED  BY <1>6, Numbers DEF RwInv
<1>8. Writing' = {}
    BY <1>2, <1>6, Moves, Zenon DEF RwInv, WritingAt
<1>9. state' = Word(0, p, r)
    BY <1>3, <1>4, <1>6, WordSteps, Zenon
<1>10. RwWord'
    BY <1>3, <1>7, <1>8, <1>9 DEF RwWord, Bit
<1>11. "wrelease" \in Pcs
    BY DEF Pcs
<1> QED  BY <1>2, <1>5, <1>7, <1>10, <1>11, RmwInv

\* wait_queue.wait()
LEMMA WriteEnqueueInv ==
    ASSUME RwInv, NEW t \in Tasks, WriteEnqueue(t)
    PROVE  RwInv'
<1>1. /\ Goto(t, "wenqueue", "asleep") /\ wait_queue' = Append(wait_queue, t) /\ pc[t] = "wenqueue"
      /\ state' = state /\ mutex' = mutex /\ mutex_queue' = mutex_queue /\ seen' = seen
    BY DEF WriteEnqueue, Goto, mvars
<1>2. /\ pc'[t] = "asleep" /\ \A u \in Tasks : u # t => pc'[u] = pc[u]
      /\ pc' \in [Tasks -> Pcs]
    BY <1>1, Moves, Zenon DEF RwInv, RwTypes, Goto, Pcs
<1>3. Reading' = Reading /\ Pending' = Pending /\ Writing' = Writing
    BY <1>1, Numbers DEF RwInv, ReadingAt, PendingAt, WritingAt
<1>4. RwTypes' /\ RwWord'
    BY <1>1, <1>2, <1>3, Zenon DEF RwInv, RwTypes, RwWord
<1>5. mutex = t /\ \A u \in Tasks : u # t => pc[u] \notin OwningAt
    BY <1>1, OwnersAre, Zenon DEF RwInv, OwningAt
<1>6. WritersSerialised'
    <2>1. \A u \in Tasks : pc'[u] \in OwningAt => mutex' = u
        BY <1>1, <1>2, <1>5, Zenon
    <2> QED  BY <2>1, Zenon DEF WritersSerialised, OwningAt
<1>7. RwSeen'
    BY <1>1, <1>2, Zenon DEF RwInv, RwSeen, Open, ReaderCount
<1>8. RwAlone'
    BY <1>2, <1>3, Zenon DEF RwInv, RwAlone
<1>9. RwAsleep'
    <2>1. \A u \in Tasks : pc[u] # "asleep"
        BY <1>1, <1>5, Zenon DEF OwningAt
    <2>2. wait_queue = <<>>
        BY <2>1 DEF RwInv, RwAsleep
    <2>3. wait_queue' = <<t>>
        BY <1>1, <2>2
    <2> QED  BY <1>2, <2>3, Zenon DEF RwAsleep
<1>10. RwWake'
    BY <1>2, <1>3, Zenon DEF RwInv, RwWake
<1> QED  BY <1>4, <1>6, <1>7, <1>8, <1>9, <1>10 DEF RwInv

\* The rest of tryUpgradeLock().
LEMMA UpgradeInv ==
    ASSUME RwInv, NEW t \in Tasks, UpgradeSub(t) \/ UpgradeBack(t) \/ UpgradeDrop(t)
    PROVE  RwInv'
<1>1. PICK w \in {0, 1}, p \in Counts, r \in Counts :
          /\ w = Bit(Writing) /\ p = Cardinality(Pending) /\ r = Cardinality(Reading)
          /\ state = Word(w, p, r) /\ ReaderCount(state) = r
    BY Fields, Zenon DEF RwInv
<1>2. CASE UpgradeSub(t)
    <2>1. PICK to \in {"uset", "uback"} :
              /\ to = IF ReaderCount(state) = 1 THEN "uset" ELSE "uback"
              /\ Rmw(t, "usub", to, Minus(state, READER))
        BY <1>2, Zenon DEF UpgradeSub
    <2>2. Goto(t, "usub", to) /\ state' = Minus(state, READER) /\ pc[t] = "usub"
        BY <2>1, Zenon DEF Rmw, Goto
    <2>3. /\ Pending' = Pending /\ Writing' = Writing
          /\ Cardinality(Reading') = r - 1 /\ r # 0 /\ (r = 1 => Reading' = {})
        BY <1>1, <2>2, Numbers, Zenon DEF RwInv, ReadingAt, PendingAt, WritingAt
    <2>4. RwWord'
        <3>1. state' = Word(w, p, r - 1)
            BY <1>1, <2>2, <2>3, WordSteps
        <3> QED  BY <1>1, <2>3, <3>1 DEF RwWord
    <2>5. Reading' \subseteq Reading /\ mutex = t
        BY <2>2, Moves, OwnersAre, Zenon DEF RwInv, ReadingAt, OwningAt
    <2>6. to \in Pcs
        BY DEF Pcs
    <2> QED  BY <1>1, <2>1, <2>3, <2>4, <2>5, <2>6, RmwInv
<1>3. CASE UpgradeBack(t)
    <2>1. Rmw(t, "uback", "twunlock", Minus(state, WRITER))
        BY <1>3, Zenon DEF UpgradeBack
    <2>2. Goto(t, "uback", "twunlock") /\ state' = Minus(state, WRITER) /\ pc[t] = "uback"
        BY <2>1, Zenon DEF Rmw, Goto
    <2>3. /\ Reading' = Reading /\ Writing' = Writing
          /\ Cardinality(Pending') = p - 1 /\ p # 0
        <3> /\ "uback" \in PendingAt \ (ReadingAt \cup WritingAt)
            /\ "twunlock" \notin PendingAt \cup ReadingAt \cup WritingAt
            BY DEF ReadingAt, PendingAt, WritingAt
        <3> QED  BY <1>1, <2>2, Numbers DEF RwInv
    <2>4. RwWord'
        <3>1. state' = Word(w, p - 1, r)
            BY <1>1, <2>2, <2>3, WordSteps
        <3> QED  BY <1>1, <2>3, <3>1 DEF RwWord
    <2>5. mutex = t
        BY <2>2, OwnersAre, Zenon DEF RwInv, OwningAt
    <2>6. "twunlock" \in Pcs
        BY Zenon DEF Pcs
    <2> QED  BY <2>1, <2>3, <2>4, <2>5, <2>6, RmwInv
<1>4. CASE UpgradeDrop(t)
    <2>1. Rmw(t, "udrop", "idle", Minus(state, READER + WRITER))
        BY <1>4, Zenon DEF UpgradeDrop
    <2>2. Goto(t, "udrop", "idle") /\ state' = Minus(state, READER + WRITER)
        BY <2>1, Zenon DEF Rmw
    <2>3. /\ Writing' = Writing
          /\ Cardinality(Pending') = p - 1 /\ p # 0
          /\ Cardinality(Reading') = r - 1 /\ r # 0
        <3> /\ "udrop" \in (PendingAt \cap ReadingAt) \ WritingAt
            /\ "idle" \notin PendingAt \cup ReadingAt \cup WritingAt
            BY DEF ReadingAt, PendingAt, WritingAt
        <3> QED  BY <1>1, <2>2, Numbers DEF RwInv
    <2>4. RwWord'
        <3>1. state' = Word(w, p - 1, r - 1)
            BY <1>1, <2>2, <2>3, WordSteps
        <3> QED  BY <1>1, <2>3, <3>1 DEF RwWord
    <2>5. Reading' \subseteq Reading
        BY <2>2, Moves, Zenon DEF RwInv, ReadingAt
    <2>6. "idle" \in Pcs \ OwningAt
        BY Zenon DEF Pcs, OwningAt
    <2> QED  BY <2>1, <2>4, <2>5, <2>6, RmwInv
<1> QED  BY <1>2, <1>3, <1>4, Zenon

\* The invariant of RwLock.zig: the word counts exactly the tasks that hold or
\* await the lock, the writing bit belongs to the owner of the mutex, and a
\* wake-up can only reach the writer that the last reader saw.
THEOREM RwInvHolds == Spec => []RwInv
<1>1. Init => RwInv
    <2> SUFFICES ASSUME Init PROVE RwInv
        OBVIOUS
    <2>1. pc = [t \in Tasks |-> "idle"] /\ state = 0
        BY DEF Init
    <2>2. Reading = {} /\ Pending = {} /\ Writing = {}
        BY <2>1, Zenon DEF Reading, Pending, Writing, WritingAt
    <2>3. RwWord
        BY <2>1, <2>2, Constants, FS_EmptySet DEF RwWord, Word, Bit
    <2>4. RwTypes
        <3>1. 0 \in 0..(WordSize - 1)
            BY <2>3, Fields, <2>1, Zenon
        <3> QED  BY <2>1, <3>1 DEF Init, RwTypes, Pcs
    <2> QED
        BY <2>1, <2>2, <2>3, <2>4, Zenon
        DEF Init, RwInv, WritersSerialised, RwSeen, RwAlone, RwAsleep, RwWake
<1>2. RwInv /\ [Next]_vars => RwInv'
    <2> SUFFICES ASSUME RwInv, [Next]_vars PROVE RwInv'
        OBVIOUS
    <2>1. CASE UNCHANGED vars
        BY <2>1, Zenon
        DEF vars, RwInv, RwTypes, RwWord, WritersSerialised, RwSeen, RwAlone, RwAsleep, RwWake,
            Reading, Pending, Writing
    <2>2. ASSUME NEW t \in Tasks, Start(t) \/ Step(t) PROVE RwInv'
        BY Zenon, <2>2, LoadInv, MutexInv, ReadCasInv, ReadAddInv, ReadUnlockInv, WakeWriterInv,
           AnnounceInv, BecomesInv, TryWriteCasInv, WriteClearInv, WriteEnqueueInv, UpgradeInv
        DEF Start, Step
    <2> QED  BY <2>1, <2>2, Zenon DEF Next
<1> QED  BY <1>1, <1>2, PTL DEF Spec

\* RwLock.zig, for any number of tasks and any width of its counters: a writer is
\* alone, whichever way it got the lock; the packed word says exactly who reads,
\* writes and waits; and the mutex is owned wherever the code relies on it.
THEOREM WritersAreAlone == Spec => []WritersExclude
<1>1. RwInv => WritersExclude
    <2> SUFFICES ASSUME RwInv PROVE WritersExclude
        OBVIOUS
    <2>1. WriterIsAlone
        BY OwnersAre DEF RwInv, RwAlone, WriterIsAlone, OwningAt
    <2>2. Len(wait_queue) <= 1 /\ wait_queue \in Seq(Tasks)
        <3>1. CASE wait_queue = <<>>
            BY <3>1
        <3>2. ASSUME NEW w \in Tasks, wait_queue = <<w>>
              PROVE  Len(wait_queue) <= 1 /\ wait_queue \in Seq(Tasks)
            BY <3>2
        <3> QED  BY <3>1, <3>2 DEF RwInv, RwAsleep
    <2>3. WordIsExact
        BY <2>2, Fields DEF RwInv, RwTypes, WordIsExact, TypeOK, Writing, WritingAt
    <2> QED  BY <2>1, <2>3 DEF RwInv, WritersExclude
<1> QED  BY <1>1, RwInvHolds, PTL

============================================================================
