--------------------------- MODULE CapabilityTable ---------------------------
(***************************************************************************)
(* Capability tables (capabilities/CapabilityTable.zig) and the system     *)
(* calls on them (user/handlers/capabilities.zig).  A process has a table  *)
(* of slots behind a spinlock; a slot names an object, rights and the      *)
(* generation the object had when the slot was filled.  Revoking an object *)
(* advances its generation.  Generations and reference counts belong to    *)
(* the objects and are read and changed under whichever table's lock the   *)
(* caller has, so two tables can touch one object at the same time.        *)
(***************************************************************************)
EXTENDS Optional, Naturals, FiniteSets

CONSTANTS
    Processes,      \* numbered by the address of their tables
    Threads,
    ProcessOf,      \* the process of each thread
    Objects, Rights,
    SlotCount,      \* slots of a table
    MessageCaps,    \* handles in a message
    MaxGeneration,  \* bound on the revocations of one object
    Calls           \* the calls that threads make

ASSUME TableAssumption ==
    /\ Processes \subseteq Nat /\ ProcessOf \in [Threads -> Processes]
    /\ SlotCount \in Nat \ {0} /\ MessageCaps \in Nat /\ MaxGeneration \in Nat
    /\ {"grant", "revoke"} \subseteq Rights /\ None \notin Objects \cup Threads
    /\ IsFiniteSet(Processes) /\ IsFiniteSet(Threads)

VARIABLES
    slots, free_head,   \* of each table
    lock,               \* the thread that holds a table's lock
    refs, generation,   \* of each object
    call,               \* what a thread is doing
    raced               \* objects revoked while a call held their slot's contents

tables == <<slots, free_head>>
vars == <<tables, lock, refs, generation, call, raced>>

----------------------------------------------------------------------------

Handles == 0..(SlotCount - 1)
NullSlot == SlotCount

\* A slot that names no object is a link of the free list.
Free(next) == [obj |-> None, rights |-> {}, gen |-> 0, next |-> next]

Slot == [obj : Objects \cup {None}, rights : SUBSET Rights, gen : 0..MaxGeneration, next : Handles \cup {NullSlot}]

\* A call: its kind and progress, the tables it works on, the handle a move
\* removes, the object it holds "held" references to with the rights it will
\* store, and how many handles of a message are still to be transferred.
NoCall == [kind |-> "none", at |-> "idle", src |-> 0, dst |-> 0, handle |-> 0,
           obj |-> None, rights |-> {}, held |-> 0, left |-> 0]

Kinds == {"none", "create", "use", "clone", "copy", "move", "transfer"}
Ats == {"idle", "relock", "second", "item", "insert", "drop"}
Places == Processes \cup {0}

Call == [kind : Kinds, at : Ats,
         src : Places, dst : Places, handle : Handles,
         obj : Objects \cup {None}, rights : SUBSET Rights, held : 0..2, left : 0..MessageCaps]

\* Tables, counters and calls have their types.
TypeOK ==
    /\ slots \in [Processes -> [Handles -> Slot]]
    /\ free_head \in [Processes -> Handles \cup {NullSlot}]
    /\ lock \in [Processes -> Threads \cup {None}]
    /\ refs \in [Objects -> Nat]
    /\ generation \in [Objects -> 0..MaxGeneration]
    /\ call \in [Threads -> Call]
    /\ raced \subseteq Objects

Init ==
    /\ slots = [p \in Processes |-> [i \in Handles |-> Free(i + 1)]]
    /\ free_head = [p \in Processes |-> 0]
    /\ lock = [p \in Processes |-> None]
    /\ refs = [o \in Objects |-> 0]
    /\ generation = [o \in Objects |-> 0]
    /\ call = [t \in Threads |-> NoCall]
    /\ raced = {}

----------------------------------------------------------------------------
(* The table operations.  insertLocked() is Insert or, when the table is      *)
(* full, an error; getAndRefLocked() finds what Valid admits.                 *)

Used(p, i) == i \in Handles /\ slots[p][i].obj # None

\* Mutant: a lookup does not compare generations.
ValidForever(p, i) == Used(p, i)

Valid(p, i) == Used(p, i) /\ slots[p][i].gen = generation[slots[p][i].obj]

Full(p) == free_head[p] = NullSlot

\* Mutant: the new slot keeps the link that was in it.
InsertNoPop(p, o, rights) ==
    /\ slots' = [slots EXCEPT ![p][free_head[p]] =
          [obj |-> o, rights |-> rights, gen |-> generation[o], next |-> NullSlot]]
    /\ UNCHANGED free_head

Insert(p, o, rights) ==
    /\ free_head' = [free_head EXCEPT ![p] = slots[p][free_head[p]].next]
    /\ slots' = [slots EXCEPT ![p][free_head[p]] =
          [obj |-> o, rights |-> rights, gen |-> generation[o], next |-> NullSlot]]

RemoveLocked(p, i) ==
    /\ slots' = [slots EXCEPT ![p][i] = Free(free_head[p])]
    /\ free_head' = [free_head EXCEPT ![p] = i]

\* Insert, then RemoveLocked(p, i): slot i becomes the head of the free list.
MoveSlot(p, i, o, rights) ==
    /\ slots' = [slots EXCEPT ![p][free_head[p]] =
                     [obj |-> o, rights |-> rights, gen |-> generation[o], next |-> NullSlot],
                 ![p][i] = Free(slots[p][free_head[p]].next)]
    /\ free_head' = [free_head EXCEPT ![p] = i]

Ref(o, n) == refs' = [refs EXCEPT ![o] = @ + n]
Unref(o, n) == refs' = [refs EXCEPT ![o] = @ - n]

\* What a call knows from now on.
Begin(t, c) == call' = [call EXCEPT ![t] = c]

Unlocked(t) == [p \in Processes |-> IF lock[p] = t THEN None ELSE lock[p]]

----------------------------------------------------------------------------
(* A critical section of a table is one step, except that it is cut between   *)
(* the lookup and the insertion of a slot: each reads the object's            *)
(* generation, which a holder of another table's lock may advance.  Calls     *)
(* that fail before they change anything are not steps.                       *)

\* cap_create: a new object, for which a slot with all rights follows.
Create(t) ==
    /\ "create" \in Calls /\ call[t] = NoCall
    /\ \E o \in Objects :
          /\ refs[o] = 0
          /\ Ref(o, 1)
          /\ generation' = [generation EXCEPT ![o] = 0]
          /\ raced' = raced \ {o}
          /\ Begin(t, [NoCall EXCEPT !.kind = "create", !.at = "relock", !.dst = ProcessOf[t],
                         !.obj = o, !.rights = Rights, !.held = 1])
    /\ UNCHANGED <<tables, lock>>

\* cap_invoke looks the slot up under the lock, takes a reference and works on
\* the object without the lock.
Invoke(t) ==
    /\ "use" \in Calls /\ call[t] = NoCall
    /\ \E i \in Handles :
          LET s == slots[ProcessOf[t]][i] IN
          /\ lock[ProcessOf[t]] = None /\ Valid(ProcessOf[t], i)
          /\ Ref(s.obj, 1)
          /\ Begin(t, [NoCall EXCEPT !.kind = "use", !.at = "drop", !.obj = s.obj, !.held = 1])
    /\ UNCHANGED <<tables, lock, generation, raced>>

\* A frame's clone is an invocation that takes a second reference, for a slot
\* with the rights of the first, and locks the table again to insert it.
Clone(t) ==
    /\ "clone" \in Calls /\ call[t] = NoCall
    /\ \E i \in Handles :
          LET p == ProcessOf[t] IN
          LET s == slots[p][i] IN
          /\ lock[p] = None /\ Valid(p, i) /\ "grant" \in s.rights
          /\ Ref(s.obj, 2)
          /\ Begin(t, [NoCall EXCEPT !.kind = "clone", !.at = "relock", !.dst = p,
                         !.obj = s.obj, !.rights = s.rights, !.held = 2])
    /\ UNCHANGED <<tables, lock, generation, raced>>

\* The end of an invocation: its reference goes.
Drop(t) ==
    /\ call[t].at = "drop"
    /\ Unref(call[t].obj, call[t].held)
    /\ call' = [call EXCEPT ![t] = NoCall]
    /\ UNCHANGED <<tables, lock, generation, raced>>

----------------------------------------------------------------------------
(* cap_copy, cap_move, and the transfer of the capabilities of a message *)

\* Mutant: the rights asked for are not compared with the slot's.
CopyAny(t) ==
    /\ "copy" \in Calls /\ call[t] = NoCall
    /\ \E i \in Handles, rights \in SUBSET Rights :
          LET p == ProcessOf[t] IN
          /\ lock[p] = None /\ Valid(p, i)
          /\ lock' = [lock EXCEPT ![p] = t]
          /\ Ref(slots[p][i].obj, 1)
          /\ Begin(t, [NoCall EXCEPT !.kind = "copy", !.at = "insert", !.dst = p,
                         !.obj = slots[p][i].obj, !.rights = rights, !.held = 1])
    /\ UNCHANGED <<tables, generation, raced>>

Copy(t) ==
    /\ "copy" \in Calls /\ call[t] = NoCall
    /\ \E i \in Handles, rights \in SUBSET Rights :
          LET p == ProcessOf[t] IN
          /\ lock[p] = None /\ Valid(p, i) /\ rights \subseteq slots[p][i].rights
          /\ lock' = [lock EXCEPT ![p] = t]
          /\ Ref(slots[p][i].obj, 1)
          /\ Begin(t, [NoCall EXCEPT !.kind = "copy", !.at = "insert", !.dst = p,
                         !.obj = slots[p][i].obj, !.rights = rights, !.held = 1])
    /\ UNCHANGED <<tables, generation, raced>>

Move(t) ==
    /\ "move" \in Calls /\ call[t] = NoCall
    /\ \E i \in Handles :
          LET p == ProcessOf[t] IN
          LET s == slots[p][i] IN
          /\ lock[p] = None /\ Valid(p, i)
          /\ lock' = [lock EXCEPT ![p] = t]
          /\ Ref(s.obj, 1)
          /\ Begin(t, [NoCall EXCEPT !.kind = "move", !.at = "insert", !.src = p, !.dst = p, !.handle = i,
                         !.obj = s.obj, !.rights = s.rights, !.held = 1])
    /\ UNCHANGED <<tables, generation, raced>>

\* Mutant: the sender's table is always locked first.
SourceFirst(src, dst) == <<src, dst>>

\* transferCaps() locks the table at the lower address first.
LockOrder(src, dst) == IF src < dst THEN <<src, dst>> ELSE <<dst, src>>

\* The sender or the receiver of the message runs it.
TransferLock(t) ==
    /\ "transfer" \in Calls /\ call[t] = NoCall
    /\ \E src, dst \in Processes :
          LET first == LockOrder(src, dst)[1] IN
          /\ ProcessOf[t] \in {src, dst}
          /\ lock[first] = None /\ lock' = [lock EXCEPT ![first] = t]
          /\ Begin(t, [NoCall EXCEPT !.kind = "transfer", !.at = IF src = dst THEN "item" ELSE "second",
                         !.src = src, !.dst = dst, !.left = MessageCaps])
    /\ UNCHANGED <<tables, refs, generation, raced>>

TransferSecond(t) ==
    /\ call[t].at = "second"
    /\ LET second == LockOrder(call[t].src, call[t].dst)[2] IN
          lock[second] = None /\ lock' = [lock EXCEPT ![second] = t]
    /\ call' = [call EXCEPT ![t].at = "item"]
    /\ UNCHANGED <<tables, refs, generation, raced>>

\* One handle of the message.  A slot must be valid and have grant.  Handle 0
\* means "no capability", so slot 0 is never transferred.
TransferItem(t) ==
    LET c == call[t] IN
    /\ c.at = "item" /\ c.left > 0
    /\ \E i \in Handles \ {0} :
          LET s == slots[c.src][i] IN
          /\ Valid(c.src, i) /\ "grant" \in s.rights
          /\ Ref(s.obj, 1)
          /\ call' = [call EXCEPT ![t] = [c EXCEPT !.at = "insert", !.left = @ - 1,
                          !.obj = s.obj, !.rights = s.rights, !.held = 1]]
    /\ UNCHANGED <<tables, lock, generation, raced>>

\* The other handles are empty or refused: release both locks.
TransferEnd(t) ==
    /\ call[t].at = "item"
    /\ lock' = Unlocked(t)
    /\ call' = [call EXCEPT ![t] = NoCall]
    /\ UNCHANGED <<tables, refs, generation, raced>>

\* The destination is locked, or can be.
MayInsert(c) == c.at = "insert" \/ (c.at = "relock" /\ lock[c.dst] = None)

\* After the insertion: a transfer goes on to the next handle with its locks,
\* an invocation has its own reference to drop, other calls return.
AfterInsert(t) ==
    LET c == call[t] IN
    /\ call' = [call EXCEPT ![t] =
          IF c.kind = "transfer" THEN [c EXCEPT !.at = "item", !.obj = None, !.rights = {}, !.held = 0]
          ELSE IF c.kind = "clone" THEN [NoCall EXCEPT !.kind = "use", !.at = "drop", !.obj = c.obj, !.held = 1]
          ELSE NoCall]
    /\ lock' = IF c.kind = "transfer" THEN lock ELSE Unlocked(t)

\* insertLocked() has a free slot: the slot gets the call's reference and the
\* generation of this moment.  A move then removes the original slot.
InsertHeld(t) ==
    LET c == call[t] IN
    /\ MayInsert(c)
    /\ ~Full(c.dst)
    /\ IF c.kind = "move" THEN MoveSlot(c.dst, c.handle, c.obj, c.rights) /\ Unref(c.obj, 1)
                          ELSE Insert(c.dst, c.obj, c.rights) /\ UNCHANGED refs
    /\ AfterInsert(t)
    /\ UNCHANGED <<generation, raced>>

\* Mutant: the reference for the slot is not returned.
InsertFullLeaks(t) ==
    LET c == call[t] IN
    /\ MayInsert(c)
    /\ Full(c.dst)
    /\ AfterInsert(t)
    /\ UNCHANGED <<tables, refs, generation, raced>>

\* insertLocked() finds the table full: the reference is dropped.
InsertFull(t) ==
    LET c == call[t] IN
    /\ MayInsert(c)
    /\ Full(c.dst)
    /\ Unref(c.obj, 1)
    /\ AfterInsert(t)
    /\ UNCHANGED <<tables, generation, raced>>

----------------------------------------------------------------------------
(* cap_delete, cap_revoke and the end of a process: under one lock *)

Delete(t) ==
    /\ "delete" \in Calls /\ call[t] = NoCall
    /\ \E i \in Handles :
          LET p == ProcessOf[t] IN
          /\ lock[p] = None /\ Used(p, i)
          /\ RemoveLocked(p, i) /\ Unref(slots[p][i].obj, 1)
    /\ UNCHANGED <<lock, generation, call, raced>>

\* The calls that hold a copy of a slot for the object and will insert it.
InFlight(o) == {t \in Threads : call[t].obj = o /\ call[t].at \in {"relock", "insert"}}

\* revokeLocked() looks at the slot's right, not at its generation.
Revoke(t) ==
    /\ "revoke" \in Calls /\ call[t] = NoCall
    /\ \E i \in Handles :
          LET p == ProcessOf[t] IN
          LET o == slots[p][i].obj IN
          /\ lock[p] = None /\ Used(p, i) /\ "revoke" \in slots[p][i].rights
          /\ generation[o] < MaxGeneration
          /\ generation' = [generation EXCEPT ![o] = @ + 1]
          /\ raced' = IF InFlight(o) # {} THEN raced \cup {o} ELSE raced
    /\ UNCHANGED <<tables, lock, refs, call>>

\* deinitAll(), when the last thread of the process has gone.
SlotsNaming(p, o) == {i \in Handles : slots[p][i].obj = o}

Chained(p) ==
    \* the free list after every used slot was pushed, lowest first
    LET used == {i \in Handles : Used(p, i)} IN
    [i \in Handles |->
        IF i \notin used THEN slots[p][i]
        ELSE LET below == {j \in used : j < i} IN
             Free(IF below = {} THEN free_head[p] ELSE CHOOSE j \in below : \A k \in below : k <= j)]

Exit(p) ==
    /\ "exit" \in Calls
    /\ lock[p] = None
    /\ \A t \in Threads : ProcessOf[t] = p => call[t] = NoCall
    /\ \E i \in Handles :
          /\ Used(p, i)
          /\ \A j \in Handles : Used(p, j) => j <= i
          /\ free_head' = [free_head EXCEPT ![p] = i]
    /\ slots' = [slots EXCEPT ![p] = Chained(p)]
    /\ refs' = [o \in Objects |-> refs[o] - Cardinality(SlotsNaming(p, o))]
    /\ UNCHANGED <<lock, generation, call, raced>>

----------------------------------------------------------------------------

ThreadStep(t) ==
    \/ Create(t) \/ Invoke(t) \/ Clone(t) \/ Drop(t) \/ Copy(t) \/ Move(t)
    \/ TransferLock(t) \/ TransferSecond(t) \/ TransferItem(t) \/ TransferEnd(t)
    \/ InsertHeld(t) \/ InsertFull(t)
    \/ Delete(t) \/ Revoke(t)

Next == (\E t \in Threads : ThreadStep(t)) \/ (\E p \in Processes : Exit(p))

Spec == Init /\ [][Next]_vars

----------------------------------------------------------------------------
(* Properties *)

\* An object's count is the number of slots that name it, stale ones included,
\* and of references that calls hold: it is freed when the last of them goes,
\* on every error path too, and no slot or call is left with a freed object.
RefsExact ==
    /\ TypeOK
    /\ \A o \in Objects :
        LET naming == {x \in Processes \X Handles : slots[x[1]][x[2]].obj = o}
            held == {x \in Threads \X {1, 2} : call[x[1]].obj = o /\ x[2] <= call[x[1]].held}
        IN  refs[o] = Cardinality(naming) + Cardinality(held)

\* The free list is what it should be: following it from its head visits every
\* unused slot once, and nothing else.
FreeListExact ==
    \A p \in Processes :
        LET unused == {i \in Handles : ~Used(p, i)}
            link[n \in 0..SlotCount] ==
                IF n = 0 THEN free_head[p]
                ELSE IF link[n - 1] = NullSlot THEN NullSlot ELSE slots[p][link[n - 1]].next
        IN  /\ {link[n] : n \in 0..SlotCount} \ {NullSlot} = unused
            /\ link[Cardinality(unused)] = NullSlot

\* Tables, reference counts and free lists agree: an object has as many
\* references as there are slots and calls that name it, and a slot is used or
\* free, once.
TablesExact == RefsExact /\ FreeListExact

\* Two threads never wait for each other's table.
NoLockCycle ==
    \A t, u \in Threads :
        LET wants(x) == LockOrder(call[x].src, call[x].dst)[2] IN
        call[t].at = "second" /\ call[u].at = "second" /\ t # u =>
            ~(lock[wants(t)] = u /\ lock[wants(u)] = t)

\* Authority only comes from creating an object or from a slot with grant: a
\* step that gives a process rights to an object that none of its slots has
\* together ends a creation, or a clone or transfer of a slot with grant.
Has(p, o) == {slots[p][i].rights : i \in SlotsNaming(p, o)}

NoAmplification ==
    [][\A p \in Processes, o \in Objects, i \in Handles :
          slots'[p][i].obj = o /\ slots'[p][i] # slots[p][i]
             /\ ~(\E r \in Has(p, o) : slots'[p][i].rights \subseteq r) =>
          \E t \in Threads :
             /\ call[t].at \in {"insert", "relock"} /\ call[t].obj = o /\ call[t].dst = p
             /\ \/ call[t].kind = "create"
                \/ call[t].kind \in {"clone", "transfer"} /\ "grant" \in call[t].rights]_vars

\* "every slot in every table that points to the same object ... will fail"
\* (CapabilityTable.zig:150): a revoked object has no valid slot.
RevocationIsTotal ==
    \A o \in Objects, p \in Processes, i \in Handles :
        Valid(p, i) /\ slots[p][i].obj = o => generation[o] = 0

\* The same for objects of which no call held a slot's contents while they
\* were revoked: once revoked, never valid again, whoever copies or transfers.
RevocationIsFinal ==
    \A o \in Objects \ raced, p \in Processes, i \in Handles :
        slots[p][i].obj = o /\ slots[p][i].gen = generation[o] => generation[o] = 0

=============================================================================
