----------------------- MODULE CapabilityTableProofs -----------------------
(***************************************************************************)
(* Transfers of capabilities do not deadlock on the tables' locks; no call *)
(* makes authority that its process was not given; reference counts and free *)
(* lists are exact; and a revoked object stays revoked: for any number of  *)
(* processes, threads, slots and objects.  The library's theorems on finite *)
(* sets and functions are instantiated where they are first needed: every  *)
(* proof after that carries them.                                          *)
(***************************************************************************)
EXTENDS CapabilityTable, Integers, TLAPS

\* What the slots give to the calls.
SlotsTyped ==
    /\ slots = [p \in Processes |-> [i \in Handles |-> slots[p][i]]]
    /\ \A p \in Processes, i \in Handles :
          slots[p][i].obj \in Objects \cup {None} /\ slots[p][i].rights \in SUBSET Rights

\* A call names the tables it works on.
Placed(c) ==
    /\ c.kind = "transfer" => c.src \in Processes /\ c.dst \in Processes
    /\ c.at \in {"second", "item"} => c.kind = "transfer"
    /\ c.at \in {"relock", "insert"} => c.dst \in Processes

\* Who holds which lock: a call that has not locked or has unlocked holds
\* none, and a transfer that waits for its second lock holds the first only.
LocksSuit(t, c, l) ==
    /\ Placed(c)
    /\ c.at \in {"idle", "relock", "drop"} => \A p \in Processes : l[p] # t
    /\ c.at = "second" => c.src # c.dst /\ \A p \in Processes : l[p] = t => p = LockOrder(c.src, c.dst)[1]

LocksHeld == \A t \in Threads : LocksSuit(t, call[t], lock)

LockInv ==
    /\ lock \in [Processes -> Threads \cup {None}]
    /\ call \in [Threads -> Call]
    /\ SlotsTyped
    /\ LocksHeld

----------------------------------------------------------------------------

\* The lock a transfer takes second is at a higher address than its first.
LEMMA LockOrderAscends ==
    ASSUME NEW p \in Processes, NEW q \in Processes, p # q
    PROVE  /\ LockOrder(p, q)[1] \in Processes /\ LockOrder(p, q)[2] \in Processes
           /\ LockOrder(p, q)[1] < LockOrder(p, q)[2]
BY TableAssumption DEF LockOrder

\* The record of a call that does nothing has the type of a call.
LEMMA NoCallTyped == NoCall \in Call
BY TableAssumption DEF NoCall, Call, Handles, Kinds, Ats, Places

\* The updates of a call that the actions make keep its type.
LEMMA CallAt ==
    ASSUME NEW c \in Call, NEW a \in Ats
    PROVE  [c EXCEPT !.at = a] \in Call
BY Zenon DEF Call

LEMMA CallLetsGo ==
    ASSUME NEW c \in Call, NEW a \in Ats, NEW o \in Objects \cup {None}, NEW r \in SUBSET
           Rights, NEW h \in 0..2
    PROVE  [c EXCEPT !.at = a, !.obj = o, !.rights = r, !.held = h] \in Call
BY Zenon DEF Call

LEMMA CallTakes ==
    ASSUME NEW c \in Call, NEW a \in Ats, NEW l \in 0..MessageCaps, NEW o \in Objects \cup
           {None}, NEW r \in SUBSET Rights, NEW h \in 0..2
    PROVE  [c EXCEPT !.at = a, !.left = l, !.obj = o, !.rights = r, !.held = h] \in Call
BY Zenon DEF Call

LEMMA CallUses ==
    ASSUME NEW c \in Call, NEW k \in Kinds, NEW a \in Ats, NEW o \in Objects \cup {None}, NEW h
           \in 0..2
    PROVE  [c EXCEPT !.kind = k, !.at = a, !.obj = o, !.held = h] \in Call
BY Zenon DEF Call

LEMMA CallInserts ==
    ASSUME NEW c \in Call, NEW k \in Kinds, NEW a \in Ats, NEW q \in Places, NEW o \in Objects
           \cup {None}, NEW r \in SUBSET Rights, NEW h \in 0..2
    PROVE  [c EXCEPT !.kind = k, !.at = a, !.dst = q, !.obj = o, !.rights = r, !.held = h] \in
               Call
BY Zenon DEF Call

LEMMA CallMoves ==
    ASSUME NEW c \in Call, NEW p \in Places, NEW i \in Handles,
           NEW o \in Objects \cup {None}, NEW r \in SUBSET Rights
    PROVE  [c EXCEPT !.kind = "move", !.at = "insert", !.src = p, !.dst = p, !.handle = i,
               !.obj = o, !.rights = r, !.held = 1] \in Call
<1>1. "move" \in Kinds /\ "insert" \in Ats /\ 1 \in 0..2
    BY DEF Kinds, Ats
<1> QED
    BY <1>1, Zenon DEF Call

LEMMA CallTransfers ==
    ASSUME NEW c \in Call, NEW k \in Kinds, NEW a \in Ats, NEW p \in Places, NEW q \in Places,
           NEW l \in 0..MessageCaps
    PROVE  [c EXCEPT !.kind = k, !.at = a, !.src = p, !.dst = q, !.left = l] \in Call
BY Zenon DEF Call

\* A free slot and a slot that Insert fills have what SlotsTyped asks.
LEMMA SlotRecords ==
    /\ \A n : Free(n).obj = None /\ Free(n).rights = {}
    /\ \A o, r, g, n : LET s == [obj |-> o, rights |-> r, gen |-> g, next |-> n] IN s.obj = o /\ s.rights = r
BY Zenon DEF Free

LEMMA InitLockInv == Init => LockInv
<1> SUFFICES ASSUME Init PROVE LockInv
    BY Zenon
<1>1. call \in [Threads -> Call]
    BY NoCallTyped, Zenon DEF Init
<1>2. SlotsTyped
    BY SlotRecords, Zenon DEF Init, SlotsTyped
<1>3. LocksHeld
    BY TableAssumption, Zenon DEF Init, LocksHeld, LocksSuit, Placed, NoCall
<1> QED
    BY <1>1, <1>2, <1>3, Zenon DEF Init, LockInv

\* Filling a slot from a call, emptying one or doing both for a move keeps
\* SlotsTyped.
LEMMA InsertTyped ==
    ASSUME SlotsTyped, NEW p \in Processes, NEW o \in Objects \cup {None}, NEW r \in SUBSET Rights, Insert(p, o, r)
    PROVE  SlotsTyped'
BY ZenonT(60) DEF SlotsTyped, Insert

LEMMA MoveTyped ==
    ASSUME SlotsTyped, NEW p \in Processes, NEW i, NEW o \in Objects \cup {None}, NEW r \in SUBSET Rights,
           MoveSlot(p, i, o, r)
    PROVE  SlotsTyped'
<1> DEFINE filled == [obj |-> o, rights |-> r, gen |-> generation[o], next |-> NullSlot]
<1> DEFINE emptied == Free(slots[p][free_head[p]].next)
<1>1. /\ filled.obj = o /\ filled.rights = r
      /\ emptied.obj = None /\ emptied.rights = {}
    BY SlotRecords, Zenon
<1> HIDE DEF filled, emptied
<1> DEFINE row == [slots[p] EXCEPT ![free_head[p]] = filled, ![i] = emptied]
<1>2. slots' = [slots EXCEPT ![p] = row]
    BY Zenon DEF SlotsTyped, MoveSlot, filled, emptied
<1>3. slots[p] = [j \in Handles |-> slots[p][j]]
    BY Zenon DEF SlotsTyped
<1>4. /\ row = [j \in Handles |-> row[j]]
      /\ \A j \in Handles : row[j] \in {slots[p][j], filled, emptied}
    BY <1>3, Zenon
<1> HIDE DEF row
<1>5. /\ slots' = [q \in Processes |-> slots'[q]]
      /\ \A q \in Processes : slots'[q] = IF q = p THEN row ELSE slots[q]
    BY <1>2, Zenon DEF SlotsTyped
<1>6. ASSUME NEW q \in Processes
      PROVE  slots'[q] = [j \in Handles |-> slots'[q][j]]
    BY <1>4, <1>5, Zenon DEF SlotsTyped
<1>7. ASSUME NEW q \in Processes, NEW j \in Handles
      PROVE  slots'[q][j].obj \in Objects \cup {None} /\ slots'[q][j].rights \in SUBSET Rights
    BY <1>1, <1>4, <1>5, Zenon DEF SlotsTyped
<1>8. slots' = [q \in Processes |-> [j \in Handles |-> slots'[q][j]]]
    BY <1>5, <1>6, Zenon
<1> QED
    BY <1>7, <1>8, Zenon DEF SlotsTyped

LEMMA RemoveTyped ==
    ASSUME SlotsTyped, NEW p \in Processes, NEW i, RemoveLocked(p, i)
    PROVE  SlotsTyped'
BY Zenon DEF SlotsTyped, RemoveLocked, Free

LEMMA ExitTyped ==
    ASSUME SlotsTyped, NEW p \in Processes, Exit(p)
    PROVE  SlotsTyped'
<1>1. \A i \in Handles : Chained(p)[i].obj \in Objects \cup {None} /\ Chained(p)[i].rights \in SUBSET Rights
    BY Zenon DEF SlotsTyped, Chained, Free
<1>2. Chained(p) = [i \in Handles |-> Chained(p)[i]]
    BY DEF Chained
<1> QED
    BY <1>1, <1>2, Zenon DEF SlotsTyped, Exit

----------------------------------------------------------------------------

\* A thread whose call becomes c and whose locks suit c keeps LocksHeld, if
\* no other thread gets a lock in that step.
LEMMA StepLocks ==
    ASSUME LockInv, NEW t \in Threads, NEW c \in Call,
           call' = [call EXCEPT ![t] = c],
           lock' \in [Processes -> Threads \cup {None}],
           \A p \in Processes, u \in Threads \ {t} : lock'[p] = u => lock[p] = u,
           LocksSuit(t, c, lock')
    PROVE  call' \in [Threads -> Call] /\ LocksHeld'
<1>1. call' \in [Threads -> Call]
    BY Zenon DEF LockInv
<1>2. ASSUME NEW u \in Threads, u # t
      PROVE  LocksSuit(u, call'[u], lock')
    <2>1. call'[u] = call[u]
        BY <1>2, Zenon DEF LockInv
    <2>2. \A p \in Processes : lock'[p] = u => lock[p] = u
        BY <1>2, Zenon
    <2>3. LocksSuit(u, call[u], lock)
        BY Zenon DEF LockInv, LocksHeld
    <2> QED
        BY <2>1, <2>2, <2>3, Zenon DEF LocksSuit
<1>3. call'[t] = c
    BY Zenon DEF LockInv
<1> QED
    BY <1>1, <1>2, <1>3, Zenon DEF LocksHeld

\* What follows an insertion keeps the types and LocksHeld.
LEMMA AfterInsertTyped ==
    ASSUME LockInv, NEW t \in Threads, AfterInsert(t), MayInsert(call[t])
    PROVE  lock' \in [Processes -> Threads \cup {None}] /\ call' \in [Threads -> Call] /\ LocksHeld'
<1> DEFINE c == call[t]
           d == IF c.kind = "transfer" THEN [c EXCEPT !.at = "item", !.obj = None, !.rights = {}, !.held = 0]
                ELSE IF c.kind = "clone" THEN [NoCall EXCEPT !.kind = "use", !.at = "drop", !.obj = c.obj, !.held = 1]
                ELSE NoCall
<1>1. c \in Call
    BY Zenon DEF LockInv
<1>2. d \in Call
    <2>1. c.obj \in Objects \cup {None} /\ "item" \in Ats /\ "drop" \in Ats /\ "use" \in Kinds /\ 0 \in 0..2 /\ 1 \in 0..2
        BY <1>1 DEF Call, Ats, Kinds
    <2>2. [c EXCEPT !.at = "item", !.obj = None, !.rights = {}, !.held = 0] \in Call
        BY <1>1, <2>1, CallLetsGo, Zenon
    <2>3. [NoCall EXCEPT !.kind = "use", !.at = "drop", !.obj = c.obj, !.held = 1] \in Call
        BY <2>1, NoCallTyped, CallUses, Zenon
    <2> QED
        BY <2>2, <2>3, NoCallTyped, Zenon
<1>3. /\ lock' \in [Processes -> Threads \cup {None}]
      /\ \A p \in Processes, u \in Threads \ {t} : lock'[p] = u => lock[p] = u
      /\ c.kind # "transfer" => \A p \in Processes : lock'[p] # t
    BY TableAssumption, Zenon DEF AfterInsert, Unlocked, LockInv
<1>4. \/ c.kind = "transfer" /\ d.at = "item" /\ d.kind = "transfer" /\ d.src = c.src /\ d.dst = c.dst
      \/ c.kind # "transfer" /\ d.at \in {"idle", "drop"} /\ d.kind # "transfer"
    BY <1>1, Zenon DEF Call, NoCall
<1>5. Placed(c)
    BY Zenon DEF LockInv, LocksHeld, LocksSuit
<1>6. call' = [call EXCEPT ![t] = d]
    BY Zenon DEF AfterInsert
<1> HIDE DEF d
<1> QED
    <2>1. LocksSuit(t, d, lock')
        BY <1>3, <1>4, <1>5, Zenon DEF LocksSuit, Placed
    <2> QED
        BY <1>2, <1>3, <1>6, <2>1, StepLocks, Zenon

\* Every step of a thread keeps LockInv.
LEMMA ThreadKeepsLockInv ==
    ASSUME LockInv, NEW t \in Threads, ThreadStep(t)
    PROVE  LockInv'
<1> USE DEF Begin
<1>0. /\ ProcessOf[t] \in Processes /\ ProcessOf[t] \in Places
      /\ Processes \subseteq Places
      /\ NoCall \in Call /\ NoCall.at = "idle"
      /\ call[t] \in Call
    BY TableAssumption, NoCallTyped, Zenon DEF Places, NoCall, LockInv
<1>c. /\ "idle" \in Ats /\ "relock" \in Ats /\ "second" \in Ats
      /\ "item" \in Ats /\ "insert" \in Ats /\ "drop" \in Ats
      /\ "create" \in Kinds /\ "use" \in Kinds /\ "clone" \in Kinds
      /\ "copy" \in Kinds /\ "move" \in Kinds /\ "transfer" \in Kinds
      /\ 1 \in 0..2 /\ 2 \in 0..2
    BY DEF Ats, Kinds
<1>a. \A p \in Processes, i \in Handles :
          slots[p][i].obj \in Objects \cup {None} /\ slots[p][i].rights \in SUBSET Rights
    BY Zenon DEF LockInv, SlotsTyped
<1>b. Placed(call[t]) /\ (call[t] = NoCall => \A p \in Processes : lock[p] # t)
    BY <1>0, Zenon DEF LockInv, LocksHeld, LocksSuit
<1>1. CASE Create(t)
    <2>1. PICK o \in Objects :
             call' = [call EXCEPT ![t] = [NoCall EXCEPT !.kind = "create", !.at = "relock",
                          !.dst = ProcessOf[t], !.obj = o, !.rights = Rights, !.held = 1]]
        BY <1>1, Zenon DEF Create
    <2> DEFINE c == [NoCall EXCEPT !.kind = "create", !.at = "relock",
                          !.dst = ProcessOf[t], !.obj = o, !.rights = Rights, !.held = 1]
    <2>2. c \in Call
        <3>1. Rights \in SUBSET Rights /\ o \in Objects \cup {None}
            BY Zenon
        <3> QED
            BY <1>0, <1>c, <3>1, CallInserts, Zenon
    <2>3. c.at = "relock" /\ c.kind = "create" /\ c.dst = ProcessOf[t]
        BY Zenon DEF NoCall
    <2>4. lock' = lock /\ slots' = slots /\ call[t] = NoCall
        BY <1>1, Zenon DEF Create, tables
    <2>5. call' = [call EXCEPT ![t] = c]
        BY <2>1, Zenon
    <2> HIDE DEF c
    <2>6. LocksSuit(t, c, lock)
        BY <1>0, <1>b, <2>3, <2>4, Zenon DEF LocksSuit, Placed
    <2> QED
        BY <2>2, <2>4, <2>5, <2>6, StepLocks, Zenon DEF LockInv, SlotsTyped
<1>2. CASE Invoke(t)
    <2>1. PICK i \in Handles :
             call' = [call EXCEPT ![t] = [NoCall EXCEPT !.kind = "use", !.at = "drop",
                          !.obj = slots[ProcessOf[t]][i].obj, !.held = 1]]
        BY <1>2, Zenon DEF Invoke
    <2> DEFINE c == [NoCall EXCEPT !.kind = "use", !.at = "drop",
                          !.obj = slots[ProcessOf[t]][i].obj, !.held = 1]
    <2>2. c \in Call
        BY <1>0, <1>a, <1>c, CallUses, Zenon
    <2>3. c.at = "drop" /\ c.kind = "use"
        BY Zenon DEF NoCall
    <2>4. lock' = lock /\ slots' = slots /\ call[t] = NoCall
        BY <1>2, Zenon DEF Invoke, tables
    <2>5. call' = [call EXCEPT ![t] = c]
        BY <2>1, Zenon
    <2> HIDE DEF c
    <2>6. LocksSuit(t, c, lock)
        BY <1>0, <1>b, <2>3, <2>4, Zenon DEF LocksSuit, Placed
    <2> QED
        BY <2>2, <2>4, <2>5, <2>6, StepLocks, Zenon DEF LockInv, SlotsTyped
<1>3. CASE Clone(t)
    <2> DEFINE s(i) == slots[ProcessOf[t]][i]
    <2>1. PICK i \in Handles :
             call' = [call EXCEPT ![t] = [NoCall EXCEPT !.kind = "clone", !.at = "relock",
                          !.dst = ProcessOf[t], !.obj = s(i).obj, !.rights = s(i).rights, !.held = 2]]
        BY <1>3, Zenon DEF Clone
    <2> DEFINE c == [NoCall EXCEPT !.kind = "clone", !.at = "relock",
                          !.dst = ProcessOf[t], !.obj = s(i).obj, !.rights = s(i).rights, !.held = 2]
    <2>2. c \in Call
        BY <1>0, <1>a, <1>c, CallInserts, Zenon
    <2>3. c.at = "relock" /\ c.kind = "clone" /\ c.dst = ProcessOf[t]
        BY Zenon DEF NoCall
    <2>4. lock' = lock /\ slots' = slots /\ call[t] = NoCall
        BY <1>3, Zenon DEF Clone, tables
    <2>5. call' = [call EXCEPT ![t] = c]
        BY <2>1, Zenon
    <2> HIDE DEF c
    <2>6. LocksSuit(t, c, lock)
        BY <1>0, <1>b, <2>3, <2>4, Zenon DEF LocksSuit, Placed
    <2> QED
        BY <2>2, <2>4, <2>5, <2>6, StepLocks, Zenon DEF LockInv, SlotsTyped
<1>4. CASE Drop(t)
    <2>1. call[t].at = "drop" /\ call' = [call EXCEPT ![t] = NoCall] /\ lock' = lock /\ slots' = slots
        BY <1>4, Zenon DEF Drop, tables
    <2>2. \A p \in Processes : lock[p] # t
        BY <2>1, Zenon DEF LockInv, LocksHeld, LocksSuit
    <2>3. LocksSuit(t, NoCall, lock)
        BY <2>2, Zenon DEF LocksSuit, Placed, NoCall
    <2> QED
        BY <1>0, <2>1, <2>3, StepLocks, Zenon DEF LockInv, SlotsTyped
<1>5. CASE Copy(t)
    <2> DEFINE p == ProcessOf[t]
    <2>1. PICK i \in Handles, rights \in SUBSET Rights :
             call' = [call EXCEPT ![t] = [NoCall EXCEPT !.kind = "copy", !.at = "insert", !.dst = p,
                          !.obj = slots[p][i].obj, !.rights = rights, !.held = 1]]
        BY <1>5, Zenon DEF Copy
    <2> DEFINE c == [NoCall EXCEPT !.kind = "copy", !.at = "insert", !.dst = p,
                          !.obj = slots[p][i].obj, !.rights = rights, !.held = 1]
    <2>2. c \in Call
        BY <1>0, <1>a, <1>c, CallInserts, Zenon
    <2>3. c.at = "insert" /\ c.kind = "copy" /\ c.dst = ProcessOf[t]
        BY Zenon DEF NoCall
    <2>4. lock' = [lock EXCEPT ![p] = t] /\ slots' = slots
        BY <1>5, Zenon DEF Copy, tables
    <2>5. call' = [call EXCEPT ![t] = c]
        BY <2>1, Zenon
    <2> HIDE DEF c
    <2> QED
        BY <1>0, <2>2, <2>3, <2>4, <2>5, StepLocks, Zenon DEF LockInv, SlotsTyped, LocksSuit, Placed
<1>6. CASE Move(t)
    <2> DEFINE p == ProcessOf[t]
    <2>1. PICK i \in Handles :
             call' = [call EXCEPT ![t] = [NoCall EXCEPT !.kind = "move", !.at = "insert", !.src = p, !.dst = p,
                          !.handle = i, !.obj = slots[p][i].obj, !.rights = slots[p][i].rights, !.held = 1]]
        BY <1>6, Zenon DEF Move
    <2> DEFINE c == [NoCall EXCEPT !.kind = "move", !.at = "insert", !.src = p, !.dst = p,
                          !.handle = i, !.obj = slots[p][i].obj, !.rights = slots[p][i].rights, !.held = 1]
    <2>2. c \in Call
        <3>1. slots[p][i].obj \in Objects \cup {None} /\ slots[p][i].rights \in SUBSET Rights
            BY <1>0, <1>a, Zenon
        <3>2. p \in Places
            BY <1>0, Zenon
        <3> DEFINE o == slots[p][i].obj
                   r == slots[p][i].rights
        <3>3. o \in Objects \cup {None} /\ r \in SUBSET Rights
            BY <3>1, Zenon
        <3> HIDE DEF p, o, r
        <3>4. [NoCall EXCEPT !.kind = "move", !.at = "insert", !.src = p, !.dst = p,
                             !.handle = i, !.obj = o, !.rights = r, !.held = 1] \in Call
            BY <1>0, <1>c, <3>2, <3>3, CallMoves, Zenon
        <3> QED
            BY <3>4, Zenon DEF o, r
    <2>3. c.at = "insert" /\ c.kind = "move" /\ c.dst = ProcessOf[t]
        BY Zenon DEF NoCall
    <2>4. lock' = [lock EXCEPT ![p] = t] /\ slots' = slots
        BY <1>6, Zenon DEF Move, tables
    <2>5. call' = [call EXCEPT ![t] = c]
        BY <2>1, Zenon
    <2> HIDE DEF c
    <2> QED
        BY <1>0, <2>2, <2>3, <2>4, <2>5, StepLocks, Zenon DEF LockInv, SlotsTyped, LocksSuit, Placed
<1>7. CASE TransferLock(t)
    <2>1. PICK src \in Processes, dst \in Processes :
             /\ lock' = [lock EXCEPT ![LockOrder(src, dst)[1]] = t]
             /\ call' = [call EXCEPT ![t] = [NoCall EXCEPT !.kind = "transfer",
                          !.at = IF src = dst THEN "item" ELSE "second",
                          !.src = src, !.dst = dst, !.left = MessageCaps]]
        BY <1>7, Zenon DEF TransferLock
    <2> DEFINE c == [NoCall EXCEPT !.kind = "transfer", !.at = IF src = dst THEN "item" ELSE "second",
                          !.src = src, !.dst = dst, !.left = MessageCaps]
    <2>2. c \in Call
        <3>1. (IF src = dst THEN "item" ELSE "second") \in Ats /\ MessageCaps \in 0..MessageCaps
            BY <1>c, TableAssumption
        <3> QED
            BY <1>0, <1>c, <3>1, CallTransfers, Zenon
    <2>3. c.kind = "transfer" /\ c.at \in {"item", "second"} /\ c.src = src /\ c.dst = dst /\ (c.at = "second" => src # dst)
        BY Zenon DEF NoCall
    <2>4. slots' = slots /\ call[t] = NoCall
        BY <1>7, Zenon DEF TransferLock, tables
    <2>5. call' = [call EXCEPT ![t] = c]
        BY <2>1, Zenon
    <2>6. lock' \in [Processes -> Threads \cup {None}]
        BY <2>1, Zenon DEF LockInv
    <2>7. \A q \in Processes, u \in Threads \ {t} : lock'[q] = u => lock[q] = u
        BY <2>1, Zenon DEF LockInv
    <2>8. \A q \in Processes : lock'[q] = t => q = LockOrder(src, dst)[1]
        BY <1>b, <2>1, <2>4, Zenon DEF LockInv
    <2> HIDE DEF c
    <2>9. call' \in [Threads -> Call] /\ LocksHeld'
        <3>1. LocksSuit(t, c, lock')
            BY <2>3, <2>8, Zenon DEF LocksSuit, Placed
        <3> QED
            BY <2>2, <2>5, <2>6, <2>7, <3>1, StepLocks, Zenon
    <2> QED
        BY <2>4, <2>6, <2>9, SMTT(30) DEF LockInv, SlotsTyped
<1>8. CASE TransferSecond(t)
    <2> DEFINE c == [call[t] EXCEPT !.at = "item"]
               second == LockOrder(call[t].src, call[t].dst)[2]
    <2>1. lock' = [lock EXCEPT ![second] = t] /\ slots' = slots
        BY <1>8, Zenon DEF TransferSecond, tables
    <2>2. call' = [call EXCEPT ![t] = c]
        BY <1>8, Zenon DEF TransferSecond, LockInv
    <2>3. c \in Call /\ c.at = "item" /\ c.kind = call[t].kind /\ c.src = call[t].src /\ c.dst = call[t].dst
        <3>1. c \in Call
            BY <1>0, <1>c, CallAt, Zenon
        <3>2. c.at = "item" /\ c.kind = call[t].kind /\ c.src = call[t].src /\ c.dst = call[t].dst
            BY <1>0, Zenon DEF Call
        <3> QED
            BY <3>1, <3>2, Zenon
    <2> HIDE DEF c
    <2>4. lock' \in [Processes -> Threads \cup {None}]
        BY <2>1, Zenon DEF LockInv
    <2>5. \A q \in Processes, u \in Threads \ {t} : lock'[q] = u => lock[q] = u
        BY <2>1, Zenon DEF LockInv
    <2>6. call' \in [Threads -> Call] /\ LocksHeld'
        <3>1. call[t].kind = "transfer"
            BY <1>8, <1>b, Zenon DEF TransferSecond, Placed
        <3>2. LocksSuit(t, c, lock')
            BY <1>b, <2>3, <3>1, Zenon DEF LocksSuit, Placed
        <3> QED
            BY <2>2, <2>3, <2>4, <2>5, <3>2, StepLocks, Zenon
    <2> QED
        BY <2>1, <2>4, <2>6, Zenon DEF LockInv, SlotsTyped
<1>9. CASE TransferItem(t)
    <2> DEFINE s(i) == slots[call[t].src][i]
    <2>1. PICK i \in Handles :
             /\ Valid(call[t].src, i)
             /\ call' = [call EXCEPT ![t] = [call[t] EXCEPT !.at = "insert", !.left = @ - 1,
                             !.obj = s(i).obj, !.rights = s(i).rights, !.held = 1]]
        BY <1>9, Zenon DEF TransferItem
    <2> DEFINE c == [call[t] EXCEPT !.at = "insert", !.left = call[t].left - 1,
                             !.obj = s(i).obj, !.rights = s(i).rights, !.held = 1]
    <2>2. call[t].at = "item" /\ call[t].left > 0 /\ lock' = lock /\ slots' = slots
        BY <1>9, Zenon DEF TransferItem, tables
    <2>3. call[t].left - 1 \in 0..MessageCaps
        BY <1>0, <2>2, TableAssumption DEF Call
    <2>4. call' = [call EXCEPT ![t] = c]
        BY <2>1, Zenon
    <2>5. call[t].kind = "transfer" /\ call[t].src \in Processes /\ call[t].dst \in Processes
        BY <1>b, <2>2, Zenon DEF Placed
    <2>6. s(i).obj \in Objects \cup {None} /\ s(i).rights \in SUBSET Rights
        BY <1>a, <2>5, Zenon
    <2>7. c \in Call
        BY <1>0, <1>c, <2>3, <2>6, CallTakes, Zenon
    <2>8. c.at = "insert" /\ c.kind = "transfer" /\ c.src = call[t].src /\ c.dst = call[t].dst
        BY <1>0, <2>5, Zenon DEF Call
    <2> HIDE DEF c
    <2>9. LocksSuit(t, c, lock)
        BY <2>5, <2>8, Zenon DEF LocksSuit, Placed
    <2> QED
        BY <2>2, <2>4, <2>7, <2>9, StepLocks, Zenon DEF LockInv, SlotsTyped
<1>10. CASE TransferEnd(t)
    <2>1. /\ call' = [call EXCEPT ![t] = NoCall] /\ slots' = slots
          /\ lock' = [p \in Processes |-> IF lock[p] = t THEN None ELSE lock[p]]
        BY <1>10, Zenon DEF TransferEnd, tables, Unlocked
    <2>2. /\ lock' \in [Processes -> Threads \cup {None}]
          /\ \A q \in Processes, u \in Threads \ {t} : lock'[q] = u => lock[q] = u
          /\ \A q \in Processes : lock'[q] # t
        BY <2>1, TableAssumption, Zenon DEF LockInv
    <2>3. LocksSuit(t, NoCall, lock')
        BY <2>2, Zenon DEF LocksSuit, Placed, NoCall
    <2>4. call' \in [Threads -> Call] /\ LocksHeld'
        BY <1>0, <2>1, <2>2, <2>3, StepLocks, Zenon
    <2> QED
        BY <2>1, <2>2, <2>4, Zenon DEF LockInv, SlotsTyped
<1>11. CASE InsertHeld(t)
    <2>1. MayInsert(call[t]) /\ AfterInsert(t)
        BY <1>11, Zenon DEF InsertHeld
    <2>2. call[t].dst \in Processes /\ call[t].obj \in Objects \cup {None} /\ call[t].rights \in SUBSET Rights
        BY <1>0, <1>b, <2>1, Zenon DEF MayInsert, Placed, Call
    <2>3. \/ MoveSlot(call[t].dst, call[t].handle, call[t].obj, call[t].rights)
          \/ Insert(call[t].dst, call[t].obj, call[t].rights)
        BY <1>11, Zenon DEF InsertHeld
    <2>4. SlotsTyped'
        BY <2>2, <2>3, InsertTyped, MoveTyped, SMTT(30) DEF LockInv
    <2> QED
        BY <2>1, <2>4, AfterInsertTyped, Zenon DEF LockInv
<1>12. CASE InsertFull(t)
    <2>1. MayInsert(call[t]) /\ AfterInsert(t) /\ slots' = slots
        BY <1>12, Zenon DEF InsertFull, tables
    <2> QED
        BY <2>1, AfterInsertTyped, Zenon DEF LockInv, SlotsTyped
<1>13. CASE Delete(t)
    <2>1. PICK i \in Handles : RemoveLocked(ProcessOf[t], i)
        BY <1>13, Zenon DEF Delete
    <2>2. SlotsTyped'
        BY <1>0, <2>1, RemoveTyped, Zenon DEF LockInv
    <2>3. call' = call /\ lock' = lock
        BY <1>13, Zenon DEF Delete
    <2> QED
        BY <2>2, <2>3, Zenon DEF LockInv, LocksHeld
<1>14. CASE Revoke(t)
    <2>1. call' = call /\ lock' = lock /\ slots' = slots
        BY <1>14, Zenon DEF Revoke, tables
    <2> QED
        BY <2>1, Zenon DEF LockInv, LocksHeld, SlotsTyped
<1> QED
    BY <1>1, <1>2, <1>3, <1>4, <1>5, <1>6, <1>7, <1>8, <1>9, <1>10, <1>11, <1>12, <1>13, <1>14, Zenon DEF ThreadStep

\* Every behaviour keeps LockInv.
THEOREM LockInvHolds == Spec => []LockInv
<1>1. LockInv /\ [Next]_vars => LockInv'
    <2> SUFFICES ASSUME LockInv, [Next]_vars PROVE LockInv'
        BY Zenon
    <2>1. ASSUME NEW p \in Processes, Exit(p) PROVE LockInv'
        <3>1. call' = call /\ lock' = lock
            BY <2>1, Zenon DEF Exit
        <3>2. SlotsTyped'
            BY <2>1, ExitTyped, Zenon DEF LockInv
        <3> QED
            BY <3>1, <3>2, Zenon DEF LockInv, LocksHeld
    <2>2. ASSUME UNCHANGED vars PROVE LockInv'
        BY <2>2, Zenon DEF vars, tables, LockInv, LocksHeld, SlotsTyped
    <2> QED
        BY <2>1, <2>2, ThreadKeepsLockInv, Zenon DEF Next
<1> QED
    BY <1>1, InitLockInv, PTL DEF Spec

\* Two threads never wait for each other's table, whatever messages with
\* capabilities cross: transferCaps() locks in the order of addresses.
THEOREM TransfersDoNotDeadlock == Spec => []NoLockCycle
<1>1. LockInv => NoLockCycle
    <2> SUFFICES ASSUME LockInv, NEW t \in Threads, NEW u \in Threads,
                        call[t].at = "second", call[u].at = "second",
                        lock[LockOrder(call[t].src, call[t].dst)[2]] = u,
                        lock[LockOrder(call[u].src, call[u].dst)[2]] = t
                 PROVE  FALSE
        BY Zenon DEF NoLockCycle
    <2> DEFINE first(x) == LockOrder(call[x].src, call[x].dst)[1]
               second(x) == LockOrder(call[x].src, call[x].dst)[2]
    <2>1. LocksSuit(t, call[t], lock) /\ LocksSuit(u, call[u], lock)
        BY Zenon DEF LockInv, LocksHeld
    <2>2. /\ call[t].src \in Processes /\ call[t].dst \in Processes /\ call[t].src # call[t].dst
          /\ call[u].src \in Processes /\ call[u].dst \in Processes /\ call[u].src # call[u].dst
        BY <2>1, Zenon DEF LocksSuit, Placed
    <2>3. /\ first(t) \in Processes /\ second(t) \in Processes /\ first(t) < second(t)
          /\ first(u) \in Processes /\ second(u) \in Processes /\ first(u) < second(u)
        BY <2>2, LockOrderAscends, Zenon
    <2>4. second(t) = first(u) /\ second(u) = first(t)
        BY <2>1, <2>3, Zenon DEF LocksSuit
    <2>5. first(t) \in Nat /\ second(t) \in Nat /\ first(u) \in Nat /\ second(u) \in Nat
        BY <2>3, TableAssumption, Zenon
    <2> HIDE DEF first, second
    <2> QED
        BY <2>3, <2>4, <2>5
<1> QED
    BY <1>1, LockInvHolds, PTL

----------------------------------------------------------------------------
(* Authority.  What a call will store was vouched for when it looked a slot   *)
(* up, and the lock it has kept since then still protects that slot.          *)

\* The locks that a call keeps.
Keeps(t, c, l) ==
    /\ c.at = "second" => l[LockOrder(c.src, c.dst)[1]] = t
    /\ c.at = "item" => l[c.src] = t /\ l[c.dst] = t
    /\ c.at = "insert" => l[c.dst] = t /\ (c.kind = "transfer" => l[c.src] = t)

\* Where the rights come from that a call is about to store.
Vouched(c, s) ==
    /\ c.at = "relock" => c.kind \in {"create", "clone"}
    /\ c.at = "insert" => c.kind \in {"copy", "move", "transfer"}
    /\ c.at \in {"relock", "insert"} /\ c.kind \in {"clone", "transfer"} => "grant" \in c.rights
    /\ c.at = "insert" /\ c.kind \in {"copy", "move"} =>
          \E i \in Handles : s[c.dst][i].obj = c.obj /\ c.rights \subseteq s[c.dst][i].rights

AuthorityHeld == \A t \in Threads : Keeps(t, call[t], lock) /\ Vouched(call[t], slots)

AuthorityInv == LockInv /\ AuthorityHeld

\* A step of one thread keeps what the others hold, if it takes no lock from
\* them and leaves the tables they have locked alone.
LEMMA StepAuthority ==
    ASSUME AuthorityInv, NEW t \in Threads, NEW c,
           call' = [call EXCEPT ![t] = c],
           Keeps(t, c, lock'), Vouched(c, slots'),
           \A p \in Processes, u \in Threads \ {t} : lock[p] = u => lock'[p] = u /\ slots'[p] = slots[p]
    PROVE  AuthorityHeld'
<1>1. ASSUME NEW u \in Threads, u # t
      PROVE  Keeps(u, call'[u], lock') /\ Vouched(call'[u], slots')
    <2>1. call'[u] = call[u] /\ call[u] \in Call
        BY <1>1, Zenon DEF AuthorityInv, LockInv
    <2>2. /\ LocksSuit(u, call[u], lock)
          /\ Keeps(u, call[u], lock) /\ Vouched(call[u], slots)
        BY Zenon DEF AuthorityInv, AuthorityHeld, LockInv, LocksHeld
    <2>3. \A p \in Processes : lock[p] = u => lock'[p] = u /\ slots'[p] = slots[p]
        BY <1>1, Zenon
    <2>4. call[u].at = "second" => LockOrder(call[u].src, call[u].dst)[1] \in Processes
        BY <2>2, LockOrderAscends, Zenon DEF LocksSuit, Placed
    <2>5. Placed(call[u])
        BY <2>2, Zenon DEF LocksSuit
    <2>6. Keeps(u, call[u], lock')
        BY <2>2, <2>3, <2>4, <2>5, Zenon DEF Keeps, Placed
    <2>7. Vouched(call[u], slots')
        BY <2>2, <2>3, <2>5, Zenon DEF Vouched, Keeps, Placed
    <2> QED
        BY <2>1, <2>6, <2>7, Zenon
<1>2. call'[t] = c
    BY Zenon DEF AuthorityInv, LockInv
<1> QED
    BY <1>1, <1>2, Zenon DEF AuthorityHeld

\* A call that has returned, or uses an object, holds nothing of this.
LEMMA AtRest ==
    ASSUME NEW c, c.at \in {"idle", "drop"}
    PROVE  \A t, l, s : Keeps(t, c, l) /\ Vouched(c, s)
BY Zenon DEF Keeps, Vouched

\* InsertHeld and InsertFull.
LEMMA AfterInsertAuthority ==
    ASSUME AuthorityInv, NEW t \in Threads, MayInsert(call[t]), AfterInsert(t),
           \A p \in Processes : p # call[t].dst => slots'[p] = slots[p]
    PROVE  AuthorityHeld'
<1> DEFINE c == call[t]
           d == IF c.kind = "transfer" THEN [c EXCEPT !.at = "item", !.obj = None, !.rights = {}, !.held = 0]
                ELSE IF c.kind = "clone" THEN [NoCall EXCEPT !.kind = "use", !.at = "drop", !.obj = c.obj, !.held = 1]
                ELSE NoCall
<1>1. c \in Call /\ LocksSuit(t, c, lock) /\ Keeps(t, c, lock) /\ Vouched(c, slots)
    BY Zenon DEF AuthorityInv, AuthorityHeld, LockInv, LocksHeld
<1>2. \/ c.kind = "transfer" /\ d.at = "item" /\ d.kind = "transfer" /\ d.src = c.src /\ d.dst = c.dst
      \/ c.kind # "transfer" /\ d.at \in {"idle", "drop"}
    BY <1>1, Zenon DEF Call, NoCall
<1>3. call' = [call EXCEPT ![t] = d]
    BY Zenon DEF AfterInsert
<1>4. \A p \in Processes, u \in Threads \ {t} : lock[p] = u => lock'[p] = u /\ slots'[p] = slots[p]
    <2>1. lock[c.dst] = t \/ lock[c.dst] = None
        BY <1>1, Zenon DEF MayInsert, Keeps
    <2>2. \A p \in Processes, u \in Threads \ {t} : lock[p] = u => p # c.dst
        BY <2>1, TableAssumption, Zenon
    <2>3. \A p \in Processes, u \in Threads \ {t} : lock[p] = u => lock'[p] = u
        BY Zenon DEF AfterInsert, Unlocked
    <2> QED
        BY <2>2, <2>3, Zenon
<1>5. Keeps(t, d, lock') /\ Vouched(d, slots')
    <2>1. CASE c.kind = "transfer"
        <3>1. c.at = "insert"
            BY <1>1, <2>1, Zenon DEF MayInsert, Vouched
        <3>2. lock' = lock
            BY <2>1, Zenon DEF AfterInsert
        <3>3. d.at = "item" /\ d.src = c.src /\ d.dst = c.dst
            BY <1>2, <2>1, Zenon
        <3> HIDE DEF d
        <3> QED
            BY <1>1, <2>1, <3>1, <3>2, <3>3, Zenon DEF Keeps, Vouched
    <2>2. CASE c.kind # "transfer"
        <3>1. d.at \in {"idle", "drop"}
            BY <1>2, <2>2, Zenon
        <3> HIDE DEF d
        <3> QED
            BY <3>1, AtRest
    <2> QED
        BY <2>1, <2>2, Zenon
<1> HIDE DEF d
<1> QED
    BY <1>3, <1>4, <1>5, StepAuthority, Zenon

\* A step of a thread whose call is not at an insertion and that changes no
\* table keeps what the other threads hold.
LEMMA QuietAuthority ==
    ASSUME AuthorityInv, NEW t \in Threads, NEW c,
           call' = [call EXCEPT ![t] = c], slots' = slots,
           \A p \in Processes, u \in Threads \ {t} : lock[p] = u => lock'[p] = u,
           Keeps(t, c, lock'), Vouched(c, slots)
    PROVE  AuthorityHeld'
BY StepAuthority, Zenon

\* Taking a free lock leaves the other locks with their threads.
LEMMA TakesFreeLock ==
    ASSUME LockInv, NEW t \in Threads, NEW p \in Processes,
           lock[p] = None, lock' = [lock EXCEPT ![p] = t]
    PROVE  /\ lock'[p] = t
           /\ \A q \in Processes, u \in Threads \ {t} : lock[q] = u => lock'[q] = u
           /\ \A q \in Processes : lock[q] = t => lock'[q] = t
BY TableAssumption, Zenon DEF LockInv

\* A row of slots after one or two of them were assigned.
LEMMA RowUpdate ==
    ASSUME NEW row, row = [j \in Handles |-> row[j]], NEW h, NEW x, NEW j \in Handles
    PROVE  [row EXCEPT ![h] = x][j] \in {row[j], x}
<1>1. CASE j = h
    BY <1>1, Zenon
<1>2. CASE j # h
    BY <1>2, Zenon
<1> QED
    BY <1>1, <1>2, Zenon

\* Assigning to slots of one table leaves a slot as it is, or gives it one of the values.
LEMMA TableUpdate ==
    ASSUME SlotsTyped, NEW p \in Processes, NEW row, slots' = [slots EXCEPT ![p] = row],
           NEW q \in Processes
    PROVE  slots'[q] = IF q = p THEN row ELSE slots[q]
<1>1. slots = [r \in Processes |-> slots[r]]
    BY Zenon DEF SlotsTyped
<1> QED
    BY <1>1, Zenon

\* Every step of a thread keeps what the calls have.
LEMMA ThreadKeepsAuthority ==
    ASSUME AuthorityInv, NEW t \in Threads, ThreadStep(t)
    PROVE  AuthorityHeld'
<1> USE DEF Begin
<1>0. ProcessOf[t] \in Processes /\ call[t] \in Call /\ LockInv
    BY TableAssumption, Zenon DEF AuthorityInv, LockInv
<1>a. LocksSuit(t, call[t], lock) /\ Keeps(t, call[t], lock) /\ Vouched(call[t], slots)
    BY Zenon DEF AuthorityInv, AuthorityHeld, LockInv, LocksHeld
<1>1. CASE Create(t)
    <2>1. PICK o \in Objects :
             call' = [call EXCEPT ![t] = [NoCall EXCEPT !.kind = "create", !.at = "relock",
                          !.dst = ProcessOf[t], !.obj = o, !.rights = Rights, !.held = 1]]
        BY <1>1, Zenon DEF Create
    <2> DEFINE c == [NoCall EXCEPT !.kind = "create", !.at = "relock",
                          !.dst = ProcessOf[t], !.obj = o, !.rights = Rights, !.held = 1]
    <2>2. c.at = "relock" /\ c.kind = "create"
        BY Zenon DEF NoCall
    <2>3. lock' = lock /\ slots' = slots /\ call' = [call EXCEPT ![t] = c]
        BY <1>1, <2>1, Zenon DEF Create, tables
    <2> HIDE DEF c
    <2>4. Keeps(t, c, lock') /\ Vouched(c, slots)
        BY <2>2, Zenon DEF Keeps, Vouched
    <2> QED
        BY <2>3, <2>4, QuietAuthority, Zenon
<1>2. CASE Invoke(t)
    <2>1. PICK i \in Handles :
             call' = [call EXCEPT ![t] = [NoCall EXCEPT !.kind = "use", !.at = "drop",
                          !.obj = slots[ProcessOf[t]][i].obj, !.held = 1]]
        BY <1>2, Zenon DEF Invoke
    <2> DEFINE c == [NoCall EXCEPT !.kind = "use", !.at = "drop",
                          !.obj = slots[ProcessOf[t]][i].obj, !.held = 1]
    <2>2. c.at \in {"idle", "drop"}
        BY Zenon DEF NoCall
    <2>3. lock' = lock /\ slots' = slots /\ call' = [call EXCEPT ![t] = c]
        BY <1>2, <2>1, Zenon DEF Invoke, tables
    <2> HIDE DEF c
    <2>4. Keeps(t, c, lock') /\ Vouched(c, slots)
        BY <2>2, AtRest
    <2> QED
        BY <2>3, <2>4, QuietAuthority, Zenon
<1>3. CASE Clone(t)
    <2> DEFINE s(i) == slots[ProcessOf[t]][i]
    <2>1. PICK i \in Handles :
             /\ "grant" \in s(i).rights
             /\ call' = [call EXCEPT ![t] = [NoCall EXCEPT !.kind = "clone", !.at = "relock",
                          !.dst = ProcessOf[t], !.obj = s(i).obj, !.rights = s(i).rights, !.held = 2]]
        BY <1>3, Zenon DEF Clone
    <2> DEFINE c == [NoCall EXCEPT !.kind = "clone", !.at = "relock",
                          !.dst = ProcessOf[t], !.obj = s(i).obj, !.rights = s(i).rights, !.held = 2]
    <2>2. c.at = "relock" /\ c.kind = "clone" /\ c.rights = s(i).rights
        BY Zenon DEF NoCall
    <2>3. lock' = lock /\ slots' = slots /\ call' = [call EXCEPT ![t] = c]
        BY <1>3, <2>1, Zenon DEF Clone, tables
    <2> HIDE DEF c
    <2>4. Keeps(t, c, lock') /\ Vouched(c, slots)
        BY <2>1, <2>2, Zenon DEF Keeps, Vouched
    <2> QED
        BY <2>3, <2>4, QuietAuthority, Zenon
<1>4. CASE Drop(t)
    <2>1. call' = [call EXCEPT ![t] = NoCall] /\ lock' = lock /\ slots' = slots
        BY <1>4, Zenon DEF Drop, tables
    <2>2. Keeps(t, NoCall, lock') /\ Vouched(NoCall, slots)
        BY AtRest DEF NoCall
    <2> QED
        BY <2>1, <2>2, QuietAuthority, Zenon
<1>5. CASE Copy(t)
    <2> DEFINE p == ProcessOf[t]
    <2>1. PICK i \in Handles, rights \in SUBSET Rights :
             /\ rights \subseteq slots[p][i].rights
             /\ lock[p] = None /\ lock' = [lock EXCEPT ![p] = t]
             /\ call' = [call EXCEPT ![t] = [NoCall EXCEPT !.kind = "copy", !.at = "insert", !.dst = p,
                          !.obj = slots[p][i].obj, !.rights = rights, !.held = 1]]
        BY <1>5, Zenon DEF Copy
    <2> DEFINE c == [NoCall EXCEPT !.kind = "copy", !.at = "insert", !.dst = p,
                          !.obj = slots[p][i].obj, !.rights = rights, !.held = 1]
    <2>2. /\ c.at = "insert" /\ c.kind = "copy" /\ c.dst = p
          /\ c.obj = slots[p][i].obj /\ c.rights = rights
        BY Zenon DEF NoCall
    <2>3. slots' = slots /\ call' = [call EXCEPT ![t] = c]
        BY <1>5, <2>1, Zenon DEF Copy, tables
    <2> HIDE DEF c
    <2>4. /\ lock'[p] = t
          /\ \A q \in Processes, u \in Threads \ {t} : lock[q] = u => lock'[q] = u
        BY <1>0, <2>1, TakesFreeLock, Zenon
    <2>5. Keeps(t, c, lock')
        BY <2>2, <2>4, Zenon DEF Keeps
    <2>6. Vouched(c, slots)
        BY <2>1, <2>2, Zenon DEF Vouched
    <2> QED
        BY <2>3, <2>4, <2>5, <2>6, QuietAuthority, Zenon
<1>6. CASE Move(t)
    <2> DEFINE p == ProcessOf[t]
    <2>1. PICK i \in Handles :
             /\ lock[p] = None /\ lock' = [lock EXCEPT ![p] = t]
             /\ call' = [call EXCEPT ![t] = [NoCall EXCEPT !.kind = "move", !.at = "insert", !.src = p, !.dst = p,
                          !.handle = i, !.obj = slots[p][i].obj, !.rights = slots[p][i].rights, !.held = 1]]
        BY <1>6, Zenon DEF Move
    <2> DEFINE c == [NoCall EXCEPT !.kind = "move", !.at = "insert", !.src = p, !.dst = p,
                          !.handle = i, !.obj = slots[p][i].obj, !.rights = slots[p][i].rights, !.held = 1]
    <2>2. /\ c.at = "insert" /\ c.kind = "move" /\ c.dst = p
          /\ c.obj = slots[p][i].obj /\ c.rights = slots[p][i].rights
        BY Zenon DEF NoCall
    <2>3. slots' = slots /\ call' = [call EXCEPT ![t] = c]
        BY <1>6, <2>1, Zenon DEF Move, tables
    <2> HIDE DEF c
    <2>4. /\ lock'[p] = t
          /\ \A q \in Processes, u \in Threads \ {t} : lock[q] = u => lock'[q] = u
        BY <1>0, <2>1, TakesFreeLock, Zenon
    <2>5. Keeps(t, c, lock')
        BY <2>2, <2>4, Zenon DEF Keeps
    <2>6. Vouched(c, slots)
        BY <2>1, <2>2, Zenon DEF Vouched
    <2> QED
        BY <2>3, <2>4, <2>5, <2>6, QuietAuthority, Zenon
<1>7. CASE TransferLock(t)
    <2>1. PICK src \in Processes, dst \in Processes :
             /\ lock[LockOrder(src, dst)[1]] = None
             /\ lock' = [lock EXCEPT ![LockOrder(src, dst)[1]] = t]
             /\ call' = [call EXCEPT ![t] = [NoCall EXCEPT !.kind = "transfer",
                          !.at = IF src = dst THEN "item" ELSE "second",
                          !.src = src, !.dst = dst, !.left = MessageCaps]]
        BY <1>7, Zenon DEF TransferLock
    <2> DEFINE c == [NoCall EXCEPT !.kind = "transfer", !.at = IF src = dst THEN "item" ELSE "second",
                          !.src = src, !.dst = dst, !.left = MessageCaps]
    <2>2. /\ c.kind = "transfer" /\ c.src = src /\ c.dst = dst
          /\ c.at = IF src = dst THEN "item" ELSE "second"
        BY Zenon DEF NoCall
    <2>3. slots' = slots /\ call' = [call EXCEPT ![t] = c]
        BY <1>7, <2>1, Zenon DEF TransferLock, tables
    <2> HIDE DEF c
    <2>4. /\ LockOrder(src, dst)[1] \in Processes
          /\ src = dst => LockOrder(src, dst)[1] = src
        BY Zenon DEF LockOrder
    <2>5. /\ lock'[LockOrder(src, dst)[1]] = t
          /\ \A q \in Processes, u \in Threads \ {t} : lock[q] = u => lock'[q] = u
        BY <1>0, <2>1, <2>4, TakesFreeLock, Zenon
    <2>6. Keeps(t, c, lock') /\ Vouched(c, slots)
        BY <2>2, <2>4, <2>5, Zenon DEF Keeps, Vouched
    <2> QED
        BY <2>3, <2>5, <2>6, QuietAuthority, Zenon
<1>8. CASE TransferSecond(t)
    <2> DEFINE c == [call[t] EXCEPT !.at = "item"]
               second == LockOrder(call[t].src, call[t].dst)[2]
    <2>1. /\ call[t].at = "second" /\ slots' = slots
          /\ lock[second] = None /\ lock' = [lock EXCEPT ![second] = t]
        BY <1>8, Zenon DEF TransferSecond, tables
    <2>2. call' = [call EXCEPT ![t] = c]
        BY <1>8, Zenon DEF TransferSecond, AuthorityInv, LockInv
    <2>3. c.at = "item" /\ c.src = call[t].src /\ c.dst = call[t].dst
        BY <1>0, Zenon DEF Call
    <2> HIDE DEF c
    <2>4. call[t].src \in Processes /\ call[t].dst \in Processes
        BY <1>a, <2>1, Zenon DEF LocksSuit, Placed
    <2>5. second \in Processes /\ {LockOrder(call[t].src, call[t].dst)[1], second} = {call[t].src, call[t].dst}
        BY <2>4, Zenon DEF LockOrder
    <2>6. /\ lock'[second] = t
          /\ \A q \in Processes, u \in Threads \ {t} : lock[q] = u => lock'[q] = u
          /\ \A q \in Processes : lock[q] = t => lock'[q] = t
        BY <1>0, <2>1, <2>5, TakesFreeLock, Zenon
    <2>7. lock[LockOrder(call[t].src, call[t].dst)[1]] = t
        BY <1>a, <2>1, Zenon DEF Keeps
    <2> HIDE DEF second
    <2>8. lock'[call[t].src] = t /\ lock'[call[t].dst] = t
        BY <2>4, <2>5, <2>6, <2>7, Zenon
    <2>9. Keeps(t, c, lock') /\ Vouched(c, slots)
        BY <2>3, <2>8, Zenon DEF Keeps, Vouched
    <2> QED
        BY <2>1, <2>2, <2>6, <2>9, QuietAuthority, Zenon
<1>9. CASE TransferItem(t)
    <2> DEFINE s(i) == slots[call[t].src][i]
    <2>1. PICK i \in Handles :
             /\ "grant" \in s(i).rights
             /\ call' = [call EXCEPT ![t] = [call[t] EXCEPT !.at = "insert", !.left = @ - 1,
                             !.obj = s(i).obj, !.rights = s(i).rights, !.held = 1]]
        BY <1>9, Zenon DEF TransferItem
    <2> DEFINE c == [call[t] EXCEPT !.at = "insert", !.left = call[t].left - 1,
                             !.obj = s(i).obj, !.rights = s(i).rights, !.held = 1]
    <2>2. call[t].at = "item" /\ lock' = lock /\ slots' = slots /\ call' = [call EXCEPT ![t] = c]
        BY <1>9, <2>1, Zenon DEF TransferItem, tables
    <2>3. /\ c.at = "insert" /\ c.kind = call[t].kind /\ c.rights = s(i).rights
          /\ c.src = call[t].src /\ c.dst = call[t].dst
        BY <1>0, Zenon DEF Call
    <2>4. call[t].kind = "transfer"
        BY <1>a, <2>2, Zenon DEF LocksSuit, Placed
    <2> HIDE DEF c
    <2>5. Keeps(t, c, lock') /\ Vouched(c, slots)
        BY <1>a, <2>1, <2>2, <2>3, <2>4, Zenon DEF Keeps, Vouched
    <2> QED
        BY <2>2, <2>5, QuietAuthority, Zenon
<1>10. CASE TransferEnd(t)
    <2>1. /\ call' = [call EXCEPT ![t] = NoCall] /\ slots' = slots
          /\ \A q \in Processes, u \in Threads \ {t} : lock[q] = u => lock'[q] = u
        BY <1>10, Zenon DEF TransferEnd, tables, Unlocked
    <2>2. Keeps(t, NoCall, lock') /\ Vouched(NoCall, slots)
        BY AtRest DEF NoCall
    <2> QED
        BY <2>1, <2>2, QuietAuthority, Zenon
<1>11. CASE InsertHeld(t)
    <2>1. /\ MayInsert(call[t]) /\ AfterInsert(t)
          /\ \/ MoveSlot(call[t].dst, call[t].handle, call[t].obj, call[t].rights)
             \/ Insert(call[t].dst, call[t].obj, call[t].rights)
        BY <1>11, Zenon DEF InsertHeld
    <2>2. \A p \in Processes : p # call[t].dst => slots'[p] = slots[p]
        BY <1>0, <2>1, Zenon DEF MoveSlot, Insert, LockInv, SlotsTyped
    <2> QED
        BY <2>1, <2>2, AfterInsertAuthority, Zenon
<1>12. CASE InsertFull(t)
    <2>1. MayInsert(call[t]) /\ AfterInsert(t) /\ slots' = slots
        BY <1>12, Zenon DEF InsertFull, tables
    <2> QED
        BY <2>1, AfterInsertAuthority, Zenon
<1>13. CASE Delete(t)
    <2>1. PICK i \in Handles : lock[ProcessOf[t]] = None /\ RemoveLocked(ProcessOf[t], i)
        BY <1>13, Zenon DEF Delete
    <2>2. call' = call /\ lock' = lock /\ call[t] = NoCall
        BY <1>13, Zenon DEF Delete
    <2>3. \A q \in Processes : q # ProcessOf[t] => slots'[q] = slots[q]
        BY <1>0, <2>1, Zenon DEF RemoveLocked, LockInv, SlotsTyped
    <2>4. call' = [call EXCEPT ![t] = NoCall]
        BY <1>0, <2>2, Zenon DEF LockInv
    <2>5. \A q \in Processes, u \in Threads \ {t} : lock[q] = u => lock'[q] = u /\ slots'[q] = slots[q]
        BY <2>1, <2>2, <2>3, TableAssumption, Zenon
    <2>6. Keeps(t, NoCall, lock') /\ Vouched(NoCall, slots')
        BY AtRest DEF NoCall
    <2> QED
        BY <2>4, <2>5, <2>6, StepAuthority, Zenon
<1>14. CASE Revoke(t)
    <2>1. call' = call /\ lock' = lock /\ slots' = slots
        BY <1>14, Zenon DEF Revoke, tables
    <2> QED
        BY <2>1, Zenon DEF AuthorityInv, AuthorityHeld
<1> QED
    BY <1>1, <1>2, <1>3, <1>4, <1>5, <1>6, <1>7, <1>8, <1>9, <1>10, <1>11, <1>12, <1>13, <1>14, Zenon DEF ThreadStep

\* The end of a process changes a table that nobody has locked.
LEMMA ExitKeepsAuthority ==
    ASSUME AuthorityInv, NEW p \in Processes, Exit(p)
    PROVE  AuthorityHeld'
<1>1. /\ call' = call /\ lock' = lock /\ lock[p] = None
      /\ \A q \in Processes : q # p => slots'[q] = slots[q]
    BY Zenon DEF Exit, AuthorityInv, LockInv, SlotsTyped
<1>2. ASSUME NEW t \in Threads
      PROVE  Keeps(t, call[t], lock) /\ Vouched(call[t], slots')
    <2>1. LocksSuit(t, call[t], lock) /\ Keeps(t, call[t], lock) /\ Vouched(call[t], slots)
        BY Zenon DEF AuthorityInv, AuthorityHeld, LockInv, LocksHeld
    <2>2. call[t].at = "insert" => call[t].dst \in Processes /\ call[t].dst # p
        BY <1>1, <2>1, TableAssumption, Zenon DEF LocksSuit, Placed, Keeps
    <2> QED
        BY <1>1, <2>1, <2>2, Zenon DEF Vouched
<1> QED
    BY <1>1, <1>2, Zenon DEF AuthorityHeld

\* Every behaviour keeps AuthorityInv.
THEOREM AuthorityInvHolds == Spec => []AuthorityInv
<1>1. Init => AuthorityHeld
    <2>1. \A t, l, s : Keeps(t, NoCall, l) /\ Vouched(NoCall, s)
        BY DEF NoCall, Keeps, Vouched
    <2> QED
        BY <2>1 DEF Init, AuthorityHeld
<1>2. AuthorityInv /\ LockInv' /\ [Next]_vars => AuthorityInv'
    <2> SUFFICES ASSUME AuthorityInv, [Next]_vars PROVE AuthorityHeld'
        BY Zenon DEF AuthorityInv
    <2>1. ASSUME UNCHANGED vars PROVE AuthorityHeld'
        BY <2>1, Zenon DEF vars, tables, AuthorityInv, AuthorityHeld
    <2> QED
        BY <2>1, ThreadKeepsAuthority, ExitKeepsAuthority, Zenon DEF Next
<1>3. Init /\ LockInv => AuthorityInv
    BY <1>1, Zenon DEF AuthorityInv
<1> QED
    BY <1>2, <1>3, LockInvHolds, PTL DEF Spec

\* No chain of copies, moves, clones and transfers adds up to authority that
\* nobody granted: a slot with rights that its process did not have comes from
\* the creation of the object, or from a clone or transfer of a slot with grant.
THEOREM AuthorityIsGranted == Spec => NoAmplification
<1> DEFINE Granted ==
        \A p \in Processes, o \in Objects, i \in Handles :
          slots'[p][i].obj = o /\ slots'[p][i] # slots[p][i]
             /\ ~(\E r \in Has(p, o) : slots'[p][i].rights \subseteq r) =>
          \E t \in Threads :
             /\ call[t].at \in {"insert", "relock"} /\ call[t].obj = o /\ call[t].dst = p
             /\ \/ call[t].kind = "create"
                \/ call[t].kind \in {"clone", "transfer"} /\ "grant" \in call[t].rights
<1>1. AuthorityInv /\ [Next]_vars => [Granted]_vars
    <2> SUFFICES ASSUME AuthorityInv, Next,
                        NEW p \in Processes, NEW o \in Objects, NEW i \in Handles,
                        slots'[p][i].obj = o, slots'[p][i] # slots[p][i],
                        ~(\E r \in Has(p, o) : slots'[p][i].rights \subseteq r)
                 PROVE  \E t \in Threads :
                           /\ call[t].at \in {"insert", "relock"} /\ call[t].obj = o /\ call[t].dst = p
                           /\ \/ call[t].kind = "create"
                              \/ call[t].kind \in {"clone", "transfer"} /\ "grant" \in call[t].rights
        OBVIOUS
    <2>0. SlotsTyped /\ o # None
        BY TableAssumption, Zenon DEF AuthorityInv, LockInv
    <2>1. ASSUME NEW q \in Processes, Exit(q) PROVE FALSE
        <3>1. p # q => slots'[p] = slots[p]
            BY <2>0, <2>1, Zenon DEF Exit, SlotsTyped
        <3>2. slots'[q] = Chained(q)
            BY <2>0, <2>1, Zenon DEF Exit, SlotsTyped
        <3>3. Chained(q)[i] = slots[q][i] \/ Chained(q)[i].obj = None
            BY Zenon DEF Chained, Free
        <3> QED
            BY <2>0, <3>1, <3>2, <3>3, Zenon
    <2>2. ASSUME NEW t \in Threads, Delete(t) PROVE FALSE
        <3>1. PICK j \in Handles : RemoveLocked(ProcessOf[t], j)
            BY <2>2, Zenon DEF Delete
        <3>2. slots'[p][i] = slots[p][i] \/ slots'[p][i].obj = None
            <4> DEFINE emptied == Free(free_head[ProcessOf[t]])
                       row == [slots[ProcessOf[t]] EXCEPT ![j] = emptied]
            <4>1. emptied.obj = None /\ ProcessOf[t] \in Processes
                BY SlotRecords, TableAssumption, Zenon
            <4>2. slots' = [slots EXCEPT ![ProcessOf[t]] = row]
                BY <3>1, Zenon DEF RemoveLocked
            <4> HIDE DEF emptied
            <4>3. row[i] \in {slots[ProcessOf[t]][i], emptied}
                BY <2>0, <4>1, RowUpdate DEF SlotsTyped
            <4> HIDE DEF row
            <4>4. slots'[p] = IF p = ProcessOf[t] THEN row ELSE slots[p]
                BY <2>0, <4>1, <4>2, TableUpdate
            <4> QED
                BY <4>1, <4>3, <4>4, Zenon
        <3> QED
            BY <2>0, <3>2, Zenon
    <2>3. PICK t \in Threads : InsertHeld(t)
        <3>1. slots' # slots
            BY Zenon
        <3> QED
            BY <2>1, <2>2, <3>1, Zenon DEF Next, ThreadStep, tables, Create, Invoke, Clone, Drop, Copy, Move,
               TransferLock, TransferSecond, TransferItem, TransferEnd, InsertFull, Revoke
    <2> DEFINE c == call[t]
    <2>4. MayInsert(c) /\ (MoveSlot(c.dst, c.handle, c.obj, c.rights) \/ Insert(c.dst, c.obj, c.rights))
        BY <2>3, Zenon DEF InsertHeld
    <2>5. LocksSuit(t, c, lock) /\ Vouched(c, slots)
        BY Zenon DEF AuthorityInv, AuthorityHeld, LockInv, LocksHeld
    <2>6. c.at \in {"insert", "relock"} /\ c.dst \in Processes
        BY <2>4, <2>5, Zenon DEF MayInsert, LocksSuit, Placed
    <2>7. c.dst = p /\ c.obj = o /\ slots'[p][i].rights = c.rights
        <3> DEFINE filled == [obj |-> c.obj, rights |-> c.rights, gen |-> generation[c.obj], next |-> NullSlot]
                   emptied == Free(slots[c.dst][free_head[c.dst]].next)
        <3>1. filled.obj = c.obj /\ filled.rights = c.rights /\ emptied.obj = None
            BY SlotRecords, Zenon
        <3>2. CASE Insert(c.dst, c.obj, c.rights)
            <4>1. slots' = [slots EXCEPT ![c.dst][free_head[c.dst]] = filled]
                BY <3>2, Zenon DEF Insert
            <4> HIDE DEF filled, emptied
            <4> DEFINE row == [slots[c.dst] EXCEPT ![free_head[c.dst]] = filled]
            <4>2. slots' = [slots EXCEPT ![c.dst] = row]
                BY <4>1, Zenon
            <4>3. row[i] \in {slots[c.dst][i], filled}
                BY <2>0, <2>6, RowUpdate DEF SlotsTyped
            <4> HIDE DEF row
            <4>4. slots'[p] = IF p = c.dst THEN row ELSE slots[p]
                BY <2>0, <2>6, <4>2, TableUpdate
            <4> QED
                BY <3>1, <4>3, <4>4, Zenon
        <3>3. CASE MoveSlot(c.dst, c.handle, c.obj, c.rights)
            <4>1. slots' = [slots EXCEPT ![c.dst][free_head[c.dst]] = filled, ![c.dst][c.handle] = emptied]
                BY <3>3, Zenon DEF MoveSlot
            <4> HIDE DEF filled, emptied
            <4> DEFINE part == [slots[c.dst] EXCEPT ![free_head[c.dst]] = filled]
                       row == [part EXCEPT ![c.handle] = emptied]
            <4>2. slots' = [slots EXCEPT ![c.dst] = row]
                BY <2>0, <2>6, <4>1, Zenon DEF SlotsTyped
            <4>3. part[i] \in {slots[c.dst][i], filled} /\ part = [j \in Handles |-> part[j]]
                BY <2>0, <2>6, RowUpdate DEF SlotsTyped
            <4> HIDE DEF part
            <4>4. row[i] \in {part[i], emptied}
                BY <4>3, RowUpdate, Zenon
            <4> HIDE DEF row
            <4>5. slots'[p] = IF p = c.dst THEN row ELSE slots[p]
                BY <2>0, <2>6, <4>2, TableUpdate
            <4> QED
                BY <2>0, <3>1, <4>3, <4>4, <4>5, Zenon
        <3> QED
            BY <2>4, <3>2, <3>3, Zenon
    <2>8. c.kind \notin {"copy", "move"}
        <3> SUFFICES ASSUME c.kind \in {"copy", "move"} PROVE FALSE
            BY Zenon
        <3>1. c.at = "insert"
            BY <2>5, <2>6, Zenon DEF Vouched
        <3>2. PICK j \in Handles : slots[c.dst][j].obj = c.obj /\ c.rights \subseteq slots[c.dst][j].rights
            BY <2>5, <3>1, Zenon DEF Vouched
        <3>3. slots[p][j].rights \in Has(p, o) /\ c.rights \subseteq slots[p][j].rights
            BY <2>7, <3>2, Zenon DEF Has, SlotsNaming
        <3> QED
            BY <2>7, <3>3, Zenon
    <2> QED
        BY <2>5, <2>6, <2>7, <2>8, Zenon DEF Vouched
<1>2. NoAmplification <=> [][Granted]_vars
    BY PTL DEF NoAmplification
<1> HIDE DEF Granted
<1> QED
    BY <1>1, <1>2, AuthorityInvHolds, PTL DEF Spec

----------------------------------------------------------------------------
(* References.  An object's count is the number of slots that name it and of  *)
(* the references that calls hold.                                            *)

Naming(s, o) == {x \in Processes \X Handles : s[x[1]][x[2]].obj = o}

HeldFor(cs, o) == {x \in Threads \X {1, 2} : cs[x[1]].obj = o /\ x[2] <= cs[x[1]].held}

\* The references to an object that a call holds.
Own(c, o) == IF c.obj = o THEN c.held ELSE 0

Exact ==
    \A o \in Objects : refs[o] = Cardinality(Naming(slots, o)) + Cardinality(HeldFor(call, o))

\* What a call has in its hands at each of its steps.
HoldsOk(c, s) ==
    /\ c.at \in {"relock", "insert", "drop"} => c.obj \in Objects
    /\ c.held = IF c.at \in {"idle", "second", "item"} THEN 0 ELSE IF c.kind = "clone" THEN 2 ELSE 1
    /\ c.kind = "clone" => c.at = "relock"
    /\ c.kind = "move" => c.at = "insert" /\ s[c.dst][c.handle].obj = c.obj

Holding == \A t \in Threads : HoldsOk(call[t], slots)

----------------------------------------------------------------------------
(* What the steps of a thread do to references *)

\* A step that changes no table: the thread's call changes, and the counts by
\* what it holds more or less.
Quiet(t) ==
    /\ call' = [call EXCEPT ![t] = call'[t]] /\ slots' = slots /\ free_head' = free_head
    /\ HoldsOk(call'[t], slots)
    /\ refs' \in [Objects -> Int]
    /\ \A o \in Objects : refs'[o] = refs[o] - Own(call[t], o) + Own(call'[t], o)

\* The call that it becomes holds the contents of a valid slot, if any.
Copies(t) ==
    call'[t].at \in {"relock", "insert"} =>
        \E p \in Processes, i \in Handles : Valid(p, i) /\ slots[p][i].obj = call'[t].obj

Base == AuthorityInv /\ TypeOK /\ Holding

\* A call that holds nothing begins to hold references.
LEMMA RefOwn ==
    ASSUME refs \in [Objects -> Nat], NEW d, d.held = 0, NEW c, NEW o \in Objects, NEW n \in 0..2,
           c.obj = o, c.held = n, Ref(o, n)
    PROVE  /\ refs' \in [Objects -> Int]
           /\ \A x \in Objects : refs'[x] = refs[x] - Own(d, x) + Own(c, x)
  BY DEF Ref, Own

\* A call gives references up.
LEMMA UnrefOwn ==
    ASSUME refs \in [Objects -> Nat], NEW d, NEW c, NEW o \in Objects, NEW n \in 0..2, d.held \in 0..2,
           d.obj = o, c.held = d.held - n, c.obj = o \/ c.held = 0, Unref(o, n)
    PROVE  /\ refs' \in [Objects -> Int]
           /\ \A x \in Objects : refs'[x] = refs[x] - Own(d, x) + Own(c, x)
  BY DEF Unref, Own

\* Neither call holds anything.
LEMMA NoneOwn ==
    ASSUME refs \in [Objects -> Nat], NEW d, d.held = 0, NEW c, c.held = 0, refs' = refs
    PROVE  /\ refs' \in [Objects -> Int]
           /\ \A x \in Objects : refs'[x] = refs[x] - Own(d, x) + Own(c, x)
  BY DEF Own

\* What the lemmas below need of the state.
LEMMA BaseFacts ==
    ASSUME Base, NEW t \in Threads
    PROVE  /\ call \in [Threads -> Call] /\ call[t] \in Call /\ HoldsOk(call[t], slots)
           /\ ProcessOf[t] \in Processes /\ refs \in [Objects -> Nat]
           /\ \A p \in Processes, i \in Handles : Used(p, i) => slots[p][i].obj \in Objects
           /\ LockInv /\ Placed(call[t])
<1>1. call \in [Threads -> Call] /\ LockInv /\ refs \in [Objects -> Nat]
  BY Zenon DEF Base, AuthorityInv, LockInv, TypeOK
<1>2. \A p \in Processes, i \in Handles : Used(p, i) => slots[p][i].obj \in Objects
  BY <1>1, Zenon DEF LockInv, SlotsTyped, Used
<1>3. HoldsOk(call[t], slots) /\ ProcessOf[t] \in Processes
  BY TableAssumption, Zenon DEF Base, Holding
<1>4. Placed(call[t])
  BY <1>1, Zenon DEF LockInv, LocksHeld, LocksSuit
<1> QED
  BY <1>1, <1>2, <1>3, <1>4, Zenon

LEMMA InvokeQuiet == ASSUME Base, NEW t \in Threads, Invoke(t) PROVE Quiet(t) /\ Copies(t)
<1> DEFINE s(i) == slots[ProcessOf[t]][i]
           c(i) == [NoCall EXCEPT !.kind = "use", !.at = "drop", !.obj = s(i).obj, !.held = 1]
<1>1. PICK i \in Handles : Valid(ProcessOf[t], i) /\ Ref(s(i).obj, 1) /\ call' = [call EXCEPT ![t] = c(i)]
  BY Zenon DEF Invoke, Begin
<1>2. call[t] = NoCall /\ slots' = slots /\ free_head' = free_head
  BY Zenon DEF Invoke, tables
<1>3. s(i).obj \in Objects
  BY <1>1, BaseFacts, Zenon DEF Valid
<1>4. c(i).kind = "use" /\ c(i).at = "drop" /\ c(i).obj = s(i).obj /\ c(i).held = 1 /\ NoCall.held = 0
  BY Zenon DEF NoCall
<1> HIDE DEF c
<1>5. call'[t] = c(i) /\ call' = [call EXCEPT ![t] = call'[t]]
  BY <1>1, BaseFacts, Zenon
<1> HIDE DEF s
<1>6. HoldsOk(c(i), slots)
  BY <1>3, <1>4, Zenon DEF HoldsOk
<1>7. /\ refs' \in [Objects -> Int]
      /\ \A x \in Objects : refs'[x] = refs[x] - Own(NoCall, x) + Own(c(i), x)
  <2>1. 1 \in 0..2
    OBVIOUS
  <2> QED
    BY <1>1, <1>3, <1>4, <2>1, BaseFacts, RefOwn, Zenon
<1>8. Quiet(t)
  BY <1>2, <1>5, <1>6, <1>7, Zenon DEF Quiet
<1>9. Copies(t)
  BY <1>4, <1>5, Zenon DEF Copies
<1> QED
  BY <1>8, <1>9, Zenon

LEMMA CloneQuiet == ASSUME Base, NEW t \in Threads, Clone(t) PROVE Quiet(t) /\ Copies(t)
<1> DEFINE s(i) == slots[ProcessOf[t]][i]
           c(i) == [NoCall EXCEPT !.kind = "clone", !.at = "relock", !.dst = ProcessOf[t],
                                  !.obj = s(i).obj, !.rights = s(i).rights, !.held = 2]
<1>1. PICK i \in Handles : Valid(ProcessOf[t], i) /\ Ref(s(i).obj, 2) /\ call' = [call EXCEPT ![t] = c(i)]
  BY Zenon DEF Clone, Begin
<1>2. call[t] = NoCall /\ slots' = slots /\ free_head' = free_head
  BY Zenon DEF Clone, tables
<1>3. s(i).obj \in Objects
  BY <1>1, BaseFacts, Zenon DEF Valid
<1>4. c(i).kind = "clone" /\ c(i).at = "relock" /\ c(i).obj = s(i).obj /\ c(i).held = 2 /\ NoCall.held = 0
  BY Zenon DEF NoCall
<1> HIDE DEF c
<1>5. call'[t] = c(i) /\ call' = [call EXCEPT ![t] = call'[t]]
  BY <1>1, BaseFacts, Zenon
<1>9. Copies(t)
  BY <1>1, <1>4, <1>5, BaseFacts, Zenon DEF Copies
<1> HIDE DEF s
<1>6. HoldsOk(c(i), slots)
  BY <1>3, <1>4, Zenon DEF HoldsOk
<1>7. /\ refs' \in [Objects -> Int]
      /\ \A x \in Objects : refs'[x] = refs[x] - Own(NoCall, x) + Own(c(i), x)
  <2>1. 2 \in 0..2
    OBVIOUS
  <2> QED
    BY <1>1, <1>3, <1>4, <2>1, BaseFacts, RefOwn, Zenon
<1>8. Quiet(t)
  BY <1>2, <1>5, <1>6, <1>7, Zenon DEF Quiet
<1> QED
  BY <1>8, <1>9, Zenon

LEMMA CopyQuiet == ASSUME Base, NEW t \in Threads, Copy(t) PROVE Quiet(t) /\ Copies(t)
<1> DEFINE s(i) == slots[ProcessOf[t]][i]
           c(i, r) == [NoCall EXCEPT !.kind = "copy", !.at = "insert", !.dst = ProcessOf[t],
                                     !.obj = s(i).obj, !.rights = r, !.held = 1]
<1>1. PICK i \in Handles, r \in SUBSET Rights :
        Valid(ProcessOf[t], i) /\ Ref(s(i).obj, 1) /\ call' = [call EXCEPT ![t] = c(i, r)]
  BY Zenon DEF Copy, Begin
<1>2. call[t] = NoCall /\ slots' = slots /\ free_head' = free_head
  BY Zenon DEF Copy, tables
<1>3. s(i).obj \in Objects
  BY <1>1, BaseFacts, Zenon DEF Valid
<1>4. /\ c(i, r).kind = "copy" /\ c(i, r).at = "insert" /\ c(i, r).obj = s(i).obj /\ c(i, r).held = 1
      /\ NoCall.held = 0
  BY Zenon DEF NoCall
<1> HIDE DEF c
<1>5. call'[t] = c(i, r) /\ call' = [call EXCEPT ![t] = call'[t]]
  BY <1>1, BaseFacts, Zenon
<1>9. Copies(t)
  BY <1>1, <1>4, <1>5, BaseFacts, Zenon DEF Copies
<1> HIDE DEF s
<1>6. HoldsOk(c(i, r), slots)
  BY <1>3, <1>4, Zenon DEF HoldsOk
<1>7. /\ refs' \in [Objects -> Int]
      /\ \A x \in Objects : refs'[x] = refs[x] - Own(NoCall, x) + Own(c(i, r), x)
  <2>1. 1 \in 0..2
    OBVIOUS
  <2> QED
    BY <1>1, <1>3, <1>4, <2>1, BaseFacts, RefOwn, Zenon
<1>8. Quiet(t)
  BY <1>2, <1>5, <1>6, <1>7, Zenon DEF Quiet
<1> QED
  BY <1>8, <1>9, Zenon

LEMMA MoveQuiet == ASSUME Base, NEW t \in Threads, Move(t) PROVE Quiet(t) /\ Copies(t)
<1> DEFINE s(i) == slots[ProcessOf[t]][i]
           c(i) == [NoCall EXCEPT !.kind = "move", !.at = "insert", !.src = ProcessOf[t], !.dst = ProcessOf[t],
                                  !.handle = i, !.obj = s(i).obj, !.rights = s(i).rights, !.held = 1]
<1>1. PICK i \in Handles : Valid(ProcessOf[t], i) /\ Ref(s(i).obj, 1) /\ call' = [call EXCEPT ![t] = c(i)]
  BY Zenon DEF Move, Begin
<1>2. call[t] = NoCall /\ slots' = slots /\ free_head' = free_head
  BY Zenon DEF Move, tables
<1>3. s(i).obj \in Objects
  BY <1>1, BaseFacts, Zenon DEF Valid
<1>4. /\ c(i).kind = "move" /\ c(i).at = "insert" /\ c(i).dst = ProcessOf[t] /\ c(i).handle = i
      /\ c(i).obj = s(i).obj /\ c(i).held = 1 /\ NoCall.held = 0
  BY Zenon DEF NoCall
<1> HIDE DEF c
<1>5. call'[t] = c(i) /\ call' = [call EXCEPT ![t] = call'[t]]
  BY <1>1, BaseFacts, Zenon
<1>9. Copies(t)
  BY <1>1, <1>4, <1>5, BaseFacts, Zenon DEF Copies
<1>6. HoldsOk(c(i), slots)
  BY <1>3, <1>4, Zenon DEF HoldsOk
<1> HIDE DEF s
<1>7. /\ refs' \in [Objects -> Int]
      /\ \A x \in Objects : refs'[x] = refs[x] - Own(NoCall, x) + Own(c(i), x)
  <2>1. 1 \in 0..2
    OBVIOUS
  <2> QED
    BY <1>1, <1>3, <1>4, <2>1, BaseFacts, RefOwn, Zenon
<1>8. Quiet(t)
  BY <1>2, <1>5, <1>6, <1>7, Zenon DEF Quiet
<1> QED
  BY <1>8, <1>9, Zenon

LEMMA CreateQuiet ==
    ASSUME Base, NEW t \in Threads, Create(t)
    PROVE  /\ Quiet(t) /\ call'[t].at = "relock" /\ call'[t].obj \in Objects /\ refs[call'[t].obj] = 0
           /\ generation' = [generation EXCEPT ![call'[t].obj] = 0] /\ raced' = raced \ {call'[t].obj}
<1> DEFINE c(o) == [NoCall EXCEPT !.kind = "create", !.at = "relock", !.dst = ProcessOf[t],
                                  !.obj = o, !.rights = Rights, !.held = 1]
<1>1. PICK o \in Objects :
        /\ refs[o] = 0 /\ Ref(o, 1) /\ call' = [call EXCEPT ![t] = c(o)]
        /\ generation' = [generation EXCEPT ![o] = 0] /\ raced' = raced \ {o}
  BY Zenon DEF Create, Begin
<1>2. call[t] = NoCall /\ slots' = slots /\ free_head' = free_head
  BY Zenon DEF Create, tables
<1>4. c(o).kind = "create" /\ c(o).at = "relock" /\ c(o).obj = o /\ c(o).held = 1 /\ NoCall.held = 0
  BY Zenon DEF NoCall
<1> HIDE DEF c
<1>5. call'[t] = c(o) /\ call' = [call EXCEPT ![t] = call'[t]]
  BY <1>1, BaseFacts, Zenon
<1>6. HoldsOk(c(o), slots)
  BY <1>4, Zenon DEF HoldsOk
<1>7. /\ refs' \in [Objects -> Int]
      /\ \A x \in Objects : refs'[x] = refs[x] - Own(NoCall, x) + Own(c(o), x)
  <2>1. 1 \in 0..2
    OBVIOUS
  <2> QED
    BY <1>1, <1>4, <2>1, BaseFacts, RefOwn, Zenon
<1>8. Quiet(t)
  BY <1>2, <1>5, <1>6, <1>7, Zenon DEF Quiet
<1> QED
  BY <1>1, <1>4, <1>5, <1>8, Zenon

LEMMA DropQuiet == ASSUME Base, NEW t \in Threads, Drop(t) PROVE Quiet(t) /\ Copies(t)
<1>1. /\ call[t].at = "drop" /\ Unref(call[t].obj, call[t].held) /\ call' = [call EXCEPT ![t] = NoCall]
      /\ slots' = slots /\ free_head' = free_head
  BY Zenon DEF Drop, tables
<1>2. call'[t] = NoCall /\ call' = [call EXCEPT ![t] = call'[t]]
  BY <1>1, BaseFacts, Zenon
<1>3. NoCall.at = "idle" /\ NoCall.held = 0 /\ NoCall.kind = "none"
  BY Zenon DEF NoCall
<1>4. HoldsOk(NoCall, slots)
  BY <1>3, Zenon DEF HoldsOk
<1>5. call[t].obj \in Objects /\ call[t].held = 1
  BY <1>1, BaseFacts, Zenon DEF HoldsOk
<1>6. /\ refs' \in [Objects -> Int]
      /\ \A x \in Objects : refs'[x] = refs[x] - Own(call[t], x) + Own(NoCall, x)
  <2>1. 1 \in 0..2 /\ call[t].held \in 0..2 /\ NoCall.held = call[t].held - 1
    BY <1>3, <1>5
  <2>2. refs \in [Objects -> Nat] /\ Unref(call[t].obj, 1)
    BY <1>1, <1>5, BaseFacts, Zenon
  <2> QED
    BY <1>3, <1>5, <2>1, <2>2, UnrefOwn, Zenon
<1>7. Quiet(t)
  BY <1>1, <1>2, <1>4, <1>6, Zenon DEF Quiet
<1>8. Copies(t)
  BY <1>2, <1>3, Zenon DEF Copies
<1> QED
  BY <1>7, <1>8, Zenon

LEMMA TransferLockQuiet == ASSUME Base, NEW t \in Threads, TransferLock(t) PROVE Quiet(t) /\ Copies(t)
<1> DEFINE c(src, dst) == [NoCall EXCEPT !.kind = "transfer", !.at = IF src = dst THEN "item" ELSE "second",
                                         !.src = src, !.dst = dst, !.left = MessageCaps]
<1>1. PICK src \in Processes, dst \in Processes : call' = [call EXCEPT ![t] = c(src, dst)]
  BY Zenon DEF TransferLock, Begin
<1>2. call[t] = NoCall /\ slots' = slots /\ free_head' = free_head /\ refs' = refs
  BY Zenon DEF TransferLock, tables
<1>4. /\ c(src, dst).kind = "transfer" /\ c(src, dst).at \in {"item", "second"} /\ c(src, dst).held = 0
      /\ NoCall.held = 0
  BY Zenon DEF NoCall
<1> HIDE DEF c
<1>5. call'[t] = c(src, dst) /\ call' = [call EXCEPT ![t] = call'[t]]
  BY <1>1, BaseFacts, Zenon
<1>6. HoldsOk(c(src, dst), slots)
  BY <1>4, Zenon DEF HoldsOk
<1>7. /\ refs' \in [Objects -> Int]
      /\ \A x \in Objects : refs'[x] = refs[x] - Own(NoCall, x) + Own(c(src, dst), x)
  BY <1>2, <1>4, BaseFacts, NoneOwn, Zenon
<1>8. Quiet(t)
  BY <1>2, <1>5, <1>6, <1>7, Zenon DEF Quiet
<1>9. Copies(t)
  BY <1>4, <1>5, Zenon DEF Copies
<1> QED
  BY <1>8, <1>9, Zenon

LEMMA TransferSecondQuiet == ASSUME Base, NEW t \in Threads, TransferSecond(t) PROVE Quiet(t) /\ Copies(t)
<1> DEFINE c == [call[t] EXCEPT !.at = "item"]
<1>1. /\ call[t].at = "second" /\ slots' = slots /\ free_head' = free_head /\ refs' = refs
      /\ call' = [call EXCEPT ![t] = c]
  BY Zenon DEF TransferSecond, tables
<1>2. call[t] \in Call /\ HoldsOk(call[t], slots)
  BY BaseFacts, Zenon
<1>3. c.kind = call[t].kind /\ c.at = "item" /\ c.held = call[t].held
  BY <1>2, Zenon DEF Call
<1>4. call[t].held = 0 /\ call[t].kind \notin {"clone", "move"}
  BY <1>1, <1>2, Zenon DEF HoldsOk
<1> HIDE DEF c
<1>5. call'[t] = c /\ call' = [call EXCEPT ![t] = call'[t]]
  BY <1>1, BaseFacts, Zenon
<1>6. HoldsOk(c, slots)
  BY <1>3, <1>4, Zenon DEF HoldsOk
<1>7. /\ refs' \in [Objects -> Int]
      /\ \A x \in Objects : refs'[x] = refs[x] - Own(call[t], x) + Own(c, x)
  BY <1>1, <1>3, <1>4, BaseFacts, NoneOwn, Zenon
<1>8. Quiet(t)
  BY <1>1, <1>5, <1>6, <1>7, Zenon DEF Quiet
<1>9. Copies(t)
  BY <1>3, <1>5, Zenon DEF Copies
<1> QED
  BY <1>8, <1>9, Zenon

LEMMA TransferItemQuiet == ASSUME Base, NEW t \in Threads, TransferItem(t) PROVE Quiet(t) /\ Copies(t)
<1> DEFINE s(i) == slots[call[t].src][i]
           c(i) == [call[t] EXCEPT !.at = "insert", !.left = @ - 1, !.obj = s(i).obj, !.rights = s(i).rights,
                                   !.held = 1]
<1>1. PICK i \in Handles : Valid(call[t].src, i) /\ Ref(s(i).obj, 1) /\ call' = [call EXCEPT ![t] = c(i)]
  BY Zenon DEF TransferItem
<1>2. call[t].at = "item" /\ slots' = slots /\ free_head' = free_head
  BY Zenon DEF TransferItem, tables
<1>a. call[t] \in Call /\ HoldsOk(call[t], slots)
  BY BaseFacts, Zenon
<1>b. call[t].src \in Processes
  BY <1>2, BaseFacts, Zenon DEF Placed
<1>3. s(i).obj \in Objects
  BY <1>1, <1>b, BaseFacts, Zenon DEF Valid
<1>4. c(i).kind = call[t].kind /\ c(i).at = "insert" /\ c(i).obj = s(i).obj /\ c(i).held = 1
  BY <1>a, Zenon DEF Call
<1>c. call[t].held = 0 /\ call[t].kind \notin {"clone", "move"}
  BY <1>2, <1>a, Zenon DEF HoldsOk
<1> HIDE DEF c
<1>5. call'[t] = c(i) /\ call' = [call EXCEPT ![t] = call'[t]]
  BY <1>1, BaseFacts, Zenon
<1>9. Copies(t)
  BY <1>1, <1>4, <1>5, <1>b, Zenon DEF Copies
<1> HIDE DEF s
<1>6. HoldsOk(c(i), slots)
  BY <1>3, <1>4, <1>c DEF HoldsOk
<1>7. /\ refs' \in [Objects -> Int]
      /\ \A x \in Objects : refs'[x] = refs[x] - Own(call[t], x) + Own(c(i), x)
  <2>1. 1 \in 0..2
    OBVIOUS
  <2>2. refs \in [Objects -> Nat]
    BY BaseFacts, Zenon
  <2> QED
    BY <1>1, <1>3, <1>4, <1>c, <2>1, <2>2, RefOwn, Zenon
<1>8. Quiet(t)
  BY <1>2, <1>5, <1>6, <1>7, Zenon DEF Quiet
<1> QED
  BY <1>8, <1>9, Zenon

LEMMA TransferEndQuiet == ASSUME Base, NEW t \in Threads, TransferEnd(t) PROVE Quiet(t) /\ Copies(t)
<1>1. /\ call[t].at = "item" /\ call' = [call EXCEPT ![t] = NoCall]
      /\ slots' = slots /\ free_head' = free_head /\ refs' = refs
  BY Zenon DEF TransferEnd, tables
<1>2. call'[t] = NoCall /\ call' = [call EXCEPT ![t] = call'[t]]
  BY <1>1, BaseFacts, Zenon
<1>3. NoCall.at = "idle" /\ NoCall.held = 0 /\ NoCall.kind = "none"
  BY Zenon DEF NoCall
<1>4. HoldsOk(NoCall, slots)
  BY <1>3, Zenon DEF HoldsOk
<1>5. call[t].held = 0
  BY <1>1, BaseFacts, Zenon DEF HoldsOk
<1>6. /\ refs' \in [Objects -> Int]
      /\ \A x \in Objects : refs'[x] = refs[x] - Own(call[t], x) + Own(NoCall, x)
  BY <1>1, <1>3, <1>5, BaseFacts, NoneOwn, Zenon
<1>7. Quiet(t)
  BY <1>1, <1>2, <1>4, <1>6, Zenon DEF Quiet
<1>8. Copies(t)
  BY <1>2, <1>3, Zenon DEF Copies
<1> QED
  BY <1>7, <1>8, Zenon

\* What a call is after its insertion: one reference less, for the same object.
LEMMA AfterInsertHolds ==
    ASSUME Base, NEW t \in Threads, MayInsert(call[t]), AfterInsert(t), NEW s
    PROVE  /\ call' = [call EXCEPT ![t] = call'[t]]
           /\ call'[t].at \in {"idle", "item", "drop"} /\ HoldsOk(call'[t], s)
           /\ call[t].obj \in Objects /\ call[t].held \in {1, 2} /\ call'[t].held = call[t].held - 1
           /\ call'[t].obj = call[t].obj \/ call'[t].held = 0
<1> DEFINE d == call[t]
           c == IF d.kind = "transfer" THEN [d EXCEPT !.at = "item", !.obj = None, !.rights = {}, !.held = 0]
                ELSE IF d.kind = "clone" THEN [NoCall EXCEPT !.kind = "use", !.at = "drop", !.obj = d.obj, !.held = 1]
                ELSE NoCall
<1>1. call' = [call EXCEPT ![t] = c]
  BY Zenon DEF AfterInsert
<1>2. d \in Call /\ HoldsOk(d, slots) /\ d.at \in {"insert", "relock"}
  BY BaseFacts, Zenon DEF MayInsert
<1>3. d.obj \in Objects /\ d.held = IF d.kind = "clone" THEN 2 ELSE 1
  BY <1>2, Zenon DEF HoldsOk
<1>4. /\ d.kind = "transfer" => c.kind = "transfer" /\ c.at = "item" /\ c.held = 0
      /\ d.kind = "clone" => c.kind = "use" /\ c.at = "drop" /\ c.obj = d.obj /\ c.held = 1
      /\ d.kind \notin {"transfer", "clone"} => c.kind = "none" /\ c.at = "idle" /\ c.held = 0
  BY <1>2, Zenon DEF Call, NoCall
<1> HIDE DEF c
<1>5. call'[t] = c /\ call' = [call EXCEPT ![t] = call'[t]]
  BY <1>1, BaseFacts, Zenon
<1> HIDE DEF d
<1>6. HoldsOk(c, s) /\ c.at \in {"idle", "item", "drop"}
  BY <1>3, <1>4, Zenon DEF HoldsOk
<1>7. d.held \in {1, 2} /\ c.held = d.held - 1 /\ (c.obj = d.obj \/ c.held = 0)
  BY <1>3, <1>4
<1> QED
  BY <1>3, <1>5, <1>6, <1>7, Zenon DEF d

LEMMA InsertFullQuiet == ASSUME Base, NEW t \in Threads, InsertFull(t) PROVE Quiet(t) /\ Copies(t)
<1>1. /\ MayInsert(call[t]) /\ AfterInsert(t) /\ Unref(call[t].obj, 1)
      /\ slots' = slots /\ free_head' = free_head
  BY Zenon DEF InsertFull, tables
<1>2. /\ call' = [call EXCEPT ![t] = call'[t]]
      /\ call'[t].at \in {"idle", "item", "drop"} /\ HoldsOk(call'[t], slots)
      /\ call[t].obj \in Objects /\ call[t].held \in {1, 2} /\ call'[t].held = call[t].held - 1
      /\ call'[t].obj = call[t].obj \/ call'[t].held = 0
  BY <1>1, AfterInsertHolds, Zenon
<1>3. /\ refs' \in [Objects -> Int]
      /\ \A x \in Objects : refs'[x] = refs[x] - Own(call[t], x) + Own(call'[t], x)
  <2>1. 1 \in 0..2 /\ call[t].held \in 0..2
    BY <1>2
  <2>2. refs \in [Objects -> Nat]
    BY BaseFacts, Zenon
  <2>3. \A c : c.held = call[t].held - 1 /\ (c.obj = call[t].obj \/ c.held = 0) =>
              /\ refs' \in [Objects -> Int]
              /\ \A x \in Objects : refs'[x] = refs[x] - Own(call[t], x) + Own(c, x)
    <3> TAKE c
    <3> HAVE c.held = call[t].held - 1 /\ (c.obj = call[t].obj \/ c.held = 0)
    <3>1. c.held = call[t].held - 1 /\ Unref(call[t].obj, 1) /\ call[t].obj \in Objects
      BY <1>1, <1>2, Zenon
    <3> QED
      BY <3>1, <2>1, <2>2, UnrefOwn, Zenon
  <2> QED
    BY <1>2, <2>3, Zenon
<1>4. Quiet(t)
  BY <1>1, <1>2, <1>3, Zenon DEF Quiet
<1>5. Copies(t)
  BY <1>2, Zenon DEF Copies
<1> QED
  BY <1>4, <1>5, Zenon

----------------------------------------------------------------------------
(* Free lists.  f lists the slots that following the links from the head      *)
(* visits: the k unused ones, each once, and then the end mark for ever.      *)

ChainBy(row, head, k, f) ==
    /\ f[0] = head
    /\ \A n \in Nat : n < k => f[n] \in Handles /\ row[f[n]].obj = None /\ f[n + 1] = row[f[n]].next
    /\ \A n \in Nat : n >= k => f[n] = NullSlot
    /\ \A m, n \in Nat : m < k /\ n < k /\ f[m] = f[n] => m = n
    /\ \A i \in Handles : row[i].obj = None => \E n \in Nat : n < k /\ f[n] = i

Chain(row, head) == \E k \in Nat, f \in [Nat -> Handles \cup {NullSlot}] : ChainBy(row, head, k, f)

Lists == \A p \in Processes : Chain(slots[p], free_head[p])

LEMMA NullIsNoHandle == NullSlot \notin Handles
  BY TableAssumption DEF NullSlot, Handles

\* The head of a list is the end mark or an unused slot.
LEMMA ChainHead ==
    ASSUME NEW row, NEW head, Chain(row, head), head # NullSlot
    PROVE  head \in Handles /\ row[head].obj = None
<1>1. PICK k \in Nat, f \in [Nat -> Handles \cup {NullSlot}] : ChainBy(row, head, k, f)
  BY Zenon DEF Chain
<1>2. ~(0 >= k)
  BY <1>1, Zenon DEF ChainBy
<1> QED
  BY <1>1, <1>2 DEF ChainBy

\* insertLocked(): the list goes on behind the slot that is filled.
LEMMA ChainPop ==
    ASSUME NEW row, NEW new, NEW head, Chain(row, head), head # NullSlot,
           new[head].obj # None, \A j \in Handles : j # head => new[j] = row[j]
    PROVE  Chain(new, row[head].next)
<1>1. PICK k \in Nat, f \in [Nat -> Handles \cup {NullSlot}] : ChainBy(row, head, k, f)
  BY Zenon DEF Chain
<1>2. k > 0 /\ k - 1 \in Nat /\ head \in Handles
  <2>1. ~(0 >= k)
    BY <1>1, Zenon DEF ChainBy
  <2> QED
    BY <2>1, ChainHead
<1> DEFINE g == [n \in Nat |-> f[n + 1]]
<1>3. g \in [Nat -> Handles \cup {NullSlot}] /\ \A n \in Nat : g[n] = f[n + 1] /\ n + 1 \in Nat
  OBVIOUS
<1> HIDE DEF g
<1>4. g[0] = row[head].next
  BY <1>1, <1>2, <1>3, Zenon DEF ChainBy
<1>5. ASSUME NEW n \in Nat, n < k - 1
      PROVE  g[n] \in Handles /\ new[g[n]].obj = None /\ g[n + 1] = new[g[n]].next
  <2>1. n + 1 \in Nat /\ n + 1 < k /\ 0 < k /\ n + 1 # 0
    BY <1>2, <1>5
  <2>2. f[n + 1] \in Handles /\ row[f[n + 1]].obj = None /\ f[(n + 1) + 1] = row[f[n + 1]].next /\ f[n + 1] # f[0]
    BY <1>1, <2>1, Zenon DEF ChainBy
  <2>3. g[n] # head /\ g[n] = f[n + 1] /\ g[n + 1] = f[(n + 1) + 1]
    BY <1>1, <1>3, <2>1, <2>2, Zenon DEF ChainBy
  <2> QED
    BY <2>2, <2>3, Zenon
<1>6. ASSUME NEW n \in Nat, n >= k - 1
      PROVE  g[n] = NullSlot
  <2>1. n + 1 \in Nat /\ n + 1 >= k
    BY <1>2, <1>6
  <2> QED
    BY <1>1, <1>3, <2>1, Zenon DEF ChainBy
<1>7. ASSUME NEW m \in Nat, NEW n \in Nat, m < k - 1, n < k - 1, g[m] = g[n]
      PROVE  m = n
  <2>1. m + 1 \in Nat /\ n + 1 \in Nat /\ m + 1 < k /\ n + 1 < k
    BY <1>2, <1>7
  <2>2. f[m + 1] = f[n + 1]
    BY <1>3, <1>7, Zenon
  <2>3. m + 1 = n + 1
    BY <1>1, <2>1, <2>2, Zenon DEF ChainBy
  <2> QED
    BY <2>3
<1>8. ASSUME NEW i \in Handles, new[i].obj = None
      PROVE  \E n \in Nat : n < k - 1 /\ g[n] = i
  <2>1. i # head /\ row[i].obj = None
    BY <1>8, Zenon
  <2>2. PICK n \in Nat : n < k /\ f[n] = i
    BY <1>1, <2>1, Zenon DEF ChainBy
  <2>3. n # 0
    BY <1>1, <2>1, <2>2, Zenon DEF ChainBy
  <2>4. n - 1 \in Nat /\ n - 1 < k - 1 /\ (n - 1) + 1 = n
    BY <2>2, <2>3
  <2>5. g[n - 1] = i
    BY <1>3, <2>2, <2>4, Zenon
  <2> QED
    BY <2>4, <2>5, Zenon
<1>9. ChainBy(new, row[head].next, k - 1, g)
  BY <1>4, <1>5, <1>6, <1>7, <1>8, Zenon DEF ChainBy
<1> QED
  BY <1>2, <1>3, <1>9, Zenon DEF Chain

\* removeLocked(): the emptied slot becomes the head.
LEMMA ChainPush ==
    ASSUME NEW row, NEW new, NEW head, Chain(row, head), NEW i \in Handles, row[i].obj # None,
           new[i].obj = None, new[i].next = head, \A j \in Handles : j # i => new[j] = row[j]
    PROVE  Chain(new, i)
<1>1. PICK k \in Nat, f \in [Nat -> Handles \cup {NullSlot}] : ChainBy(row, head, k, f)
  BY Zenon DEF Chain
<1> DEFINE g == [n \in Nat |-> IF n = 0 THEN i ELSE f[n - 1]]
<1>2. \A n \in Nat : n = 0 \/ n - 1 \in Nat
  OBVIOUS
<1>3. g \in [Nat -> Handles \cup {NullSlot}] /\ g[0] = i /\ \A n \in Nat : n # 0 => g[n] = f[n - 1]
  BY <1>2, Zenon
<1> HIDE DEF g
<1>4. \A n \in Nat : n < k => f[n] # i
  BY <1>1, Zenon DEF ChainBy
<1>5. ASSUME NEW n \in Nat, n < k + 1
      PROVE  g[n] \in Handles /\ new[g[n]].obj = None /\ g[n + 1] = new[g[n]].next
  <2>1. n + 1 \in Nat /\ n + 1 # 0 /\ (n + 1) - 1 = n
    OBVIOUS
  <2>2. CASE n = 0
    <3>1. g[n + 1] = f[0]
      BY <1>3, <2>1, <2>2, Zenon
    <3> QED
      BY <1>1, <1>3, <2>2, <3>1, Zenon DEF ChainBy
  <2>3. CASE n # 0
    <3>1. n - 1 \in Nat /\ n - 1 < k /\ (n - 1) + 1 = n
      BY <1>5, <2>3
    <3>2. f[n - 1] \in Handles /\ row[f[n - 1]].obj = None /\ f[n] = row[f[n - 1]].next /\ f[n - 1] # i
      BY <1>1, <1>4, <3>1, Zenon DEF ChainBy
    <3>3. g[n] = f[n - 1] /\ g[n + 1] = f[n]
      BY <1>3, <2>1, <2>3, Zenon
    <3> QED
      BY <3>2, <3>3, Zenon
  <2> QED
    BY <2>2, <2>3, Zenon
<1>6. ASSUME NEW n \in Nat, n >= k + 1
      PROVE  g[n] = NullSlot
  <2>1. n # 0 /\ n - 1 \in Nat /\ n - 1 >= k
    BY <1>6
  <2> QED
    BY <1>1, <1>3, <2>1, Zenon DEF ChainBy
<1>7. ASSUME NEW m \in Nat, NEW n \in Nat, m < k + 1, n < k + 1, g[m] = g[n]
      PROVE  m = n
  <2>1. /\ m # 0 => m - 1 \in Nat /\ m - 1 < k
        /\ n # 0 => n - 1 \in Nat /\ n - 1 < k
    BY <1>7
  <2>2. CASE m = 0 \/ n = 0
    <3>1. /\ m # 0 => g[m] # i
          /\ n # 0 => g[n] # i
      BY <1>3, <1>4, <2>1, Zenon
    <3> QED
      BY <1>3, <1>7, <2>2, <3>1, Zenon
  <2>3. CASE m # 0 /\ n # 0
    <3>1. m - 1 = n - 1
      BY <1>1, <1>3, <1>7, <2>1, <2>3, Zenon DEF ChainBy
    <3> QED
      BY <3>1
  <2> QED
    BY <2>2, <2>3, Zenon
<1>8. ASSUME NEW j \in Handles, new[j].obj = None
      PROVE  \E n \in Nat : n < k + 1 /\ g[n] = j
  <2>1. CASE j = i
    <3>1. 0 \in Nat /\ 0 < k + 1
      OBVIOUS
    <3> QED
      BY <1>3, <2>1, <3>1, Zenon
  <2>2. CASE j # i
    <3>1. PICK n \in Nat : n < k /\ f[n] = j
      BY <1>1, <1>8, <2>2, Zenon DEF ChainBy
    <3>2. n + 1 \in Nat /\ n + 1 < k + 1 /\ n + 1 # 0 /\ (n + 1) - 1 = n
      BY <3>1
    <3>3. g[n + 1] = j
      BY <1>3, <3>1, <3>2, Zenon
    <3> QED
      BY <3>2, <3>3, Zenon
  <2> QED
    BY <2>1, <2>2, Zenon
<1>9. ChainBy(new, i, k + 1, g)
  BY <1>3, <1>5, <1>6, <1>7, <1>8, Zenon DEF ChainBy
<1>10. k + 1 \in Nat
  OBVIOUS
<1> QED
  BY <1>3, <1>9, <1>10, Zenon DEF Chain

\* A table with no used slot lists them all, in order.
LEMMA InitChain ==
    ASSUME NEW row, \A i \in Handles : row[i].obj = None /\ row[i].next = i + 1
    PROVE  Chain(row, 0)
<1> DEFINE f == [n \in Nat |-> IF n < SlotCount THEN n ELSE NullSlot]
<1>1. /\ SlotCount \in Nat /\ SlotCount # 0 /\ NullSlot = SlotCount
      /\ \A n : n \in Handles <=> n \in Nat /\ n < SlotCount
  BY TableAssumption DEF Handles, NullSlot
<1>2. f \in [Nat -> Handles \cup {NullSlot}] /\ \A n \in Nat : f[n] = IF n < SlotCount THEN n ELSE NullSlot
  BY <1>1, Zenon
<1> HIDE DEF f
<1>3. \A n \in Nat : n < SlotCount => f[n] \in Handles /\ row[f[n]].obj = None /\ f[n + 1] = row[f[n]].next
  BY <1>1, <1>2
<1>4. ChainBy(row, 0, SlotCount, f)
  BY <1>1, <1>2, <1>3 DEF ChainBy
<1> QED
  BY <1>1, <1>2, <1>4, Zenon DEF Chain

----------------------------------------------------------------------------
(* deinitAll() pushes the used slots one by one, lowest first.                *)

\* The used slots below b, the head once they are pushed, and the row then.
Below(row, b) == {j \in Handles : row[j].obj # None /\ j < b}

Highest(B, head) == IF B = {} THEN head ELSE CHOOSE j \in B : \A k \in B : k <= j

Pushed(row, head, b) == Highest(Below(row, b), head)

RowAt(row, head, b) == [i \in Handles |-> IF i \in Below(row, b) THEN Free(Pushed(row, head, i)) ELSE row[i]]

----------------------------------------------------------------------------
(* Counting.  The facts about finite sets that the steps need are collected   *)
(* here; they are proved at the end, with the library's theorems.             *)

\* At most the i-th slot of the table of p names another object.
OneSlot(r, s, p, i) == \A q \in Processes, j \in Handles : <<q, j>> # <<p, i>> => s[q][j].obj = r[q][j].obj

CountShifts(r, s, p, i, o) ==
    Cardinality(Naming(s, o)) =
        Cardinality(Naming(r, o)) - (IF r[p][i].obj = o THEN 1 ELSE 0) + (IF s[p][i].obj = o THEN 1 ELSE 0)

\* The slots of p no longer name the object, and the others are as they were.
Emptied(r, s, p, o) ==
    /\ \A q \in Processes, j \in Handles : q # p => s[q][j].obj = r[q][j].obj
    /\ \A j \in Handles : s[p][j].obj # o

CountDrops(r, s, p, o) ==
    LET here == {j \in Handles : r[p][j].obj = o} IN
    /\ Cardinality(here) \in Nat
    /\ Cardinality(Naming(s, o)) = Cardinality(Naming(r, o)) - Cardinality(here)

\* The references of all calls but one, and those of that one.
HeldParts(cs, t, o) ==
    LET others == {x \in HeldFor(cs, o) : x[1] # t} IN
    /\ Cardinality(others) \in Nat
    /\ Cardinality(HeldFor(cs, o)) = Cardinality(others) + Own(cs[t], o)

Counting ==
    /\ \A s, o : Cardinality(Naming(s, o)) \in Nat /\ (Cardinality(Naming(s, o)) = 0 => Naming(s, o) = {})
    /\ \A cs, o : Cardinality(HeldFor(cs, o)) \in Nat /\ (Cardinality(HeldFor(cs, o)) = 0 => HeldFor(cs, o) = {})
    /\ \A cs, o : \A t \in Threads : cs[t].held \in 0..2 => HeldParts(cs, t, o)
    /\ \A r, s, o : \A p \in Processes, i \in Handles : OneSlot(r, s, p, i) => CountShifts(r, s, p, i, o)
    /\ \A r, s, o : \A p \in Processes : Emptied(r, s, p, o) => CountDrops(r, s, p, o)
    /\ \A S \in SUBSET Nat : S # {} => \E m \in S : \A k \in S : m <= k

\* Slots that name an object, and references that calls hold, are counted.
LEMMA FiniteNames ==
    ASSUME Counting
    PROVE  /\ \A s, o : Cardinality(Naming(s, o)) \in Nat
           /\ \A cs, o : Cardinality(HeldFor(cs, o)) \in Nat
  BY Zenon DEF Counting

LEMMA HeldSplit ==
    ASSUME Counting, NEW cs, NEW t \in Threads, cs[t].held \in 0..2, NEW o
    PROVE  /\ Cardinality({x \in HeldFor(cs, o) : x[1] # t}) \in Nat
           /\ Cardinality(HeldFor(cs, o)) = Cardinality({x \in HeldFor(cs, o) : x[1] # t}) + Own(cs[t], o)
<1>1. HeldParts(cs, t, o)
  BY Zenon DEF Counting
<1> QED
  BY <1>1, Zenon DEF HeldParts

\* A slot that begins, or ceases, to name an object counts for it.
LEMMA NamingMoved ==
    ASSUME Counting, NEW r, NEW s, NEW p \in Processes, NEW i \in Handles, NEW o, OneSlot(r, s, p, i)
    PROVE  CountShifts(r, s, p, i, o)
  BY Zenon DEF Counting

\* The slots of one table count for an object, and those of the others.
LEMMA NamingEmptied ==
    ASSUME Counting, NEW r, NEW s, NEW p \in Processes, NEW o, Emptied(r, s, p, o)
    PROVE  CountDrops(r, s, p, o)
  BY Zenon DEF Counting

\* A set of numbers that is not empty has a least element.
LEMMA LeastNumber ==
    ASSUME Counting, NEW S \in SUBSET Nat, S # {}
    PROVE  \E m \in S : \A k \in S : m <= k
  BY Zenon DEF Counting

\* What a thread's next call holds more, or less, is what the object has more.
LEMMA HeldMoved ==
    ASSUME Counting, call \in [Threads -> Call], NEW t \in Threads, NEW c \in Call, call' = [call EXCEPT ![t] = c], NEW o
    PROVE  Cardinality(HeldFor(call', o)) = Cardinality(HeldFor(call, o)) - Own(call[t], o) + Own(c, o)
<1>1. /\ call'[t] = c /\ \A u \in Threads : u # t => call'[u] = call[u]
      /\ call[t].held \in 0..2 /\ c.held \in 0..2
  BY Zenon DEF Call
<1>2. {x \in HeldFor(call, o) : x[1] # t} = {x \in HeldFor(call', o) : x[1] # t}
  BY <1>1, Zenon DEF HeldFor
<1>3. /\ Cardinality({x \in HeldFor(call, o) : x[1] # t}) \in Nat
      /\ Cardinality(HeldFor(call, o)) = Cardinality({x \in HeldFor(call, o) : x[1] # t}) + Own(call[t], o)
  BY <1>1, HeldSplit, Zenon
<1>4. Cardinality(HeldFor(call', o)) = Cardinality({x \in HeldFor(call', o) : x[1] # t}) + Own(c, o)
  BY <1>1, HeldSplit, Zenon
<1>5. Own(call[t], o) \in 0..2 /\ Own(c, o) \in 0..2
  BY <1>1 DEF Own
<1> DEFINE n == Cardinality({x \in HeldFor(call, o) : x[1] # t})
<1>6. n \in Nat /\ Cardinality(HeldFor(call, o)) = n + Own(call[t], o)
  BY <1>3, Zenon
<1>7. Cardinality(HeldFor(call', o)) = n + Own(c, o)
  BY <1>2, <1>4, Zenon
<1> HIDE DEF n
<1> QED
  BY <1>5, <1>6, <1>7

\* A list is about the slots only.
LEMMA ChainSame ==
    ASSUME NEW row, NEW new, NEW head, Chain(row, head), \A i \in Handles : new[i] = row[i]
    PROVE  Chain(new, head)
<1>1. PICK k \in Nat, f \in [Nat -> Handles \cup {NullSlot}] : ChainBy(row, head, k, f)
  BY Zenon DEF Chain
<1>2. ChainBy(new, head, k, f)
  BY <1>1, Zenon DEF ChainBy
<1> QED
  BY <1>2, Zenon DEF Chain

\* The highest used slot below b becomes the head.
LEMMA PushedHighest ==
    ASSUME NEW row, NEW head, NEW b, NEW i \in Below(row, b), \A j \in Below(row, b) : j <= i
    PROVE  Pushed(row, head, b) = i
<1> DEFINE B == Below(row, b)
           h == CHOOSE j \in B : \A k \in B : k <= j
<1>1. h \in B /\ \A k \in B : k <= h
  BY Zenon
<1>2. B \subseteq Nat
  BY DEF Below, Handles
<1>3. Pushed(row, head, b) = h
  BY Zenon DEF Pushed, Highest
<1> HIDE DEF h, B
<1>4. i \in B /\ \A j \in B : j <= i
  BY Zenon DEF B
<1>5. h = i
  BY <1>1, <1>2, <1>4
<1> QED
  BY <1>3, <1>5, Zenon

\* One more push.
LEMMA ChainNext ==
    ASSUME NEW row, NEW head, NEW b \in Handles, Chain(RowAt(row, head, b), Pushed(row, head, b))
    PROVE  Chain(RowAt(row, head, b + 1), Pushed(row, head, b + 1))
<1>1. b \in Nat /\ Handles \subseteq Nat
  BY DEF Handles
<1>a. \A j \in Handles : j < b + 1 <=> j < b \/ j = b
  BY <1>1
<1>2. /\ \A i \in Handles : RowAt(row, head, b)[i] = IF i \in Below(row, b) THEN Free(Pushed(row, head, i)) ELSE row[i]
      /\ \A i \in Handles : RowAt(row, head, b + 1)[i] =
                                IF i \in Below(row, b + 1) THEN Free(Pushed(row, head, i)) ELSE row[i]
  BY Zenon DEF RowAt
<1>3. b \notin Below(row, b)
  BY <1>1 DEF Below
<1>4. CASE row[b].obj = None
  <2>1. Below(row, b + 1) = Below(row, b)
    BY <1>a, <1>4, Zenon DEF Below
  <2>2. Pushed(row, head, b + 1) = Pushed(row, head, b)
    BY <2>1, Zenon DEF Pushed
  <2>3. \A i \in Handles : RowAt(row, head, b + 1)[i] = RowAt(row, head, b)[i]
    BY <1>2, <2>1, Zenon
  <2> QED
    BY <2>2, <2>3, ChainSame, Zenon
<1>5. CASE row[b].obj # None
  <2>1. Below(row, b + 1) = Below(row, b) \cup {b}
    BY <1>a, <1>5, Zenon DEF Below
  <2>2. \A j \in Below(row, b + 1) : j <= b
    BY <1>1 DEF Below
  <2>3. Pushed(row, head, b + 1) = b
    BY <2>1, <2>2, PushedHighest, Zenon
  <2>4. RowAt(row, head, b)[b].obj # None
    BY <1>2, <1>3, <1>5, Zenon
  <2>5. RowAt(row, head, b + 1)[b] = Free(Pushed(row, head, b))
    BY <1>2, <2>1, Zenon
  <2>6. RowAt(row, head, b + 1)[b].obj = None /\ RowAt(row, head, b + 1)[b].next = Pushed(row, head, b)
    BY <2>5 DEF Free
  <2>7. \A j \in Handles : j # b => RowAt(row, head, b + 1)[j] = RowAt(row, head, b)[j]
    BY <1>2, <2>1, Zenon
  <2> QED
    BY <2>3, <2>4, <2>6, <2>7, ChainPush, Zenon
<1> QED
  BY <1>4, <1>5, Zenon

\* All pushed: the highest used slot is the head.
LEMMA ChainAll ==
    ASSUME Counting, NEW row, NEW head, Chain(row, head), NEW i \in Handles, row[i].obj # None,
           \A j \in Handles : row[j].obj # None => j <= i
    PROVE  Chain(RowAt(row, head, SlotCount), i)
<1> DEFINE Bad == {b \in 0..SlotCount : ~Chain(RowAt(row, head, b), Pushed(row, head, b))}
<1>0. SlotCount \in Nat /\ SlotCount \in 0..SlotCount
  BY TableAssumption
<1>1. Chain(RowAt(row, head, 0), Pushed(row, head, 0))
  <2>1. Below(row, 0) = {}
    BY DEF Below, Handles
  <2>2. Pushed(row, head, 0) = head /\ \A j \in Handles : RowAt(row, head, 0)[j] = row[j]
    BY <2>1, Zenon DEF Pushed, Highest, RowAt
  <2> QED
    BY <2>2, ChainSame, Zenon
<1>2. Bad = {}
  <2> SUFFICES ASSUME Bad # {} PROVE FALSE
    BY Zenon
  <2>1. Bad \in SUBSET Nat
    BY <1>0
  <2> HIDE DEF Bad
  <2>2. PICK m \in Bad : \A k \in Bad : m <= k
    BY <2>1, LeastNumber, Zenon
  <2>3. m \in 0..SlotCount /\ ~Chain(RowAt(row, head, m), Pushed(row, head, m))
    BY <2>2, Zenon DEF Bad
  <2>4. m # 0
    BY <1>1, <2>3, Zenon
  <2>5. m - 1 \in Handles /\ m - 1 \in 0..SlotCount /\ (m - 1) + 1 = m /\ ~(m <= m - 1)
    BY <1>0, <2>3, <2>4 DEF Handles
  <2>6. m - 1 \notin Bad
    BY <2>2, <2>5, Zenon
  <2>7. Chain(RowAt(row, head, m - 1), Pushed(row, head, m - 1))
    BY <2>5, <2>6, Zenon DEF Bad
  <2>8. Chain(RowAt(row, head, (m - 1) + 1), Pushed(row, head, (m - 1) + 1))
    BY <2>5, <2>7, ChainNext, Zenon
  <2> QED
    BY <2>3, <2>5, <2>8, Zenon
<1>3. Chain(RowAt(row, head, SlotCount), Pushed(row, head, SlotCount))
  BY <1>0, <1>2, Zenon
<1>4. i \in Below(row, SlotCount) /\ \A j \in Below(row, SlotCount) : j <= i
  BY <1>0 DEF Below, Handles
<1>5. Pushed(row, head, SlotCount) = i
  BY <1>4, PushedHighest, Zenon
<1> QED
  BY <1>3, <1>5, Zenon

\* Chained() is the row with every used slot pushed.
LEMMA ChainedIs ==
    ASSUME NEW p, NEW i \in Handles
    PROVE  Chained(p)[i] = RowAt(slots[p], free_head[p], SlotCount)[i]
<1> DEFINE used == {k \in Handles : Used(p, k)}
           below == {j \in used : j < i}
           prev == IF below = {} THEN free_head[p] ELSE CHOOSE j \in below : \A k \in below : k <= j
<1>1. Below(slots[p], i) = below
  BY Zenon DEF Below, Used
<1>2. Below(slots[p], SlotCount) = used
  BY TableAssumption DEF Below, Used, Handles
<1>3. Pushed(slots[p], free_head[p], i) = prev
  <2>1. Highest(below, free_head[p]) = prev
    BY Zenon DEF Highest
  <2> QED
    BY <1>1, <2>1, Zenon DEF Pushed
<1>4. Chained(p)[i] = IF i \notin used THEN slots[p][i] ELSE Free(prev)
  BY Zenon DEF Chained
<1>5. RowAt(slots[p], free_head[p], SlotCount)[i] =
        IF i \in Below(slots[p], SlotCount) THEN Free(Pushed(slots[p], free_head[p], i)) ELSE slots[p][i]
  BY Zenon DEF RowAt
<1> HIDE DEF used, below, prev
<1>6. CASE i \in used
  BY <1>2, <1>3, <1>4, <1>5, <1>6, Zenon
<1>7. CASE i \notin used
  BY <1>2, <1>4, <1>5, <1>7, Zenon
<1> QED
  BY <1>6, <1>7, Zenon

\* What is pushed is a slot, or the old head.
LEMMA PushedTyped ==
    ASSUME Counting, NEW row, NEW head \in Handles \cup {NullSlot}, NEW b \in Handles
    PROVE  Pushed(row, head, b) \in Handles \cup {NullSlot}
<1> DEFINE B == Below(row, b)
           Bad == {n \in Nat : \E j \in B : n = SlotCount - j}
<1>1. CASE B = {}
  BY <1>1, Zenon DEF Pushed, Highest
<1>2. CASE B # {}
  <2>1. SlotCount \in Nat /\ B \subseteq Handles /\ \A j \in Handles : j \in Nat /\ SlotCount - j \in Nat
    BY TableAssumption DEF Below, Handles
  <2>2. Bad # {} /\ Bad \in SUBSET Nat
    BY <1>2, <2>1, Zenon
  <2> HIDE DEF Bad
  <2>3. PICK m \in Bad : \A k \in Bad : m <= k
    BY <2>2, LeastNumber, Zenon
  <2>4. PICK i \in B : m = SlotCount - i
    BY <2>3, Zenon DEF Bad
  <2>5. ASSUME NEW j \in B PROVE j <= i
    <3>1. SlotCount - j \in Bad
      BY <2>1, Zenon DEF Bad
    <3>2. m <= SlotCount - j
      BY <2>3, <3>1, Zenon
    <3>3. i \in Nat /\ j \in Nat
      BY <2>1, Zenon
    <3> HIDE DEF B
    <3> QED
      BY <2>1, <2>4, <3>2, <3>3
  <2>6. Pushed(row, head, b) = i
    BY <2>5, PushedHighest, Zenon
  <2> QED
    BY <2>1, <2>6, Zenon
<1> QED
  BY <1>1, <1>2, Zenon

----------------------------------------------------------------------------
(* What following the links computes *)

\* The recursion of FreeListExact.
Follows(row, head, link) ==
    link = [n \in 0..SlotCount |->
               IF n = 0 THEN head
               ELSE IF link[n - 1] = NullSlot THEN NullSlot ELSE row[link[n - 1]].next]

Links(row, head) == CHOOSE link : Follows(row, head, link)

\* It has the solution f of the list, and no other.
LEMMA LinksAre ==
    ASSUME Counting, NEW row, NEW head, NEW k \in Nat, NEW f \in [Nat -> Handles \cup {NullSlot}], ChainBy(row, head, k, f)
    PROVE  \A n \in 0..SlotCount : Links(row, head)[n] = f[n]
<1> DEFINE link == Links(row, head)
<1>0. SlotCount \in Nat
  BY TableAssumption, Zenon
<1>1. ASSUME NEW n \in Nat, n # 0
      PROVE  f[n] = IF f[n - 1] = NullSlot THEN NullSlot ELSE row[f[n - 1]].next
  <2>1. n - 1 \in Nat /\ (n - 1) + 1 = n
    BY <1>1
  <2>2. CASE n - 1 < k
    <3>1. f[n - 1] \in Handles /\ f[(n - 1) + 1] = row[f[n - 1]].next
      BY <2>1, <2>2, Zenon DEF ChainBy
    <3> QED
      BY <2>1, <3>1, NullIsNoHandle, Zenon
  <2>3. CASE ~(n - 1 < k)
    <3>1. n - 1 >= k /\ n >= k
      BY <2>1, <2>3
    <3> QED
      BY <2>1, <3>1, Zenon DEF ChainBy
  <2> QED
    BY <2>2, <2>3, Zenon
<1> DEFINE g == [n \in 0..SlotCount |-> f[n]]
<1>2. Follows(row, head, g)
  <2>1. ASSUME NEW n \in 0..SlotCount
        PROVE  g[n] = IF n = 0 THEN head ELSE IF g[n - 1] = NullSlot THEN NullSlot ELSE row[g[n - 1]].next
    <3>1. CASE n = 0
      BY <3>1, Zenon DEF ChainBy
    <3>2. CASE n # 0
      <4>1. n - 1 \in 0..SlotCount /\ n \in Nat
        BY <1>0, <3>2
      <4>2. g[n] = f[n] /\ g[n - 1] = f[n - 1]
        BY <4>1, Zenon
      <4>3. f[n] = IF f[n - 1] = NullSlot THEN NullSlot ELSE row[f[n - 1]].next
        BY <1>1, <3>2, <4>1, Zenon
      <4> HIDE DEF g
      <4> QED
        BY <3>2, <4>2, <4>3, Zenon
    <3> QED
      BY <3>1, <3>2, Zenon
  <2>2. g = [n \in 0..SlotCount |-> g[n]]
    BY Zenon
  <2> HIDE DEF g
  <2>3. [n \in 0..SlotCount |-> g[n]] =
        [n \in 0..SlotCount |-> IF n = 0 THEN head ELSE IF g[n - 1] = NullSlot THEN NullSlot ELSE row[g[n - 1]].next]
    BY <2>1, Zenon
  <2> QED
    BY <2>2, <2>3, Zenon DEF Follows
<1> HIDE DEF g
<1>3. Follows(row, head, link)
  BY <1>2, Zenon DEF Links
<1> HIDE DEF link
<1>4. \A n \in 0..SlotCount :
        link[n] = IF n = 0 THEN head ELSE IF link[n - 1] = NullSlot THEN NullSlot ELSE row[link[n - 1]].next
  BY <1>3, Zenon DEF Follows
<1> DEFINE Bad == {n \in 0..SlotCount : link[n] # f[n]}
<1> SUFFICES ASSUME Bad # {} PROVE FALSE
  BY Zenon DEF link
<1>5. Bad \in SUBSET Nat
  BY <1>0
<1> HIDE DEF Bad
<1>6. PICK m \in Bad : \A n \in Bad : m <= n
  BY <1>5, LeastNumber, Zenon
<1>7. m \in 0..SlotCount /\ link[m] # f[m]
  BY <1>6, Zenon DEF Bad
<1>8. m # 0
  BY <1>4, <1>7, Zenon DEF ChainBy
<1>9. m - 1 \in 0..SlotCount /\ ~(m <= m - 1) /\ m \in Nat
  BY <1>0, <1>7, <1>8
<1>10. link[m - 1] = f[m - 1]
  BY <1>6, <1>9, Zenon DEF Bad
<1>11. link[m] = IF link[m - 1] = NullSlot THEN NullSlot ELSE row[link[m - 1]].next
  BY <1>4, <1>7, <1>8, Zenon
<1>12. f[m] = IF f[m - 1] = NullSlot THEN NullSlot ELSE row[f[m - 1]].next
  BY <1>1, <1>8, <1>9, Zenon
<1> QED
  BY <1>7, <1>10, <1>11, <1>12, Zenon

----------------------------------------------------------------------------
(* The invariant of the tables *)

\* No slot is newer than its object, and what is valid, or will be stored, is
\* of an object that was not revoked, or was revoked while a call had the
\* contents of one of its slots.
Fresh(o) == o \in raced \/ generation[o] = 0

Final ==
    /\ \A p \in Processes, i \in Handles : Used(p, i) => slots[p][i].gen <= generation[slots[p][i].obj]
    /\ \A p \in Processes, i \in Handles : Valid(p, i) => Fresh(slots[p][i].obj)
    /\ \A t \in Threads : call[t].at \in {"relock", "insert"} => Fresh(call[t].obj)

CapInv == Base /\ Exact /\ Lists /\ Final

\* The counts are numbers as long as they are exact.
LEMMA ExactCounts ==
    ASSUME Counting, NEW r \in [Objects -> Int], NEW s, NEW cs,
           \A o \in Objects : r[o] = Cardinality(Naming(s, o)) + Cardinality(HeldFor(cs, o))
    PROVE  r \in [Objects -> Nat]
<1>1. ASSUME NEW o \in Objects
      PROVE  r[o] \in Nat
  <2>1. Cardinality(Naming(s, o)) \in Nat /\ Cardinality(HeldFor(cs, o)) \in Nat
    BY FiniteNames, Zenon
  <2> QED
    BY <2>1
<1> QED
  BY <1>1, Zenon

\* What the slots of other calls' moves name stays, if their tables do.
LEMMA OthersHold ==
    ASSUME Base,
           \A u \in Threads : \/ HoldsOk(call'[u], slots')
                              \/ call'[u] = call[u] /\ \A p \in Processes : lock[p] = u => slots'[p] = slots[p]
    PROVE  Holding'
<1> SUFFICES ASSUME NEW u \in Threads, call'[u] = call[u], \A p \in Processes : lock[p] = u => slots'[p] = slots[p]
             PROVE  HoldsOk(call[u], slots')
  BY Zenon DEF Holding
<1>1. HoldsOk(call[u], slots) /\ Placed(call[u])
  BY BaseFacts, Zenon
<1>2. Keeps(u, call[u], lock)
  BY Zenon DEF Base, AuthorityInv, AuthorityHeld
<1>3. call[u].kind = "move" => slots'[call[u].dst] = slots[call[u].dst]
  BY <1>1, <1>2, Zenon DEF HoldsOk, Keeps, Placed
<1> QED
  BY <1>1, <1>3, Zenon DEF HoldsOk

\* A step that changes no table.
LEMMA QuietKeeps ==
    ASSUME Counting, Base, Exact, Lists, NEW t \in Threads, Quiet(t), AuthorityInv'
    PROVE  Holding' /\ Exact' /\ Lists' /\ refs' \in [Objects -> Nat]
<1>1. call \in [Threads -> Call] /\ call[t] \in Call /\ call'[t] \in Call
  BY BaseFacts, Zenon DEF AuthorityInv, LockInv
<1>2. Holding'
  <2>1. \A u \in Threads : HoldsOk(call'[u], slots') \/ (call'[u] = call[u] /\ slots' = slots)
    BY <1>1, Zenon DEF Quiet
  <2> QED
    BY <2>1, OthersHold, Zenon
<1>3. ASSUME NEW o \in Objects
      PROVE  refs'[o] = Cardinality(Naming(slots', o)) + Cardinality(HeldFor(call', o))
  <2> DEFINE n == Cardinality(Naming(slots, o))
             h == Cardinality(HeldFor(call, o))
  <2>1. n \in Nat /\ h \in Nat
    BY FiniteNames, Zenon
  <2>2. Cardinality(HeldFor(call', o)) = h - Own(call[t], o) + Own(call'[t], o)
    <3>1. \A c \in Call : call' = [call EXCEPT ![t] = c] =>
             Cardinality(HeldFor(call', o)) = h - Own(call[t], o) + Own(c, o)
      BY <1>1, HeldMoved, Zenon
    <3> QED
      BY <1>1, <3>1, Zenon DEF Quiet
  <2>3. Cardinality(Naming(slots', o)) = n
    BY Zenon DEF Quiet
  <2>4. refs[o] = n + h /\ refs'[o] = refs[o] - Own(call[t], o) + Own(call'[t], o)
    BY Zenon DEF Exact, Quiet
  <2>5. Own(call[t], o) \in 0..2 /\ Own(call'[t], o) \in 0..2
    BY <1>1 DEF Own, Call
  <2> HIDE DEF n, h
  <2> QED
    BY <2>1, <2>2, <2>3, <2>4, <2>5
<1>4. refs' \in [Objects -> Nat]
  <2>1. refs' \in [Objects -> Int]
    BY Zenon DEF Quiet
  <2> QED
    BY <1>3, <2>1, ExactCounts, Zenon
<1>5. Lists'
  BY Zenon DEF Lists, Quiet
<1> QED
  BY <1>2, <1>3, <1>4, <1>5, Zenon DEF Exact

----------------------------------------------------------------------------
(* Steps that change a table *)

\* One table gets a new row and a new head.
LEMMA RowStep ==
    ASSUME Base, Lists, NEW p \in Processes, NEW row \in [Handles -> Slot], NEW head \in Handles \cup {NullSlot},
           slots' = [slots EXCEPT ![p] = row], free_head' = [free_head EXCEPT ![p] = head], Chain(row, head)
    PROVE  /\ slots' \in [Processes -> [Handles -> Slot]] /\ free_head' \in [Processes -> Handles \cup {NullSlot}]
           /\ slots'[p] = row /\ \A q \in Processes : q # p => slots'[q] = slots[q]
           /\ Lists'
<1>1. slots \in [Processes -> [Handles -> Slot]] /\ free_head \in [Processes -> Handles \cup {NullSlot}]
  BY Zenon DEF Base, TypeOK
<1>2. /\ slots'[p] = row /\ free_head'[p] = head
      /\ \A q \in Processes : q # p => slots'[q] = slots[q] /\ free_head'[q] = free_head[q]
  BY <1>1, Zenon
<1>3. slots' \in [Processes -> [Handles -> Slot]] /\ free_head' \in [Processes -> Handles \cup {NullSlot}]
  BY <1>1, Zenon
<1>4. ASSUME NEW q \in Processes PROVE Chain(slots'[q], free_head'[q])
  BY <1>2, Zenon DEF Lists
<1> QED
  BY <1>2, <1>3, <1>4, Zenon DEF Lists

\* Slots are kept, emptied, or filled from a call that is about to insert.
LEMMA FinalRow ==
    ASSUME Base, Final, slots' \in [Processes -> [Handles -> Slot]], generation' = generation, raced' = raced,
           \A u \in Threads : call'[u] = call[u] \/ call'[u].at \notin {"relock", "insert"},
           \A q \in Processes, j \in Handles :
               \/ slots'[q][j] = slots[q][j] \/ slots'[q][j].obj = None
               \/ \E u \in Threads : /\ call[u].at \in {"relock", "insert"}
                                     /\ slots'[q][j].obj = call[u].obj /\ slots'[q][j].gen = generation[call[u].obj]
    PROVE  Final'
<1>1. generation \in [Objects -> 0..MaxGeneration]
  BY Zenon DEF Base, TypeOK
<1>2. ASSUME NEW q \in Processes, NEW j \in Handles, slots'[q][j].obj # None
      PROVE  /\ slots'[q][j].gen <= generation[slots'[q][j].obj]
             /\ slots'[q][j].gen = generation[slots'[q][j].obj] => Fresh(slots'[q][j].obj)
  <2>1. CASE slots'[q][j] = slots[q][j]
    <3>1. Used(q, j)
      BY <1>2, <2>1, Zenon DEF Used
    <3> QED
      BY <2>1, <3>1, Zenon DEF Final, Valid
  <2>2. CASE slots'[q][j] # slots[q][j]
    <3>1. PICK u \in Threads : /\ call[u].at \in {"relock", "insert"}
                               /\ slots'[q][j].obj = call[u].obj /\ slots'[q][j].gen = generation[call[u].obj]
      BY <1>2, <2>2, Zenon
    <3>2. call[u].obj \in Objects
      <4>1. HoldsOk(call[u], slots)
        BY BaseFacts, Zenon
      <4> QED
        BY <3>1, <4>1 DEF HoldsOk
    <3>3. generation[call[u].obj] <= generation[call[u].obj]
      <4>1. generation[call[u].obj] \in 0..MaxGeneration
        BY <1>1, <3>2, Zenon
      <4> QED
        BY <4>1
    <3> QED
      BY <3>1, <3>3, Zenon DEF Final
  <2> QED
    BY <2>1, <2>2, Zenon
<1>3. \A o : Fresh(o) => Fresh(o)'
  BY Zenon DEF Fresh
<1>4. \A q \in Processes, j \in Handles : Used(q, j)' => slots'[q][j].gen <= generation'[slots'[q][j].obj]
  BY <1>2, Zenon DEF Used
<1>5. \A q \in Processes, j \in Handles : Valid(q, j)' => Fresh(slots[q][j].obj)'
  BY <1>2, <1>3, Zenon DEF Valid, Used, Fresh
<1>6. \A u \in Threads : call'[u].at \in {"relock", "insert"} => Fresh(call[u].obj)'
  BY Zenon DEF Final, Fresh
<1> QED
  BY <1>4, <1>5, <1>6, Zenon DEF Final

\* An insertion, with the table, the slot and the call.
LEMMA InsertFacts ==
    ASSUME CapInv, NEW t \in Threads, InsertHeld(t)
    PROVE  LET p == call[t].dst
               h == free_head[p]
               x == [obj |-> call[t].obj, rights |-> call[t].rights, gen |-> generation[call[t].obj],
                     next |-> NullSlot]
           IN  /\ p \in Processes /\ h \in Handles /\ slots[p][h].obj = None /\ slots[p][h].next \in Handles \cup {NullSlot}
               /\ call[t].obj \in Objects /\ call[t].obj # None
               /\ x \in Slot /\ x.obj = call[t].obj /\ x.gen = generation[call[t].obj]
               /\ lock[p] \in {None, t}
<1> DEFINE p == call[t].dst
           h == free_head[p]
           x == [obj |-> call[t].obj, rights |-> call[t].rights, gen |-> generation[call[t].obj], next |-> NullSlot]
<1>0. Base /\ Lists
  BY Zenon DEF CapInv
<1>1. call[t] \in Call /\ HoldsOk(call[t], slots) /\ Placed(call[t]) /\ Keeps(t, call[t], lock)
  BY <1>0, BaseFacts, Zenon DEF Base, AuthorityInv, AuthorityHeld
<1>2. call[t].at \in {"insert", "relock"} /\ h # NullSlot /\ (call[t].at = "relock" => lock[p] = None)
  BY Zenon DEF InsertHeld, MayInsert, Full
<1>3. p \in Processes /\ call[t].obj \in Objects /\ lock[p] \in {None, t}
  BY <1>1, <1>2, Zenon DEF Placed, HoldsOk, Keeps
<1>4. h \in Handles /\ slots[p][h].obj = None
  BY <1>0, <1>2, <1>3, ChainHead, Zenon DEF Lists
<1>5. slots[p][h] \in Slot /\ generation[call[t].obj] \in 0..MaxGeneration /\ call[t].rights \in SUBSET Rights
  BY <1>0, <1>1, <1>3, <1>4, Zenon DEF Base, TypeOK, Call
<1>6. slots[p][h].next \in Handles \cup {NullSlot} /\ x \in Slot /\ x.obj = call[t].obj /\ x.gen = generation[call[t].obj]
  BY <1>3, <1>5 DEF Slot
<1>7. call[t].obj # None
  BY <1>3, TableAssumption, Zenon
<1> QED
  BY <1>3, <1>4, <1>6, <1>7, Zenon

\* The object of a call loses the reference that goes into the slot.
LEMMA OwnLess ==
    ASSUME NEW d, NEW c, d.held \in {1, 2}, c.held = d.held - 1, c.obj = d.obj \/ c.held = 0, NEW x
    PROVE  Own(c, x) = Own(d, x) - (IF x = d.obj THEN 1 ELSE 0) /\ Own(d, x) \in 0..2
  BY DEF Own

\* What is left to show of a step once the locks and authority are.
Kept ==
    /\ slots' \in [Processes -> [Handles -> Slot]] /\ free_head' \in [Processes -> Handles \cup {NullSlot}]
    /\ refs' \in [Objects -> Nat] /\ Holding' /\ Exact' /\ Lists' /\ Final'

\* The count of an object in a step of a thread, from what changes in the
\* slots, in the call and in the count.
LEMMA CountStep ==
    ASSUME Counting, Base, Exact, NEW t \in Threads, AuthorityInv', call' = [call EXCEPT ![t] = call'[t]],
           NEW o \in Objects, NEW a \in Int, NEW b \in Int,
           Cardinality(Naming(slots', o)) = Cardinality(Naming(slots, o)) + a,
           Own(call'[t], o) = Own(call[t], o) + b, refs'[o] = refs[o] + a + b
    PROVE  refs'[o] = Cardinality(Naming(slots', o)) + Cardinality(HeldFor(call', o))
<1> DEFINE n == Cardinality(Naming(slots, o))
           h == Cardinality(HeldFor(call, o))
<1>1. call \in [Threads -> Call] /\ call[t] \in Call /\ call'[t] \in Call
  BY BaseFacts, Zenon DEF AuthorityInv, LockInv
<1>2. n \in Nat /\ h \in Nat
  BY FiniteNames, Zenon
<1>3. Cardinality(HeldFor(call', o)) = h - Own(call[t], o) + Own(call'[t], o)
  <2>1. \A c \in Call : call' = [call EXCEPT ![t] = c] =>
           Cardinality(HeldFor(call', o)) = h - Own(call[t], o) + Own(c, o)
    BY <1>1, HeldMoved, Zenon
  <2> QED
    BY <1>1, <2>1, Zenon
<1>4. refs[o] = n + h /\ Cardinality(Naming(slots', o)) = n + a
  BY Zenon DEF Exact
<1>5. Own(call[t], o) \in 0..2
  BY <1>1 DEF Own, Call
<1> HIDE DEF n, h
<1> QED
  BY <1>2, <1>3, <1>4, <1>5

\* A step that changes one slot.
LEMMA NamingNext ==
    ASSUME Counting, NEW r, NEW p \in Processes, NEW i \in Handles, NEW o, OneSlot(r, slots', p, i)
    PROVE  CountShifts(r, slots', p, i, o)
<1>1. \A s : OneSlot(r, s, p, i) => CountShifts(r, s, p, i, o)
  BY NamingMoved, Zenon
<1> QED
  BY <1>1, Zenon

LEMMA InsertKeeps ==
    ASSUME Counting, CapInv, NEW t \in Threads, InsertHeld(t), call[t].kind # "move", AuthorityInv'
    PROVE  Kept
<1> DEFINE p == call[t].dst
           h == free_head[p]
           o == call[t].obj
           x == [obj |-> o, rights |-> call[t].rights, gen |-> generation[o], next |-> NullSlot]
           row == [slots[p] EXCEPT ![h] = x]
<1>0. Base /\ Exact /\ Lists /\ Final
  BY Zenon DEF CapInv
<1>1. /\ p \in Processes /\ h \in Handles /\ slots[p][h].obj = None /\ slots[p][h].next \in Handles \cup {NullSlot}
      /\ o \in Objects /\ o # None /\ x \in Slot /\ x.obj = o /\ x.gen = generation[o] /\ lock[p] \in {None, t}
  BY InsertFacts, Zenon
<1>2. /\ MayInsert(call[t]) /\ ~Full(p) /\ AfterInsert(t) /\ Insert(p, o, call[t].rights) /\ refs' = refs
      /\ generation' = generation /\ raced' = raced
  BY Zenon DEF InsertHeld
<1>3. slots \in [Processes -> [Handles -> Slot]]
  BY <1>0, Zenon DEF Base, TypeOK
<1>4. slots' = [slots EXCEPT ![p] = row] /\ free_head' = [free_head EXCEPT ![p] = slots[p][h].next]
  BY <1>1, <1>2, <1>3, Zenon DEF Insert
<1> HIDE DEF x
<1>5. row \in [Handles -> Slot] /\ row[h] = x /\ \A j \in Handles : j # h => row[j] = slots[p][j]
  <2>1. slots[p] \in [Handles -> Slot]
    BY <1>1, <1>3, Zenon
  <2> QED
    BY <1>1, <2>1, Zenon
<1> HIDE DEF row
<1>6. Chain(row, slots[p][h].next)
  <2>1. h # NullSlot
    BY <1>2, Zenon DEF Full
  <2>2. Chain(slots[p], h)
    BY <1>0, <1>1, Zenon DEF Lists
  <2>3. row[h].obj # None
    BY <1>1, <1>5, Zenon
  <2> HIDE DEF h, p
  <2> QED
    BY <1>5, <2>1, <2>2, <2>3, ChainPop, Zenon
<1>7. /\ slots' \in [Processes -> [Handles -> Slot]] /\ free_head' \in [Processes -> Handles \cup {NullSlot}]
      /\ slots'[p] = row /\ \A q \in Processes : q # p => slots'[q] = slots[q]
      /\ Lists'
  BY <1>0, <1>1, <1>4, <1>5, <1>6, RowStep, Zenon
<1>8. /\ call' = [call EXCEPT ![t] = call'[t]]
      /\ call'[t].at \in {"idle", "item", "drop"} /\ HoldsOk(call'[t], slots')
      /\ call[t].held \in {1, 2} /\ call'[t].held = call[t].held - 1
      /\ call'[t].obj = call[t].obj \/ call'[t].held = 0
  BY <1>0, <1>2, AfterInsertHolds, Zenon
<1>9. \A u \in Threads : u # t => call'[u] = call[u]
  BY <1>0, <1>8, BaseFacts, Zenon
<1>10. Holding'
  <2>1. ASSUME NEW u \in Threads, u # t, NEW q \in Processes, lock[q] = u PROVE slots'[q] = slots[q]
    BY <1>1, <1>7, <2>1, TableAssumption
  <2> QED
    BY <1>0, <1>8, <1>9, <2>1, OthersHold, Zenon
<1>11. Final'
  <2>1. \A u \in Threads : call'[u] = call[u] \/ call'[u].at \notin {"relock", "insert"}
    BY <1>8, <1>9
  <2>2. call[t].at \in {"relock", "insert"}
    BY <1>2, Zenon DEF MayInsert
  <2>3. \A q \in Processes, j \in Handles :
          \/ slots'[q][j] = slots[q][j]
          \/ slots'[q][j].obj = call[t].obj /\ slots'[q][j].gen = generation[call[t].obj]
    BY <1>1, <1>5, <1>7, Zenon
  <2> QED
    BY <1>0, <1>2, <1>7, <2>1, <2>2, <2>3, FinalRow, Zenon
<1>12. ASSUME NEW z \in Objects
       PROVE  refs'[z] = Cardinality(Naming(slots', z)) + Cardinality(HeldFor(call', z))
  <2> DEFINE a == IF o = z THEN 1 ELSE 0
             b == IF z = o THEN -1 ELSE 0
  <2>1. OneSlot(slots, slots', p, h)
    BY <1>5, <1>7, Zenon DEF OneSlot
  <2>2. CountShifts(slots, slots', p, h, z)
    BY <1>1, <2>1, NamingNext, Zenon
  <2>3. slots[p][h].obj # z /\ slots'[p][h].obj = o /\ Cardinality(Naming(slots, z)) \in Nat
    BY <1>1, <1>5, <1>7, FiniteNames, TableAssumption, Zenon
  <2>4. Cardinality(Naming(slots', z)) = Cardinality(Naming(slots, z)) + a
    BY <2>2, <2>3 DEF CountShifts
  <2>5. \A c : c.held = call[t].held - 1 /\ (c.obj = o \/ c.held = 0) =>
          Own(c, z) = Own(call[t], z) - (IF z = o THEN 1 ELSE 0) /\ Own(call[t], z) \in 0..2
    BY <1>8, OwnLess
  <2>6. Own(call'[t], z) = Own(call[t], z) - (IF z = o THEN 1 ELSE 0) /\ Own(call[t], z) \in 0..2
    BY <1>8, <2>5, Zenon
  <2>7. Own(call'[t], z) = Own(call[t], z) + b
    BY <2>6
  <2>a. a \in Int /\ b \in Int
    OBVIOUS
  <2>8. refs[z] \in Nat /\ a \in Int /\ b \in Int
    BY <1>0, <2>a, BaseFacts, Zenon
  <2>9. refs'[z] = refs[z] + a + b
    BY <1>2, <2>8
  <2> HIDE DEF a, b
  <2> QED
    BY <1>0, <1>8, <2>4, <2>7, <2>8, <2>9, CountStep, Zenon
<1>13. refs' \in [Objects -> Nat]
  BY <1>0, <1>2, BaseFacts, Zenon
<1> QED
  BY <1>7, <1>10, <1>11, <1>12, <1>13, Zenon DEF Kept, Exact

LEMMA MoveKeeps ==
    ASSUME Counting, CapInv, NEW t \in Threads, InsertHeld(t), call[t].kind = "move", AuthorityInv'
    PROVE  Kept
<1> DEFINE p == call[t].dst
           h == free_head[p]
           o == call[t].obj
           i == call[t].handle
           x == [obj |-> o, rights |-> call[t].rights, gen |-> generation[o], next |-> NullSlot]
           y == Free(slots[p][h].next)
           mid == [slots[p] EXCEPT ![h] = x]
           row == [mid EXCEPT ![i] = y]
<1>0. Base /\ Exact /\ Lists /\ Final
  BY Zenon DEF CapInv
<1>1. /\ p \in Processes /\ h \in Handles /\ slots[p][h].obj = None /\ slots[p][h].next \in Handles \cup {NullSlot}
      /\ o \in Objects /\ o # None /\ x \in Slot /\ x.obj = o /\ x.gen = generation[o] /\ lock[p] \in {None, t}
  BY InsertFacts, Zenon
<1>2. /\ MayInsert(call[t]) /\ ~Full(p) /\ AfterInsert(t) /\ MoveSlot(p, i, o, call[t].rights) /\ Unref(o, 1)
      /\ generation' = generation /\ raced' = raced
  BY Zenon DEF InsertHeld
<1>3. slots \in [Processes -> [Handles -> Slot]] /\ refs \in [Objects -> Nat]
  BY <1>0, Zenon DEF Base, TypeOK
<1>a. i \in Handles /\ slots[p][i].obj = o /\ i # h
  <2>1. call[t] \in Call /\ HoldsOk(call[t], slots)
    BY <1>0, BaseFacts, Zenon
  <2>2. i \in Handles /\ slots[p][i].obj = o
    BY <2>1, Zenon DEF HoldsOk, Call
  <2> QED
    BY <1>1, <2>2, Zenon
<1>4. slots' = [slots EXCEPT ![p] = row] /\ free_head' = [free_head EXCEPT ![p] = i]
  BY <1>1, <1>2, <1>3, Zenon DEF MoveSlot
<1>b. y \in Slot /\ y.obj = None /\ y.next = slots[p][h].next
  <2>1. {} \in SUBSET Rights /\ 0 \in 0..MaxGeneration
    BY TableAssumption
  <2> QED
    BY <1>1, <2>1 DEF Free, Slot
<1> HIDE DEF x, y
<1>5. /\ mid \in [Handles -> Slot] /\ mid[h] = x /\ \A j \in Handles : j # h => mid[j] = slots[p][j]
      /\ row \in [Handles -> Slot] /\ row[i] = y /\ \A j \in Handles : j # i => row[j] = mid[j]
  <2>1. slots[p] \in [Handles -> Slot]
    BY <1>1, <1>3, Zenon
  <2>2. mid \in [Handles -> Slot] /\ mid[h] = x /\ \A j \in Handles : j # h => mid[j] = slots[p][j]
    BY <1>1, <2>1, Zenon
  <2> HIDE DEF mid
  <2>3. row \in [Handles -> Slot] /\ row[i] = y /\ \A j \in Handles : j # i => row[j] = mid[j]
    BY <1>a, <1>b, <2>2, Zenon
  <2> QED
    BY <2>2, <2>3, Zenon
<1> HIDE DEF row, mid
<1>6. Chain(row, i)
  <2>1. h # NullSlot
    BY <1>2, Zenon DEF Full
  <2>2. Chain(slots[p], h)
    BY <1>0, <1>1, Zenon DEF Lists
  <2>3. mid[h].obj # None /\ mid[i].obj # None
    BY <1>1, <1>a, <1>5, Zenon
  <2> HIDE DEF h, p, i
  <2>4. Chain(mid, slots[p][h].next)
    BY <1>5, <2>1, <2>2, <2>3, ChainPop, Zenon
  <2>5. row[i].obj = None /\ row[i].next = slots[p][h].next
    BY <1>5, <1>b, Zenon
  <2> QED
    BY <1>a, <1>5, <2>3, <2>4, <2>5, ChainPush, Zenon
<1>7. /\ slots' \in [Processes -> [Handles -> Slot]] /\ free_head' \in [Processes -> Handles \cup {NullSlot}]
      /\ slots'[p] = row /\ \A q \in Processes : q # p => slots'[q] = slots[q]
      /\ Lists'
  BY <1>0, <1>1, <1>a, <1>4, <1>5, <1>6, RowStep, Zenon
<1>8. /\ call' = [call EXCEPT ![t] = call'[t]]
      /\ call'[t].at \in {"idle", "item", "drop"} /\ HoldsOk(call'[t], slots')
      /\ call[t].held \in {1, 2} /\ call'[t].held = call[t].held - 1
      /\ call'[t].obj = call[t].obj \/ call'[t].held = 0
  BY <1>0, <1>2, AfterInsertHolds, Zenon
<1>9. \A u \in Threads : u # t => call'[u] = call[u]
  BY <1>0, <1>8, BaseFacts, Zenon
<1>10. Holding'
  <2>1. ASSUME NEW u \in Threads, u # t, NEW q \in Processes, lock[q] = u PROVE slots'[q] = slots[q]
    BY <1>1, <1>7, <2>1, TableAssumption
  <2> QED
    BY <1>0, <1>8, <1>9, <2>1, OthersHold, Zenon
<1>11. Final'
  <2>1. \A u \in Threads : call'[u] = call[u] \/ call'[u].at \notin {"relock", "insert"}
    BY <1>8, <1>9
  <2>2. call[t].at \in {"relock", "insert"}
    BY <1>2, Zenon DEF MayInsert
  <2>3. \A q \in Processes, j \in Handles :
          \/ slots'[q][j] = slots[q][j] \/ slots'[q][j].obj = None
          \/ slots'[q][j].obj = call[t].obj /\ slots'[q][j].gen = generation[call[t].obj]
    <3> TAKE q \in Processes, j \in Handles
    <3>1. CASE q # p \/ (q = p /\ j # i /\ j # h)
      BY <1>5, <1>7, <3>1, Zenon
    <3>2. CASE q = p /\ j = i
      BY <1>b, <1>5, <1>7, <3>2, Zenon
    <3>3. CASE q = p /\ j = h
      BY <1>1, <1>a, <1>5, <1>7, <3>3, Zenon
    <3> QED
      BY <3>1, <3>2, <3>3, Zenon
  <2> QED
    BY <1>0, <1>2, <1>7, <2>1, <2>2, <2>3, FinalRow, Zenon
<1>12. ASSUME NEW z \in Objects
       PROVE  refs'[z] = Cardinality(Naming(slots', z)) + Cardinality(HeldFor(call', z))
  <2> DEFINE b == IF z = o THEN -1 ELSE 0
             m == [slots EXCEPT ![p] = mid]
  <2>1. m[p] = mid /\ \A q \in Processes : q # p => m[q] = slots[q]
    BY <1>1, <1>3, Zenon
  <2> HIDE DEF m
  <2>2. CountShifts(slots, m, p, h, z)
    <3>1. OneSlot(slots, m, p, h)
      BY <1>5, <2>1, Zenon DEF OneSlot
    <3> QED
      BY <1>1, <3>1, NamingMoved, Zenon
  <2>3. CountShifts(m, slots', p, i, z)
    <3>1. OneSlot(m, slots', p, i)
      BY <1>5, <1>7, <2>1, Zenon DEF OneSlot
    <3> QED
      BY <1>1, <1>a, <3>1, NamingNext, Zenon
  <2>4. /\ slots[p][h].obj # z /\ m[p][h].obj = o /\ m[p][i].obj = o /\ slots'[p][i].obj # z
        /\ Cardinality(Naming(slots, z)) \in Nat
    <3>1. z # None /\ Cardinality(Naming(slots, z)) \in Nat
      BY FiniteNames, TableAssumption, Zenon
    <3>2. mid[i] = slots[p][i] /\ m[p] = mid /\ slots'[p] = row /\ row[i] = y /\ mid[h] = x
      BY <1>a, <1>5, <1>7, <2>1, Zenon
    <3> QED
      BY <1>1, <1>a, <1>b, <3>1, <3>2, Zenon
  <2>5. Cardinality(Naming(slots', z)) = Cardinality(Naming(slots, z)) + 0
    BY <2>2, <2>3, <2>4 DEF CountShifts
  <2>6. \A c : c.held = call[t].held - 1 /\ (c.obj = o \/ c.held = 0) =>
          Own(c, z) = Own(call[t], z) - (IF z = o THEN 1 ELSE 0) /\ Own(call[t], z) \in 0..2
    BY <1>8, OwnLess
  <2>7. Own(call'[t], z) = Own(call[t], z) - (IF z = o THEN 1 ELSE 0) /\ Own(call[t], z) \in 0..2
    BY <1>8, <2>6, Zenon
  <2>8. Own(call'[t], z) = Own(call[t], z) + b
    BY <2>7
  <2>9. 0 \in Int /\ b \in Int
    OBVIOUS
  <2>10. refs'[z] = refs[z] + 0 + b
    BY <1>1, <1>2, <1>3 DEF Unref
  <2> HIDE DEF b
  <2> QED
    BY <1>0, <1>8, <2>5, <2>8, <2>9, <2>10, CountStep, Zenon
<1>13. refs' \in [Objects -> Nat]
  <2>1. refs' \in [Objects -> Int]
    BY <1>1, <1>2, <1>3 DEF Unref
  <2> QED
    BY <1>12, <2>1, ExactCounts, Zenon
<1> QED
  BY <1>7, <1>10, <1>11, <1>12, <1>13, Zenon DEF Kept, Exact

LEMMA DeleteKeeps ==
    ASSUME Counting, CapInv, NEW t \in Threads, Delete(t), AuthorityInv'
    PROVE  Kept
<1> DEFINE p == ProcessOf[t]
           h == free_head[p]
           y == Free(h)
<1>0. Base /\ Exact /\ Lists /\ Final
  BY Zenon DEF CapInv
<1>1. PICK i \in Handles : lock[p] = None /\ Used(p, i) /\ RemoveLocked(p, i) /\ Unref(slots[p][i].obj, 1)
  BY Zenon DEF Delete
<1>2. generation' = generation /\ raced' = raced /\ call' = call
  BY Zenon DEF Delete
<1> DEFINE o == slots[p][i].obj
           row == [slots[p] EXCEPT ![i] = y]
<1>3. slots \in [Processes -> [Handles -> Slot]] /\ refs \in [Objects -> Nat] /\ h \in Handles \cup {NullSlot} /\ p \in Processes
  BY <1>0, BaseFacts, Zenon DEF Base, TypeOK
<1>a. o \in Objects /\ o # None /\ slots[p][i].obj = o
  BY <1>0, <1>1, <1>3, BaseFacts, TableAssumption, Zenon
<1>4. slots' = [slots EXCEPT ![p] = row] /\ free_head' = [free_head EXCEPT ![p] = i]
  BY <1>1, <1>3, Zenon DEF RemoveLocked
<1>b. y \in Slot /\ y.obj = None /\ y.next = h
  <2>1. {} \in SUBSET Rights /\ 0 \in 0..MaxGeneration
    BY TableAssumption
  <2> HIDE DEF h
  <2> QED
    BY <1>3, <2>1 DEF Free, Slot
<1> HIDE DEF y
<1>5. row \in [Handles -> Slot] /\ row[i] = y /\ \A j \in Handles : j # i => row[j] = slots[p][j]
  <2>1. slots[p] \in [Handles -> Slot]
    BY <1>3, Zenon
  <2> QED
    BY <1>b, <2>1, Zenon
<1> HIDE DEF row
<1>6. Chain(row, i)
  <2>1. Chain(slots[p], h)
    BY <1>0, <1>3, Zenon DEF Lists
  <2>2. row[i].obj = None /\ row[i].next = h
    BY <1>5, <1>b, Zenon
  <2> HIDE DEF h, p
  <2> QED
    BY <1>a, <1>5, <2>1, <2>2, ChainPush, Zenon
<1>7. /\ slots' \in [Processes -> [Handles -> Slot]] /\ free_head' \in [Processes -> Handles \cup {NullSlot}]
      /\ slots'[p] = row /\ \A q \in Processes : q # p => slots'[q] = slots[q]
      /\ Lists'
  BY <1>0, <1>3, <1>4, <1>5, <1>6, RowStep, Zenon
<1>8. Holding'
  <2>1. ASSUME NEW u \in Threads, NEW q \in Processes, lock[q] = u PROVE slots'[q] = slots[q]
    BY <1>1, <1>7, <2>1, TableAssumption, Zenon
  <2> QED
    BY <1>0, <1>2, <2>1, OthersHold, Zenon
<1>9. Final'
  <2>1. \A q \in Processes, j \in Handles : slots'[q][j] = slots[q][j] \/ slots'[q][j].obj = None
    BY <1>b, <1>5, <1>7, Zenon
  <2> QED
    BY <1>0, <1>2, <1>7, <2>1, FinalRow, Zenon
<1>10. ASSUME NEW z \in Objects
       PROVE  refs'[z] = Cardinality(Naming(slots', z)) + Cardinality(HeldFor(call', z))
  <2> DEFINE a == IF z = o THEN -1 ELSE 0
  <2>1. OneSlot(slots, slots', p, i)
    BY <1>5, <1>7, Zenon DEF OneSlot
  <2>2. CountShifts(slots, slots', p, i, z)
    BY <1>3, <2>1, NamingNext, Zenon
  <2>3. slots[p][i].obj = o /\ slots'[p][i].obj # z /\ Cardinality(Naming(slots, z)) \in Nat
    BY <1>b, <1>5, <1>7, FiniteNames, TableAssumption, Zenon
  <2>4. Cardinality(Naming(slots', z)) = Cardinality(Naming(slots, z)) + a
    BY <2>2, <2>3 DEF CountShifts
  <2>5. call' = [call EXCEPT ![t] = call'[t]] /\ call[t] \in Call
    BY <1>0, <1>2, BaseFacts, Zenon
  <2>6. Own(call[t], z) \in 0..2
    BY <2>5 DEF Own, Call
  <2>7. Own(call'[t], z) = Own(call[t], z) + 0 /\ 0 \in Int /\ a \in Int
    BY <1>2, <2>6
  <2>8. refs'[z] = refs[z] + a + 0
    BY <1>1, <1>3, <1>a DEF Unref
  <2> HIDE DEF a
  <2> QED
    BY <1>0, <2>4, <2>5, <2>7, <2>8, CountStep, Zenon
<1>11. refs' \in [Objects -> Nat]
  <2>1. refs' \in [Objects -> Int]
    BY <1>1, <1>3, <1>a DEF Unref
  <2> QED
    BY <1>10, <2>1, ExactCounts, Zenon
<1> QED
  BY <1>7, <1>8, <1>9, <1>10, <1>11, Zenon DEF Kept, Exact

LEMMA ExitKeeps ==
    ASSUME Counting, CapInv, NEW p \in Processes, Exit(p), AuthorityInv'
    PROVE  Kept
<1> DEFINE row == Chained(p)
           h == free_head[p]
<1>0. Base /\ Exact /\ Lists /\ Final
  BY Zenon DEF CapInv
<1>1. PICK i \in Handles : Used(p, i) /\ (\A j \in Handles : Used(p, j) => j <= i) /\ free_head' = [free_head EXCEPT ![p] = i]
  BY Zenon DEF Exit
<1>2. /\ generation' = generation /\ raced' = raced /\ call' = call /\ lock[p] = None
      /\ slots' = [slots EXCEPT ![p] = row] /\ refs' = [o \in Objects |-> refs[o] - Cardinality(SlotsNaming(p, o))]
  BY Zenon DEF Exit
<1>3. slots \in [Processes -> [Handles -> Slot]] /\ refs \in [Objects -> Nat] /\ h \in Handles \cup {NullSlot}
  BY <1>0, Zenon DEF Base, TypeOK
<1>4. Chain(row, i)
  <2>1. Chain(slots[p], h)
    BY <1>0, Zenon DEF Lists
  <2>2. slots[p][i].obj # None /\ \A j \in Handles : slots[p][j].obj # None => j <= i
    BY <1>1, Zenon DEF Used
  <2>3. Chain(RowAt(slots[p], h, SlotCount), i)
    BY <2>1, <2>2, ChainAll, Zenon
  <2>4. \A j \in Handles : row[j] = RowAt(slots[p], h, SlotCount)[j]
    BY ChainedIs, Zenon
  <2> HIDE DEF row
  <2> QED
    BY <2>3, <2>4, ChainSame
<1>5. ASSUME NEW j \in Handles
      PROVE  row[j] \in Slot /\ row[j].obj = None
  <2>1. CASE ~Used(p, j)
    <3>1. row[j] = slots[p][j]
      BY <2>1, Zenon DEF Chained
    <3> QED
      BY <1>3, <2>1, <3>1, Zenon DEF Used
  <2>2. CASE Used(p, j)
    <3>1. row[j] = RowAt(slots[p], h, SlotCount)[j] /\ j \in Below(slots[p], SlotCount)
      <4>1. j < SlotCount
        BY TableAssumption DEF Handles
      <4> QED
        BY <2>2, <4>1, ChainedIs, Zenon DEF Below, Used
    <3>2. row[j] = Free(Pushed(slots[p], h, j))
      BY <3>1, Zenon DEF RowAt
    <3>3. Pushed(slots[p], h, j) \in Handles \cup {NullSlot}
      BY <1>3, PushedTyped, Zenon
    <3>4. {} \in SUBSET Rights /\ 0 \in 0..MaxGeneration
      BY TableAssumption
    <3> HIDE DEF row, h
    <3> QED
      BY <3>2, <3>3, <3>4 DEF Free, Slot
  <2> QED
    BY <2>1, <2>2, Zenon
<1>6. row \in [Handles -> Slot]
  BY <1>5, Zenon DEF Chained
<1> HIDE DEF row
<1>7. /\ slots' \in [Processes -> [Handles -> Slot]] /\ free_head' \in [Processes -> Handles \cup {NullSlot}]
      /\ slots'[p] = row /\ \A q \in Processes : q # p => slots'[q] = slots[q]
      /\ Lists'
  BY <1>0, <1>1, <1>2, <1>4, <1>6, RowStep, Zenon
<1>8. Holding'
  <2>1. ASSUME NEW u \in Threads, NEW q \in Processes, lock[q] = u PROVE slots'[q] = slots[q]
    BY <1>2, <1>7, <2>1, TableAssumption, Zenon
  <2> QED
    BY <1>0, <1>2, <2>1, OthersHold, Zenon
<1>9. Final'
  <2>1. \A q \in Processes, j \in Handles : slots'[q][j] = slots[q][j] \/ slots'[q][j].obj = None
    BY <1>5, <1>7, Zenon
  <2> QED
    BY <1>0, <1>2, <1>7, <2>1, FinalRow, Zenon
<1>10. ASSUME NEW z \in Objects
       PROVE  /\ refs'[z] = Cardinality(Naming(slots', z)) + Cardinality(HeldFor(call', z))
              /\ refs'[z] \in Int
  <2> DEFINE here == Cardinality({j \in Handles : slots[p][j].obj = z})
             n == Cardinality(Naming(slots, z))
             k == Cardinality(HeldFor(call, z))
  <2>1. z # None
    BY TableAssumption, Zenon
  <2>2. Emptied(slots, slots', p, z)
    BY <1>5, <1>7, <2>1, Zenon DEF Emptied
  <2>3. here \in Nat /\ Cardinality(Naming(slots', z)) = n - here
    <3>1. \A s : Emptied(slots, s, p, z) => CountDrops(slots, s, p, z)
      BY NamingEmptied, Zenon
    <3>2. CountDrops(slots, slots', p, z)
      BY <2>2, <3>1, Zenon
    <3> QED
      BY <3>2, Zenon DEF CountDrops
  <2>4. refs[z] = n + k /\ HeldFor(call', z) = HeldFor(call, z)
    BY <1>0, <1>2, Zenon DEF Exact
  <2>5. refs'[z] = refs[z] - here
    BY <1>2, Zenon DEF SlotsNaming
  <2>6. n \in Nat /\ k \in Nat /\ Cardinality(HeldFor(call', z)) = k
    BY <2>4, FiniteNames, Zenon
  <2> HIDE DEF here, n, k
  <2> QED
    BY <2>3, <2>4, <2>5, <2>6
<1>11. refs' \in [Objects -> Nat]
  <2>1. refs' = [z \in Objects |-> refs'[z]]
    BY <1>2, Zenon
  <2>2. refs' \in [Objects -> Int]
    BY <1>10, <2>1, Zenon
  <2> QED
    BY <1>10, <2>2, ExactCounts, Zenon
<1> QED
  BY <1>7, <1>8, <1>9, <1>10, <1>11, Zenon DEF Kept, Exact

----------------------------------------------------------------------------
(* Revocation *)

\* What a call copies from a valid slot was not revoked.
LEMMA QuietFinal ==
    ASSUME Base, Final, NEW t \in Threads, Quiet(t), Copies(t), generation' = generation, raced' = raced
    PROVE  Final'
<1>1. slots' = slots /\ call \in [Threads -> Call] /\ call' = [call EXCEPT ![t] = call'[t]]
  BY BaseFacts, Zenon DEF Quiet
<1>2. \A u \in Threads : u # t => call'[u] = call[u]
  BY <1>1, Zenon
<1>3. ASSUME NEW u \in Threads, call'[u].at \in {"relock", "insert"} PROVE Fresh(call'[u].obj)
  <2>1. CASE u # t
    BY <1>2, <1>3, <2>1, Zenon DEF Final
  <2>2. CASE u = t
    BY <1>3, <2>2, Zenon DEF Final, Copies
  <2> QED
    BY <2>1, <2>2
<1>4. \A u \in Threads : call'[u].at \in {"relock", "insert"} => Fresh(call[u].obj)'
  BY <1>3, Zenon DEF Fresh
<1>5. /\ \A p \in Processes, i \in Handles : Used(p, i)' => slots'[p][i].gen <= generation'[slots'[p][i].obj]
      /\ \A p \in Processes, i \in Handles : Valid(p, i)' => Fresh(slots[p][i].obj)'
  BY <1>1, Zenon DEF Final, Used, Valid, Fresh
<1> QED
  BY <1>4, <1>5, Zenon DEF Final

\* An object that is created again is named by no slot and no call.
LEMMA UnreferencedUnnamed ==
    ASSUME Counting, Base, Exact, NEW o \in Objects, refs[o] = 0
    PROVE  /\ \A p \in Processes, i \in Handles : slots[p][i].obj # o
           /\ \A u \in Threads : call[u].at \in {"relock", "insert"} => call[u].obj # o
<1> DEFINE n == Cardinality(Naming(slots, o))
           h == Cardinality(HeldFor(call, o))
<1>1. n \in Nat /\ h \in Nat /\ refs[o] = n + h
  BY FiniteNames, Zenon DEF Exact
<1>2. n = 0 /\ h = 0
  <2> HIDE DEF n, h
  <2> QED
    BY <1>1
<1>3. Naming(slots, o) = {} /\ HeldFor(call, o) = {}
  BY <1>2, Zenon DEF Counting
<1>4. \A p \in Processes, i \in Handles : slots[p][i].obj # o
  <2> SUFFICES ASSUME NEW p \in Processes, NEW i \in Handles, slots[p][i].obj = o PROVE <<p, i>> \in Naming(slots, o)
    BY <1>3, Zenon
  <2> QED
    BY Zenon DEF Naming
<1>5. \A u \in Threads : call[u].at \in {"relock", "insert"} => call[u].obj # o
  <2> SUFFICES ASSUME NEW u \in Threads, call[u].at \in {"relock", "insert"}, call[u].obj = o
               PROVE  <<u, 1>> \in HeldFor(call, o)
    BY <1>3, Zenon
  <2>1. 1 <= call[u].held
    <3>1. HoldsOk(call[u], slots)
      BY BaseFacts, Zenon
    <3> QED
      BY <3>1 DEF HoldsOk
  <2> QED
    BY <2>1, Zenon DEF HeldFor
<1> QED
  BY <1>4, <1>5

\* Calls that will insert name objects.
LEMMA NamedObjects == ASSUME Base PROVE \A u \in Threads : call[u].at \in {"relock", "insert"} => call[u].obj \in Objects
  BY Zenon DEF Base, Holding, HoldsOk

LEMMA CreateFinal ==
    ASSUME Counting, CapInv, NEW t \in Threads, Create(t)
    PROVE  Final'
<1>0. Base /\ Exact /\ Final
  BY Zenon DEF CapInv
<1>1. /\ Quiet(t) /\ call'[t].obj \in Objects /\ refs[call'[t].obj] = 0
      /\ generation' = [generation EXCEPT ![call'[t].obj] = 0] /\ raced' = raced \ {call'[t].obj}
  BY <1>0, CreateQuiet, Zenon
<1>2. PICK o \in Objects : o = call'[t].obj
  BY <1>1, Zenon
<1>3. /\ \A p \in Processes, i \in Handles : slots[p][i].obj # o
      /\ \A u \in Threads : call[u].at \in {"relock", "insert"} => call[u].obj # o
  BY <1>0, <1>1, <1>2, UnreferencedUnnamed, Zenon
<1>4. generation \in [Objects -> 0..MaxGeneration] /\ slots' = slots
  BY <1>0, <1>1, Zenon DEF Base, TypeOK, Quiet
<1>5. generation'[o] = 0 /\ \A z \in Objects : z # o => generation'[z] = generation[z] /\ (z \in raced' <=> z \in raced)
  BY <1>1, <1>2, <1>4, Zenon
<1>6. \A u \in Threads : u # t => call'[u] = call[u]
  BY <1>0, <1>1, BaseFacts, Zenon DEF Quiet
<1>a. /\ \A p \in Processes, i \in Handles : Used(p, i) => slots[p][i].obj \in Objects
      /\ \A u \in Threads : call[u].at \in {"relock", "insert"} => call[u].obj \in Objects
  BY <1>0, BaseFacts, NamedObjects, Zenon
<1>7. /\ \A p \in Processes, i \in Handles : Used(p, i)' => slots'[p][i].gen <= generation'[slots'[p][i].obj]
      /\ \A p \in Processes, i \in Handles : Valid(p, i)' => Fresh(slots[p][i].obj)'
  <2> SUFFICES ASSUME NEW p \in Processes, NEW i \in Handles
               PROVE  /\ Used(p, i)' => slots'[p][i].gen <= generation'[slots'[p][i].obj]
                      /\ Valid(p, i)' => Fresh(slots[p][i].obj)'
    BY Zenon
  <2>1. CASE ~Used(p, i)
    BY <1>4, <2>1, Zenon DEF Used, Valid
  <2>2. CASE Used(p, i)
    <3>1. slots[p][i].obj \in Objects /\ slots[p][i].obj # o
      BY <1>3, <1>a, <2>2, Zenon
    <3> QED
      BY <1>0, <1>4, <1>5, <2>2, <3>1, Zenon DEF Final, Used, Valid, Fresh
  <2> QED
    BY <2>1, <2>2
<1>8. \A u \in Threads : call'[u].at \in {"relock", "insert"} => Fresh(call[u].obj)'
  <2> TAKE u \in Threads
  <2>1. CASE u = t
    BY <1>2, <1>5, <2>1, Zenon DEF Fresh
  <2>2. CASE u # t
    BY <1>0, <1>3, <1>a, <1>5, <1>6, <2>2, Zenon DEF Final, Fresh
  <2> QED
    BY <2>1, <2>2
<1> QED
  BY <1>7, <1>8, Zenon DEF Final

\* Revoking makes every slot of the object stale, and what calls have of it is
\* recorded.
LEMMA RevokeFinal ==
    ASSUME CapInv, NEW t \in Threads, Revoke(t)
    PROVE  /\ Final' /\ generation' \in [Objects -> 0..MaxGeneration] /\ raced' \subseteq Objects
           /\ slots' = slots /\ free_head' = free_head /\ refs' = refs /\ call' = call
<1>0. Base /\ Final /\ generation \in [Objects -> 0..MaxGeneration] /\ raced \subseteq Objects
  BY Zenon DEF CapInv, Base, TypeOK
<1>1. slots' = slots /\ free_head' = free_head /\ refs' = refs /\ call' = call
  BY Zenon DEF Revoke, tables
<1>2. PICK i \in Handles :
        LET o == slots[ProcessOf[t]][i].obj IN
        /\ Used(ProcessOf[t], i) /\ generation[o] < MaxGeneration
        /\ generation' = [generation EXCEPT ![o] = @ + 1]
        /\ raced' = IF InFlight(o) # {} THEN raced \cup {o} ELSE raced
  BY Zenon DEF Revoke
<1> DEFINE o == slots[ProcessOf[t]][i].obj
<1>3. o \in Objects
  BY <1>0, <1>2, BaseFacts, Zenon
<1>a. /\ generation[o] < MaxGeneration /\ generation' = [generation EXCEPT ![o] = @ + 1]
      /\ raced' = IF InFlight(o) # {} THEN raced \cup {o} ELSE raced
  BY <1>2, Zenon
<1> HIDE DEF o
<1>4. /\ generation' \in [Objects -> 0..MaxGeneration]
      /\ generation'[o] = generation[o] + 1 /\ \A z \in Objects : z # o => generation'[z] = generation[z]
  BY <1>0, <1>3, <1>a, TableAssumption
<1>5. raced' \subseteq Objects /\ raced \subseteq raced'
  BY <1>0, <1>3, <1>a, Zenon
<1>6. \A z \in Objects : z # o /\ Fresh(z) => z \in raced' \/ generation'[z] = 0
  BY <1>4, <1>5, Zenon DEF Fresh
<1>b. /\ \A p \in Processes, j \in Handles : Used(p, j) => slots[p][j].obj \in Objects
      /\ \A u \in Threads : call[u].at \in {"relock", "insert"} => call[u].obj \in Objects
  BY <1>0, BaseFacts, NamedObjects, Zenon
<1>7. ASSUME NEW p \in Processes, NEW j \in Handles, Used(p, j)
      PROVE  /\ slots[p][j].gen <= generation'[slots[p][j].obj]
             /\ slots[p][j].obj = o => slots[p][j].gen # generation'[o]
  <2>1. slots[p][j] \in Slot
    BY <1>0, Zenon DEF Base, TypeOK
  <2>2. slots[p][j].gen \in Nat /\ generation[o] \in Nat
    BY <1>0, <1>3, <2>1, TableAssumption DEF Slot
  <2>3. slots[p][j].gen <= generation[slots[p][j].obj]
    BY <1>0, <1>7, Zenon DEF Final
  <2>4. CASE slots[p][j].obj = o
    BY <1>4, <2>2, <2>3, <2>4
  <2>5. CASE slots[p][j].obj # o
    BY <1>4, <1>b, <1>7, <2>3, <2>5, Zenon
  <2> QED
    BY <2>4, <2>5, Zenon
<1>8. \A p \in Processes, j \in Handles : Used(p, j)' => slots'[p][j].gen <= generation'[slots'[p][j].obj]
  BY <1>1, <1>7, Zenon DEF Used
<1>9. ASSUME NEW p \in Processes, NEW j \in Handles, Valid(p, j)' PROVE Fresh(slots[p][j].obj)'
  <2>1. Used(p, j) /\ slots[p][j].gen = generation'[slots[p][j].obj]
    BY <1>1, <1>9, Zenon DEF Used, Valid
  <2>2. slots[p][j].obj # o
    BY <1>7, <2>1, Zenon
  <2>a. slots[p][j].obj \in Objects
    BY <1>b, <2>1, Zenon
  <2>3. Valid(p, j)
    BY <1>4, <2>1, <2>2, <2>a, Zenon DEF Valid
  <2>4. Fresh(slots[p][j].obj)
    BY <1>0, <2>3, Zenon DEF Final
  <2> QED
    BY <1>1, <1>6, <2>2, <2>a, <2>4, Zenon DEF Fresh
<1>10. ASSUME NEW u \in Threads, call[u].at \in {"relock", "insert"}
       PROVE  call[u].obj \in raced' \/ generation'[call[u].obj] = 0
  <2>1. CASE call[u].obj = o
    <3>1. u \in InFlight(o)
      BY <1>10, <2>1, Zenon DEF InFlight
    <3>2. raced' = raced \cup {o}
      BY <1>a, <3>1, Zenon
    <3> QED
      BY <2>1, <3>2, Zenon
  <2>2. CASE call[u].obj # o
    BY <1>0, <1>6, <1>b, <1>10, <2>2, Zenon DEF Final
  <2> QED
    BY <2>1, <2>2
<1>11. \A u \in Threads : call'[u].at \in {"relock", "insert"} => Fresh(call[u].obj)'
  BY <1>1, <1>10, Zenon DEF Fresh
<1> QED
  BY <1>1, <1>4, <1>5, <1>8, <1>9, <1>11, Zenon DEF Final

----------------------------------------------------------------------------
(* Every step keeps the invariant *)

\* The parts of CapInv' together.
LEMMA CapParts ==
    ASSUME AuthorityInv', Kept, generation' \in [Objects -> 0..MaxGeneration], raced' \subseteq Objects
    PROVE  CapInv'
<1>1. lock' \in [Processes -> Threads \cup {None}] /\ call' \in [Threads -> Call]
  BY Zenon DEF AuthorityInv, LockInv
<1>2. TypeOK'
  BY <1>1, Zenon DEF TypeOK, Kept
<1> QED
  BY <1>2, Zenon DEF CapInv, Base, Kept

\* The steps that change no table, creation and revocation apart.
Copying(t) ==
    \/ Invoke(t) \/ Clone(t) \/ Drop(t) \/ Copy(t) \/ Move(t)
    \/ TransferLock(t) \/ TransferSecond(t) \/ TransferItem(t) \/ TransferEnd(t) \/ InsertFull(t)

LEMMA CopyingQuiet ==
    ASSUME Base, NEW t \in Threads, Copying(t)
    PROVE  Quiet(t) /\ Copies(t) /\ generation' = generation /\ raced' = raced
<1>1. Quiet(t) /\ Copies(t)
  BY InvokeQuiet, CloneQuiet, DropQuiet, CopyQuiet, MoveQuiet, TransferLockQuiet, TransferSecondQuiet,
     TransferItemQuiet, TransferEndQuiet, InsertFullQuiet, Zenon DEF Copying
<1>2. generation' = generation /\ raced' = raced
  BY Zenon DEF Copying, Invoke, Clone, Drop, Copy, Move, TransferLock, TransferSecond, TransferItem, TransferEnd,
               InsertFull
<1> QED
  BY <1>1, <1>2

\* A step without changes to the tables has what Kept asks, if Final is kept.
LEMMA QuietIsKept ==
    ASSUME Counting, CapInv, NEW t \in Threads, Quiet(t), AuthorityInv', Final'
    PROVE  Kept
<1>1. Base /\ Exact /\ Lists
  BY Zenon DEF CapInv
<1>2. slots' \in [Processes -> [Handles -> Slot]] /\ free_head' \in [Processes -> Handles \cup {NullSlot}]
  BY <1>1, Zenon DEF Base, TypeOK, Quiet
<1>3. Holding' /\ Exact' /\ Lists' /\ refs' \in [Objects -> Nat]
  BY <1>1, QuietKeeps, Zenon
<1> QED
  BY <1>2, <1>3, Zenon DEF Kept

LEMMA ThreadKeepsCap ==
    ASSUME Counting, CapInv, NEW t \in Threads, ThreadStep(t), AuthorityInv'
    PROVE  CapInv'
<1>0. Base /\ Exact /\ Lists /\ Final /\ generation \in [Objects -> 0..MaxGeneration] /\ raced \subseteq Objects
  BY Zenon DEF CapInv, Base, TypeOK
<1>1. CASE Copying(t)
  <2>1. Quiet(t) /\ Copies(t) /\ generation' = generation /\ raced' = raced
    BY <1>0, <1>1, CopyingQuiet, Zenon
  <2>2. Final'
    BY <1>0, <2>1, QuietFinal, Zenon
  <2>3. Kept
    BY <2>1, <2>2, QuietIsKept, Zenon
  <2> QED
    BY <1>0, <2>1, <2>3, CapParts, Zenon
<1>2. CASE Create(t)
  <2>1. /\ Quiet(t) /\ call'[t].obj \in Objects
        /\ generation' = [generation EXCEPT ![call'[t].obj] = 0] /\ raced' = raced \ {call'[t].obj}
    BY <1>0, <1>2, CreateQuiet, Zenon
  <2>2. Kept
    BY <1>2, <2>1, CreateFinal, QuietIsKept, Zenon
  <2>3. generation' \in [Objects -> 0..MaxGeneration] /\ raced' \subseteq Objects
    BY <1>0, <2>1, TableAssumption
  <2> QED
    BY <2>2, <2>3, CapParts, Zenon
<1>3. CASE InsertHeld(t)
  <2>1. Kept
    BY <1>3, InsertKeeps, MoveKeeps, Zenon
  <2>2. generation' = generation /\ raced' = raced
    BY <1>3, Zenon DEF InsertHeld
  <2> QED
    BY <1>0, <2>1, <2>2, CapParts, Zenon
<1>4. CASE Delete(t)
  <2>1. Kept
    BY <1>4, DeleteKeeps, Zenon
  <2>2. generation' = generation /\ raced' = raced
    BY <1>4, Zenon DEF Delete
  <2> QED
    BY <1>0, <2>1, <2>2, CapParts, Zenon
<1>5. CASE Revoke(t)
  <2>1. /\ Final' /\ generation' \in [Objects -> 0..MaxGeneration] /\ raced' \subseteq Objects
        /\ slots' = slots /\ free_head' = free_head /\ refs' = refs /\ call' = call
    BY <1>5, RevokeFinal, Zenon
  <2>2. Kept
    BY <1>0, <2>1, Zenon DEF Kept, Base, TypeOK, Holding, Exact, Lists
  <2> QED
    BY <2>1, <2>2, CapParts, Zenon
<1> QED
  BY <1>1, <1>2, <1>3, <1>4, <1>5, Zenon DEF ThreadStep, Copying

LEMMA StutterKeepsCap == ASSUME CapInv, UNCHANGED vars PROVE CapInv'
<1>1. /\ slots' = slots /\ free_head' = free_head /\ lock' = lock /\ refs' = refs /\ generation' = generation
      /\ call' = call /\ raced' = raced
  BY Zenon DEF vars, tables
<1>2. AuthorityInv'
  BY <1>1, Zenon DEF CapInv, Base, AuthorityInv, AuthorityHeld, LockInv, SlotsTyped, LocksHeld
<1>3. TypeOK' /\ Holding'
  BY <1>1, Zenon DEF CapInv, Base, TypeOK, Holding
<1>4. Exact' /\ Lists'
  BY <1>1, Zenon DEF CapInv, Exact, Lists
<1>5. Final'
  BY <1>1, Zenon DEF CapInv, Final, Used, Valid, Fresh
<1> QED
  BY <1>2, <1>3, <1>4, <1>5, Zenon DEF CapInv, Base

----------------------------------------------------------------------------
(* With the library's theorems: the facts about finite sets, and the theorems *)

INSTANCE FiniteSetTheorems

\* Slots and handles are finitely many.
LEMMA NamesFinite ==
    /\ \A s, o : IsFiniteSet(Naming(s, o)) /\ Cardinality(Naming(s, o)) \in Nat
    /\ \A cs, o : IsFiniteSet(HeldFor(cs, o)) /\ Cardinality(HeldFor(cs, o)) \in Nat
<1>1. IsFiniteSet(Handles)
  BY FS_Interval, TableAssumption DEF Handles
<1>2. IsFiniteSet(Processes \X Handles)
  BY <1>1, FS_Product, TableAssumption, Zenon
<1>3. IsFiniteSet({1, 2})
  <2>1. {1, 2} = 1..2 /\ 1 \in Int /\ 2 \in Int
    OBVIOUS
  <2> QED
    BY <2>1, FS_Interval, Zenon
<1>4. IsFiniteSet(Threads \X {1, 2})
  BY <1>3, FS_Product, TableAssumption, Zenon
<1>5. /\ \A s, o : Naming(s, o) \in SUBSET (Processes \X Handles)
      /\ \A cs, o : HeldFor(cs, o) \in SUBSET (Threads \X {1, 2})
  BY Zenon DEF Naming, HeldFor
<1>6. /\ \A s, o : IsFiniteSet(Naming(s, o))
      /\ \A cs, o : IsFiniteSet(HeldFor(cs, o))
  BY <1>2, <1>4, <1>5, FS_Subset, Zenon
<1> QED
  BY <1>6, FS_CardinalityType, Zenon

\* The references of all calls but one, and those of that one.
LEMMA HeldCount ==
    ASSUME NEW cs, NEW t \in Threads, cs[t].held \in 0..2, NEW o
    PROVE  /\ Cardinality({x \in HeldFor(cs, o) : x[1] # t}) \in Nat
           /\ Cardinality(HeldFor(cs, o)) = Cardinality({x \in HeldFor(cs, o) : x[1] # t}) + Own(cs[t], o)
<1> DEFINE rest == {x \in HeldFor(cs, o) : x[1] # t}
<1>1. IsFiniteSet(rest) /\ Cardinality(rest) \in Nat
  <2>1. rest \in SUBSET HeldFor(cs, o)
    BY Zenon
  <2> QED
    BY <2>1, NamesFinite, FS_Subset, FS_CardinalityType, Zenon
<1>2. CASE Own(cs[t], o) = 0
  <2>1. HeldFor(cs, o) = rest
    BY <1>2 DEF HeldFor, Own
  <2> QED
    BY <1>1, <1>2, <2>1
<1>3. CASE Own(cs[t], o) = 1
  <2>1. HeldFor(cs, o) = rest \cup {<<t, 1>>}
    BY <1>3 DEF HeldFor, Own
  <2>2. <<t, 1>> \notin rest
    BY Zenon
  <2>3. Cardinality(HeldFor(cs, o)) = Cardinality(rest) + 1
    BY <1>1, <2>1, <2>2, FS_AddElement, Zenon
  <2> QED
    BY <1>1, <1>3, <2>3, Zenon
<1>4. CASE Own(cs[t], o) = 2
  <2> DEFINE more == rest \cup {<<t, 1>>}
  <2>1. HeldFor(cs, o) = more \cup {<<t, 2>>}
    BY <1>4 DEF HeldFor, Own
  <2>2. <<t, 1>> \notin rest /\ <<t, 2>> \notin more
    OBVIOUS
  <2>3. IsFiniteSet(more) /\ Cardinality(more) = Cardinality(rest) + 1
    BY <1>1, <2>2, FS_AddElement, Zenon
  <2> HIDE DEF more
  <2>4. Cardinality(HeldFor(cs, o)) = Cardinality(more) + 1
    BY <2>1, <2>2, <2>3, FS_AddElement, Zenon
  <2> QED
    BY <1>1, <1>4, <2>3, <2>4
<1> QED
  BY <1>1, <1>2, <1>3, <1>4 DEF Own

\* A slot that begins, or ceases, to name an object counts for it.
LEMMA NamingCount ==
    ASSUME NEW r, NEW s, NEW p \in Processes, NEW i \in Handles, NEW o, OneSlot(r, s, p, i)
    PROVE  CountShifts(r, s, p, i, o)
<1> DEFINE rest == {x \in Naming(r, o) : x # <<p, i>>}
<1>1. rest = {x \in Naming(s, o) : x # <<p, i>>}
  BY DEF Naming, OneSlot
<1>2. IsFiniteSet(rest) /\ Cardinality(rest) \in Nat /\ <<p, i>> \notin rest
  <2>1. rest \in SUBSET Naming(r, o)
    BY Zenon
  <2> QED
    BY <2>1, NamesFinite, FS_Subset, FS_CardinalityType, Zenon
<1>3. ASSUME NEW z, rest = {x \in Naming(z, o) : x # <<p, i>>}
      PROVE  Cardinality(Naming(z, o)) = Cardinality(rest) + (IF z[p][i].obj = o THEN 1 ELSE 0)
  <2>1. CASE z[p][i].obj = o
    <3>1. Naming(z, o) = rest \cup {<<p, i>>}
      BY <1>3, <2>1 DEF Naming
    <3> QED
      BY <1>2, <2>1, <3>1, FS_AddElement, Zenon
  <2>2. CASE z[p][i].obj # o
    <3>1. Naming(z, o) = rest
      BY <1>3, <2>2 DEF Naming
    <3> QED
      BY <1>2, <2>2, <3>1
  <2> QED
    BY <2>1, <2>2, Zenon
<1>4. Cardinality(Naming(r, o)) = Cardinality(rest) + (IF r[p][i].obj = o THEN 1 ELSE 0)
  BY <1>3, Zenon
<1>5. Cardinality(Naming(s, o)) = Cardinality(rest) + (IF s[p][i].obj = o THEN 1 ELSE 0)
  BY <1>1, <1>3, Zenon
<1> HIDE DEF rest
<1> QED
  BY <1>2, <1>4, <1>5 DEF CountShifts

\* The slots of one table count for an object, and those of the others.
LEMMA EmptiedCount ==
    ASSUME NEW r, NEW s, NEW p \in Processes, NEW o, Emptied(r, s, p, o)
    PROVE  CountDrops(r, s, p, o)
<1> DEFINE here == {j \in Handles : r[p][j].obj = o}
           there == {p} \X here
<1>1. IsFiniteSet(here) /\ Cardinality(here) \in Nat
  <2>1. IsFiniteSet(Handles) /\ here \in SUBSET Handles
    BY FS_Interval, TableAssumption DEF Handles
  <2> QED
    BY <2>1, FS_Subset, FS_CardinalityType, Zenon
<1>2. IsFiniteSet(there) /\ Cardinality(there) = Cardinality(here)
  <2>1. IsFiniteSet({p}) /\ Cardinality({p}) = 1
    BY FS_Singleton, Zenon
  <2>2. IsFiniteSet(there) /\ Cardinality(there) = 1 * Cardinality(here)
    BY <1>1, <2>1, FS_Product, Zenon
  <2> HIDE DEF here, there
  <2> QED
    BY <1>1, <2>2
<1>3. Naming(s, o) = Naming(r, o) \ there /\ there = Naming(r, o) \cap there
  BY DEF Naming, Emptied
<1>4. Cardinality(Naming(s, o)) = Cardinality(Naming(r, o)) - Cardinality(there)
  <2>1. Cardinality(Naming(r, o) \ there) = Cardinality(Naming(r, o)) - Cardinality(Naming(r, o) \cap there)
    BY NamesFinite, FS_Difference, Zenon
  <2> HIDE DEF there
  <2> QED
    BY <1>3, <2>1, Zenon
<1> HIDE DEF there
<1> QED
  BY <1>1, <1>2, <1>4, Zenon DEF CountDrops

\* A set of numbers that is not empty has a least element.
LEMMA LeastOfNumbers ==
    ASSUME NEW S \in SUBSET Nat, S # {}
    PROVE  \E m \in S : \A k \in S : m <= k
<1>1. IsWellFoundedOn(OpToRel(<, Nat), Nat)
  BY NatLessThanWellFounded, Zenon
<1>2. PICK m \in S : \A k \in Nat : <<k, m>> \in OpToRel(<, Nat) => k \notin S
  BY <1>1, WFMin, Zenon
<1> SUFFICES ASSUME NEW k \in S PROVE m <= k
  BY Zenon
<1>3. m \in Nat /\ k \in Nat
  BY Zenon
<1>4. k < m => <<k, m>> \in OpToRel(<, Nat)
  BY <1>3, Zenon DEF OpToRel
<1>5. ~ (k < m)
  BY <1>2, <1>3, <1>4, Zenon
<1> QED
  BY <1>3, <1>5

LEMMA CountingHolds == Counting
<1>1. \A s, o : Cardinality(Naming(s, o)) \in Nat /\ (Cardinality(Naming(s, o)) = 0 => Naming(s, o) = {})
  BY NamesFinite, FS_EmptySet, Zenon
<1>2. \A cs, o : Cardinality(HeldFor(cs, o)) \in Nat /\ (Cardinality(HeldFor(cs, o)) = 0 => HeldFor(cs, o) = {})
  BY NamesFinite, FS_EmptySet, Zenon
<1>3. \A cs, o : \A t \in Threads : cs[t].held \in 0..2 => HeldParts(cs, t, o)
  <2> TAKE cs, o
  <2> TAKE t \in Threads
  <2>1. HAVE cs[t].held \in 0..2
  <2> QED
    BY <2>1, HeldCount, Zenon DEF HeldParts
<1>4. \A r, s, o : \A p \in Processes, i \in Handles : OneSlot(r, s, p, i) => CountShifts(r, s, p, i, o)
  BY NamingCount, Zenon
<1>5. \A r, s, o : \A p \in Processes : Emptied(r, s, p, o) => CountDrops(r, s, p, o)
  BY EmptiedCount, Zenon
<1>6. \A S \in SUBSET Nat : S # {} => \E m \in S : \A k \in S : m <= k
  BY LeastOfNumbers, Zenon
<1> QED
  BY <1>1, <1>2, <1>3, <1>4, <1>5, <1>6, Zenon DEF Counting

LEMMA InitCapInv == Init /\ AuthorityInv => CapInv
<1> SUFFICES ASSUME Init, AuthorityInv PROVE CapInv
  BY Zenon
<1>0. /\ \A p \in Processes : free_head[p] = 0 /\ slots[p] = [i \in Handles |-> Free(i + 1)]
      /\ \A p \in Processes, i \in Handles : slots[p][i] = Free(i + 1)
      /\ \A t \in Threads : call[t] = NoCall
  BY Zenon DEF Init
<1>a. \A n : Free(n).obj = None /\ Free(n).next = n
  BY Zenon DEF Free
<1>b. \A p \in Processes, i \in Handles : slots[p][i].obj = None /\ slots[p][i].next = i + 1
  <2> TAKE p \in Processes, i \in Handles
  <2>1. slots[p][i] = Free(i + 1)
    BY <1>0, Zenon
  <2>2. Free(i + 1).obj = None /\ Free(i + 1).next = i + 1
    BY <1>a, Zenon
  <2> QED
    BY <2>1, <2>2, Zenon
<1>1. NoCall.at = "idle" /\ NoCall.kind = "none" /\ NoCall.held = 0 /\ NoCall.obj = None
  BY Zenon DEF NoCall
<1>2. Holding
  <2>1. HoldsOk(NoCall, slots)
    BY <1>1, Zenon DEF HoldsOk
  <2> QED
    BY <1>0, <2>1, Zenon DEF Holding
<1>3. TypeOK
  <2>1. 0 \in Handles /\ \A i \in Handles : i + 1 \in Handles \cup {NullSlot}
    BY TableAssumption DEF Handles, NullSlot
  <2>2. {} \in SUBSET Rights /\ 0 \in 0..MaxGeneration
    BY TableAssumption
  <2>3. \A i \in Handles : Free(i + 1) \in Slot
    BY <2>1, <2>2, Zenon DEF Free, Slot
  <2>4. slots \in [Processes -> [Handles -> Slot]]
    BY <2>3, Zenon DEF Init
  <2>5. free_head \in [Processes -> Handles \cup {NullSlot}] /\ generation \in [Objects -> 0..MaxGeneration]
    BY <2>1, <2>2, Zenon DEF Init
  <2>6. refs \in [Objects -> Nat] /\ raced \subseteq Objects
    BY Zenon DEF Init
  <2> QED
    BY <2>4, <2>5, <2>6, Zenon DEF TypeOK, AuthorityInv, LockInv
<1>4. Lists
  BY <1>0, <1>b, InitChain, Zenon DEF Lists
<1>5. Exact
  <2> SUFFICES ASSUME NEW o \in Objects
               PROVE  refs[o] = Cardinality(Naming(slots, o)) + Cardinality(HeldFor(call, o))
    BY Zenon DEF Exact
  <2>1. Naming(slots, o) = {}
    <3>1. o # None
      BY TableAssumption, Zenon
    <3>2. \A p \in Processes, i \in Handles : slots[p][i].obj # o
      BY <1>b, <3>1, Zenon
    <3> QED
      BY <3>2, Zenon DEF Naming
  <2>2. HeldFor(call, o) = {}
    BY <1>0, <1>1, TableAssumption DEF HeldFor
  <2>3. Cardinality({}) = 0
    BY FS_EmptySet, Zenon
  <2>4. refs[o] = 0
    BY Zenon DEF Init
  <2>5. Cardinality(Naming(slots, o)) = 0 /\ Cardinality(HeldFor(call, o)) = 0
    BY <2>1, <2>2, <2>3, Zenon
  <2> QED
    BY <2>4, <2>5
<1>6. Final
  <2>1. \A p \in Processes, i \in Handles : ~Used(p, i)
    BY <1>b, Zenon DEF Used
  <2> QED
    BY <1>0, <1>1, <2>1 DEF Final, Valid
<1> QED
  BY <1>2, <1>3, <1>4, <1>5, <1>6, Zenon DEF CapInv, Base

\* Every behaviour keeps the invariant of the tables.
THEOREM CapInvHolds == Spec => []CapInv
<1>1. CapInv /\ AuthorityInv' /\ [Next]_vars => CapInv'
  <2> SUFFICES ASSUME CapInv, AuthorityInv', [Next]_vars PROVE CapInv'
    BY Zenon
  <2>1. ASSUME NEW p \in Processes, Exit(p) PROVE CapInv'
    <3>1. Kept
      BY <2>1, CountingHolds, ExitKeeps, Zenon
    <3>2. generation' = generation /\ raced' = raced
      BY <2>1, Zenon DEF Exit
    <3>3. generation' \in [Objects -> 0..MaxGeneration] /\ raced' \subseteq Objects
      BY <3>2, Zenon DEF CapInv, Base, TypeOK
    <3> QED
      BY <3>1, <3>3, CapParts, Zenon
  <2> QED
    BY <2>1, CountingHolds, ThreadKeepsCap, StutterKeepsCap, Zenon DEF Next
<1> QED
  BY <1>1, InitCapInv, AuthorityInvHolds, PTL DEF Spec

\* A revoked object has no valid slot in any table, and gets none, unless a
\* call had the contents of one of its slots in its hands when it was revoked.
THEOREM RevocationLasts == Spec => []RevocationIsFinal
<1>1. CapInv => RevocationIsFinal
  <2> SUFFICES ASSUME CapInv, NEW o \in Objects \ raced, NEW p \in Processes, NEW i \in Handles,
                      slots[p][i].obj = o, slots[p][i].gen = generation[o]
               PROVE  generation[o] = 0
    BY Zenon DEF RevocationIsFinal
  <2>1. Valid(p, i)
    BY TableAssumption, Zenon DEF Valid, Used
  <2> QED
    BY <2>1, Zenon DEF CapInv, Final, Fresh
<1> QED
  BY <1>1, CapInvHolds, PTL

----------------------------------------------------------------------------
(* A free list has as many slots as the table has unused ones. *)

INSTANCE FunctionTheorems

\* A list has as many links as there are unused slots.
LEMMA ChainLength ==
    ASSUME NEW row, NEW head, NEW k \in Nat, NEW f \in [Nat -> Handles \cup {NullSlot}], ChainBy(row, head, k, f),
           NEW unused, unused = {i \in Handles : row[i].obj = None}
    PROVE  k = Cardinality(unused) /\ k <= SlotCount
<1> DEFINE g == [n \in 1..k |-> f[n - 1]]
<1>1. \A n \in 1..k : n - 1 \in Nat /\ n - 1 < k
  OBVIOUS
<1>2. \A n \in 1..k : g[n] = f[n - 1]
  BY Zenon
<1>3. g \in [1..k -> unused]
  <2>1. \A n \in 1..k : f[n - 1] \in unused
    BY <1>1, Zenon DEF ChainBy
  <2> QED
    BY <2>1, Zenon
<1> HIDE DEF g
<1>4. g \in Injection(1..k, unused)
  <2>1. ASSUME NEW m \in 1..k, NEW n \in 1..k, g[m] = g[n]
        PROVE  m = n
    <3>1. f[m - 1] = f[n - 1]
      BY <1>2, <2>1, Zenon
    <3>2. m - 1 = n - 1
      BY <1>1, <3>1, Zenon DEF ChainBy
    <3> QED
      BY <3>2
  <2> QED
    BY <1>3, <2>1, Fun_IsInj, Zenon
<1>5. g \in Surjection(1..k, unused)
  <2>1. ASSUME NEW i \in unused
        PROVE  \E n \in 1..k : g[n] = i
    <3>1. PICK n \in Nat : n < k /\ f[n] = i
      BY Zenon DEF ChainBy
    <3>2. n + 1 \in 1..k /\ (n + 1) - 1 = n
      BY <3>1
    <3>3. g[n + 1] = i
      BY <1>2, <3>1, <3>2, Zenon
    <3> QED
      BY <3>2, <3>3, Zenon
  <2> QED
    BY <1>3, <2>1, Fun_IsSurj, Zenon
<1>6. g \in Bijection(1..k, unused)
  BY <1>4, <1>5, Zenon DEF Bijection
<1>7. IsFiniteSet(unused) /\ Cardinality(unused) = k
  BY <1>6, FS_CountingElements, FS_NatBijection, Zenon DEF ExistsBijection
<1>8. IsFiniteSet(Handles) /\ Cardinality(Handles) = SlotCount
  <2>1. 0 \in Int /\ SlotCount - 1 \in Int /\ SlotCount \in Nat /\ ~(0 > SlotCount - 1) /\ (SlotCount - 1) - 0 + 1 = SlotCount
    BY TableAssumption
  <2>2. Cardinality(0..(SlotCount - 1)) = IF 0 > SlotCount - 1 THEN 0 ELSE (SlotCount - 1) - 0 + 1
    BY <2>1, FS_Interval, Zenon
  <2>3. IsFiniteSet(0..(SlotCount - 1))
    BY <2>1, FS_Interval, Zenon
  <2> QED
    BY <2>1, <2>2, <2>3, Zenon DEF Handles
<1>9. Cardinality(unused) <= Cardinality(Handles)
  <2>1. unused \in SUBSET Handles
    BY Zenon
  <2> QED
    BY <1>8, <2>1, FS_Subset, Zenon
<1> QED
  BY <1>7, <1>8, <1>9, Zenon

\* The list of each table is what FreeListExact asks.
LEMMA ListsAreExact == ASSUME Lists PROVE FreeListExact
<1> SUFFICES ASSUME NEW p \in Processes
             PROVE  LET unused == {i \in Handles : ~Used(p, i)}
                        link == Links(slots[p], free_head[p])
                    IN  /\ {link[n] : n \in 0..SlotCount} \ {NullSlot} = unused
                        /\ link[Cardinality(unused)] = NullSlot
  BY Zenon DEF FreeListExact, Follows, Links
<1> DEFINE unused == {i \in Handles : ~Used(p, i)}
           link == Links(slots[p], free_head[p])
<1>1. PICK k \in Nat, f \in [Nat -> Handles \cup {NullSlot}] : ChainBy(slots[p], free_head[p], k, f)
  BY Zenon DEF Lists, Chain
<1>2. \A n \in 0..SlotCount : link[n] = f[n]
  BY <1>1, CountingHolds, LinksAre
<1>3. unused = {i \in Handles : slots[p][i].obj = None}
  BY Zenon DEF Used
<1>4. k = Cardinality(unused) /\ k <= SlotCount
  BY <1>1, <1>3, ChainLength, Zenon
<1>5. k \in 0..SlotCount /\ \A n \in Nat : n < k => n \in 0..SlotCount
  BY <1>4, TableAssumption
<1>6. link[Cardinality(unused)] = NullSlot
  <2>1. f[k] = NullSlot
    BY <1>1 DEF ChainBy
  <2> QED
    BY <1>2, <1>4, <1>5, <2>1, Zenon
<1>7. ASSUME NEW n \in 0..SlotCount, f[n] # NullSlot
      PROVE  f[n] \in unused
  <2>1. n \in Nat /\ (n < k \/ n >= k)
    BY TableAssumption
  <2>2. n < k
    BY <1>1, <1>7, <2>1, Zenon DEF ChainBy
  <2> QED
    BY <1>1, <1>3, <2>1, <2>2, Zenon DEF ChainBy
<1>8. ASSUME NEW i \in unused
      PROVE  i # NullSlot /\ \E n \in 0..SlotCount : f[n] = i
  <2>1. PICK n \in Nat : n < k /\ f[n] = i
    BY <1>1, <1>3, Zenon DEF ChainBy
  <2> QED
    BY <1>3, <1>5, <2>1, NullIsNoHandle, Zenon
<1>9. {link[n] : n \in 0..SlotCount} \ {NullSlot} = unused
  <2> HIDE DEF unused
  <2>1. \A x \in {link[n] : n \in 0..SlotCount} \ {NullSlot} : x \in unused
    BY <1>2, <1>7, Zenon
  <2>2. \A x \in unused : x \in {link[n] : n \in 0..SlotCount} \ {NullSlot}
    BY <1>2, <1>8, Zenon
  <2> QED
    BY <2>1, <2>2, Zenon
<1> QED
  BY <1>6, <1>9, Zenon

\* Reference counts and free lists are exact in every state: whatever calls
\* overlap and wherever one of them fails, an object has one reference for each
\* slot and each call that has it, and each slot is used or is on its table's
\* free list once.
THEOREM TablesAreExact == Spec => []TablesExact
<1>1. CapInv => TablesExact
  <2> SUFFICES ASSUME CapInv PROVE TablesExact
    BY Zenon
  <2>1. FreeListExact
    BY ListsAreExact, Zenon DEF CapInv
  <2>2. RefsExact
    BY Zenon DEF CapInv, Base, Exact, RefsExact, Naming, HeldFor
  <2> QED
    BY <2>1, <2>2, Zenon DEF TablesExact
<1> QED
  BY <1>1, CapInvHolds, PTL

=============================================================================
