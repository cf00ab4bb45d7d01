---------------------------- MODULE MemoryProofs ----------------------------
(***************************************************************************)
(* No TLB holds a mapping whose removal was acknowledged, for any number   *)
(* of executors and requesters; and the slab allocator conserves its       *)
(* items, for any number of threads, slabs and items.  The library's       *)
(* theorems are instantiated at the end, where counts need them: every     *)
(* proof after that carries them.                                          *)
(***************************************************************************)
EXTENDS FlushRequest, RawCache, TLAPS

----------------------------------------------------------------------------
(* Counting.  What the steps need of finite sets; it is proved at the end,    *)
(* with the library's theorems.                                               *)

\* The members of a set, or of a part of it, count for one each.
OneByOne(T) ==
    \A S : S \subseteq T =>
        /\ Cardinality(S) \in Nat
        /\ Cardinality(S) = 0 <=> S = {}
        /\ \A x : x \notin S => Cardinality(S \cup {x}) = Cardinality(S) + 1
        /\ \A x : x \in S => Cardinality(S \ {x}) = Cardinality(S) - 1

SetCounts == OneByOne(Executors)

LEMMA NoneCounted ==
    ASSUME SetCounts
    PROVE  Cardinality({}) = 0
BY Zenon DEF SetCounts, OneByOne

\* Executors are counted one by one.
LEMMA Executed ==
    ASSUME SetCounts, NEW T, T \subseteq Executors
    PROVE  /\ Cardinality(T) \in Nat
           /\ Cardinality(T) = 0 <=> T = {}
           /\ \A e \in Executors \ T : Cardinality(T \cup {e}) = Cardinality(T) + 1
           /\ \A e \in T : Cardinality(T \ {e}) = Cardinality(T) - 1
BY Zenon DEF SetCounts, OneByOne

Steps == {"run", "unmapped", "submit", "ipi", "leave", "wait", "done"}

Types ==
    /\ flush_requests \in [Executors -> Seq(Requesters)]
    /\ flush_ipi \in [Executors -> BOOLEAN]
    /\ servicing \in [Executors -> {"none", "poll", "interrupt"}]
    /\ flushing \in [Executors -> [request : Requesters \cup {None}, at : {"enter", "leave"}]]
    /\ count \in [Requesters -> Int]
    /\ step \in [Requesters -> Steps]
    /\ next \in [Requesters -> 1 .. LastExecutor + 1]
    /\ home \in [Requesters -> Executors \cup {None}]
    /\ running \in [Executors -> Requesters \cup {IdleTask}]
    /\ mapped \subseteq Requesters
    /\ tlb \in [Executors -> SUBSET Requesters]

----------------------------------------------------------------------------
(* The shootdown: its invariant *)

\* A task runs on one executor, and submits from where it began to.
Placed ==
    /\ \A e, f \in Executors : running[e] = running[f] /\ running[e] # IdleTask => e = f
    /\ \A t \in Requesters, e \in Executors :
          running[e] = t /\ step[t] \in Submitting => home[t] = e

\* How far a requester is in its loop over the executors.
Looped ==
    \A t \in Requesters :
        /\ step[t] = "ipi" => next[t] \in Executors /\ next[t] # home[t]
        /\ step[t] \in {"leave", "wait", "done"} => next[t] = LastExecutor + 1

\* A request is with an executor: in its list, or popped.
Listed(t, e) == \E i \in DOMAIN flush_requests[e] : flush_requests[e][i] = t
Popped(t, e) == flushing[e].request = t

\* The executors that the requester has put its request into the list of.
Asked(t, e) == e # home[t] /\ (e < next[t] \/ (step[t] = "ipi" /\ e = next[t]))

\* A request is with executors that were asked, with each of them once, and only
\* while its requester submits and waits.
Held ==
    \A t \in Requesters, e \in Executors :
        /\ Listed(t, e) \/ Popped(t, e) =>
              step[t] \in {"submit", "ipi", "leave", "wait"} /\ Asked(t, e)
        /\ ~ (Listed(t, e) /\ Popped(t, e))

Once ==
    \A e \in Executors :
        /\ \A i, j \in DOMAIN flush_requests[e] : flush_requests[e][i] = flush_requests[e][j] => i = j
        /\ flushing[e].request = None => flushing[e] = NoFlush

ListedAt(t) == {e \in Executors : Listed(t, e)}
PoppedAt(t) == {e \in Executors : Popped(t, e)}
Own(t) == IF step[t] \in Submitting THEN 1 ELSE 0

\* The count is exact.
RequestsCounted ==
    \A t \in Requesters : count[t] = Own(t) + Cardinality(ListedAt(t)) + Cardinality(PoppedAt(t))

\* An executor with requests will look at its list.
Announced ==
    \A e \in Executors :
        flush_requests[e] # <<>> =>
            \/ flush_ipi[e] \/ servicing[e] # "none"
            \/ \E t \in Requesters : step[t] = "ipi" /\ next[t] = e

\* An executor that has yet to flush the mapping of t.
Outstanding(t, e) ==
    \/ step[t] \in {"run", "unmapped"}
    \/ step[t] \in {"submit", "ipi"} /\ (e = home[t] \/ e > next[t] \/ (step[t] = "submit" /\ e = next[t]))
    \/ Listed(t, e)
    \/ flushing[e] = [request |-> t, at |-> "enter"]

\* A TLB holds mappings of the page tables that are loaded, and only such as are
\* there or will be flushed.
Cached ==
    /\ \A t \in Requesters : t \in mapped => step[t] = "run"
    /\ \A t \in Requesters, e \in Executors :
          t \in tlb[e] => Outstanding(t, e) /\ TargetOf[t] \in {Kernel, Context(running[e])}

FlushInv ==
    /\ Types /\ Placed /\ Looped /\ Held /\ Once /\ RequestsCounted /\ Announced /\ Cached

----------------------------------------------------------------------------
(* Lists and cardinalities *)

\* prepend() puts a request in front of the list.
LEMMA Prepended ==
    ASSUME NEW S, NEW s \in Seq(S), NEW x \in S,
           \A i, j \in DOMAIN s : s[i] = s[j] => i = j, \A i \in DOMAIN s : s[i] # x
    PROVE  /\ <<x>> \o s \in Seq(S) /\ <<x>> \o s # <<>>
           /\ \A y : (\E i \in DOMAIN (<<x>> \o s) : (<<x>> \o s)[i] = y)
                        <=> (y = x \/ \E i \in DOMAIN s : s[i] = y)
           /\ \A i, j \in DOMAIN (<<x>> \o s) : (<<x>> \o s)[i] = (<<x>> \o s)[j] => i = j
<1> DEFINE r == <<x>> \o s
<1>1. /\ r \in Seq(S) /\ Len(r) = Len(s) + 1 /\ Len(s) \in Nat
      /\ \A i \in 1 .. Len(s) + 1 : r[i] = IF i = 1 THEN x ELSE s[i - 1]
    OBVIOUS
<1>2. DOMAIN r = 1 .. Len(s) + 1 /\ DOMAIN s = 1 .. Len(s)
    BY <1>1
<1> HIDE DEF r
<1>3. r # <<>>
    BY <1>1
<1>4. ASSUME NEW y PROVE (\E i \in DOMAIN r : r[i] = y) <=> (y = x \/ \E i \in DOMAIN s : s[i] = y)
    <2>1. ASSUME NEW i \in DOMAIN s, s[i] = y PROVE \E k \in DOMAIN r : r[k] = y
        <3>1. i + 1 \in DOMAIN r /\ r[i + 1] = s[i]
            BY <1>1, <1>2
        <3> QED
            BY <2>1, <3>1, Zenon
    <2>2. 1 \in DOMAIN r /\ r[1] = x
        BY <1>1, <1>2
    <2>3. ASSUME NEW i \in DOMAIN r, r[i] = y, y # x PROVE \E k \in DOMAIN s : s[k] = y
        <3>1. i - 1 \in DOMAIN s /\ r[i] = s[i - 1]
            BY <1>1, <1>2, <2>3
        <3> QED
            BY <2>3, <3>1, Zenon
    <2> QED
        BY <2>1, <2>2, <2>3, Zenon
<1>5. ASSUME NEW i \in DOMAIN r, NEW j \in DOMAIN r, r[i] = r[j] PROVE i = j
    <2>1. \A k \in DOMAIN r : k # 1 => k - 1 \in DOMAIN s /\ r[k] = s[k - 1]
        BY <1>1, <1>2
    <2>2. r[1] = x /\ \A k \in DOMAIN r : k \in Int
        BY <1>1, <1>2
    <2> QED
        BY <1>5, <2>1, <2>2
<1> QED
    BY <1>1, <1>3, <1>4, <1>5, Zenon DEF r

\* popFirst() takes the first request off the list.
LEMMA PoppedFirst ==
    ASSUME NEW S, NEW s \in Seq(S), s # <<>>, \A i, j \in DOMAIN s : s[i] = s[j] => i = j
    PROVE  /\ Head(s) \in S /\ Tail(s) \in Seq(S)
           /\ \E i \in DOMAIN s : s[i] = Head(s)
           /\ \A y : (\E i \in DOMAIN Tail(s) : Tail(s)[i] = y)
                        <=> (y # Head(s) /\ \E i \in DOMAIN s : s[i] = y)
           /\ \A i, j \in DOMAIN Tail(s) : Tail(s)[i] = Tail(s)[j] => i = j
<1> DEFINE r == Tail(s)
<1>1. /\ r \in Seq(S) /\ Len(r) = Len(s) - 1 /\ Len(s) \in Nat \ {0}
      /\ \A i \in 1 .. Len(s) - 1 : r[i] = s[i + 1]
      /\ Head(s) = s[1] /\ Head(s) \in S
    OBVIOUS
<1>2. DOMAIN r = 1 .. Len(s) - 1 /\ DOMAIN s = 1 .. Len(s) /\ 1 \in DOMAIN s
    BY <1>1
<1> HIDE DEF r
<1>3. ASSUME NEW y PROVE (\E i \in DOMAIN r : r[i] = y) <=> (y # Head(s) /\ \E i \in DOMAIN s : s[i] = y)
    <2>1. ASSUME NEW i \in DOMAIN r, r[i] = y PROVE y # Head(s) /\ \E k \in DOMAIN s : s[k] = y
        <3>1. i + 1 \in DOMAIN s /\ r[i] = s[i + 1] /\ i + 1 # 1
            BY <1>1, <1>2
        <3> QED
            BY <1>1, <1>2, <2>1, <3>1, Zenon
    <2>2. ASSUME NEW i \in DOMAIN s, s[i] = y, y # Head(s) PROVE \E k \in DOMAIN r : r[k] = y
        <3>1. i - 1 \in DOMAIN r /\ r[i - 1] = s[i]
            BY <1>1, <1>2, <2>2
        <3> QED
            BY <2>2, <3>1, Zenon
    <2> QED
        BY <2>1, <2>2, Zenon
<1>4. ASSUME NEW i \in DOMAIN r, NEW j \in DOMAIN r, r[i] = r[j] PROVE i = j
    <2>1. i + 1 \in DOMAIN s /\ r[i] = s[i + 1] /\ j + 1 \in DOMAIN s /\ r[j] = s[j + 1] /\ i \in Int /\ j \in Int
        BY <1>1, <1>2
    <2>2. s[i + 1] = s[j + 1]
        BY <1>4, <2>1, Zenon
    <2>3. i + 1 = j + 1
        BY <2>1, <2>2, Zenon
    <2> QED
        BY <2>1, <2>3
<1> QED
    BY <1>1, <1>2, <1>3, <1>4, Zenon DEF r

----------------------------------------------------------------------------
(* The steps *)

LEMMA InitFlushInv ==
    ASSUME SetCounts, FlushInit
    PROVE  FlushInv
<1>1. Types
    BY FlushAssumption DEF FlushInit, Types, Executors, NoFlush, Steps
<1>2. \A t \in Requesters, e \in Executors : ~ Listed(t, e) /\ ~ Popped(t, e)
    BY FlushAssumption DEF FlushInit, Listed, Popped, NoFlush
<1>3. Placed /\ Looped /\ Announced /\ Once
    BY DEF FlushInit, Placed, Looped, Announced, Once, Submitting, NoFlush
<1>4. Held
    BY <1>2, Zenon DEF Held
<1>5. RequestsCounted
    <2>1. \A t \in Requesters : ListedAt(t) = {} /\ PoppedAt(t) = {} /\ Own(t) = 0
        BY <1>2, Zenon DEF ListedAt, PoppedAt, Own, FlushInit, Submitting
    <2>2. Cardinality({}) = 0
        BY NoneCounted, Zenon
    <2>3. \A t \in Requesters : count[t] = 0
        BY Zenon DEF FlushInit
    <2> SUFFICES ASSUME NEW t \in Requesters
                 PROVE  count[t] = Own(t) + Cardinality(ListedAt(t)) + Cardinality(PoppedAt(t))
        BY Zenon DEF RequestsCounted
    <2>4. count[t] = 0 /\ Own(t) = 0 /\ Cardinality(ListedAt(t)) = 0 /\ Cardinality(PoppedAt(t)) = 0
        BY <2>1, <2>2, <2>3, Zenon
    <2> QED
        BY <2>4
<1>6. Cached
    BY Zenon DEF Cached, FlushInit
<1> QED
    BY <1>1, <1>3, <1>4, <1>5, <1>6, Zenon DEF FlushInv

\* A step that leaves the lists alone, and the requests that are being served,
\* leaves them where they are.
LEMMA SameLists ==
    ASSUME flush_requests' = flush_requests, flushing' = flushing
    PROVE  \A t, e : /\ Listed(t, e)' <=> Listed(t, e)
                     /\ Popped(t, e)' <=> Popped(t, e)
                     /\ ListedAt(t)' = ListedAt(t) /\ PoppedAt(t)' = PoppedAt(t)
BY Zenon DEF Listed, Popped, ListedAt, PoppedAt

LEMMA FillKeeps ==
    ASSUME FlushInv, NEW e \in Executors, Fill(e)
    PROVE  FlushInv'
<1> USE DEF FlushInv
<1>1. /\ flush_requests' = flush_requests /\ flushing' = flushing /\ flush_ipi' = flush_ipi
      /\ servicing' = servicing /\ count' = count /\ step' = step /\ next' = next /\ home' = home
      /\ running' = running /\ mapped' = mapped
    BY Zenon DEF Fill, qvars, tvars
<1>2. PICK m \in mapped : TargetOf[m] \in {Kernel, Context(running[e])} /\ tlb' = [tlb EXCEPT ![e] = @ \cup {m}]
    BY Zenon DEF Fill
<1>3. Types'
    BY <1>1, <1>2, Zenon DEF Types
<1>4. Placed' /\ Looped' /\ Held' /\ Once' /\ Announced'
    BY <1>1, SameLists DEF Placed, Looped, Held, Once, Announced, Asked
<1>5. RequestsCounted'
    BY <1>1, SameLists, Zenon DEF RequestsCounted, Own
<1>6. Cached'
    <2> SUFFICES ASSUME NEW t \in Requesters, NEW f \in Executors, t \in tlb'[f]
                 PROVE  Outstanding(t, f)' /\ TargetOf[t] \in {Kernel, Context(running[f])}
        BY <1>1, Zenon DEF Cached, Context
    <2>1. t \in tlb[f] \/ (f = e /\ t = m)
        BY <1>2, Zenon DEF Types
    <2>2. Outstanding(t, f)' <=> Outstanding(t, f)
        BY <1>1, SameLists, Zenon DEF Outstanding
    <2>3. step[m] = "run"
        BY Zenon DEF Cached, Types
    <2> QED
        BY <1>2, <2>1, <2>2, <2>3, Zenon DEF Cached, Outstanding
<1> QED
    BY <1>3, <1>4, <1>5, <1>6, Zenon

LEMMA SwitchTaskKeeps ==
    ASSUME FlushInv, NEW e \in Executors, SwitchTask(e)
    PROVE  FlushInv'
<1> USE DEF FlushInv
<1>1. /\ flush_requests' = flush_requests /\ flushing' = flushing /\ flush_ipi' = flush_ipi
      /\ servicing' = servicing /\ count' = count /\ step' = step /\ next' = next /\ home' = home
      /\ mapped' = mapped
    BY Zenon DEF SwitchTask, qvars, tvars
<1>2. PICK new \in (Requesters \cup {IdleTask}) \ {running[e]} :
          /\ new # IdleTask =>
                /\ \A other \in Executors : running[other] # new
                /\ step[new] \in Submitting => home[new] = e
          /\ beforeSwitchTask(e, new)
          /\ running' = [running EXCEPT ![e] = new]
    BY Zenon DEF SwitchTask
<1>3. /\ tlb' \in [Executors -> SUBSET Requesters]
      /\ \A f \in Executors : tlb'[f] \subseteq tlb[f]
      /\ \A f \in Executors : f # e => tlb'[f] = tlb[f]
      /\ \A t \in tlb'[e] : TargetOf[t] = Kernel \/ Context(running[e]) = Context(new)
    <2>1. CASE Context(running[e]) = Context(new)
        BY <1>2, <2>1, Zenon DEF beforeSwitchTask, Types
    <2>2. CASE Context(running[e]) # Context(new)
        <3>1. tlb' = [tlb EXCEPT ![e] = {m \in tlb[e] : TargetOf[m] = Kernel}]
            BY <1>2, <2>2, Zenon DEF beforeSwitchTask
        <3>2. \A f \in Executors : tlb'[f] = IF f = e THEN {m \in tlb[e] : TargetOf[m] = Kernel} ELSE tlb[f]
            BY <3>1, Zenon DEF Types
        <3>3. tlb' \in [Executors -> SUBSET Requesters]
            BY <3>1, Zenon DEF Types
        <3> QED
            BY <3>2, <3>3, Zenon
    <2> QED
        BY <2>1, <2>2, Zenon
<1>4. Types'
    BY <1>1, <1>2, <1>3, Zenon DEF Types
<1>5. Placed'
    BY <1>1, <1>2, FlushAssumption DEF Placed, Types
<1>6. Looped' /\ Held' /\ Once' /\ Announced'
    BY <1>1, SameLists DEF Looped, Held, Once, Announced, Asked
<1>7. RequestsCounted'
    BY <1>1, SameLists, Zenon DEF RequestsCounted, Own
<1>8. Cached'
    <2>1. \A t \in Requesters, f \in Executors : Outstanding(t, f)' <=> Outstanding(t, f)
        BY <1>1, SameLists, Zenon DEF Outstanding
    <2>2. \A f \in Executors : running'[f] = IF f = e THEN new ELSE running[f]
        BY <1>2, Zenon DEF Types
    <2> QED
        BY <1>1, <1>3, <2>1, <2>2 DEF Cached, Context
<1> QED
    BY <1>4, <1>5, <1>6, <1>7, <1>8, Zenon

LEMMA UnmapKeeps ==
    ASSUME FlushInv, NEW t \in Requesters, NEW e \in Executors, unmap(t, e)
    PROVE  FlushInv'
<1> USE DEF FlushInv
<1>1. /\ flush_requests' = flush_requests /\ flushing' = flushing /\ flush_ipi' = flush_ipi
      /\ servicing' = servicing /\ count' = count /\ next' = next /\ home' = home
      /\ running' = running /\ tlb' = tlb
      /\ step[t] = "run" /\ step' = [step EXCEPT ![t] = "unmapped"] /\ mapped' = mapped \ {t}
    BY Zenon DEF unmap, qvars
<1>2. \A u \in Requesters : step'[u] = IF u = t THEN "unmapped" ELSE step[u]
    BY <1>1, Zenon DEF Types
<1>3. Types'
    BY <1>1, Zenon DEF Types, Steps
<1>4. Placed' /\ Looped' /\ Once' /\ Announced'
    BY <1>1, <1>2 DEF Placed, Looped, Once, Announced, Submitting
<1>5. Held'
    BY <1>1, <1>2, SameLists, Zenon DEF Held, Asked
<1>6. RequestsCounted'
    <2>1. \A u \in Requesters : Own(u)' = Own(u)
        BY <1>1, <1>2 DEF Own, Submitting
    <2> QED
        BY <1>1, <2>1, SameLists, Zenon DEF RequestsCounted
<1>7. Cached'
    <2>1. \A u \in Requesters, f \in Executors : Outstanding(u, f) => Outstanding(u, f)'
        BY <1>1, <1>2, SameLists, Zenon DEF Outstanding
    <2> QED
        BY <1>1, <1>2, <2>1, Zenon DEF Cached, Context
<1> QED
    BY <1>3, <1>4, <1>5, <1>6, <1>7, Zenon

LEMMA SubmitKeeps ==
    ASSUME SetCounts, FlushInv, NEW t \in Requesters, NEW e \in Executors, submitAndWait(t, e)
    PROVE  FlushInv'
<1> USE DEF FlushInv
<1>1. /\ flush_requests' = flush_requests /\ flushing' = flushing /\ flush_ipi' = flush_ipi
      /\ servicing' = servicing /\ running' = running /\ tlb' = tlb /\ mapped' = mapped
      /\ running[e] = t /\ step[t] = "unmapped" /\ step' = [step EXCEPT ![t] = "submit"]
      /\ count' = [count EXCEPT ![t] = 1] /\ home' = [home EXCEPT ![t] = e] /\ next' = [next EXCEPT ![t] = 1]
    BY Zenon DEF submitAndWait, Runs, qvars
<1>2. \A u \in Requesters :
          /\ step'[u] = IF u = t THEN "submit" ELSE step[u]
          /\ count'[u] = IF u = t THEN 1 ELSE count[u]
          /\ home'[u] = IF u = t THEN e ELSE home[u]
          /\ next'[u] = IF u = t THEN 1 ELSE next[u]
    BY <1>1, Zenon DEF Types
<1>3. Types'
    BY <1>1, FlushAssumption DEF Types, Steps
<1>4. Placed'
    BY <1>1, <1>2, FlushAssumption DEF Placed
<1>5. Looped' /\ Once' /\ Announced'
    BY <1>1, <1>2 DEF Looped, Once, Announced
<1>6. \A f \in Executors : ~ Listed(t, f) /\ ~ Popped(t, f)
    BY <1>1, Zenon DEF Held
<1>7. Held'
    BY <1>1, <1>2, <1>6, SameLists DEF Held, Asked
<1>8. RequestsCounted'
    <2>1. \A u \in Requesters : Own(u)' = IF u = t THEN 1 ELSE Own(u)
        BY <1>2, Zenon DEF Own, Submitting
    <2>2. ListedAt(t) = {} /\ PoppedAt(t) = {}
        BY <1>6, Zenon DEF ListedAt, PoppedAt
    <2>3. Cardinality({}) = 0
        BY NoneCounted, Zenon
    <2>4. ASSUME NEW u \in Requesters, u # t
          PROVE  count'[u] = Own(u)' + Cardinality(ListedAt(u)') + Cardinality(PoppedAt(u)')
        <3>1. count'[u] = count[u] /\ Own(u)' = Own(u)
            BY <1>2, <2>1, <2>4, Zenon
        <3>2. ListedAt(u)' = ListedAt(u) /\ PoppedAt(u)' = PoppedAt(u)
            BY <1>1, SameLists, Zenon
        <3> QED
            BY <3>1, <3>2, Zenon DEF RequestsCounted
    <2>5. count'[t] = 1 /\ Own(t)' = 1 /\ Cardinality(ListedAt(t)') = 0 /\ Cardinality(PoppedAt(t)') = 0
        BY <1>1, <1>2, <2>1, <2>2, <2>3, SameLists, Zenon
    <2>6. count'[t] = Own(t)' + Cardinality(ListedAt(t)') + Cardinality(PoppedAt(t)')
        BY <2>5
    <2> QED
        BY <2>4, <2>6, Zenon DEF RequestsCounted
<1>9. Cached'
    <2>1. \A u \in Requesters, f \in Executors : Outstanding(u, f) => Outstanding(u, f)'
        BY <1>1, <1>2, SameLists, FlushAssumption DEF Outstanding, Executors
    <2> QED
        BY <1>1, <1>2, <2>1 DEF Cached, Context
<1> QED
    BY <1>3, <1>4, <1>5, <1>7, <1>8, <1>9, Zenon

LEMMA SendKeeps ==
    ASSUME FlushInv, NEW t \in Requesters, NEW e \in Executors, sendFlushIPI(t, e)
    PROVE  FlushInv'
<1> USE DEF FlushInv
<1>1. /\ flush_requests' = flush_requests /\ flushing' = flushing /\ count' = count /\ home' = home
      /\ servicing' = servicing /\ running' = running /\ tlb' = tlb /\ mapped' = mapped
      /\ step[t] = "ipi" /\ step' = [step EXCEPT ![t] = "submit"]
      /\ flush_ipi' = [flush_ipi EXCEPT ![next[t]] = TRUE] /\ next' = [next EXCEPT ![t] = @ + 1]
    BY Zenon DEF sendFlushIPI
<1>2. next[t] \in Executors /\ next[t] + 1 \in 1 .. LastExecutor + 1
    BY <1>1, FlushAssumption DEF Looped, Executors
<1>3. \A u \in Requesters :
          /\ step'[u] = IF u = t THEN "submit" ELSE step[u]
          /\ next'[u] = IF u = t THEN next[t] + 1 ELSE next[u]
    BY <1>1, Zenon DEF Types
<1>4. Types'
    BY <1>1, <1>2, Zenon DEF Types, Steps
<1>5. Placed'
    BY <1>1, <1>3 DEF Placed, Submitting
<1>6. Looped' /\ Once'
    BY <1>1, <1>3 DEF Looped, Once
<1>7. Held'
    <2>1. \A u \in Requesters, f \in Executors : Asked(u, f) => Asked(u, f)'
        BY <1>1, <1>2, <1>3, FlushAssumption DEF Asked, Executors
    <2> QED
        BY <1>1, <1>3, <2>1, SameLists, Zenon DEF Held
<1>8. Announced'
    <2> SUFFICES ASSUME NEW f \in Executors, flush_requests[f] # <<>>
                 PROVE  \/ flush_ipi'[f] \/ servicing'[f] # "none"
                        \/ \E u \in Requesters : step'[u] = "ipi" /\ next'[u] = f
        BY <1>1, Zenon DEF Announced
    <2>1. CASE f = next[t]
        BY <1>1, <2>1, Zenon DEF Types
    <2>2. CASE f # next[t]
        <3>1. flush_ipi'[f] = flush_ipi[f]
            BY <1>1, <2>2, Zenon DEF Types
        <3>2. \A u \in Requesters : step[u] = "ipi" /\ next[u] = f => step'[u] = "ipi" /\ next'[u] = f
            BY <1>3, <2>2, Zenon
        <3> QED
            BY <1>1, <3>1, <3>2 DEF Announced
    <2> QED
        BY <2>1, <2>2, Zenon
<1>9. RequestsCounted'
    <2>1. \A u \in Requesters : Own(u)' = Own(u)
        BY <1>1, <1>3, Zenon DEF Own, Submitting
    <2> QED
        BY <1>1, <2>1, SameLists, Zenon DEF RequestsCounted
<1>10. Cached'
    <2>1. \A u \in Requesters, f \in Executors : Outstanding(u, f) => Outstanding(u, f)'
        <3> SUFFICES ASSUME NEW f \in Executors, step[t] = "ipi", f = home[t] \/ f > next[t]
                     PROVE  f = home'[t] \/ f >= next'[t]
            BY <1>1, <1>2, <1>3, SameLists, FlushAssumption DEF Outstanding, Executors
        <3> QED
            BY <1>1, <1>2, <1>3, FlushAssumption DEF Executors
    <2> QED
        BY <1>1, <1>3, <2>1, Zenon DEF Cached, Context
<1> QED
    BY <1>4, <1>5, <1>6, <1>7, <1>8, <1>9, <1>10, Zenon

LEMMA InterruptKeeps ==
    ASSUME FlushInv, NEW e \in Executors, Interrupt(e) \/ Return(e)
    PROVE  FlushInv'
<1> USE DEF FlushInv
<1>1. /\ flush_requests' = flush_requests /\ flushing' = flushing /\ count' = count /\ home' = home
      /\ step' = step /\ next' = next /\ running' = running /\ tlb' = tlb /\ mapped' = mapped
    BY Zenon DEF Interrupt, Return, tvars
<1>2. Types'
    BY <1>1, Zenon DEF Types, Interrupt, Return
<1>3. Placed' /\ Looped' /\ Held' /\ Once'
    BY <1>1, SameLists, SMTT(20) DEF Placed, Looped, Held, Once, Asked
<1>4. RequestsCounted'
    BY <1>1, SameLists, Zenon DEF RequestsCounted, Own
<1>5. Cached'
    <2>1. \A u \in Requesters, f \in Executors : Outstanding(u, f)' <=> Outstanding(u, f)
        BY <1>1, SameLists, Zenon DEF Outstanding
    <2> QED
        BY <1>1, <2>1, Zenon DEF Cached, Context
<1>6. Announced'
    <2>1. CASE Interrupt(e)
        BY <1>1, <2>1, Zenon DEF Announced, Interrupt, Types
    <2>2. CASE Return(e)
        BY <1>1, <2>2, Zenon DEF Announced, Return, Types
    <2> QED
        BY <2>1, <2>2, Zenon
<1> QED
    BY <1>2, <1>3, <1>4, <1>5, <1>6, Zenon

LEMMA WaitKeeps ==
    ASSUME SetCounts, FlushInv, NEW t \in Requesters, NEW e \in Executors, Wait(t, e)
    PROVE  FlushInv'
<1> USE DEF FlushInv
<1>1. /\ flush_requests' = flush_requests /\ flushing' = flushing /\ count' = count /\ home' = home
      /\ flush_ipi' = flush_ipi
      /\ next' = next /\ running' = running /\ tlb' = tlb /\ mapped' = mapped /\ step[t] = "wait"
      /\ \/ count[t] = 0 /\ step' = [step EXCEPT ![t] = "done"] /\ servicing' = servicing
         \/ step' = step /\ servicing' = [servicing EXCEPT ![e] = "poll"]
    BY Zenon DEF Wait
<1>2. \A u \in Requesters :
          /\ u # t => step'[u] = step[u]
          /\ \/ step'[t] = "done" /\ count[t] = 0
             \/ step'[t] = "wait"
    BY <1>1, Zenon DEF Types
<1>3. Types'
    BY <1>1, Zenon DEF Types, Steps
<1>4. Placed' /\ Looped' /\ Once'
    BY <1>1, <1>2 DEF Placed, Looped, Once, Submitting
<1>5. Announced'
    <2>1. \A f \in Executors : servicing[f] # "none" => servicing'[f] # "none"
        BY <1>1, Zenon DEF Types
    <2>2. \A u \in Requesters : step[u] = "ipi" => step'[u] = "ipi"
        BY <1>1, <1>2, Zenon
    <2> QED
        BY <1>1, <2>1, <2>2, Zenon DEF Announced
<1>6. count[t] = 0 => \A f \in Executors : ~ Listed(t, f) /\ ~ Popped(t, f)
    <2>1. count[t] = 0 + Cardinality(ListedAt(t)) + Cardinality(PoppedAt(t))
        BY <1>1, Zenon DEF RequestsCounted, Own, Submitting
    <2>2. ListedAt(t) \subseteq Executors /\ PoppedAt(t) \subseteq Executors
        BY Zenon DEF ListedAt, PoppedAt
    <2>3. /\ Cardinality(ListedAt(t)) \in Nat /\ Cardinality(PoppedAt(t)) \in Nat
          /\ Cardinality(ListedAt(t)) = 0 <=> ListedAt(t) = {}
          /\ Cardinality(PoppedAt(t)) = 0 <=> PoppedAt(t) = {}
        BY <2>2, Executed, Zenon
    <2>4. count[t] = 0 => Cardinality(ListedAt(t)) = 0 /\ Cardinality(PoppedAt(t)) = 0
        BY <2>1, <2>3
    <2> QED
        BY <2>3, <2>4, Zenon DEF ListedAt, PoppedAt
<1>7. Held'
    BY <1>1, <1>2, <1>6, SameLists, Zenon DEF Held, Asked
<1>8. RequestsCounted'
    <2>1. \A u \in Requesters : Own(u)' = Own(u)
        BY <1>1, <1>2, Zenon DEF Own, Submitting
    <2> QED
        BY <1>1, <2>1, SameLists, Zenon DEF RequestsCounted
<1>9. Cached'
    <2>1. \A u \in Requesters, f \in Executors : Outstanding(u, f) => Outstanding(u, f)'
        BY <1>1, <1>2, SameLists, Zenon DEF Outstanding
    <2> QED
        BY <1>1, <1>2, <2>1, SMTT(20) DEF Cached, Context
<1> QED
    BY <1>3, <1>4, <1>5, <1>7, <1>8, <1>9, Zenon

LEMMA FlushOwnKeeps ==
    ASSUME SetCounts, FlushInv, NEW t \in Requesters, NEW e \in Executors, FlushOwn(t, e)
    PROVE  FlushInv'
<1> USE DEF FlushInv
<1>1. /\ flush_requests' = flush_requests /\ flushing' = flushing /\ home' = home
      /\ flush_ipi' = flush_ipi /\ servicing' = servicing
      /\ next' = next /\ running' = running /\ mapped' = mapped /\ running[e] = t
    BY Zenon DEF FlushOwn, Runs, qvars
<1>2. CASE step[t] = "submit" /\ next[t] \notin Executors
    <2>1. /\ count' = count /\ step' = [step EXCEPT ![t] = "leave"]
          /\ tlb' = IF TargetOf[t] \in {Kernel, Context(running[e])}
                    THEN [tlb EXCEPT ![e] = @ \ {t}] ELSE tlb
        BY <1>2, Zenon DEF FlushOwn, flush
    <2>2. next[t] = LastExecutor + 1 /\ home[t] = e
        <3>1. next[t] \in 1 .. LastExecutor + 1 /\ LastExecutor \in Nat
            BY FlushAssumption, Zenon DEF Types
        <3>2. next[t] = LastExecutor + 1
            BY <1>2, <3>1 DEF Executors
        <3> QED
            BY <1>1, <1>2, <3>2, Zenon DEF Placed, Submitting
    <2>3. \A u \in Requesters : step'[u] = IF u = t THEN "leave" ELSE step[u]
        BY <2>1, Zenon DEF Types
    <2>4. /\ tlb' \in [Executors -> SUBSET Requesters]
          /\ \A f \in Executors : tlb'[f] \subseteq tlb[f]
          /\ t \notin tlb'[e]
        BY <2>1, Zenon DEF Types, Cached
    <2>5. Types'
        BY <1>1, <2>1, <2>4, Zenon DEF Types, Steps
    <2>6. Placed' /\ Once' /\ Looped' /\ Announced'
        BY <1>1, <1>2, <2>2, <2>3, SMTT(20) DEF Placed, Once, Looped, Announced, Submitting
    <2>7. Held'
        BY <1>1, <1>2, <2>3, SameLists, Zenon DEF Held, Asked
    <2>8. RequestsCounted'
        <3>1. \A u \in Requesters : Own(u)' = Own(u)
            BY <1>2, <2>3, Zenon DEF Own, Submitting
        <3> QED
            BY <2>1, <1>1, <3>1, SameLists, Zenon DEF RequestsCounted
    <2>9. Cached'
        <3>1. \A u \in Requesters, f \in Executors : Outstanding(u, f) => Outstanding(u, f)' \/ (u = t /\ f = e)
            <4>1. \A f \in Executors : ~ (f > next[t]) /\ f # next[t]
                BY <2>2, FlushAssumption DEF Executors
            <4> QED
                BY <1>1, <1>2, <2>2, <2>3, <4>1, SameLists DEF Outstanding
        <3> QED
            BY <1>1, <1>2, <2>3, <2>4, <3>1 DEF Cached, Context
    <2> QED
        BY <2>5, <2>6, <2>7, <2>8, <2>9, Zenon
<1>3. CASE step[t] = "leave"
    <2>1. /\ tlb' = tlb /\ step' = [step EXCEPT ![t] = "wait"] /\ count' = [count EXCEPT ![t] = @ - 1]
        BY <1>3, Zenon DEF FlushOwn, flush
    <2>2. \A u \in Requesters :
              /\ step'[u] = IF u = t THEN "wait" ELSE step[u]
              /\ count'[u] = IF u = t THEN count[u] - 1 ELSE count[u]
        BY <2>1, Zenon DEF Types
    <2>3. Types'
        BY <1>1, <2>1 DEF Types, Steps
    <2>4. Placed' /\ Once' /\ Looped' /\ Announced'
        BY <1>1, <1>3, <2>2 DEF Placed, Once, Looped, Announced, Submitting
    <2>5. Held'
        BY <1>1, <1>3, <2>2, SameLists, Zenon DEF Held, Asked
    <2>6. RequestsCounted'
        <3>1. \A u \in Requesters : Own(u)' = IF u = t THEN 0 ELSE Own(u)
            BY <2>2, Zenon DEF Own, Submitting
        <3>2. Own(t) = 1
            BY <1>3, Zenon DEF Own, Submitting
        <3>3. ASSUME NEW u \in Requesters, u # t
              PROVE  count'[u] = Own(u)' + Cardinality(ListedAt(u)') + Cardinality(PoppedAt(u)')
            BY <1>1, <2>2, <3>1, <3>3, SameLists, Zenon DEF RequestsCounted
        <3>4. Cardinality(ListedAt(t)) \in Nat /\ Cardinality(PoppedAt(t)) \in Nat
            <4>1. ListedAt(t) \subseteq Executors /\ PoppedAt(t) \subseteq Executors
                BY Zenon DEF ListedAt, PoppedAt
            <4> QED
                BY <4>1, Executed, Zenon
        <3>5. count[t] = 1 + Cardinality(ListedAt(t)) + Cardinality(PoppedAt(t))
            BY <3>2, Zenon DEF RequestsCounted
        <3>6. count'[t] = 0 + Cardinality(ListedAt(t)) + Cardinality(PoppedAt(t))
            BY <2>2, <3>4, <3>5
        <3>7. ListedAt(t)' = ListedAt(t) /\ PoppedAt(t)' = PoppedAt(t) /\ Own(t)' = 0
            BY <1>1, <3>1, SameLists, Zenon
        <3>8. count'[t] = Own(t)' + Cardinality(ListedAt(t)') + Cardinality(PoppedAt(t)')
            BY <3>6, <3>7, Zenon
        <3> QED
            BY <3>3, <3>8, Zenon DEF RequestsCounted
    <2>7. Cached'
        <3>1. \A u \in Requesters, f \in Executors : Outstanding(u, f) => Outstanding(u, f)'
            BY <1>1, <1>3, <2>2, SameLists, Zenon DEF Outstanding
        <3> QED
            BY <1>1, <1>3, <2>1, <2>2, <3>1 DEF Cached, Context
    <2> QED
        BY <2>3, <2>4, <2>5, <2>6, <2>7, Zenon
<1> QED
    BY <1>2, <1>3, Zenon DEF FlushOwn

LEMMA RequestKeeps ==
    ASSUME SetCounts, FlushInv, NEW t \in Requesters, NEW e \in Executors, requestExecutor(t, e)
    PROVE  FlushInv'
<1> USE DEF FlushInv
<1>1. /\ flush_ipi' = flush_ipi /\ servicing' = servicing /\ flushing' = flushing /\ home' = home
      /\ running' = running /\ mapped' = mapped /\ tlb' = tlb
      /\ running[e] = t /\ step[t] = "submit" /\ next[t] \in Executors
    BY Zenon DEF requestExecutor, Runs
<1>2. home[t] = e
    BY <1>1, Zenon DEF Placed, Submitting
<1>3. next[t] + 1 \in 1 .. LastExecutor + 1
    BY <1>1, FlushAssumption DEF Executors
<1>4. CASE next[t] = e
    <2>1. /\ next' = [next EXCEPT ![t] = @ + 1]
          /\ count' = count /\ flush_requests' = flush_requests /\ step' = step
        BY <1>4, Zenon DEF requestExecutor
    <2>2. \A u \in Requesters : next'[u] = IF u = t THEN next[t] + 1 ELSE next[u]
        BY <2>1, Zenon DEF Types
    <2>3. Types'
        BY <1>1, <1>3, <2>1, Zenon DEF Types
    <2>4. Placed' /\ Looped' /\ Once'
        BY <1>1, <2>1, <2>2 DEF Placed, Looped, Once
    <2>5. Held'
        <3>1. \A u \in Requesters, f \in Executors : Asked(u, f) => Asked(u, f)'
            BY <1>1, <1>3, <2>1, <2>2, FlushAssumption DEF Asked, Executors
        <3> QED
            BY <1>1, <2>1, <3>1, SameLists, Zenon DEF Held
    <2>6. Announced'
        BY <1>1, <2>1, <2>2 DEF Announced
    <2>7. RequestsCounted'
        BY <1>1, <2>1, SameLists, Zenon DEF RequestsCounted, Own
    <2>8. Cached'
        <3>1. \A f \in Executors : f # e /\ f > next[t] => f > next[t] + 1 \/ f = next[t] + 1
            BY <1>1, FlushAssumption, SMTT(20) DEF Executors
        <3>2. \A u \in Requesters, f \in Executors : Outstanding(u, f) => Outstanding(u, f)'
            BY <1>1, <1>2, <1>4, <2>1, <2>2, <3>1, SameLists DEF Outstanding
        <3> QED
            BY <1>1, <2>1, <3>2, Zenon DEF Cached, Context
    <2> QED
        BY <2>3, <2>4, <2>5, <2>6, <2>7, <2>8, Zenon
<1>5. CASE next[t] # e
    <2>0. PICK n \in Executors : n = next[t]
        BY <1>1, Zenon
    <2>1. /\ next' = next /\ count' = [count EXCEPT ![t] = @ + 1]
          /\ flush_requests' = [flush_requests EXCEPT ![n] = <<t>> \o @]
          /\ step' = [step EXCEPT ![t] = "ipi"]
        BY <1>5, <2>0, Zenon DEF requestExecutor
    <2>2. \A u \in Requesters :
              /\ step'[u] = IF u = t THEN "ipi" ELSE step[u]
              /\ count'[u] = IF u = t THEN count[t] + 1 ELSE count[u]
        BY <2>1, Zenon DEF Types
    <2>3. n \in Executors /\ flush_requests[n] \in Seq(Requesters) /\ ~ Asked(t, n)
        BY <1>1, <2>0, FlushAssumption DEF Types, Asked, Executors
    <2>4. ~ Listed(t, n) /\ ~ Popped(t, n)
        BY <2>3, Zenon DEF Held
    <2>5. /\ \A i, j \in DOMAIN flush_requests[n] : flush_requests[n][i] = flush_requests[n][j] => i = j
          /\ \A i \in DOMAIN flush_requests[n] : flush_requests[n][i] # t
        BY <2>3, <2>4, Zenon DEF Once, Listed
    <2>6. /\ flush_requests'[n] = <<t>> \o flush_requests[n]
          /\ \A f \in Executors : f # n => flush_requests'[f] = flush_requests[f]
        BY <2>1, <2>3, Zenon DEF Types
    <2>7. /\ flush_requests'[n] \in Seq(Requesters) /\ flush_requests'[n] # <<>>
          /\ \A y : (\E i \in DOMAIN flush_requests'[n] : flush_requests'[n][i] = y)
                       <=> (y = t \/ \E i \in DOMAIN flush_requests[n] : flush_requests[n][i] = y)
          /\ \A i, j \in DOMAIN flush_requests'[n] : flush_requests'[n][i] = flush_requests'[n][j] => i = j
        <3> DEFINE s == flush_requests[n]
        <3>1. s \in Seq(Requesters) /\ (\A i, j \in DOMAIN s : s[i] = s[j] => i = j) /\ \A i \in DOMAIN s : s[i] # t
            BY <2>3, <2>5, Zenon
        <3> HIDE DEF s
        <3>2. /\ <<t>> \o s \in Seq(Requesters) /\ <<t>> \o s # <<>>
              /\ \A y : (\E i \in DOMAIN (<<t>> \o s) : (<<t>> \o s)[i] = y)
                           <=> (y = t \/ \E i \in DOMAIN s : s[i] = y)
              /\ \A i, j \in DOMAIN (<<t>> \o s) : (<<t>> \o s)[i] = (<<t>> \o s)[j] => i = j
            BY <3>1, Prepended, Zenon
        <3> QED
            BY <2>6, <3>2, Zenon DEF s
    <2>8. \A u \in Requesters, f \in Executors :
              /\ Listed(u, f)' <=> Listed(u, f) \/ (u = t /\ f = n)
              /\ Popped(u, f)' <=> Popped(u, f)
        <3>1. \A u \in Requesters : Listed(u, n)' <=> Listed(u, n) \/ u = t
            BY <2>7, Zenon DEF Listed
        <3>2. \A u \in Requesters, f \in Executors : f # n => (Listed(u, f)' <=> Listed(u, f))
            BY <2>6, Zenon DEF Listed
        <3>3. \A u \in Requesters, f \in Executors : Popped(u, f)' <=> Popped(u, f)
            BY <1>1, Zenon DEF Popped
        <3> QED
            BY <3>1, <3>2, <3>3, Zenon
    <2>9. Types'
        <3>1. flush_requests' \in [Executors -> Seq(Requesters)]
            BY <2>1, <2>3, <2>6, <2>7, SMTT(20) DEF Types
        <3> QED
            BY <1>1, <2>1, <3>1 DEF Types, Steps
    <2>10. Placed' /\ Looped'
        BY <1>1, <1>2, <1>5, <2>1, <2>2 DEF Placed, Looped, Submitting
    <2>11. Once'
        BY <1>1, <2>6, <2>7, Zenon DEF Once
    <2>12. Held'
        <3>1. \A u \in Requesters, f \in Executors : Asked(u, f) => Asked(u, f)'
            BY <1>1, <2>1, <2>2, Zenon DEF Asked
        <3>2. Asked(t, n)'
            BY <1>1, <1>2, <1>5, <2>0, <2>1, <2>2, Zenon DEF Asked
        <3> QED
            BY <1>1, <2>2, <2>4, <2>8, <3>1, <3>2, ZenonT(30) DEF Held
    <2>13. Announced'
        <3>1. step'[t] = "ipi" /\ next'[t] = n
            BY <2>0, <2>1, <2>2, Zenon
        <3>2. \A u \in Requesters : step[u] = "ipi" => step'[u] = "ipi" /\ next'[u] = next[u]
            BY <2>1, <2>2, Zenon
        <3> QED
            BY <1>1, <2>6, <3>1, <3>2 DEF Announced
    <2>14. RequestsCounted'
        <3>1. \A u \in Requesters : Own(u)' = Own(u)
            BY <1>1, <2>2, Zenon DEF Own, Submitting
        <3>2. \A u \in Requesters : PoppedAt(u)' = PoppedAt(u)
            BY <2>8, Zenon DEF PoppedAt
        <3>3. ASSUME NEW u \in Requesters, u # t
              PROVE  count'[u] = Own(u)' + Cardinality(ListedAt(u)') + Cardinality(PoppedAt(u)')
            <4>1. ListedAt(u)' = ListedAt(u)
                BY <2>8, <3>3, Zenon DEF ListedAt
            <4> QED
                BY <2>2, <3>1, <3>2, <3>3, <4>1, Zenon DEF RequestsCounted
        <3>4. ListedAt(t)' = ListedAt(t) \cup {n}
            BY <2>3, <2>8, Zenon DEF ListedAt
        <3>5. ListedAt(t) \subseteq Executors /\ PoppedAt(t) \subseteq Executors /\ n \in Executors \ ListedAt(t)
            BY <2>3, <2>4, Zenon DEF ListedAt, PoppedAt
        <3>6. /\ Cardinality(ListedAt(t)) \in Nat /\ Cardinality(PoppedAt(t)) \in Nat
              /\ Cardinality(ListedAt(t) \cup {n}) = Cardinality(ListedAt(t)) + 1
            BY <3>5, Executed, Zenon
        <3>7. count[t] = Own(t) + Cardinality(ListedAt(t)) + Cardinality(PoppedAt(t)) /\ Own(t) = 1
            BY <1>1, Zenon DEF RequestsCounted, Own, Submitting
        <3>8. count'[t] = Own(t) + Cardinality(ListedAt(t) \cup {n}) + Cardinality(PoppedAt(t))
            BY <2>2, <3>6, <3>7
        <3>9. count'[t] = Own(t)' + Cardinality(ListedAt(t)') + Cardinality(PoppedAt(t)')
            BY <3>1, <3>2, <3>4, <3>8, Zenon
        <3> QED
            BY <3>3, <3>9, Zenon DEF RequestsCounted
    <2>15. Cached'
        <3>1. \A u \in Requesters, f \in Executors : Outstanding(u, f) => Outstanding(u, f)'
            BY <1>1, <2>0, <2>1, <2>2, <2>8 DEF Outstanding
        <3> QED
            BY <1>1, <2>2, <3>1, Zenon DEF Cached, Context
    <2> QED
        BY <2>9, <2>10, <2>11, <2>12, <2>13, <2>14, <2>15, SMTT(20)
<1> QED
    BY <1>4, <1>5, Zenon

LEMMA PopKeeps ==
    ASSUME SetCounts, FlushInv, NEW e \in Executors, popFirst(e)
    PROVE  FlushInv'
<1> USE DEF FlushInv
<1>2. /\ flush_requests[e] \in Seq(Requesters) /\ flush_requests[e] # <<>>
      /\ \A i, j \in DOMAIN flush_requests[e] : flush_requests[e][i] = flush_requests[e][j] => i = j
    BY Zenon DEF Types, Once, popFirst
<1>0. PICK r \in Requesters : r = Head(flush_requests[e])
    BY <1>2, PoppedFirst, Zenon
<1>1. /\ flush_ipi' = flush_ipi /\ servicing' = servicing /\ count' = count /\ home' = home
      /\ step' = step /\ next' = next /\ running' = running /\ mapped' = mapped /\ tlb' = tlb
      /\ flushing[e] = NoFlush /\ flush_requests[e] # <<>> /\ servicing[e] # "none"
      /\ flushing' = [flushing EXCEPT ![e] = [request |-> r, at |-> "enter"]]
      /\ flush_requests' = [flush_requests EXCEPT ![e] = Tail(@)]
    BY <1>0, Zenon DEF popFirst, tvars
<1>3. /\ r \in Requesters /\ Tail(flush_requests[e]) \in Seq(Requesters)
      /\ \E i \in DOMAIN flush_requests[e] : flush_requests[e][i] = r
      /\ \A y : (\E i \in DOMAIN Tail(flush_requests[e]) : Tail(flush_requests[e])[i] = y)
                   <=> (y # r /\ \E i \in DOMAIN flush_requests[e] : flush_requests[e][i] = y)
      /\ \A i, j \in DOMAIN Tail(flush_requests[e]) :
            Tail(flush_requests[e])[i] = Tail(flush_requests[e])[j] => i = j
    BY <1>0, <1>2, PoppedFirst, Zenon
<1>4. /\ flush_requests'[e] = Tail(flush_requests[e]) /\ flushing'[e] = [request |-> r, at |-> "enter"]
      /\ \A f \in Executors : f # e => flush_requests'[f] = flush_requests[f] /\ flushing'[f] = flushing[f]
    BY <1>1, Zenon DEF Types
<1>5. Listed(r, e)
    BY <1>3, Zenon DEF Listed
<1>6. \A u \in Requesters : ~ Popped(u, e)
    BY <1>1, FlushAssumption DEF Popped, NoFlush
<1>7. \A u \in Requesters, f \in Executors :
          /\ Listed(u, f)' <=> Listed(u, f) /\ ~ (u = r /\ f = e)
          /\ Popped(u, f)' <=> Popped(u, f) \/ (u = r /\ f = e)
    <2>1. \A u \in Requesters, f \in Executors : f # e =>
              (Listed(u, f)' <=> Listed(u, f)) /\ (Popped(u, f)' <=> Popped(u, f))
        BY <1>4, Zenon DEF Listed, Popped
    <2>2. \A u \in Requesters : Listed(u, e)' <=> Listed(u, e) /\ u # r
        <3>1. \A y : (\E i \in DOMAIN flush_requests'[e] : flush_requests'[e][i] = y)
                        <=> (y # r /\ \E i \in DOMAIN flush_requests[e] : flush_requests[e][i] = y)
            <4> DEFINE s == flush_requests'[e]
            <4>1. s = Tail(flush_requests[e])
                BY <1>4, Zenon
            <4> HIDE DEF s
            <4>2. \A y : (\E i \in DOMAIN s : s[i] = y)
                            <=> (y # r /\ \E i \in DOMAIN flush_requests[e] : flush_requests[e][i] = y)
                BY <1>3, <4>1, Zenon
            <4> QED
                BY <4>2, Zenon DEF s
        <3> QED
            BY <3>1, Zenon DEF Listed
    <2>3. \A u \in Requesters : Popped(u, e)' <=> u = r
        BY <1>4 DEF Popped
    <2> QED
        BY <1>6, <2>1, <2>2, <2>3, Zenon
<1>8. Types'
    <2>1. flush_requests' \in [Executors -> Seq(Requesters)]
        BY <1>1, <1>3, Zenon DEF Types
    <2>2. flushing' \in [Executors -> [request : Requesters \cup {None}, at : {"enter", "leave"}]]
        BY <1>1, <1>3, Zenon DEF Types
    <2> QED
        BY <1>1, <2>1, <2>2, Zenon DEF Types
<1>9. Placed' /\ Looped'
    BY <1>1, Zenon DEF Placed, Looped
<1>10. Held'
    <2>1. \A u \in Requesters, f \in Executors : Asked(u, f)' <=> Asked(u, f)
        BY <1>1, Zenon DEF Asked
    <2> QED
        BY <1>1, <1>3, <1>5, <1>6, <1>7, <2>1, Zenon DEF Held
<1>11. Once'
    <2>1. flushing'[e].request # None
        BY <1>3, <1>4, FlushAssumption
    <2>2. \A i, j \in DOMAIN flush_requests'[e] : flush_requests'[e][i] = flush_requests'[e][j] => i = j
        BY <1>3, <1>4, Zenon
    <2> QED
        BY <1>4, <2>1, <2>2, Zenon DEF Once
<1>12. Announced'
    BY <1>1, <1>4, Zenon DEF Announced
<1>13. RequestsCounted'
    <2>1. \A u \in Requesters : Own(u)' = Own(u)
        BY <1>1, Zenon DEF Own
    <2>2. ASSUME NEW u \in Requesters, u # r
          PROVE  count'[u] = Own(u)' + Cardinality(ListedAt(u)') + Cardinality(PoppedAt(u)')
        <3>1. ListedAt(u)' = ListedAt(u) /\ PoppedAt(u)' = PoppedAt(u)
            BY <1>7, <2>2, Zenon DEF ListedAt, PoppedAt
        <3> QED
            BY <1>1, <2>1, <3>1, Zenon DEF RequestsCounted
    <2>3. ListedAt(r)' = ListedAt(r) \ {e} /\ PoppedAt(r)' = PoppedAt(r) \cup {e}
        BY <1>3, <1>7, Zenon DEF ListedAt, PoppedAt
    <2>4. /\ ListedAt(r) \subseteq Executors /\ PoppedAt(r) \subseteq Executors
          /\ e \in ListedAt(r) /\ e \in Executors \ PoppedAt(r)
        BY <1>3, <1>5, <1>6, Zenon DEF ListedAt, PoppedAt
    <2>5. /\ Cardinality(ListedAt(r)) \in Nat
          /\ Cardinality(ListedAt(r) \ {e}) = Cardinality(ListedAt(r)) - 1
        BY <2>4, Executed, Zenon
    <2>6. /\ Cardinality(PoppedAt(r)) \in Nat
          /\ Cardinality(PoppedAt(r) \cup {e}) = Cardinality(PoppedAt(r)) + 1
        BY <2>4, Executed, Zenon
    <2>7. count[r] = Own(r) + Cardinality(ListedAt(r)) + Cardinality(PoppedAt(r)) /\ Own(r) \in Nat
        BY <1>3, Zenon DEF RequestsCounted, Own
    <2>8. count[r] = Own(r) + Cardinality(ListedAt(r) \ {e}) + Cardinality(PoppedAt(r) \cup {e})
        BY <2>5, <2>6, <2>7
    <2>9. ASSUME NEW u \in Requesters, u = r
          PROVE  count'[u] = Own(u)' + Cardinality(ListedAt(u)') + Cardinality(PoppedAt(u)')
        BY <1>1, <2>1, <2>3, <2>8, <2>9, Zenon
    <2> QED
        BY <2>2, <2>9, Zenon DEF RequestsCounted
<1>14. Cached'
    <2>1. \A u \in Requesters, f \in Executors : Outstanding(u, f) => Outstanding(u, f)'
        <3>1. ASSUME NEW u \in Requesters, NEW f \in Executors, Outstanding(u, f), ~ (f = e /\ u = r)
              PROVE  Outstanding(u, f)'
            <4>1. Listed(u, f) => Listed(u, f)'
                BY <1>7, <3>1, Zenon
            <4>2. flushing[f] = [request |-> u, at |-> "enter"] => flushing'[f] = [request |-> u, at |-> "enter"]
                BY <1>4, <1>6 DEF Popped
            <4> QED
                BY <1>1, <3>1, <4>1, <4>2, Zenon DEF Outstanding
        <3>2. \A u \in Requesters : u = r => Outstanding(u, e)'
            BY <1>4, Zenon DEF Outstanding
        <3> QED
            BY <3>1, <3>2, Zenon
    <2> QED
        BY <1>1, <2>1, Zenon DEF Cached, Context
<1> QED
    BY <1>8, <1>9, <1>10, <1>11, <1>12, <1>13, <1>14, Zenon

LEMMA FlushPoppedKeeps ==
    ASSUME SetCounts, FlushInv, NEW e \in Executors, FlushPopped(e)
    PROVE  FlushInv'
<1> USE DEF FlushInv
<1>1. /\ flush_requests' = flush_requests /\ flush_ipi' = flush_ipi /\ servicing' = servicing
      /\ home' = home /\ step' = step /\ next' = next /\ running' = running /\ mapped' = mapped
      /\ flushing[e] # NoFlush
    BY Zenon DEF FlushPopped, tvars
<1>2. PICK r \in Requesters : r = flushing[e].request
    BY <1>1, Zenon DEF Types, Once
<1>3. /\ flushing[e] = [request |-> r, at |-> flushing[e].at] /\ flushing[e].at \in {"enter", "leave"}
    BY <1>2, Zenon DEF Types
<1>4. Popped(r, e)
    BY <1>2, Zenon DEF Popped
<1>5. \A u \in Requesters, f \in Executors : Listed(u, f)' <=> Listed(u, f)
    BY <1>1, Zenon DEF Listed
<1>6. \A u \in Requesters : Own(u)' = Own(u) /\ ListedAt(u)' = ListedAt(u)
    BY <1>1, <1>5, Zenon DEF Own, ListedAt
<1>7. \A u \in Requesters, f \in Executors : Asked(u, f)' <=> Asked(u, f)
    BY <1>1, SMTT(20) DEF Asked
<1>8. Placed' /\ Looped' /\ Announced'
    BY <1>1, Zenon DEF Placed, Looped, Announced
<1>9. CASE flushing[e].at = "enter"
    <2>1. /\ count' = count
          /\ tlb' = IF TargetOf[r] \in {Kernel, Context(running[e])}
                    THEN [tlb EXCEPT ![e] = @ \ {r}] ELSE tlb
        BY <1>2, <1>9, Zenon DEF FlushPopped, flush
    <2>2. flushing' = [flushing EXCEPT ![e] = [request |-> r, at |-> "leave"]]
        <3>1. [flushing[e] EXCEPT !.at = "leave"] = [request |-> r, at |-> "leave"]
            BY <1>3
        <3>2. flushing' = [flushing EXCEPT ![e] = [flushing[e] EXCEPT !.at = "leave"]]
            BY <1>9, Zenon DEF FlushPopped
        <3> QED
            BY <3>1, <3>2, Zenon
    <2>3. /\ flushing'[e] = [request |-> r, at |-> "leave"]
          /\ \A f \in Executors : f # e => flushing'[f] = flushing[f]
        BY <2>2, Zenon DEF Types
    <2>4. \A u \in Requesters, f \in Executors : Popped(u, f)' <=> Popped(u, f)
        BY <1>2, <2>3 DEF Popped
    <2>5. /\ tlb' \in [Executors -> SUBSET Requesters]
          /\ \A f \in Executors : tlb'[f] \subseteq tlb[f]
          /\ r \notin tlb'[e]
        BY <2>1, Zenon DEF Types, Cached
    <2>6. Types'
        BY <1>1, <2>1, <2>2, <2>5, Zenon DEF Types
    <2>7. Held'
        BY <1>1, <1>5, <1>7, <2>4, Zenon DEF Held
    <2>8. Once'
        BY <1>1, <2>3, FlushAssumption DEF Once
    <2>9. RequestsCounted'
        <3>1. \A u \in Requesters : PoppedAt(u)' = PoppedAt(u)
            BY <2>4, Zenon DEF PoppedAt
        <3> QED
            BY <1>6, <2>1, <3>1, Zenon DEF RequestsCounted
    <2>10. Cached'
        <3>1. \A u \in Requesters, f \in Executors : Outstanding(u, f) => Outstanding(u, f)' \/ (u = r /\ f = e)
            <4>1. \A u \in Requesters, f \in Executors :
                      flushing[f] = [request |-> u, at |-> "enter"]
                         => flushing'[f] = [request |-> u, at |-> "enter"] \/ (u = r /\ f = e)
                BY <1>2, <2>3
            <4> QED
                BY <1>1, <1>5, <4>1, Zenon DEF Outstanding
        <3> QED
            BY <1>1, <2>5, <3>1 DEF Cached, Context
    <2> QED
        BY <1>8, <2>6, <2>7, <2>8, <2>9, <2>10, Zenon
<1>10. CASE flushing[e].at = "leave"
    <2>1. /\ tlb' = tlb /\ count' = [count EXCEPT ![r] = @ - 1]
        BY <1>2, <1>10, Zenon DEF FlushPopped, flush
    <2>2. flushing' = [flushing EXCEPT ![e] = NoFlush]
        BY <1>3, <1>10, Zenon DEF FlushPopped, Types
    <2>3. /\ flushing'[e] = NoFlush
          /\ \A f \in Executors : f # e => flushing'[f] = flushing[f]
        BY <2>2, Zenon DEF Types
    <2>4. \A u \in Requesters, f \in Executors : Popped(u, f)' <=> Popped(u, f) /\ ~ (u = r /\ f = e)
        <3>1. \A u \in Requesters : ~ Popped(u, e)'
            BY <2>3, FlushAssumption DEF Popped, NoFlush
        <3>2. \A u \in Requesters : Popped(u, e) => u = r
            BY <1>2, Zenon DEF Popped
        <3>3. \A u \in Requesters, f \in Executors : f # e => (Popped(u, f)' <=> Popped(u, f))
            BY <2>3, Zenon DEF Popped
        <3> QED
            BY <3>1, <3>2, <3>3, Zenon
    <2>5. \A u \in Requesters : count'[u] = IF u = r THEN count[r] - 1 ELSE count[u]
        BY <2>1, Zenon DEF Types
    <2>6. Types'
        BY <1>1, <2>1, <2>2 DEF Types, NoFlush
    <2>7. Held'
        BY <1>1, <1>5, <1>7, <2>4, Zenon DEF Held
    <2>8. Once'
        BY <1>1, <2>3, Zenon DEF Once
    <2>9. RequestsCounted'
        <3>1. ASSUME NEW u \in Requesters, u # r
              PROVE  count'[u] = Own(u)' + Cardinality(ListedAt(u)') + Cardinality(PoppedAt(u)')
            <4>1. PoppedAt(u)' = PoppedAt(u)
                BY <2>4, <3>1, Zenon DEF PoppedAt
            <4> QED
                BY <1>6, <2>5, <3>1, <4>1, Zenon DEF RequestsCounted
        <3>2. PoppedAt(r)' = PoppedAt(r) \ {e}
            BY <2>4, Zenon DEF PoppedAt
        <3>3. ListedAt(r) \subseteq Executors /\ PoppedAt(r) \subseteq Executors /\ e \in PoppedAt(r)
            BY <1>4, Zenon DEF ListedAt, PoppedAt
        <3>4. /\ Cardinality(PoppedAt(r)) \in Nat
              /\ Cardinality(PoppedAt(r) \ {e}) = Cardinality(PoppedAt(r)) - 1
            BY <3>3, Executed, Zenon
        <3>5. Cardinality(ListedAt(r)) \in Nat
            BY <3>3, Executed, Zenon
        <3>6. count[r] = Own(r) + Cardinality(ListedAt(r)) + Cardinality(PoppedAt(r)) /\ Own(r) \in Nat
            BY Zenon DEF RequestsCounted, Own
        <3>7. count'[r] = Own(r) + Cardinality(ListedAt(r)) + Cardinality(PoppedAt(r) \ {e})
            BY <2>5, <3>4, <3>5, <3>6
        <3>8. count'[r] = Own(r)' + Cardinality(ListedAt(r)') + Cardinality(PoppedAt(r)')
            BY <1>6, <3>2, <3>7, Zenon
        <3> QED
            BY <3>1, <3>8, Zenon DEF RequestsCounted
    <2>10. Cached'
        <3>1. \A u \in Requesters, f \in Executors : Outstanding(u, f) => Outstanding(u, f)'
            <4>1. \A u \in Requesters, f \in Executors :
                      flushing[f] = [request |-> u, at |-> "enter"] => flushing'[f] = flushing[f]
                BY <1>10, <2>3
            <4> QED
                BY <1>1, <1>5, <4>1, Zenon DEF Outstanding
        <3> QED
            BY <1>1, <2>1, <3>1, Zenon DEF Cached, Context
    <2> QED
        BY <1>8, <2>6, <2>7, <2>8, <2>9, <2>10, Zenon
<1> QED
    BY <1>3, <1>9, <1>10, Zenon

LEMMA StutterKeeps ==
    ASSUME FlushInv, UNCHANGED fvars
    PROVE  FlushInv'
<1>1. /\ flush_requests' = flush_requests /\ flush_ipi' = flush_ipi /\ servicing' = servicing
      /\ flushing' = flushing /\ count' = count /\ home' = home /\ step' = step /\ next' = next
      /\ running' = running /\ mapped' = mapped /\ tlb' = tlb
    BY Zenon DEF fvars, qvars, tvars
<1>2. \A t \in Requesters, e \in Executors :
          (Outstanding(t, e)' <=> Outstanding(t, e)) /\ (Asked(t, e)' <=> Asked(t, e))
    BY <1>1, SameLists DEF Outstanding, Asked
<1>3. Types' /\ Placed' /\ Looped' /\ Once' /\ Announced'
    BY <1>1 DEF FlushInv, Types, Placed, Looped, Once, Announced
<1>4. Held' /\ Cached'
    BY <1>1, <1>2, SameLists, Zenon DEF FlushInv, Held, Cached, Context
<1>5. RequestsCounted'
    BY <1>1, SameLists, Zenon DEF FlushInv, RequestsCounted, Own
<1> QED
    BY <1>3, <1>4, <1>5, Zenon DEF FlushInv

----------------------------------------------------------------------------
(* The lists of slabs *)

\* A list without repetitions.
Lists(q) == q \in Seq(Slabs) /\ IsInjective(q)

\* Where the slab that leaves a list was.
LEMMA UnlinkedIs ==
    ASSUME NEW q \in Seq(Slabs), IsInjective(q), NEW k \in 1 .. Len(q)
    PROVE  /\ Unlinked(q, q[k]) \in Seq(Slabs) /\ Len(Unlinked(q, q[k])) = Len(q) - 1
           /\ \A i \in 1 .. Len(q) - 1 : Unlinked(q, q[k])[i] = IF i < k THEN q[i] ELSE q[i + 1]
<1>1. DOMAIN q = 1 .. Len(q) /\ Len(q) \in Nat
  OBVIOUS
<1>2. (CHOOSE i \in DOMAIN q : q[i] = q[k]) = k
  BY <1>1, Zenon DEF IsInjective
<1>3. Unlinked(q, q[k]) = [i \in 1 .. Len(q) - 1 |-> IF i < k THEN q[i] ELSE q[i + 1]]
  BY <1>2, Zenon DEF Unlinked
<1> QED
  BY <1>1, <1>3

\* Taking a slab out of a list takes it out, and nothing else.
LEMMA Removed ==
    ASSUME NEW q, Lists(q), NEW s \in Range(q)
    PROVE  Lists(Unlinked(q, s)) /\ Range(Unlinked(q, s)) = Range(q) \ {s}
<1>1. q \in Seq(Slabs) /\ IsInjective(q) /\ Len(q) \in Nat /\ DOMAIN q = 1 .. Len(q)
  BY DEF Lists
<1>2. PICK k \in 1 .. Len(q) : s = q[k]
  BY <1>1 DEF Range
<1> DEFINE r == Unlinked(q, s)
<1>3. /\ r \in Seq(Slabs) /\ Len(r) = Len(q) - 1 /\ DOMAIN r = 1 .. Len(q) - 1
      /\ \A i \in 1 .. Len(q) - 1 : r[i] = IF i < k THEN q[i] ELSE q[i + 1]
  <2>1. /\ r \in Seq(Slabs) /\ Len(r) = Len(q) - 1
        /\ \A i \in 1 .. Len(q) - 1 : r[i] = IF i < k THEN q[i] ELSE q[i + 1]
    BY <1>1, <1>2, UnlinkedIs, Zenon
  <2> HIDE DEF r
  <2>2. DOMAIN r = 1 .. Len(q) - 1
    BY <2>1
  <2> QED
    BY <2>1, <2>2
<1> HIDE DEF r
<1>4. \A i, j \in 1 .. Len(q) : q[i] = q[j] => i = j
  BY <1>1, Zenon DEF IsInjective
<1>5. \A i \in 1 .. Len(q) - 1 : i \in 1 .. Len(q) /\ i + 1 \in 1 .. Len(q)
  BY <1>1
<1>6. ASSUME NEW i \in 1 .. Len(q) - 1, NEW j \in 1 .. Len(q) - 1, r[i] = r[j]
      PROVE  i = j
  <2>1. (IF i < k THEN i ELSE i + 1) = (IF j < k THEN j ELSE j + 1)
    BY <1>3, <1>4, <1>5, <1>6
  <2> QED
    BY <1>1, <2>1
<1>7. IsInjective(r)
  BY <1>3, <1>6, Zenon DEF IsInjective
<1>8. ASSUME NEW i \in 1 .. Len(q) - 1
      PROVE  r[i] \in Range(q) /\ r[i] # s
  <2>1. PICK j \in 1 .. Len(q) : r[i] = q[j] /\ j # k
    BY <1>1, <1>3, <1>5
  <2> QED
    BY <1>1, <1>2, <1>4, <2>1, Zenon DEF Range
<1>9. ASSUME NEW x \in Range(q), x # s
       PROVE  \E i \in 1 .. Len(q) - 1 : r[i] = x
  <2>1. PICK j \in 1 .. Len(q) : x = q[j]
    BY <1>1, Zenon DEF Range
  <2>2. j # k
    BY <1>2, <1>9, <2>1, Zenon
  <2>3. CASE j < k
    <3>1. j \in 1 .. Len(q) - 1
      BY <1>1, <2>3
    <3> QED
      BY <1>3, <2>1, <2>3, <3>1, Zenon
  <2>4. CASE ~(j < k)
    <3>1. j - 1 \in 1 .. Len(q) - 1 /\ ~(j - 1 < k) /\ (j - 1) + 1 = j
      BY <1>1, <2>2, <2>4
    <3>2. r[j - 1] = x
      BY <1>3, <2>1, <3>1, Zenon
    <3> QED
      BY <3>1, <3>2, Zenon
  <2> QED
    BY <2>3, <2>4
<1>10. Range(r) = Range(q) \ {s}
  <2>1. Range(r) = {r[i] : i \in 1 .. Len(q) - 1}
    BY <1>3, Zenon DEF Range
  <2> QED
    BY <1>8, <1>9, <2>1, Zenon
<1> QED
  BY <1>3, <1>7, <1>10, Zenon DEF Lists, r

\* Adding a slab that is not in a list.
LEMMA Appended ==
    ASSUME NEW q, Lists(q), NEW s \in Slabs \ Range(q)
    PROVE  Lists(Append(q, s)) /\ Range(Append(q, s)) = Range(q) \cup {s}
<1>1. q \in Seq(Slabs) /\ IsInjective(q) /\ Len(q) \in Nat /\ DOMAIN q = 1 .. Len(q)
  BY DEF Lists
<1> DEFINE r == Append(q, s)
<1>2. /\ r \in Seq(Slabs) /\ DOMAIN r = 1 .. Len(q) + 1 /\ r[Len(q) + 1] = s
      /\ \A i \in 1 .. Len(q) : r[i] = q[i]
  BY <1>1
<1> HIDE DEF r
<1>3. \A i \in 1 .. Len(q) + 1 : i \in 1 .. Len(q) \/ i = Len(q) + 1
  BY <1>1
<1>4. \A i \in 1 .. Len(q) : q[i] \in Range(q) /\ q[i] # s /\ i \in 1 .. Len(q) + 1
  BY <1>1 DEF Range
<1>5. \A i, j \in 1 .. Len(q) : q[i] = q[j] => i = j
  BY <1>1, Zenon DEF IsInjective
<1>6. \A i, j \in 1 .. Len(q) + 1 : r[i] = r[j] => i = j
  BY <1>2, <1>3, <1>4, <1>5, Zenon
<1>7. IsInjective(r)
  BY <1>2, <1>6, Zenon DEF IsInjective
<1>8. Range(r) = {r[i] : i \in 1 .. Len(q) + 1} /\ Range(q) = {q[i] : i \in 1 .. Len(q)}
  BY <1>1, <1>2, Zenon DEF Range
<1>9. Len(q) + 1 \in 1 .. Len(q) + 1
  BY <1>1
<1>10. Range(r) = Range(q) \cup {s}
  BY <1>2, <1>3, <1>4, <1>8, <1>9, Zenon
<1> QED
  BY <1>2, <1>7, <1>10, Zenon DEF Lists, r

\* The head of a list, and the empty list.
LEMMA Ends ==
    /\ \A q : Lists(q) /\ q # <<>> => Head(q) \in Range(q)
    /\ \A q : Lists(q) /\ Range(q) = {} => q = <<>>
    /\ Lists(<<>>) /\ Range(<<>>) = {}
<1>1. ASSUME NEW q, Lists(q), q # <<>> PROVE Head(q) \in Range(q)
  <2>1. q \in Seq(Slabs) /\ 1 \in DOMAIN q /\ Head(q) = q[1]
    BY <1>1 DEF Lists
  <2> QED
    BY <2>1, Zenon DEF Range
<1>2. Lists(<<>>) /\ Range(<<>>) = {}
  BY DEF Lists, Range, IsInjective
<1> QED
  BY <1>1, <1>2

----------------------------------------------------------------------------
(* The inductive invariant *)

CachePlaces ==
    {"idle", "lock", "pick", "take", "undo", "mutex", "peek", "relock", "recheck", "build", "append",
     "relinquish", "give"}

CacheCall == [at : CachePlaces, left : Nat, buffer : SUBSET (Slabs \X Items), slab : Slabs \cup {None}]

\* What a thread has allocated, and not begun to give back to a slab.
Has(t) == held[t] \cup thread[t].buffer

\* The thread is adding the slab s, which is on no list yet.
Adds(t, s) == thread[t].at = "append" /\ thread[t].slab = s

CacheTyped ==
    /\ config \in [last_slab : {"keep", "free"}, large : BOOLEAN]
    /\ cache_lock \in CacheThreads \cup {None} /\ allocate_mutex \in CacheThreads \cup {None}
    /\ Lists(available_slabs) /\ Lists(full_slabs)
    /\ slabs \in SUBSET Slabs /\ items \in [Slabs -> SUBSET Items] /\ allocated_items \in [Slabs -> Nat]
    /\ thread \in [CacheThreads -> CacheCall] /\ held \in [CacheThreads -> SUBSET (Slabs \X Items)]

\* Where a thread has which lock.
Locked(t) ==
    /\ thread[t].at \in {"pick", "take", "recheck", "give"} <=> cache_lock = t
    /\ thread[t].at \in {"peek", "relock", "recheck", "build", "append"} <=> allocate_mutex = t

\* What a thread knows at the places where it uses it.
Knows(t) ==
    /\ thread[t].at = "idle" => thread[t] = IdleThread
    /\ thread[t].at \in {"take", "mutex", "peek", "relock", "recheck", "build", "append"} => thread[t].left # 0
    /\ thread[t].at = "take" => thread[t].slab \in Range(available_slabs)
    /\ thread[t].at = "append" => thread[t].slab \in slabs /\ items[thread[t].slab] = Items
    /\ held[t] \cap thread[t].buffer = {}

\* Every item of a slab is free in it or belongs to one thread.
Owned == \A t \in CacheThreads : \A x \in Has(t) : x[1] \in slabs /\ x[2] \notin items[x[1]]
Found == \A s \in slabs, i \in Items : i \notin items[s] => \E t \in CacheThreads : <<s, i>> \in Has(t)
Apart == \A t, u \in CacheThreads : t # u => Has(t) \cap Has(u) = {}

\* The counts, the lists and the lookup say the same.
Counted == \A s \in slabs : allocated_items[s] = items_per_slab - Cardinality(items[s])
Available ==
    \A s \in Slabs : s \in Range(available_slabs) <=>
                         s \in slabs /\ items[s] # {} /\ \A t \in CacheThreads : ~Adds(t, s)
Full == \A s \in Slabs : s \in Range(full_slabs) <=> s \in slabs /\ items[s] = {}
Looked ==
    /\ \A x : x \in item_lookup => \E t \in CacheThreads : x \in Has(t)
    /\ config.large => \A t \in CacheThreads : Has(t) \subseteq item_lookup

Conserved == Owned /\ Found /\ Apart /\ Counted /\ Available /\ Full /\ Looked

CacheInv == CacheTyped /\ (\A t \in CacheThreads : Locked(t) /\ Knows(t)) /\ Conserved

----------------------------------------------------------------------------
(* A step of one thread *)

\* A lock is left alone, taken by the thread, or released by it.
Moves(lock, then, t) ==
    then = lock \/ (lock = None /\ then = t) \/ (lock = t /\ then = None)

\* Thread t goes on to c, with the locks that go with it.
Step(t, c) ==
    /\ c \in CacheCall
    /\ thread' = [thread EXCEPT ![t] = c]
    /\ Moves(cache_lock, cache_lock', t) /\ Moves(allocate_mutex, allocate_mutex', t)
    /\ c.at \in {"pick", "take", "recheck", "give"} <=> cache_lock' = t
    /\ c.at \in {"peek", "relock", "recheck", "build", "append"} <=> allocate_mutex' = t

LEMMA StepKeeps ==
    ASSUME CacheInv, NEW t \in CacheThreads, NEW c, Step(t, c)
    PROVE  /\ thread' \in [CacheThreads -> CacheCall]
           /\ cache_lock' \in CacheThreads \cup {None} /\ allocate_mutex' \in CacheThreads \cup {None}
           /\ \A u \in CacheThreads : Locked(u)'
           /\ thread'[t] = c
           /\ \A u \in CacheThreads : u # t => thread'[u] = thread[u]
<1>1. /\ thread \in [CacheThreads -> CacheCall]
      /\ cache_lock \in CacheThreads \cup {None} /\ allocate_mutex \in CacheThreads \cup {None}
      /\ \A u \in CacheThreads : Locked(u)
  BY Zenon DEF CacheInv, CacheTyped
<1>2. thread' \in [CacheThreads -> CacheCall] /\ thread'[t] = c
  BY <1>1, Zenon DEF Step
<1>3. \A u \in CacheThreads : u # t => thread'[u] = thread[u]
  BY <1>1, Zenon DEF Step
<1>4. cache_lock' \in CacheThreads \cup {None} /\ allocate_mutex' \in CacheThreads \cup {None}
  BY <1>1, Zenon DEF Step, Moves
<1>5. Locked(t)'
  BY <1>2, Zenon DEF Step, Locked
<1>6. \A u \in CacheThreads : u # None
  BY CacheAssumption, Zenon
<1>7. ASSUME NEW u \in CacheThreads, u # t PROVE Locked(u)'
  <2>1. (cache_lock' = u <=> cache_lock = u) /\ (allocate_mutex' = u <=> allocate_mutex = u)
    BY <1>6, <1>7, Zenon DEF Step, Moves
  <2>2. thread'[u] = thread[u] /\ Locked(u)
    BY <1>1, <1>3, <1>7, Zenon
  <2> QED
    BY <2>1, <2>2, Zenon DEF Locked
<1> QED
  BY <1>2, <1>3, <1>4, <1>5, <1>7, Zenon

\* What the thread must know at c.
KnowsAt(c, h, available, there, free) ==
    /\ c.at = "idle" => c = IdleThread
    /\ c.at \in {"take", "mutex", "peek", "relock", "recheck", "build", "append"} => c.left # 0
    /\ c.at = "take" => c.slab \in Range(available)
    /\ c.at = "append" => c.slab \in there /\ free[c.slab] = Items
    /\ h \cap c.buffer = {}

LEMMA KnowsIs == \A t : Knows(t) <=> KnowsAt(thread[t], held[t], available_slabs, slabs, items)
  BY Zenon DEF Knows, KnowsAt

\* A step that leaves the lists alone, and what the threads have.
LEMMA QuietKeeps ==
    ASSUME CacheInv, NEW t \in CacheThreads, NEW c, Step(t, c),
           UNCHANGED <<config, lists>>,
           held' \in [CacheThreads -> SUBSET (Slabs \X Items)],
           \A u \in CacheThreads : u # t => held'[u] = held[u],
           held'[t] \cup c.buffer = Has(t),
           thread[t].at # "append", c.at # "append",
           KnowsAt(c, held'[t], available_slabs, slabs, items)
    PROVE  CacheInv'
<1>1. CacheTyped /\ Conserved /\ \A u \in CacheThreads : Knows(u)
  BY Zenon DEF CacheInv
<1>2. /\ config' = config /\ available_slabs' = available_slabs /\ full_slabs' = full_slabs
      /\ slabs' = slabs /\ items' = items /\ allocated_items' = allocated_items
      /\ item_lookup' = item_lookup
  BY Zenon DEF lists
<1>3. /\ thread' \in [CacheThreads -> CacheCall]
      /\ cache_lock' \in CacheThreads \cup {None} /\ allocate_mutex' \in CacheThreads \cup {None}
      /\ \A u \in CacheThreads : Locked(u)'
      /\ thread'[t] = c
      /\ \A u \in CacheThreads : u # t => thread'[u] = thread[u]
  BY StepKeeps, Zenon
<1>4. CacheTyped'
  BY <1>1, <1>2, <1>3, Zenon DEF CacheTyped
<1>5. \A u \in CacheThreads : Has(u)' = Has(u)
  BY <1>3, Zenon DEF Has
<1>6. \A u \in CacheThreads : \A s : Adds(u, s)' <=> Adds(u, s)
  BY <1>3, Zenon DEF Adds
<1>7. \A u \in CacheThreads : Knows(u)'
  <2>1. Knows(t)'
    BY <1>2, <1>3, Zenon DEF Knows, KnowsAt
  <2>2. ASSUME NEW u \in CacheThreads, u # t PROVE Knows(u)'
    <3>1. Knows(u) /\ thread'[u] = thread[u] /\ held'[u] = held[u]
      BY <1>1, <1>3, <2>2, Zenon
    <3> QED
      BY <1>2, <3>1, Zenon DEF Knows
  <2> QED
    BY <2>1, <2>2, Zenon
<1>8. Conserved'
  <2> USE <1>1 DEF Conserved
  <2>1. Owned' /\ Found' /\ Apart'
    <3>1. Owned'
      BY <1>2, <1>5, Zenon DEF Owned
    <3>2. ASSUME NEW s \in slabs, NEW i \in Items, i \notin items[s]
          PROVE  \E u \in CacheThreads : <<s, i>> \in Has(u)'
      <4>1. PICK u \in CacheThreads : <<s, i>> \in Has(u)
        BY <3>2, Zenon DEF Found
      <4> QED
        BY <1>5, <4>1, Zenon
    <3>3. Found'
      BY <1>2, <3>2, Zenon DEF Found
    <3>4. Apart'
      BY <1>5, Zenon DEF Apart
    <3> QED
      BY <3>1, <3>3, <3>4, Zenon
  <2>2. Counted' /\ Full'
    BY <1>1, <1>2, Zenon DEF Conserved, Counted, Full
  <2>3. Available'
    BY <1>1, <1>2, <1>6, Zenon DEF Conserved, Available
  <2>4. Looked'
    <3>1. ASSUME NEW x, x \in item_lookup PROVE \E u \in CacheThreads : x \in Has(u)'
      <4>1. PICK u \in CacheThreads : x \in Has(u)
        BY <3>1, Zenon DEF Looked
      <4> QED
        BY <1>5, <4>1, Zenon
    <3>2. ASSUME config.large, NEW u \in CacheThreads PROVE Has(u)' \subseteq item_lookup
      BY <1>5, <3>2, Zenon DEF Looked
    <3> QED
      BY <1>2, <3>1, <3>2, Zenon DEF Looked
  <2> QED
    BY <2>1, <2>2, <2>3, <2>4, Zenon DEF Conserved
<1> QED
  BY <1>3, <1>4, <1>7, <1>8, Zenon DEF CacheInv

\* What holds of a thread.
LEMMA ThreadFacts ==
    ASSUME CacheInv, NEW t \in CacheThreads
    PROVE  /\ thread[t] \in CacheCall /\ Locked(t) /\ Knows(t)
           /\ held \in [CacheThreads -> SUBSET (Slabs \X Items)]
           /\ thread[t].at \in CachePlaces /\ thread[t].left \in Nat
           /\ thread[t].buffer \in SUBSET (Slabs \X Items) /\ thread[t].slab \in Slabs \cup {None}
<1>1. thread[t] \in CacheCall /\ Locked(t) /\ Knows(t) /\ held \in [CacheThreads -> SUBSET (Slabs \X Items)]
  BY Zenon DEF CacheInv, CacheTyped
<1>2. \A c \in CacheCall : /\ c.at \in CachePlaces /\ c.left \in Nat
                           /\ c.buffer \in SUBSET (Slabs \X Items) /\ c.slab \in Slabs \cup {None}
  BY Zenon DEF CacheCall
<1> QED
  BY <1>1, <1>2, Zenon

\* Another place, with the same locals; and with another slab.
At(c, x) == [c EXCEPT !.at = x]
AtSlab(c, x, s) == [c EXCEPT !.at = x, !.slab = s]

LEMMA AtOnlyIs ==
    ASSUME NEW c \in CacheCall, NEW x \in CachePlaces
    PROVE  /\ At(c, x) \in CacheCall /\ At(c, x).at = x /\ At(c, x).left = c.left
           /\ At(c, x).buffer = c.buffer /\ At(c, x).slab = c.slab
  BY DEF CacheCall, At

LEMMA AtSlabIs ==
    ASSUME NEW c \in CacheCall, NEW x \in CachePlaces, NEW s \in Slabs
    PROVE  /\ AtSlab(c, x, s) \in CacheCall /\ AtSlab(c, x, s).at = x /\ AtSlab(c, x, s).left = c.left
           /\ AtSlab(c, x, s).buffer = c.buffer /\ AtSlab(c, x, s).slab = s
<1>1. /\ At(c, x) \in CacheCall /\ At(c, x).at = x /\ At(c, x).left = c.left
      /\ At(c, x).buffer = c.buffer
  BY AtOnlyIs, Zenon
<1>2. AtSlab(c, x, s) = [At(c, x) EXCEPT !.slab = s]
  BY Zenon DEF At, AtSlab
<1> QED
  BY <1>1, <1>2 DEF CacheCall

LEMMA IdleIs ==
    /\ IdleThread \in CacheCall /\ IdleThread.at = "idle" /\ IdleThread.left = 0
    /\ IdleThread.buffer = {} /\ IdleThread.slab = None
  BY DEF CacheCall, IdleThread, CachePlaces

\* A call that begins: allocateMany with n items to find, deallocateMany with
\* the items b to give back.
Finding(n) == [IdleThread EXCEPT !.at = "lock", !.left = n]
Returning(b) == [IdleThread EXCEPT !.at = "relinquish", !.buffer = b]

LEMMA BeginningIs ==
    /\ \A n \in Nat : /\ Finding(n) \in CacheCall /\ Finding(n).at = "lock" /\ Finding(n).left = n
                      /\ Finding(n).buffer = {}
    /\ \A b \in SUBSET (Slabs \X Items) :
           /\ Returning(b) \in CacheCall /\ Returning(b).at = "relinquish" /\ Returning(b).buffer = b
<1>1. "lock" \in CachePlaces /\ "relinquish" \in CachePlaces
  BY Zenon DEF CachePlaces
<1>2. ASSUME NEW n \in Nat
      PROVE  /\ Finding(n) \in CacheCall /\ Finding(n).at = "lock" /\ Finding(n).left = n
             /\ Finding(n).buffer = {}
  <2>1. /\ At(IdleThread, "lock") \in CacheCall /\ At(IdleThread, "lock").at = "lock"
        /\ At(IdleThread, "lock").buffer = {}
    BY <1>1, IdleIs, AtOnlyIs, Zenon
  <2>2. Finding(n) = [At(IdleThread, "lock") EXCEPT !.left = n]
    BY Zenon DEF Finding, At
  <2> QED
    BY <2>1, <2>2 DEF CacheCall
<1>3. ASSUME NEW b \in SUBSET (Slabs \X Items)
      PROVE  Returning(b) \in CacheCall /\ Returning(b).at = "relinquish" /\ Returning(b).buffer = b
  <2>1. /\ At(IdleThread, "relinquish") \in CacheCall /\ At(IdleThread, "relinquish").at = "relinquish"
        /\ At(IdleThread, "relinquish").buffer = {}
    BY <1>1, IdleIs, AtOnlyIs, Zenon
  <2>2. Returning(b) = [At(IdleThread, "relinquish") EXCEPT !.buffer = b]
    BY Zenon DEF Returning, At
  <2> QED
    BY <2>1, <2>2 DEF CacheCall
<1> QED
  BY <1>2, <1>3, Zenon

\* Going from one place to another is a step, when the locks and what is left
\* to find are right there.
LEMMA GoKeeps ==
    ASSUME CacheInv, NEW t \in CacheThreads, NEW x \in CachePlaces, Go(t, x),
           x \notin {"idle", "take", "append"}, thread[t].at # "append",
           UNCHANGED <<config, lists, held>>,
           Moves(cache_lock, cache_lock', t), Moves(allocate_mutex, allocate_mutex', t),
           x \in {"pick", "take", "recheck", "give"} <=> cache_lock' = t,
           x \in {"peek", "relock", "recheck", "build", "append"} <=> allocate_mutex' = t,
           x \in {"take", "mutex", "peek", "relock", "recheck", "build", "append"} => thread[t].left # 0
    PROVE  CacheInv'
<1> DEFINE c == At(thread[t], x)
<1>1. thread[t] \in CacheCall /\ Knows(t) /\ held \in [CacheThreads -> SUBSET (Slabs \X Items)]
  BY ThreadFacts, Zenon
<1>2. c \in CacheCall /\ c.at = x /\ c.left = thread[t].left /\ c.buffer = thread[t].buffer
  BY <1>1, AtOnlyIs, Zenon
<1>3. thread' = [thread EXCEPT ![t] = c]
  BY Zenon DEF Go, At
<1> HIDE DEF c
<1>4. Step(t, c)
  BY <1>2, <1>3, Zenon DEF Step
<1>5. held' = held
  BY Zenon
<1>6. held'[t] \cup c.buffer = Has(t)
  BY <1>2, <1>5, Zenon DEF Has
<1>7. KnowsAt(c, held'[t], available_slabs, slabs, items)
  <2>1. held[t] \cap c.buffer = {}
    BY <1>1, <1>2, Zenon DEF Knows
  <2> QED
    BY <1>2, <1>5, <2>1, Zenon DEF KnowsAt
<1>8. UNCHANGED <<config, lists>>
  BY Zenon
<1>9. c.at # "append"
  BY <1>2, Zenon
<1>10. held' \in [CacheThreads -> SUBSET (Slabs \X Items)] /\ \A u \in CacheThreads : u # t => held'[u] = held[u]
  BY <1>1, <1>5, Zenon
<1> QED
  BY <1>4, <1>6, <1>7, <1>8, <1>9, <1>10, QuietKeeps, Zenon

LEMMA LockKeeps ==
    ASSUME CacheInv, NEW t \in CacheThreads,
           \/ Lock(t, "lock", "pick") \/ Lock(t, "relock", "recheck") \/ Lock(t, "relinquish", "give")
    PROVE  CacheInv'
<1>1. Locked(t) /\ Knows(t)
  BY ThreadFacts, Zenon
<1>2. t # None
  BY CacheAssumption, Zenon
<1>3. /\ cache_lock' = t /\ cache_lock = None /\ allocate_mutex' = allocate_mutex
      /\ UNCHANGED <<config, lists, held>>
  BY Zenon DEF Lock
<1>4. Moves(cache_lock, cache_lock', t) /\ Moves(allocate_mutex, allocate_mutex', t)
  BY <1>3, Zenon DEF Moves
<1>5. CASE Lock(t, "lock", "pick")
  <2>1. thread[t].at = "lock" /\ Go(t, "pick")
    BY <1>5, Zenon DEF Lock
  <2>2. allocate_mutex' # t
    BY <1>1, <1>3, <2>1, Zenon DEF Locked
  <2>3. "pick" \in CachePlaces
    BY Zenon DEF CachePlaces
  <2> QED
    BY <1>3, <1>4, <2>1, <2>2, <2>3, GoKeeps, Zenon
<1>6. CASE Lock(t, "relock", "recheck")
  <2>1. thread[t].at = "relock" /\ Go(t, "recheck")
    BY <1>6, Zenon DEF Lock
  <2>2. allocate_mutex' = t /\ thread[t].left # 0
    BY <1>1, <1>3, <2>1, Zenon DEF Locked, Knows
  <2>3. "recheck" \in CachePlaces
    BY Zenon DEF CachePlaces
  <2> QED
    BY <1>3, <1>4, <2>1, <2>2, <2>3, GoKeeps, Zenon
<1>7. CASE Lock(t, "relinquish", "give")
  <2>1. thread[t].at = "relinquish" /\ Go(t, "give")
    BY <1>7, Zenon DEF Lock
  <2>2. allocate_mutex' # t
    BY <1>1, <1>3, <2>1, Zenon DEF Locked
  <2>3. "give" \in CachePlaces
    BY Zenon DEF CachePlaces
  <2> QED
    BY <1>3, <1>4, <2>1, <2>2, <2>3, GoKeeps, Zenon
<1> QED
  BY <1>5, <1>6, <1>7, Zenon

----------------------------------------------------------------------------
(* The actions that leave the lists alone *)

LEMMA allocateManyKeeps ==
    ASSUME CacheInv, NEW t \in CacheThreads, allocateMany(t)
    PROVE  CacheInv'
<1>1. PICK n \in 1 .. MaxMany - Cardinality(held[t]) : thread' = [thread EXCEPT ![t] = Finding(n)]
  BY Zenon DEF allocateMany, Finding
<1> DEFINE c == Finding(n)
<1>2. n \in Nat
  BY CacheAssumption
<1>3. c \in CacheCall /\ c.at = "lock" /\ c.left = n /\ c.buffer = {}
  BY <1>2, BeginningIs, Zenon
<1> HIDE DEF c
<1>4. thread' = [thread EXCEPT ![t] = c]
  BY <1>1, Zenon DEF c
<1>5. /\ thread[t].at = "idle" /\ cache_lock' = cache_lock /\ allocate_mutex' = allocate_mutex
      /\ UNCHANGED <<config, lists>> /\ held' = held
  BY Zenon DEF allocateMany
<1>6. Locked(t) /\ Knows(t) /\ held \in [CacheThreads -> SUBSET (Slabs \X Items)]
  BY ThreadFacts, Zenon
<1>7. thread[t].buffer = {}
  BY <1>5, <1>6, IdleIs, Zenon DEF Knows
<1>8. cache_lock' # t /\ allocate_mutex' # t
  BY <1>5, <1>6, Zenon DEF Locked
<1>9. Step(t, c)
  BY <1>3, <1>4, <1>5, <1>8, Zenon DEF Step, Moves
<1>10. held'[t] \cup c.buffer = Has(t)
  BY <1>3, <1>5, <1>7, Zenon DEF Has
<1>11. KnowsAt(c, held'[t], available_slabs, slabs, items)
  BY <1>3, <1>5, Zenon DEF KnowsAt
<1>12. thread[t].at # "append" /\ c.at # "append"
  BY <1>3, <1>5, Zenon
<1>13. held' \in [CacheThreads -> SUBSET (Slabs \X Items)] /\ \A u \in CacheThreads : u # t => held'[u] = held[u]
  BY <1>5, <1>6, Zenon
<1> QED
  BY <1>5, <1>9, <1>10, <1>11, <1>12, <1>13, QuietKeeps, Zenon

LEMMA deallocateManyKeeps ==
    ASSUME CacheInv, NEW t \in CacheThreads, deallocateMany(t)
    PROVE  CacheInv'
<1>1. PICK some \in SUBSET held[t] \ {{}} :
        /\ thread' = [thread EXCEPT ![t] = Returning(some)]
        /\ held' = [held EXCEPT ![t] = @ \ some]
  BY Zenon DEF deallocateMany, Returning
<1>2. Locked(t) /\ Knows(t) /\ held \in [CacheThreads -> SUBSET (Slabs \X Items)]
  BY ThreadFacts, Zenon
<1> DEFINE c == Returning(some)
<1>3. some \in SUBSET (Slabs \X Items) /\ some \in SUBSET held[t]
  BY <1>2, Zenon
<1>4. c \in CacheCall /\ c.at = "relinquish" /\ c.buffer = some
  BY <1>3, BeginningIs, Zenon
<1> HIDE DEF c
<1>5. thread' = [thread EXCEPT ![t] = c]
  BY <1>1, Zenon DEF c
<1>6. /\ thread[t].at = "idle" /\ cache_lock' = cache_lock /\ allocate_mutex' = allocate_mutex
      /\ UNCHANGED <<config, lists>>
  BY Zenon DEF deallocateMany
<1>7. thread[t].buffer = {}
  BY <1>2, <1>6, IdleIs, Zenon DEF Knows
<1>8. cache_lock' # t /\ allocate_mutex' # t
  BY <1>2, <1>6, Zenon DEF Locked
<1>9. Step(t, c)
  BY <1>4, <1>5, <1>6, <1>8, Zenon DEF Step, Moves
<1>10. held'[t] = held[t] \ some
  BY <1>1, <1>2, Zenon
<1>11. held[t] \in SUBSET (Slabs \X Items)
  BY <1>2, Zenon
<1>12. held' \in [CacheThreads -> SUBSET (Slabs \X Items)] /\ \A u \in CacheThreads : u # t => held'[u] = held[u]
  <2>1. held[t] \ some \in SUBSET (Slabs \X Items)
    BY <1>11, Zenon
  <2> QED
    BY <1>1, <1>2, <2>1, Zenon
<1>13. held'[t] \cup c.buffer = Has(t)
  BY <1>3, <1>4, <1>7, <1>10, Zenon DEF Has
<1>14. held'[t] \cap c.buffer = {}
  BY <1>4, <1>10, Zenon
<1>15. KnowsAt(c, held'[t], available_slabs, slabs, items)
  BY <1>4, <1>14, Zenon DEF KnowsAt
<1>16. thread[t].at # "append" /\ c.at # "append"
  BY <1>4, <1>6, Zenon
<1> QED
  BY <1>6, <1>9, <1>12, <1>13, <1>15, <1>16, QuietKeeps, Zenon

\* A call returns, with or without the items it found.
LEMMA ReturnKeeps ==
    ASSUME CacheInv, NEW t \in CacheThreads, thread' = [thread EXCEPT ![t] = IdleThread],
           UNCHANGED <<config, allocate_mutex, lists>>, allocate_mutex # t,
           cache_lock' # t, Moves(cache_lock, cache_lock', t), thread[t].at # "append",
           \/ held' = held /\ thread[t].buffer = {}
           \/ held' = [held EXCEPT ![t] = @ \cup thread[t].buffer]
    PROVE  CacheInv'
<1>1. /\ Locked(t) /\ Knows(t) /\ held \in [CacheThreads -> SUBSET (Slabs \X Items)]
      /\ thread[t].buffer \in SUBSET (Slabs \X Items)
  BY ThreadFacts, Zenon
<1>2. Moves(allocate_mutex, allocate_mutex', t) /\ allocate_mutex' # t
  BY Zenon DEF Moves
<1>3. Step(t, IdleThread)
  BY <1>2, IdleIs, Zenon DEF Step
<1>4. /\ held' \in [CacheThreads -> SUBSET (Slabs \X Items)]
      /\ \A u \in CacheThreads : u # t => held'[u] = held[u]
      /\ held'[t] = Has(t)
  <2>1. CASE held' = held /\ thread[t].buffer = {}
    BY <1>1, <2>1, Zenon DEF Has
  <2>2. CASE held' = [held EXCEPT ![t] = @ \cup thread[t].buffer]
    <3>1. held[t] \cup thread[t].buffer \in SUBSET (Slabs \X Items)
      BY <1>1, Zenon
    <3> QED
      BY <1>1, <2>2, <3>1, Zenon DEF Has
  <2> QED
    BY <2>1, <2>2, Zenon
<1>5. held'[t] \cup IdleThread.buffer = Has(t) /\ held'[t] \cap IdleThread.buffer = {}
  BY <1>4, IdleIs, Zenon
<1>6. KnowsAt(IdleThread, held'[t], available_slabs, slabs, items)
  BY <1>5, IdleIs, Zenon DEF KnowsAt
<1>7. IdleThread.at # "append" /\ UNCHANGED <<config, lists>>
  BY IdleIs, Zenon
<1> QED
  BY <1>3, <1>4, <1>5, <1>6, <1>7, QuietKeeps, Zenon

\* A thread goes on to take items from the first available slab.
LEMMA ChooseKeeps ==
    ASSUME CacheInv, NEW t \in CacheThreads, available_slabs # <<>>,
           thread' = [thread EXCEPT ![t].at = "take", ![t].slab = Head(available_slabs)],
           UNCHANGED <<config, lists, held>>, thread[t].at # "append", thread[t].left # 0,
           cache_lock' = t, Moves(cache_lock, cache_lock', t),
           allocate_mutex' # t, Moves(allocate_mutex, allocate_mutex', t)
    PROVE  CacheInv'
<1>1. thread[t] \in CacheCall /\ Knows(t) /\ held \in [CacheThreads -> SUBSET (Slabs \X Items)]
  BY ThreadFacts, Zenon
<1> DEFINE s == Head(available_slabs)
           c == AtSlab(thread[t], "take", s)
<1>2. Lists(available_slabs)
  BY Zenon DEF CacheInv, CacheTyped
<1>3. s \in Range(available_slabs)
  BY <1>2, Ends, Zenon
<1>4. s \in Slabs
  BY <1>2 DEF Lists
<1> HIDE DEF s
<1>5. "take" \in CachePlaces
  BY Zenon DEF CachePlaces
<1>6. /\ c \in CacheCall /\ c.at = "take" /\ c.left = thread[t].left /\ c.buffer = thread[t].buffer
      /\ c.slab = s
  BY <1>1, <1>4, <1>5, AtSlabIs, SMT
<1>7. thread' = [thread EXCEPT ![t] = c]
  <2>1. thread \in [CacheThreads -> CacheCall]
    BY Zenon DEF CacheInv, CacheTyped
  <2> QED
    BY <2>1, Zenon DEF s, AtSlab
<1> HIDE DEF c
<1>8. Step(t, c)
  BY <1>6, <1>7, Zenon DEF Step
<1>9. held'[t] \cup c.buffer = Has(t) /\ held'[t] \cap c.buffer = {}
  BY <1>1, <1>6, Zenon DEF Has, Knows
<1>10. KnowsAt(c, held'[t], available_slabs, slabs, items)
  BY <1>3, <1>6, <1>9, Zenon DEF KnowsAt
<1>11. c.at # "append" /\ UNCHANGED <<config, lists>>
  BY <1>6, Zenon
<1>12. held' \in [CacheThreads -> SUBSET (Slabs \X Items)] /\ \A u \in CacheThreads : u # t => held'[u] = held[u]
  BY <1>1, Zenon
<1> QED
  BY <1>8, <1>9, <1>10, <1>11, <1>12, QuietKeeps, Zenon

LEMMA PickKeeps ==
    ASSUME CacheInv, NEW t \in CacheThreads, Pick(t)
    PROVE  CacheInv'
<1>1. Locked(t) /\ Knows(t) /\ thread[t].left \in Nat
  BY ThreadFacts, Zenon
<1>2. t # None
  BY CacheAssumption, Zenon
<1>3. thread[t].at = "pick" /\ allocate_mutex' = allocate_mutex /\ UNCHANGED <<config, lists>>
  BY Zenon DEF Pick
<1>4. cache_lock = t /\ allocate_mutex # t
  BY <1>1, <1>3, Zenon DEF Locked
<1>5. Moves(allocate_mutex, allocate_mutex', t)
  BY <1>3, Zenon DEF Moves
<1>6. CASE /\ cache_lock' = None /\ held' = [held EXCEPT ![t] = @ \cup thread[t].buffer]
           /\ thread' = [thread EXCEPT ![t] = IdleThread]
  <2>1. Moves(cache_lock, cache_lock', t) /\ cache_lock' # t
    BY <1>2, <1>4, <1>6, Zenon DEF Moves
  <2>2. UNCHANGED <<config, allocate_mutex, lists>> /\ thread[t].at # "append"
    BY <1>3, Zenon
  <2> QED
    BY <1>4, <1>6, <2>1, <2>2, ReturnKeeps, Zenon
<1>7. CASE /\ thread[t].left > 0 /\ available_slabs # <<>>
           /\ thread' = [thread EXCEPT ![t].at = "take", ![t].slab = Head(available_slabs)]
           /\ UNCHANGED <<cache_lock, held>>
  <2>1. thread[t].left # 0
    BY <1>7
  <2>2. Moves(cache_lock, cache_lock', t) /\ cache_lock' = t /\ allocate_mutex' # t
    BY <1>3, <1>4, <1>7, Zenon DEF Moves
  <2>3. UNCHANGED <<config, lists, held>> /\ thread[t].at # "append"
    BY <1>3, <1>7, Zenon
  <2> QED
    BY <1>5, <1>7, <2>1, <2>2, <2>3, ChooseKeeps, Zenon
<1>8. CASE thread[t].left > 0 /\ cache_lock' = None /\ Go(t, "mutex") /\ UNCHANGED held
  <2>1. thread[t].left # 0
    BY <1>8
  <2>2. Moves(cache_lock, cache_lock', t) /\ cache_lock' # t /\ allocate_mutex' # t
    BY <1>2, <1>3, <1>4, <1>8, Zenon DEF Moves
  <2>3. UNCHANGED <<config, lists, held>> /\ thread[t].at # "append"
    BY <1>3, <1>8, Zenon
  <2>4. "mutex" \in CachePlaces
    BY Zenon DEF CachePlaces
  <2> QED
    BY <1>5, <1>8, <2>1, <2>2, <2>3, <2>4, GoKeeps, Zenon
<1> QED
  BY <1>6, <1>7, <1>8, Zenon DEF Pick

LEMMA LookupFailsKeeps ==
    ASSUME CacheInv, NEW t \in CacheThreads, thread[t].at = "take", LookupFails(t),
           UNCHANGED <<config, allocate_mutex, held>>
    PROVE  CacheInv'
<1>1. Locked(t)
  BY ThreadFacts, Zenon
<1>2. t # None
  BY CacheAssumption, Zenon
<1>3. cache_lock = t /\ allocate_mutex' # t /\ allocate_mutex' = allocate_mutex
  BY <1>1, Zenon DEF Locked
<1>4. Go(t, "undo") /\ cache_lock' = None /\ UNCHANGED <<config, lists, held>>
  BY Zenon DEF LookupFails
<1>5. Moves(cache_lock, cache_lock', t) /\ cache_lock' # t /\ Moves(allocate_mutex, allocate_mutex', t)
  BY <1>2, <1>3, <1>4, Zenon DEF Moves
<1>6. "undo" \in CachePlaces
  BY Zenon DEF CachePlaces
<1> QED
  BY <1>3, <1>4, <1>5, <1>6, GoKeeps, Zenon

LEMMA UndoKeeps ==
    ASSUME CacheInv, NEW t \in CacheThreads, Undo(t)
    PROVE  CacheInv'
<1>1. Locked(t) /\ Knows(t)
  BY ThreadFacts, Zenon
<1>2. /\ thread[t].at = "undo" /\ cache_lock' = cache_lock /\ allocate_mutex' = allocate_mutex
      /\ UNCHANGED <<config, lists, held>>
  BY Zenon DEF Undo
<1>3. cache_lock # t /\ allocate_mutex # t
  BY <1>1, <1>2, Zenon DEF Locked
<1>4. Moves(cache_lock, cache_lock', t) /\ Moves(allocate_mutex, allocate_mutex', t)
  BY <1>2, Zenon DEF Moves
<1>5. CASE thread[t].buffer = {}
  <2>1. thread' = [thread EXCEPT ![t] = IdleThread]
    BY <1>5, Zenon DEF Undo
  <2>2. UNCHANGED <<config, allocate_mutex, lists>> /\ cache_lock' # t /\ held' = held
    BY <1>2, <1>3, Zenon
  <2> QED
    BY <1>2, <1>3, <1>4, <1>5, <2>1, <2>2, ReturnKeeps, Zenon
<1>6. CASE thread[t].buffer # {}
  <2>1. Go(t, "relinquish")
    BY <1>6, Zenon DEF Undo, Go
  <2>2. "relinquish" \in CachePlaces /\ cache_lock' # t /\ allocate_mutex' # t
    BY <1>2, <1>3, Zenon DEF CachePlaces
  <2> QED
    BY <1>2, <1>4, <2>1, <2>2, GoKeeps, Zenon
<1> QED
  BY <1>5, <1>6, Zenon

LEMMA LockMutexKeeps ==
    ASSUME CacheInv, NEW t \in CacheThreads, LockMutex(t)
    PROVE  CacheInv'
<1>1. Locked(t) /\ Knows(t)
  BY ThreadFacts, Zenon
<1>2. /\ thread[t].at = "mutex" /\ cache_lock' = cache_lock /\ allocate_mutex = None
      /\ allocate_mutex' = t /\ Go(t, "peek") /\ UNCHANGED <<config, lists, held>>
  BY Zenon DEF LockMutex
<1>3. cache_lock' # t /\ thread[t].left # 0
  BY <1>1, <1>2, Zenon DEF Locked, Knows
<1>4. Moves(cache_lock, cache_lock', t) /\ Moves(allocate_mutex, allocate_mutex', t)
  BY <1>2, Zenon DEF Moves
<1>5. "peek" \in CachePlaces
  BY Zenon DEF CachePlaces
<1> QED
  BY <1>2, <1>3, <1>4, <1>5, GoKeeps, Zenon

LEMMA PeekKeeps ==
    ASSUME CacheInv, NEW t \in CacheThreads, Peek(t)
    PROVE  CacheInv'
<1>1. Locked(t) /\ Knows(t)
  BY ThreadFacts, Zenon
<1>2. /\ thread[t].at = "peek" /\ cache_lock' = cache_lock /\ allocate_mutex' = allocate_mutex
      /\ UNCHANGED <<config, lists, held>>
  BY Zenon DEF Peek
<1>3. cache_lock' # t /\ allocate_mutex' = t /\ thread[t].left # 0
  BY <1>1, <1>2, Zenon DEF Locked, Knows
<1>4. Moves(cache_lock, cache_lock', t) /\ Moves(allocate_mutex, allocate_mutex', t)
  BY <1>2, Zenon DEF Moves
<1>5. "relock" \in CachePlaces /\ "build" \in CachePlaces
  BY Zenon DEF CachePlaces
<1>6. Go(t, "relock") \/ Go(t, "build")
  <2>1. CASE available_slabs # <<>>
    BY <2>1, Zenon DEF Peek
  <2>2. CASE available_slabs = <<>>
    BY <2>2, Zenon DEF Peek
  <2> QED
    BY <2>1, <2>2, Zenon
<1>7. CASE Go(t, "relock")
  BY <1>2, <1>3, <1>4, <1>5, <1>7, GoKeeps, Zenon
<1>8. CASE Go(t, "build")
  BY <1>2, <1>3, <1>4, <1>5, <1>8, GoKeeps, Zenon
<1> QED
  BY <1>6, <1>7, <1>8, Zenon

LEMMA RecheckKeeps ==
    ASSUME CacheInv, NEW t \in CacheThreads, Recheck(t)
    PROVE  CacheInv'
<1>1. Locked(t) /\ Knows(t)
  BY ThreadFacts, Zenon
<1>2. thread[t].at = "recheck" /\ UNCHANGED <<config, lists, held>>
  BY Zenon DEF Recheck
<1>3. cache_lock = t /\ allocate_mutex = t /\ thread[t].left # 0
  BY <1>1, <1>2, Zenon DEF Locked, Knows
<1>4. t # None
  BY CacheAssumption, Zenon
<1>5. CASE available_slabs # <<>>
  <2>1. /\ thread' = [thread EXCEPT ![t].at = "take", ![t].slab = Head(available_slabs)]
        /\ allocate_mutex' = None /\ cache_lock' = cache_lock
    BY <1>5, Zenon DEF Recheck
  <2>2. /\ Moves(cache_lock, cache_lock', t) /\ cache_lock' = t
        /\ Moves(allocate_mutex, allocate_mutex', t) /\ allocate_mutex' # t
    BY <1>3, <1>4, <2>1, Zenon DEF Moves
  <2> QED
    BY <1>2, <1>3, <1>5, <2>1, <2>2, ChooseKeeps, Zenon
<1>6. CASE available_slabs = <<>>
  <2>1. cache_lock' = None /\ Go(t, "build") /\ allocate_mutex' = allocate_mutex
    BY <1>6, Zenon DEF Recheck
  <2>2. /\ Moves(cache_lock, cache_lock', t) /\ cache_lock' # t
        /\ Moves(allocate_mutex, allocate_mutex', t) /\ allocate_mutex' = t
    BY <1>3, <1>4, <2>1, Zenon DEF Moves
  <2>3. "build" \in CachePlaces
    BY Zenon DEF CachePlaces
  <2> QED
    BY <1>2, <1>3, <2>1, <2>2, <2>3, GoKeeps, Zenon
<1> QED
  BY <1>5, <1>6, Zenon

LEMMA BuildFailsKeeps ==
    ASSUME CacheInv, NEW t \in CacheThreads, thread[t].at = "build",
           allocate_mutex' = None, Go(t, "undo"), cache_lock' = cache_lock,
           UNCHANGED <<config, lists, held>>
    PROVE  CacheInv'
<1>1. Locked(t)
  BY ThreadFacts, Zenon
<1>2. t # None
  BY CacheAssumption, Zenon
<1>3. allocate_mutex = t /\ cache_lock' # t
  BY <1>1, Zenon DEF Locked
<1>4. Moves(cache_lock, cache_lock', t) /\ Moves(allocate_mutex, allocate_mutex', t) /\ allocate_mutex' # t
  BY <1>2, <1>3, Zenon DEF Moves
<1>5. "undo" \in CachePlaces
  BY Zenon DEF CachePlaces
<1> QED
  BY <1>3, <1>4, <1>5, GoKeeps, Zenon

LEMMA GiveEndsKeeps ==
    ASSUME CacheInv, NEW t \in CacheThreads, thread[t].at = "give", thread[t].buffer = {},
           cache_lock' = None, thread' = [thread EXCEPT ![t] = IdleThread],
           UNCHANGED <<config, allocate_mutex, lists, held>>
    PROVE  CacheInv'
<1>1. Locked(t)
  BY ThreadFacts, Zenon
<1>2. t # None
  BY CacheAssumption, Zenon
<1>3. cache_lock = t /\ allocate_mutex # t
  BY <1>1, Zenon DEF Locked
<1>4. Moves(cache_lock, cache_lock', t) /\ cache_lock' # t
  BY <1>2, <1>3, Zenon DEF Moves
<1>5. UNCHANGED <<config, allocate_mutex, lists>> /\ held' = held
  BY Zenon
<1> QED
  BY <1>3, <1>4, <1>5, ReturnKeeps, Zenon

----------------------------------------------------------------------------
(* The counts of a slab *)

\* What the number of free items says about them.  The facts are proved with
\* the library's theorems on finite sets, at the end.
SlabCounts ==
    /\ \A S \in SUBSET Items : /\ Cardinality(S) \in Nat /\ (Cardinality(S) = 0 <=> S = {})
                               /\ (Cardinality(S) = items_per_slab <=> S = Items)
    /\ \A S \in SUBSET Items : \A i \in S : Cardinality(S \ {i}) = Cardinality(S) - 1
    /\ \A S \in SUBSET Items : \A i \in Items \ S : Cardinality(S \cup {i}) = Cardinality(S) + 1

\* An item is taken from a slab that has some, of which n are in use.
InUse(n, S) == n = items_per_slab - Cardinality(S)

LEMMA TakeCounts ==
    ASSUME SlabCounts, NEW S \in SUBSET Items, NEW i \in S, NEW n \in Nat, InUse(n, S)
    PROVE  InUse(n + 1, S \ {i}) /\ (n + 1 = items_per_slab <=> S \ {i} = {})
<1>1. items_per_slab \in Nat
  BY CacheAssumption, Zenon
<1> DEFINE k == Cardinality(S)
           m == Cardinality(S \ {i})
<1>2. k \in Nat /\ m \in Nat /\ m = k - 1 /\ (m = 0 <=> S \ {i} = {})
  <2>1. S \ {i} \in SUBSET Items
    BY Zenon
  <2> QED
    BY <2>1, Zenon DEF SlabCounts
<1>3. n = items_per_slab - k
  BY Zenon DEF InUse
<1> HIDE DEF k, m
<1>4. n + 1 = items_per_slab - m /\ (n + 1 = items_per_slab <=> m = 0)
  BY <1>1, <1>2, <1>3
<1> QED
  BY <1>2, <1>4, Zenon DEF m, InUse

\* An item is given back to a slab.
LEMMA GiveCounts ==
    ASSUME SlabCounts, NEW S \in SUBSET Items, NEW i \in Items, i \notin S, NEW n \in Nat, InUse(n, S)
    PROVE  /\ n - 1 \in Nat /\ InUse(n - 1, S \cup {i})
           /\ n = items_per_slab <=> S = {}
           /\ n = 1 <=> S \cup {i} = Items
<1>1. items_per_slab \in Nat
  BY CacheAssumption, Zenon
<1> DEFINE k == Cardinality(S)
           m == Cardinality(S \cup {i})
<1>2. k \in Nat /\ m \in Nat /\ m = k + 1 /\ (k = 0 <=> S = {}) /\ (m = items_per_slab <=> S \cup {i} = Items)
  <2>1. S \cup {i} \in SUBSET Items
    BY Zenon
  <2> QED
    BY <2>1, Zenon DEF SlabCounts
<1>3. k # items_per_slab
  <2>1. S # Items
    BY Zenon
  <2> QED
    BY <2>1, Zenon DEF SlabCounts
<1>4. n = items_per_slab - k
  BY Zenon DEF InUse
<1> HIDE DEF k, m
<1>5. /\ n - 1 \in Nat /\ n - 1 = items_per_slab - m
      /\ (n = items_per_slab <=> k = 0) /\ (n = 1 <=> m = items_per_slab)
  BY <1>1, <1>2, <1>3, <1>4
<1> QED
  BY <1>2, <1>5, Zenon DEF m, k, InUse

----------------------------------------------------------------------------
(* An item is taken *)

\* The thread has found one more item.
FoundOne(c, x, n, item) == [c EXCEPT !.at = x, !.left = n, !.buffer = @ \cup {item}]

HasFound(c, x, n, item, d) ==
    d \in CacheCall /\ d.at = x /\ d.left = n /\ d.buffer = c.buffer \cup {item} /\ d.slab = c.slab

LEMMA FoundOneIs ==
    ASSUME NEW c \in CacheCall, NEW x \in CachePlaces, NEW n \in Nat, NEW item, {item} \subseteq Slabs \X Items
    PROVE  HasFound(c, x, n, item, FoundOne(c, x, n, item))
<1> DEFINE a == At(c, x)
           b == [a EXCEPT !.left = n]
<1>1. a \in CacheCall /\ a.at = x /\ a.buffer = c.buffer /\ a.slab = c.slab
  BY AtOnlyIs, Zenon
<1>2. FoundOne(c, x, n, item) = [b EXCEPT !.buffer = @ \cup {item}]
  BY Zenon DEF FoundOne, At
<1> HIDE DEF a
<1>3. b \in CacheCall /\ b.at = x /\ b.left = n /\ b.buffer = c.buffer /\ b.slab = c.slab
  BY <1>1 DEF CacheCall
<1> HIDE DEF b
<1> DEFINE f == c.buffer \cup {item}
<1>4. f \in SUBSET (Slabs \X Items)
  BY Zenon DEF CacheCall
<1>5. [b EXCEPT !.buffer = @ \cup {item}] = [b EXCEPT !.buffer = f]
  BY <1>3, Zenon
<1> HIDE DEF f
<1>6. LET d == [b EXCEPT !.buffer = f]
      IN  d \in CacheCall /\ d.at = x /\ d.left = n /\ d.buffer = f /\ d.slab = c.slab
  BY <1>3, <1>4 DEF CacheCall
<1> QED
  BY <1>2, <1>5, <1>6, Zenon DEF f, HasFound

\* The item i of the slab s is taken by the thread t, which goes on to x.
Takes(t, s, i, x) ==
    /\ items' = [items EXCEPT ![s] = @ \ {i}]
    /\ allocated_items' = [allocated_items EXCEPT ![s] = @ + 1]
    /\ item_lookup' = IF config.large THEN item_lookup \cup {<<s, i>>} ELSE item_lookup
    /\ thread' = [thread EXCEPT ![t] = FoundOne(thread[t], x, thread[t].left - 1, <<s, i>>)]
    /\ UNCHANGED <<config, slabs, held, cache_lock, allocate_mutex>>
    /\ Lists(available_slabs') /\ Lists(full_slabs')
    /\ \/ /\ items[s] \ {i} = {} /\ x = "pick"
          /\ Range(available_slabs') = Range(available_slabs) \ {s}
          /\ Range(full_slabs') = Range(full_slabs) \cup {s}
       \/ /\ items[s] \ {i} # {} /\ x \in {"pick", "take"}
          /\ x = "take" => thread[t].left - 1 # 0
          /\ available_slabs' = available_slabs /\ full_slabs' = full_slabs

\* What is so before an item is taken.
LEMMA BeforeTaking ==
    ASSUME CacheInv, NEW t \in CacheThreads, thread[t].at = "take", NEW i \in items[thread[t].slab]
    PROVE  LET s == thread[t].slab
           IN  /\ s \in slabs /\ s \in Slabs /\ s \in Range(available_slabs) /\ i \in Items
               /\ items[s] \in SUBSET Items /\ allocated_items[s] \in Nat
               /\ s \notin Range(full_slabs)
               /\ \A u \in CacheThreads : ~Adds(u, s) /\ <<s, i>> \notin Has(u)
               /\ cache_lock = t /\ allocate_mutex # t /\ thread[t].left \in Nat /\ thread[t].left # 0
               /\ InUse(allocated_items[s], items[s])
<1> DEFINE s == thread[t].slab
<1>1. CacheTyped /\ Conserved
  BY Zenon DEF CacheInv
<1>2. Locked(t) /\ Knows(t) /\ thread[t].left \in Nat /\ s \in Slabs \cup {None}
  BY ThreadFacts, Zenon
<1>3. cache_lock = t /\ allocate_mutex # t /\ thread[t].left # 0 /\ s \in Range(available_slabs)
  BY <1>2, Zenon DEF Locked, Knows
<1> HIDE DEF s
<1>4. s \in Slabs
  <2>1. Lists(available_slabs)
    BY <1>1, Zenon DEF CacheTyped
  <2> QED
    BY <1>3, <2>1 DEF Lists, Range
<1>5. s \in slabs /\ items[s] # {} /\ \A u \in CacheThreads : ~Adds(u, s)
  BY <1>1, <1>3, <1>4, Zenon DEF Conserved, Available
<1>6. s \notin Range(full_slabs)
  BY <1>1, <1>4, <1>5, Zenon DEF Conserved, Full
<1>7. items[s] \in SUBSET Items /\ allocated_items[s] \in Nat
  BY <1>1, <1>4, Zenon DEF CacheTyped
<1>8. i \in items[s] /\ i \in Items
  BY <1>7, Zenon DEF s
<1>9. ASSUME NEW u \in CacheThreads, <<s, i>> \in Has(u) PROVE FALSE
  <2>1. <<s, i>>[2] \notin items[<<s, i>>[1]]
    BY <1>1, <1>9, Zenon DEF Conserved, Owned
  <2>2. <<s, i>>[1] = s /\ <<s, i>>[2] = i
    OBVIOUS
  <2> QED
    BY <1>8, <2>1, <2>2, Zenon
<1>10. InUse(allocated_items[s], items[s])
  BY <1>1, <1>5, Zenon DEF Conserved, Counted, InUse
<1> QED
  BY <1>2, <1>3, <1>4, <1>5, <1>6, <1>7, <1>8, <1>9, <1>10, Zenon DEF s

LEMMA TakeItemIs ==
    ASSUME SlabCounts, CacheInv, NEW t \in CacheThreads, thread[t].at = "take", TakeItem(t),
           UNCHANGED <<config, allocate_mutex, held>>
    PROVE  \E i \in items[thread[t].slab], x \in {"pick", "take"} : Takes(t, thread[t].slab, i, x)
<1> DEFINE s == thread[t].slab
           full == allocated_items[s] + 1 = items_per_slab
           left == thread[t].left - 1
           x == IF full \/ left = 0 THEN "pick" ELSE "take"
<1>1. PICK i \in items[s] :
        /\ items' = [items EXCEPT ![s] = @ \ {i}]
        /\ allocated_items' = [allocated_items EXCEPT ![s] = @ + 1]
        /\ item_lookup' = IF config.large THEN item_lookup \cup {<<s, i>>} ELSE item_lookup
        /\ available_slabs' = IF full THEN Unlinked(available_slabs, s) ELSE available_slabs
        /\ full_slabs' = IF full THEN Append(full_slabs, s) ELSE full_slabs
        /\ thread' = [thread EXCEPT ![t].at = x, ![t].left = left, ![t].buffer = @ \cup {<<s, i>>}]
        /\ UNCHANGED <<slabs, cache_lock>>
  BY Zenon DEF TakeItem
<1>2. /\ s \in Slabs /\ s \in Range(available_slabs) /\ s \notin Range(full_slabs)
      /\ items[s] \in SUBSET Items /\ allocated_items[s] \in Nat
      /\ InUse(allocated_items[s], items[s])
  BY BeforeTaking, Zenon
<1>3. full <=> items[s] \ {i} = {}
  <2> DEFINE n == allocated_items[s]
             S == items[s]
  <2>1. S \in SUBSET Items /\ i \in S /\ n \in Nat /\ InUse(n, S)
    BY <1>2, Zenon
  <2> HIDE DEF n, S
  <2>2. n + 1 = items_per_slab <=> S \ {i} = {}
    BY <2>1, TakeCounts, Zenon
  <2> QED
    BY <2>2, Zenon DEF n, S
<1>4. Lists(available_slabs) /\ Lists(full_slabs) /\ thread \in [CacheThreads -> CacheCall]
  BY Zenon DEF CacheInv, CacheTyped
<1>5. thread' = [thread EXCEPT ![t] = FoundOne(thread[t], x, left, <<s, i>>)]
  BY <1>1, <1>4, Zenon DEF FoundOne
<1>6. CASE full
  <2>1. x = "pick" /\ available_slabs' = Unlinked(available_slabs, s) /\ full_slabs' = Append(full_slabs, s)
    BY <1>1, <1>6, Zenon
  <2>2. Lists(available_slabs') /\ Range(available_slabs') = Range(available_slabs) \ {s}
    BY <1>2, <1>4, <2>1, Removed, Zenon
  <2>3. Lists(full_slabs') /\ Range(full_slabs') = Range(full_slabs) \cup {s}
    BY <1>2, <1>4, <2>1, Appended, Zenon
  <2>4. Takes(t, s, i, x)
    BY <1>1, <1>3, <1>5, <1>6, <2>1, <2>2, <2>3, Zenon DEF Takes
  <2> QED
    BY <1>1, <2>1, <2>4, Zenon
<1>7. CASE ~full
  <2>1. available_slabs' = available_slabs /\ full_slabs' = full_slabs
    BY <1>1, <1>7, Zenon
  <2>2. x \in {"pick", "take"} /\ (x = "take" => left # 0)
    BY <1>7, Zenon
  <2>3. Takes(t, s, i, x)
    BY <1>1, <1>3, <1>4, <1>5, <1>7, <2>1, <2>2, Zenon DEF Takes
  <2> QED
    BY <1>1, <2>2, <2>3, Zenon
<1> QED
  BY <1>6, <1>7, Zenon

LEMMA TakesKeeps ==
    ASSUME SlabCounts, CacheInv, NEW t \in CacheThreads, thread[t].at = "take",
           NEW i \in items[thread[t].slab], NEW x \in {"pick", "take"}, Takes(t, thread[t].slab, i, x)
    PROVE  CacheInv'
<1> DEFINE s == thread[t].slab
           c == FoundOne(thread[t], x, thread[t].left - 1, <<s, i>>)
<1>1. /\ s \in slabs /\ s \in Slabs /\ s \in Range(available_slabs) /\ i \in Items
      /\ items[s] \in SUBSET Items /\ allocated_items[s] \in Nat
      /\ s \notin Range(full_slabs)
      /\ \A u \in CacheThreads : ~Adds(u, s) /\ <<s, i>> \notin Has(u)
      /\ cache_lock = t /\ allocate_mutex # t /\ thread[t].left \in Nat /\ thread[t].left # 0
      /\ InUse(allocated_items[s], items[s])
  BY BeforeTaking, Zenon
<1>2. CacheTyped /\ Conserved /\ \A u \in CacheThreads : Locked(u) /\ Knows(u)
  BY Zenon DEF CacheInv
<1>3. thread[t] \in CacheCall /\ thread[t].buffer \in SUBSET (Slabs \X Items)
  BY ThreadFacts, Zenon
<1>4. x \in CachePlaces
  BY Zenon DEF CachePlaces
<1>5. thread[t].left - 1 \in Nat
  BY <1>1
<1>6. <<s, i>> \in Slabs \X Items
  BY <1>1, Zenon
<1>7. c \in CacheCall /\ c.at = x /\ c.left = thread[t].left - 1 /\ c.buffer = thread[t].buffer \cup {<<s, i>>} /\ c.slab = s
  <2> DEFINE n == thread[t].left - 1
             y == <<s, i>>
  <2>1. thread[t] \in CacheCall /\ n \in Nat /\ {y} \subseteq Slabs \X Items
    BY <1>3, <1>5, <1>6, Zenon
  <2> HIDE DEF n, y
  <2>2. HasFound(thread[t], x, n, y, FoundOne(thread[t], x, n, y))
    BY <1>4, <2>1, FoundOneIs, Zenon
  <2> QED
    BY <2>2, Zenon DEF n, y, HasFound
<1>8. /\ thread' = [thread EXCEPT ![t] = c]
      /\ config' = config /\ slabs' = slabs /\ held' = held
      /\ cache_lock' = cache_lock /\ allocate_mutex' = allocate_mutex
      /\ items' = [items EXCEPT ![s] = @ \ {i}]
      /\ allocated_items' = [allocated_items EXCEPT ![s] = @ + 1]
      /\ item_lookup' = IF config.large THEN item_lookup \cup {<<s, i>>} ELSE item_lookup
      /\ Lists(available_slabs') /\ Lists(full_slabs')
  BY Zenon DEF Takes
<1>9. \/ /\ items[s] \ {i} = {} /\ x = "pick"
         /\ Range(available_slabs') = Range(available_slabs) \ {s}
         /\ Range(full_slabs') = Range(full_slabs) \cup {s}
      \/ /\ items[s] \ {i} # {}
         /\ x = "take" => thread[t].left - 1 # 0
         /\ available_slabs' = available_slabs /\ full_slabs' = full_slabs
  BY Zenon DEF Takes
<1> HIDE DEF c
<1>10. Step(t, c)
  BY <1>1, <1>7, <1>8, Zenon DEF Step, Moves
<1>11. /\ thread' \in [CacheThreads -> CacheCall]
       /\ cache_lock' \in CacheThreads \cup {None} /\ allocate_mutex' \in CacheThreads \cup {None}
       /\ \A u \in CacheThreads : Locked(u)'
       /\ thread'[t] = c
       /\ \A u \in CacheThreads : u # t => thread'[u] = thread[u]
  BY <1>10, StepKeeps, Zenon
<1> DEFINE item == <<s, i>>
<1>12. item[1] = s /\ item[2] = i
  OBVIOUS
<1>13. /\ items' \in [Slabs -> SUBSET Items] /\ items'[s] = items[s] \ {i}
       /\ \A z \in Slabs : z # s => items'[z] = items[z]
  <2>1. items \in [Slabs -> SUBSET Items] /\ items[s] \ {i} \in SUBSET Items
    BY <1>1, <1>2, Zenon DEF CacheTyped
  <2> QED
    BY <1>1, <1>8, <2>1, Zenon
<1>14. /\ allocated_items' \in [Slabs -> Nat] /\ allocated_items'[s] = allocated_items[s] + 1
       /\ \A z \in Slabs : z # s => allocated_items'[z] = allocated_items[z]
  <2>1. allocated_items \in [Slabs -> Nat]
    BY <1>2, Zenon DEF CacheTyped
  <2>2. allocated_items[s] + 1 \in Nat
    BY <1>1
  <2> QED
    BY <1>1, <1>8, <2>1, <2>2, Zenon
<1>15. slabs \in SUBSET Slabs /\ held \in [CacheThreads -> SUBSET (Slabs \X Items)]
  BY <1>2, Zenon DEF CacheTyped
<1> HIDE DEF s
<1>16. Has(t)' = Has(t) \cup {item} /\ \A u \in CacheThreads : u # t => Has(u)' = Has(u)
  BY <1>7, <1>8, <1>11, Zenon DEF Has
<1> HIDE DEF item
<1>17. \A u \in CacheThreads : item \notin Has(u)
  BY <1>1, Zenon DEF item
<1>18. \A u \in CacheThreads : Has(u) \subseteq Has(u)'
  BY <1>16, Zenon
<1>19. \A u \in CacheThreads : \A z : Adds(u, z)' <=> Adds(u, z)
  BY <1>7, <1>11, Zenon DEF Adds
<1>20. CacheTyped'
  BY <1>2, <1>8, <1>11, <1>13, <1>14, Zenon DEF CacheTyped
<1>21. \A u \in CacheThreads : Knows(u)'
  <2>1. Knows(t)'
    <3>1. c.at = "take" => c.left # 0 /\ c.slab \in Range(available_slabs')
      BY <1>1, <1>7, <1>9, Zenon
    <3>2. held[t] \cap c.buffer = {}
      <4>1. held[t] \cap thread[t].buffer = {} /\ item \notin held[t]
        BY <1>2, <1>17, Zenon DEF Knows, Has
      <4> QED
        BY <1>7, <4>1, Zenon DEF item
    <3> QED
      BY <1>7, <1>8, <1>11, <3>1, <3>2, Zenon DEF Knows
  <2>2. ASSUME NEW u \in CacheThreads, u # t PROVE Knows(u)'
    <3>1. Knows(u) /\ thread'[u] = thread[u] /\ held'[u] = held[u]
      BY <1>2, <1>8, <1>11, <2>2, Zenon
    <3>2. thread[u].at # "take"
      BY <1>1, <1>2, <2>2, Zenon DEF Locked
    <3>3. ASSUME thread[u].at = "append"
          PROVE  thread[u].slab \in slabs' /\ items'[thread[u].slab] = Items
      <4>1. thread[u].slab \in slabs /\ items[thread[u].slab] = Items /\ thread[u].slab # s
        BY <1>1, <3>1, <3>3, Zenon DEF Knows, Adds
      <4> QED
        BY <1>8, <1>13, <1>15, <4>1, Zenon
    <3> QED
      BY <3>1, <3>2, <3>3, Zenon DEF Knows
  <2> QED
    BY <2>1, <2>2, Zenon
<1>22. Conserved'
  <2> USE <1>2 DEF Conserved
  <2>1. Owned'
    <3>1. ASSUME NEW u \in CacheThreads, NEW y \in Has(u)'
          PROVE  y[1] \in slabs /\ y[2] \notin items'[y[1]]
      <4>1. CASE y \in Has(u)
        <5>1. y[1] \in slabs /\ y[2] \notin items[y[1]]
          BY <4>1, Zenon DEF Owned
        <5>2. items'[y[1]] \subseteq items[y[1]]
          BY <1>13, <1>15, <5>1, Zenon
        <5> QED
          BY <5>1, <5>2, Zenon
      <4>2. CASE y = item
        BY <1>1, <1>12, <1>13, <4>2, Zenon
      <4> QED
        BY <1>16, <4>1, <4>2, Zenon
    <3> QED
      BY <1>8, <3>1, Zenon DEF Owned
  <2>2. Found'
    <3>1. ASSUME NEW z \in slabs, NEW j \in Items, j \notin items'[z]
          PROVE  \E u \in CacheThreads : <<z, j>> \in Has(u)'
      <4>1. CASE j \notin items[z]
        <5>1. PICK u \in CacheThreads : <<z, j>> \in Has(u)
          BY <4>1, Zenon DEF Found
        <5> QED
          BY <1>18, <5>1, Zenon
      <4>2. CASE j \in items[z]
        <5>1. z = s /\ j = i
          BY <1>13, <1>15, <3>1, <4>2, Zenon
        <5> QED
          BY <1>16, <5>1, Zenon DEF item
      <4> QED
        BY <4>1, <4>2, Zenon
    <3> QED
      BY <1>8, <3>1, Zenon DEF Found
  <2>3. Apart'
    <3>1. ASSUME NEW u \in CacheThreads, NEW v \in CacheThreads, u # v
          PROVE  Has(u)' \cap Has(v)' = {}
      <4>1. Has(u) \cap Has(v) = {} /\ item \notin Has(u) /\ item \notin Has(v)
        BY <1>17, <3>1, Zenon DEF Apart
      <4> QED
        BY <1>16, <3>1, <4>1, Zenon
    <3> QED
      BY <3>1, Zenon DEF Apart
  <2>4. Counted'
    <3>1. allocated_items'[s] = items_per_slab - Cardinality(items'[s])
      <4> DEFINE n == allocated_items[s]
                 S == items[s]
      <4>1. S \in SUBSET Items /\ i \in S /\ n \in Nat /\ InUse(n, S)
        BY <1>1, Zenon DEF s
      <4> HIDE DEF n, S
      <4>2. InUse(n + 1, S \ {i})
        BY <4>1, TakeCounts, Zenon
      <4> QED
        BY <1>13, <1>14, <4>2, Zenon DEF n, S, InUse
    <3>2. ASSUME NEW z \in slabs
          PROVE  allocated_items'[z] = items_per_slab - Cardinality(items'[z])
      <4>1. CASE z = s
        BY <3>1, <4>1, Zenon
      <4>2. CASE z # s
        BY <1>13, <1>14, <1>15, <4>2, Zenon DEF Counted
      <4> QED
        BY <4>1, <4>2, Zenon
    <3> QED
      BY <1>8, <3>2, Zenon DEF Counted
  <2>5. Available'
    <3>1. ASSUME NEW z \in Slabs
          PROVE  z \in Range(available_slabs') <=>
                     z \in slabs /\ items'[z] # {} /\ \A u \in CacheThreads : ~Adds(u, z)
      <4>1. CASE z = s
        BY <1>1, <1>9, <1>13, <4>1, Zenon
      <4>2. CASE z # s
        <5>1. z \in Range(available_slabs') <=> z \in Range(available_slabs)
          BY <1>9, <4>2, Zenon
        <5>2. items'[z] = items[z]
          BY <1>13, <4>2, Zenon
        <5> QED
          BY <5>1, <5>2, Zenon DEF Available
      <4> QED
        BY <4>1, <4>2, Zenon
    <3> QED
      BY <1>8, <1>19, <3>1, Zenon DEF Available
  <2>6. Full'
    <3>1. ASSUME NEW z \in Slabs
          PROVE  z \in Range(full_slabs') <=> z \in slabs /\ items'[z] = {}
      <4>1. CASE z = s
        BY <1>1, <1>9, <1>13, <4>1, Zenon
      <4>2. CASE z # s
        <5>1. z \in Range(full_slabs') <=> z \in Range(full_slabs)
          BY <1>9, <4>2, Zenon
        <5>2. items'[z] = items[z]
          BY <1>13, <4>2, Zenon
        <5> QED
          BY <5>1, <5>2, Zenon DEF Full
      <4> QED
        BY <4>1, <4>2, Zenon
    <3> QED
      BY <1>8, <3>1, Zenon DEF Full
  <2>7. Looked'
    <3>1. ASSUME NEW y, y \in item_lookup' PROVE \E u \in CacheThreads : y \in Has(u)'
      <4>1. CASE y \in item_lookup
        <5>1. PICK u \in CacheThreads : y \in Has(u)
          BY <4>1, Zenon DEF Looked
        <5> QED
          BY <1>18, <5>1, Zenon
      <4>2. CASE y = item
        BY <1>16, <4>2, Zenon
      <4>3. y \in item_lookup \/ y = item
        BY <1>8, <3>1, Zenon DEF item
      <4> QED
        BY <4>1, <4>2, <4>3, Zenon
    <3>2. ASSUME config.large, NEW u \in CacheThreads PROVE Has(u)' \subseteq item_lookup'
      <4>1. item_lookup' = item_lookup \cup {item}
        BY <1>8, <3>2, Zenon DEF item
      <4>2. Has(u) \subseteq item_lookup
        BY <3>2, Zenon DEF Looked
      <4>3. Has(u)' \subseteq Has(u) \cup {item}
        BY <1>16, Zenon
      <4> QED
        BY <4>1, <4>2, <4>3, Zenon
    <3> QED
      BY <1>8, <3>1, <3>2, Zenon DEF Looked
  <2> QED
    BY <2>1, <2>2, <2>3, <2>4, <2>5, <2>6, <2>7, Zenon DEF Conserved
<1> QED
  BY <1>11, <1>20, <1>21, <1>22, Zenon DEF CacheInv

----------------------------------------------------------------------------
(* A slab is made and added *)

\* A slab has at least one item, and none is in use when it is new.
LEMMA NewSlab ==
    ASSUME SlabCounts
    PROVE  Items # {} /\ Items \in SUBSET Items /\ InUse(0, Items)
<1>1. 1 \in Items
  BY CacheAssumption DEF Items
<1>2. Cardinality(Items) = items_per_slab
  <2>1. Items \in SUBSET Items
    BY Zenon
  <2> QED
    BY <2>1, Zenon DEF SlabCounts
<1>3. 0 = items_per_slab - items_per_slab
  BY CacheAssumption
<1> QED
  BY <1>1, <1>2, <1>3, Zenon DEF InUse

\* The slab s is made.
Builds(t, s) ==
    /\ thread[t].at = "build" /\ s \in Slabs /\ s \notin slabs
    /\ slabs' = slabs \cup {s} /\ items' = [items EXCEPT ![s] = Items]
    /\ allocated_items' = [allocated_items EXCEPT ![s] = 0]
    /\ thread' = [thread EXCEPT ![t].at = "append", ![t].slab = s]
    /\ UNCHANGED <<config, cache_lock, allocate_mutex, available_slabs, full_slabs, item_lookup, held>>

LEMMA BuildKeeps ==
    ASSUME SlabCounts, CacheInv, NEW t \in CacheThreads, NEW s \in Slabs, Builds(t, s)
    PROVE  CacheInv'
<1> DEFINE c == AtSlab(thread[t], "append", s)
<1>1. CacheTyped /\ Conserved /\ \A u \in CacheThreads : Locked(u) /\ Knows(u)
  BY Zenon DEF CacheInv
<1>2. thread[t] \in CacheCall
  BY ThreadFacts, Zenon
<1>3. cache_lock # t /\ allocate_mutex = t /\ thread[t].left # 0
  BY <1>1, Zenon DEF Locked, Knows, Builds
<1>4. "append" \in CachePlaces
  BY Zenon DEF CachePlaces
<1>5. c \in CacheCall /\ c.at = "append" /\ c.left = thread[t].left /\ c.buffer = thread[t].buffer /\ c.slab = s
  BY <1>2, <1>4, AtSlabIs, SMT
<1> USE DEF Builds
<1>6. thread' = [thread EXCEPT ![t] = c]
  <2>1. thread \in [CacheThreads -> CacheCall]
    BY <1>1, Zenon DEF CacheTyped
  <2> QED
    BY <2>1, Zenon DEF AtSlab
<1> HIDE DEF c
<1>7. Step(t, c)
  BY <1>3, <1>5, <1>6, Zenon DEF Step, Moves
<1>8. /\ thread' \in [CacheThreads -> CacheCall]
      /\ cache_lock' \in CacheThreads \cup {None} /\ allocate_mutex' \in CacheThreads \cup {None}
      /\ \A u \in CacheThreads : Locked(u)'
      /\ thread'[t] = c
      /\ \A u \in CacheThreads : u # t => thread'[u] = thread[u]
  BY <1>7, StepKeeps, Zenon
<1>9. /\ items' \in [Slabs -> SUBSET Items] /\ items'[s] = Items
      /\ \A z \in Slabs : z # s => items'[z] = items[z]
  BY <1>1, NewSlab, Zenon DEF CacheTyped
<1>10. /\ allocated_items' \in [Slabs -> Nat] /\ allocated_items'[s] = 0
       /\ \A z \in Slabs : z # s => allocated_items'[z] = allocated_items[z]
  <2>1. allocated_items \in [Slabs -> Nat]
    BY <1>1, Zenon DEF CacheTyped
  <2>2. 0 \in Nat
    OBVIOUS
  <2> QED
    BY <2>1, <2>2, Zenon
<1>11. slabs \in SUBSET Slabs
  BY <1>1, Zenon DEF CacheTyped
<1>12. \A u \in CacheThreads : Has(u)' = Has(u)
  BY <1>5, <1>8, Zenon DEF Has
<1>13. \A u \in CacheThreads : thread[u].at # "append"
  BY <1>1, <1>3, Zenon DEF Locked
<1>14. Adds(t, s)' /\ \A u \in CacheThreads : \A z : z # s => ~Adds(u, z)' /\ ~Adds(u, z)
  BY <1>5, <1>8, <1>13, Zenon DEF Adds
<1>15. CacheTyped'
  <2>1. slabs' \in SUBSET Slabs
    BY <1>11, Zenon
  <2> QED
    BY <1>1, <1>8, <1>9, <1>10, <2>1, Zenon DEF CacheTyped
<1>16. \A u \in CacheThreads : Knows(u)'
  <2>1. Knows(t)'
    <3>1. held[t] \cap thread[t].buffer = {}
      BY <1>1, Zenon DEF Knows
    <3>2. s \in slabs' /\ held'[t] = held[t]
      BY Zenon
    <3> QED
      BY <1>3, <1>5, <1>8, <1>9, <3>1, <3>2, Zenon DEF Knows
  <2>2. ASSUME NEW u \in CacheThreads, u # t PROVE Knows(u)'
    <3>1. Knows(u) /\ thread'[u] = thread[u] /\ thread[u].at # "append"
      BY <1>1, <1>8, <1>13, <2>2, Zenon
    <3> QED
      BY <3>1, Zenon DEF Knows
  <2> QED
    BY <2>1, <2>2, Zenon
<1>17. Conserved'
  <2> USE <1>1 DEF Conserved
  <2>1. Owned'
    <3>1. ASSUME NEW u \in CacheThreads, NEW y \in Has(u)
          PROVE  y[1] \in slabs' /\ y[2] \notin items'[y[1]]
      <4>1. y[1] \in slabs /\ y[2] \notin items[y[1]]
        BY Zenon DEF Owned
      <4> QED
        BY <1>9, <1>11, <4>1, Zenon
    <3> QED
      BY <1>12, <3>1, Zenon DEF Owned
  <2>2. Found'
    <3>1. ASSUME NEW z \in slabs', NEW j \in Items, j \notin items'[z]
          PROVE  \E u \in CacheThreads : <<z, j>> \in Has(u)'
      <4>1. z # s /\ z \in slabs
        BY <1>9, <3>1, Zenon
      <4>2. PICK u \in CacheThreads : <<z, j>> \in Has(u)
        BY <1>9, <1>11, <3>1, <4>1, Zenon DEF Found
      <4> QED
        BY <1>12, <4>2, Zenon
    <3> QED
      BY <3>1, Zenon DEF Found
  <2>3. Apart'
    BY <1>12, Zenon DEF Apart
  <2>4. Counted'
    <3>1. ASSUME NEW z \in slabs' PROVE allocated_items'[z] = items_per_slab - Cardinality(items'[z])
      <4>1. CASE z = s
        BY <1>9, <1>10, <4>1, NewSlab, Zenon DEF InUse
      <4>2. CASE z # s
        BY <1>9, <1>10, <1>11, <4>2, Zenon DEF Counted
      <4> QED
        BY <4>1, <4>2, Zenon
    <3> QED
      BY <3>1, Zenon DEF Counted
  <2>5. Available'
    <3>1. ASSUME NEW z \in Slabs
          PROVE  z \in Range(available_slabs) <=>
                     z \in slabs' /\ items'[z] # {} /\ \A u \in CacheThreads : ~Adds(u, z)'
      <4>1. CASE z = s
        <5>1. s \notin Range(available_slabs)
          BY Zenon DEF Available
        <5> QED
          BY <1>14, <4>1, <5>1, Zenon
      <4>2. CASE z # s
        <5>1. z \in slabs' <=> z \in slabs
          BY <4>2, Zenon
        <5>2. items'[z] = items[z] /\ \A u \in CacheThreads : ~Adds(u, z)' /\ ~Adds(u, z)
          BY <1>9, <1>14, <4>2, Zenon
        <5> QED
          BY <5>1, <5>2, Zenon DEF Available
      <4> QED
        BY <4>1, <4>2, Zenon
    <3> QED
      BY <3>1, Zenon DEF Available
  <2>6. Full'
    <3>1. ASSUME NEW z \in Slabs
          PROVE  z \in Range(full_slabs) <=> z \in slabs' /\ items'[z] = {}
      <4>1. CASE z = s
        <5>1. s \notin Range(full_slabs)
          BY Zenon DEF Full
        <5> QED
          BY <1>9, <4>1, <5>1, NewSlab, Zenon
      <4>2. CASE z # s
        <5>1. z \in slabs' <=> z \in slabs
          BY <4>2, Zenon
        <5> QED
          BY <1>9, <4>2, <5>1, Zenon DEF Full
      <4> QED
        BY <4>1, <4>2, Zenon
    <3> QED
      BY <3>1, Zenon DEF Full
  <2>7. Looked'
    <3>1. ASSUME NEW x, x \in item_lookup PROVE \E u \in CacheThreads : x \in Has(u)'
      <4>1. PICK u \in CacheThreads : x \in Has(u)
        BY <3>1, Zenon DEF Looked
      <4> QED
        BY <1>12, <4>1, Zenon
    <3>2. ASSUME config.large, NEW u \in CacheThreads PROVE Has(u)' \subseteq item_lookup
      BY <1>12, <3>2, Zenon DEF Looked
    <3> QED
      BY <3>1, <3>2, Zenon DEF Looked
  <2> QED
    BY <2>1, <2>2, <2>3, <2>4, <2>5, <2>6, <2>7, Zenon DEF Conserved
<1> QED
  BY <1>8, <1>15, <1>16, <1>17, Zenon DEF CacheInv

LEMMA AppendSlabKeeps ==
    ASSUME SlabCounts, CacheInv, NEW t \in CacheThreads, AppendSlab(t)
    PROVE  CacheInv'
<1> DEFINE s == thread[t].slab
           c == At(thread[t], "take")
<1>1. CacheTyped /\ Conserved /\ \A u \in CacheThreads : Locked(u) /\ Knows(u)
  BY Zenon DEF CacheInv
<1>2. thread[t] \in CacheCall
  BY ThreadFacts, Zenon
<1>3. /\ thread[t].at = "append" /\ cache_lock = None /\ cache_lock' = t /\ allocate_mutex' = None
      /\ available_slabs' = Append(available_slabs, s) /\ Go(t, "take")
      /\ config' = config /\ full_slabs' = full_slabs /\ slabs' = slabs /\ items' = items
      /\ allocated_items' = allocated_items /\ item_lookup' = item_lookup /\ held' = held
  BY Zenon DEF AppendSlab
<1>4. allocate_mutex = t /\ thread[t].left # 0 /\ s \in slabs /\ items[s] = Items
  BY <1>1, <1>3, Zenon DEF Locked, Knows
<1>5. "take" \in CachePlaces /\ t # None
  BY CacheAssumption, Zenon DEF CachePlaces
<1>6. c \in CacheCall /\ c.at = "take" /\ c.left = thread[t].left /\ c.buffer = thread[t].buffer /\ c.slab = s
  BY <1>2, <1>5, AtOnlyIs, Zenon
<1>7. thread' = [thread EXCEPT ![t] = c]
  BY <1>3, Zenon DEF Go, At
<1> HIDE DEF c
<1>8. Step(t, c)
  BY <1>3, <1>4, <1>5, <1>6, <1>7, Zenon DEF Step, Moves
<1>9. /\ thread' \in [CacheThreads -> CacheCall]
      /\ cache_lock' \in CacheThreads \cup {None} /\ allocate_mutex' \in CacheThreads \cup {None}
      /\ \A u \in CacheThreads : Locked(u)'
      /\ thread'[t] = c
      /\ \A u \in CacheThreads : u # t => thread'[u] = thread[u]
  BY <1>8, StepKeeps, Zenon
<1> HIDE DEF s
<1>10. s \in Slabs /\ s \notin Range(available_slabs)
  <2>1. s \in Slabs
    BY <1>1, <1>4, Zenon DEF CacheTyped
  <2>2. Adds(t, s)
    BY <1>3, Zenon DEF Adds, s
  <2> QED
    BY <1>1, <2>1, <2>2, Zenon DEF Conserved, Available
<1>11. Lists(available_slabs') /\ Range(available_slabs') = Range(available_slabs) \cup {s}
  <2>1. Lists(available_slabs)
    BY <1>1, Zenon DEF CacheTyped
  <2> QED
    BY <1>3, <1>10, <2>1, Appended, Zenon
<1>12. \A u \in CacheThreads : Has(u)' = Has(u)
  BY <1>3, <1>6, <1>9, Zenon DEF Has
<1>13. \A u \in CacheThreads : u # t => thread[u].at # "append"
  BY <1>1, <1>4, Zenon DEF Locked
<1>14. \A u \in CacheThreads : \A z : ~Adds(u, z)' /\ (z # s => ~Adds(u, z))
  BY <1>6, <1>9, <1>13, Zenon DEF Adds, s
<1>15. CacheTyped'
  BY <1>1, <1>3, <1>9, <1>11, Zenon DEF CacheTyped
<1>16. \A u \in CacheThreads : Knows(u)'
  <2>1. Knows(t)'
    <3>1. held[t] \cap thread[t].buffer = {}
      BY <1>1, Zenon DEF Knows
    <3>2. s \in Range(available_slabs')
      BY <1>11, Zenon
    <3> QED
      BY <1>3, <1>4, <1>6, <1>9, <3>1, <3>2, Zenon DEF Knows
  <2>2. ASSUME NEW u \in CacheThreads, u # t PROVE Knows(u)'
    <3>1. Knows(u) /\ thread'[u] = thread[u] /\ thread[u].at # "append" /\ held'[u] = held[u]
      BY <1>1, <1>3, <1>9, <1>13, <2>2, Zenon
    <3>2. Range(available_slabs) \subseteq Range(available_slabs')
      BY <1>11, Zenon
    <3> QED
      BY <3>1, <3>2, Zenon DEF Knows
  <2> QED
    BY <2>1, <2>2, Zenon
<1>17. Conserved'
  <2> USE <1>1 DEF Conserved
  <2>1. Owned'
    BY <1>3, <1>12, Zenon DEF Owned
  <2>2. Found'
    <3>1. ASSUME NEW z \in slabs, NEW j \in Items, j \notin items[z]
          PROVE  \E u \in CacheThreads : <<z, j>> \in Has(u)'
      <4>1. PICK u \in CacheThreads : <<z, j>> \in Has(u)
        BY <3>1, Zenon DEF Found
      <4> QED
        BY <1>12, <4>1, Zenon
    <3> QED
      BY <1>3, <3>1, Zenon DEF Found
  <2>3. Apart'
    BY <1>12, Zenon DEF Apart
  <2>4. Counted' /\ Full'
    BY <1>3, Zenon DEF Counted, Full
  <2>5. Available'
    <3>1. ASSUME NEW z \in Slabs
          PROVE  z \in Range(available_slabs') <=>
                     z \in slabs /\ items[z] # {} /\ \A u \in CacheThreads : ~Adds(u, z)'
      <4>1. CASE z = s
        <5>1. s \in Range(available_slabs')
          BY <1>11, Zenon
        <5> QED
          BY <1>4, <1>14, <4>1, <5>1, NewSlab, Zenon
      <4>2. CASE z # s
        <5>1. z \in Range(available_slabs') <=> z \in Range(available_slabs)
          BY <1>11, <4>2, Zenon
        <5>2. \A u \in CacheThreads : ~Adds(u, z)' /\ ~Adds(u, z)
          BY <1>14, <4>2, Zenon
        <5> QED
          BY <5>1, <5>2, Zenon DEF Available
      <4> QED
        BY <4>1, <4>2, Zenon
    <3> QED
      BY <1>3, <3>1, Zenon DEF Available
  <2>6. Looked'
    <3>1. ASSUME NEW x, x \in item_lookup PROVE \E u \in CacheThreads : x \in Has(u)'
      <4>1. PICK u \in CacheThreads : x \in Has(u)
        BY <3>1, Zenon DEF Looked
      <4> QED
        BY <1>12, <4>1, Zenon
    <3>2. ASSUME config.large, NEW u \in CacheThreads PROVE Has(u)' \subseteq item_lookup
      BY <1>12, <3>2, Zenon DEF Looked
    <3> QED
      BY <1>3, <3>1, <3>2, Zenon DEF Looked
  <2> QED
    BY <2>1, <2>2, <2>3, <2>4, <2>5, <2>6, Zenon DEF Conserved
<1> QED
  BY <1>9, <1>15, <1>16, <1>17, Zenon DEF CacheInv

----------------------------------------------------------------------------
(* An item is given back *)

\* A thread gives back the item; gone says whether its slab goes with it.
Gives(t, item, gone) ==
    /\ item_lookup' = item_lookup \ {item}
    /\ items' = [items EXCEPT ![item[1]] = @ \cup {item[2]}]
    /\ allocated_items' = [allocated_items EXCEPT ![item[1]] = @ - 1]
    /\ thread' = [thread EXCEPT ![t].buffer = @ \ {item}]
    /\ UNCHANGED <<config, held, cache_lock, allocate_mutex>>
    /\ Lists(available_slabs') /\ Lists(full_slabs')
    /\ Range(full_slabs') = Range(full_slabs) \ {item[1]}
    /\ \/ /\ gone = TRUE /\ items[item[1]] \cup {item[2]} = Items
          /\ slabs' = slabs \ {item[1]}
          /\ Range(available_slabs') = Range(available_slabs) \ {item[1]}
       \/ /\ gone = FALSE /\ slabs' = slabs
          /\ Range(available_slabs') = Range(available_slabs) \cup {item[1]}

LEMMA HasTyped ==
    ASSUME CacheInv, NEW t \in CacheThreads
    PROVE  Has(t) \in SUBSET (Slabs \X Items)
<1>1. held \in [CacheThreads -> SUBSET (Slabs \X Items)] /\ thread[t].buffer \in SUBSET (Slabs \X Items)
  BY ThreadFacts, Zenon
<1>2. held[t] \in SUBSET (Slabs \X Items)
  BY <1>1, Zenon
<1> QED
  BY <1>1, <1>2, Zenon DEF Has

\* What is so before an item is given back.
LEMMA BeforeGiving ==
    ASSUME CacheInv, NEW t \in CacheThreads, thread[t].at = "give", NEW item \in thread[t].buffer
    PROVE  /\ item = <<item[1], item[2]>> /\ item[1] \in Slabs /\ item[1] \in slabs
           /\ items[item[1]] \in SUBSET Items /\ item[2] \in Items \ items[item[1]]
           /\ allocated_items[item[1]] \in Nat /\ InUse(allocated_items[item[1]], items[item[1]])
           /\ \A u \in CacheThreads : ~Adds(u, item[1])
           /\ cache_lock = t /\ allocate_mutex # t /\ item \notin held[t]
           /\ \A u \in CacheThreads : u # t => item \notin Has(u)
<1>1. CacheTyped /\ Conserved /\ \A u \in CacheThreads : Locked(u) /\ Knows(u)
  BY Zenon DEF CacheInv
<1>2. item \in Has(t) /\ item \notin held[t]
  BY <1>1, Zenon DEF Has, Knows
<1>3. item \in Slabs \X Items
  BY <1>2, HasTyped, Zenon
<1>4. item = <<item[1], item[2]>> /\ item[1] \in Slabs /\ item[2] \in Items
  BY <1>3
<1>5. item[1] \in slabs /\ item[2] \notin items[item[1]]
  BY <1>1, <1>2, Zenon DEF Conserved, Owned
<1>6. items[item[1]] \in SUBSET Items /\ allocated_items[item[1]] \in Nat
  BY <1>1, <1>4, Zenon DEF CacheTyped
<1>7. InUse(allocated_items[item[1]], items[item[1]])
  BY <1>1, <1>5, Zenon DEF Conserved, Counted, InUse
<1>8. \A u \in CacheThreads : ~Adds(u, item[1])
  BY <1>1, <1>4, <1>5, Zenon DEF Knows, Adds
<1>9. cache_lock = t /\ allocate_mutex # t
  BY <1>1, Zenon DEF Locked
<1>10. \A u \in CacheThreads : u # t => item \notin Has(u)
  BY <1>1, <1>2, Zenon DEF Conserved, Apart
<1>11. item[2] \in Items \ items[item[1]]
  BY <1>4, <1>5, Zenon
<1> QED
  BY <1>2, <1>4, <1>5, <1>6, <1>7, <1>8, <1>9, <1>10, <1>11

LEMMA GiveItemIs ==
    ASSUME SlabCounts, CacheInv, NEW t \in CacheThreads, thread[t].at = "give", NEW item \in thread[t].buffer,
           GiveItem(t, item), UNCHANGED <<config, cache_lock, allocate_mutex, held>>
    PROVE  \E gone \in BOOLEAN : Gives(t, item, gone)
<1> DEFINE s == item[1]
           available == IF WasFull(s) THEN Append(available_slabs, s) ELSE available_slabs
           gone == allocated_items[s] = 1 /\ ~ IsLastSlab(s, available)
<1>1. /\ item_lookup' = item_lookup \ {item}
      /\ full_slabs' = IF WasFull(s) THEN Unlinked(full_slabs, s) ELSE full_slabs
      /\ items' = [items EXCEPT ![s] = @ \cup {item[2]}]
      /\ allocated_items' = [allocated_items EXCEPT ![s] = @ - 1]
      /\ available_slabs' = IF gone THEN Unlinked(available, s) ELSE available
      /\ IF gone THEN slabs' = slabs \ {s} ELSE slabs' = slabs
      /\ thread' = [thread EXCEPT ![t].buffer = @ \ {item}]
  BY Zenon DEF GiveItem, deallocateSlab
<1>2. /\ s \in Slabs /\ s \in slabs /\ items[s] \in SUBSET Items /\ item[2] \in Items \ items[s]
      /\ allocated_items[s] \in Nat /\ InUse(allocated_items[s], items[s])
      /\ \A u \in CacheThreads : ~Adds(u, s)
  BY BeforeGiving, Zenon
<1>3. (WasFull(s) <=> items[s] = {}) /\ (allocated_items[s] = 1 <=> items[s] \cup {item[2]} = Items)
  <2> DEFINE n == allocated_items[s]
             S == items[s]
             i == item[2]
  <2>1. S \in SUBSET Items /\ i \in Items /\ i \notin S /\ n \in Nat /\ InUse(n, S)
    BY <1>2, Zenon
  <2> HIDE DEF n, S, i
  <2>2. (n = items_per_slab <=> S = {}) /\ (n = 1 <=> S \cup {i} = Items)
    BY <2>1, GiveCounts, Zenon
  <2> QED
    BY <2>2, Zenon DEF n, S, i, WasFull
<1>4. Lists(available_slabs) /\ Lists(full_slabs) /\ Conserved
  BY Zenon DEF CacheInv, CacheTyped
<1>5. Lists(full_slabs') /\ Range(full_slabs') = Range(full_slabs) \ {s}
  <2>1. CASE WasFull(s)
    <3>1. s \in Range(full_slabs)
      BY <1>2, <1>3, <1>4, <2>1, Zenon DEF Conserved, Full
    <3> QED
      BY <1>1, <1>4, <2>1, <3>1, Removed, Zenon
  <2>2. CASE ~WasFull(s)
    <3>1. s \notin Range(full_slabs)
      BY <1>2, <1>3, <1>4, <2>2, Zenon DEF Conserved, Full
    <3>2. full_slabs' = full_slabs
      BY <1>1, <2>2, Zenon
    <3> QED
      BY <1>4, <3>1, <3>2, Zenon
  <2> QED
    BY <2>1, <2>2, Zenon
<1>6. Lists(available) /\ Range(available) = Range(available_slabs) \cup {s}
  <2>1. CASE WasFull(s)
    <3>1. s \notin Range(available_slabs) /\ available = Append(available_slabs, s)
      BY <1>2, <1>3, <1>4, <2>1, Zenon DEF Conserved, Available
    <3> QED
      BY <1>2, <1>4, <3>1, Appended, Zenon
  <2>2. CASE ~WasFull(s)
    <3>1. s \in Range(available_slabs) /\ available = available_slabs
      BY <1>2, <1>3, <1>4, <2>2, Zenon DEF Conserved, Available
    <3> QED
      BY <1>4, <3>1, Zenon
  <2> QED
    BY <2>1, <2>2, Zenon
<1> HIDE DEF available
<1>7. CASE gone
  <2>1. available_slabs' = Unlinked(available, s) /\ slabs' = slabs \ {s} /\ items[s] \cup {item[2]} = Items
    BY <1>1, <1>3, <1>7, Zenon
  <2>2. s \in Range(available)
    BY <1>6, Zenon
  <2>3. Lists(available_slabs') /\ Range(available_slabs') = Range(available) \ {s}
    BY <1>6, <2>1, <2>2, Removed, Zenon
  <2>4. Range(available_slabs') = Range(available_slabs) \ {s}
    BY <1>6, <2>3, Zenon
  <2>5. Gives(t, item, TRUE)
    BY <1>1, <1>5, <2>1, <2>3, <2>4, Zenon DEF Gives
  <2> QED
    BY <2>5, Zenon
<1>8. CASE ~gone
  <2>1. available_slabs' = available /\ slabs' = slabs
    BY <1>1, <1>8, Zenon
  <2>2. Gives(t, item, FALSE)
    BY <1>1, <1>5, <1>6, <2>1, Zenon DEF Gives
  <2> QED
    BY <2>2, Zenon
<1> QED
  BY <1>7, <1>8, Zenon

\* The thread has given back one item.
LessOne(c, item) == [c EXCEPT !.buffer = @ \ {item}]

LEMMA LessOneIs ==
    ASSUME NEW c \in CacheCall, NEW item
    PROVE  /\ LessOne(c, item) \in CacheCall /\ LessOne(c, item).at = c.at
           /\ LessOne(c, item).left = c.left /\ LessOne(c, item).slab = c.slab
           /\ LessOne(c, item).buffer = c.buffer \ {item}
<1> DEFINE f == c.buffer \ {item}
<1>1. f \in SUBSET (Slabs \X Items)
  BY Zenon DEF CacheCall
<1>2. LessOne(c, item) = [c EXCEPT !.buffer = f]
  BY Zenon DEF LessOne
<1> HIDE DEF f
<1>3. LET d == [c EXCEPT !.buffer = f]
      IN  d \in CacheCall /\ d.at = c.at /\ d.left = c.left /\ d.slab = c.slab /\ d.buffer = f
  BY <1>1 DEF CacheCall
<1> QED
  BY <1>2, <1>3, Zenon DEF f

LEMMA GivesKeeps ==
    ASSUME SlabCounts, CacheInv, NEW t \in CacheThreads, thread[t].at = "give", NEW item \in thread[t].buffer,
           NEW gone \in BOOLEAN, Gives(t, item, gone)
    PROVE  CacheInv'
<1> DEFINE s == item[1]
           i == item[2]
           c == LessOne(thread[t], item)
<1>1. /\ item = <<s, i>> /\ s \in Slabs /\ s \in slabs
      /\ items[s] \in SUBSET Items /\ i \in Items \ items[s]
      /\ allocated_items[s] \in Nat /\ InUse(allocated_items[s], items[s])
      /\ \A u \in CacheThreads : ~Adds(u, s)
      /\ cache_lock = t /\ allocate_mutex # t /\ item \notin held[t]
      /\ \A u \in CacheThreads : u # t => item \notin Has(u)
  BY BeforeGiving, Zenon
<1>2. CacheTyped /\ Conserved /\ \A u \in CacheThreads : Locked(u) /\ Knows(u)
  BY Zenon DEF CacheInv
<1>3. thread[t] \in CacheCall /\ thread \in [CacheThreads -> CacheCall]
  BY <1>2, ThreadFacts, Zenon DEF CacheTyped
<1>4. c \in CacheCall /\ c.at = "give" /\ c.buffer = thread[t].buffer \ {item}
  BY <1>3, LessOneIs, Zenon
<1>5. /\ thread' = [thread EXCEPT ![t] = c]
      /\ config' = config /\ held' = held
      /\ cache_lock' = cache_lock /\ allocate_mutex' = allocate_mutex
      /\ items' = [items EXCEPT ![s] = @ \cup {i}]
      /\ allocated_items' = [allocated_items EXCEPT ![s] = @ - 1]
      /\ item_lookup' = item_lookup \ {item}
      /\ Lists(available_slabs') /\ Lists(full_slabs')
      /\ Range(full_slabs') = Range(full_slabs) \ {s}
  BY <1>3, Zenon DEF Gives, LessOne
<1>6. \/ /\ items[s] \cup {i} = Items
         /\ slabs' = slabs \ {s}
         /\ Range(available_slabs') = Range(available_slabs) \ {s}
      \/ slabs' = slabs /\ Range(available_slabs') = Range(available_slabs) \cup {s}
  BY Zenon DEF Gives
<1> HIDE DEF c, s, i
<1>7. Step(t, c)
  BY <1>1, <1>4, <1>5, Zenon DEF Step, Moves
<1>8. /\ thread' \in [CacheThreads -> CacheCall]
      /\ cache_lock' \in CacheThreads \cup {None} /\ allocate_mutex' \in CacheThreads \cup {None}
      /\ \A u \in CacheThreads : Locked(u)'
      /\ thread'[t] = c
      /\ \A u \in CacheThreads : u # t => thread'[u] = thread[u]
  BY <1>7, StepKeeps, Zenon
<1>9. /\ allocated_items[s] - 1 \in Nat /\ InUse(allocated_items[s] - 1, items[s] \cup {i})
  <2> DEFINE n == allocated_items[s]
             S == items[s]
  <2>1. S \in SUBSET Items /\ i \in Items /\ i \notin S /\ n \in Nat /\ InUse(n, S)
    BY <1>1, Zenon
  <2> HIDE DEF n, S
  <2>2. n - 1 \in Nat /\ InUse(n - 1, S \cup {i})
    BY <2>1, GiveCounts, Zenon
  <2> QED
    BY <2>2, Zenon DEF n, S
<1>10. /\ items' \in [Slabs -> SUBSET Items] /\ items'[s] = items[s] \cup {i}
       /\ \A z \in Slabs : z # s => items'[z] = items[z]
  <2>1. items \in [Slabs -> SUBSET Items] /\ items[s] \cup {i} \in SUBSET Items
    BY <1>1, <1>2, Zenon DEF CacheTyped
  <2> QED
    BY <1>1, <1>5, <2>1, Zenon
<1>11. /\ allocated_items' \in [Slabs -> Nat] /\ allocated_items'[s] = allocated_items[s] - 1
       /\ \A z \in Slabs : z # s => allocated_items'[z] = allocated_items[z]
  <2>1. allocated_items \in [Slabs -> Nat]
    BY <1>2, Zenon DEF CacheTyped
  <2> QED
    BY <1>1, <1>5, <1>9, <2>1, Zenon
<1>12. slabs \in SUBSET Slabs /\ slabs' \in SUBSET Slabs /\ slabs' \subseteq slabs
  <2>1. slabs \in SUBSET Slabs
    BY <1>2, Zenon DEF CacheTyped
  <2> QED
    BY <1>6, <2>1, Zenon
<1>13. \A z : z # s => /\ z \in slabs' <=> z \in slabs
                       /\ z \in Range(available_slabs') <=> z \in Range(available_slabs)
                       /\ z \in Range(full_slabs') <=> z \in Range(full_slabs)
  BY <1>5, <1>6, Zenon
<1>14. /\ Has(t)' = Has(t) \ {item}
       /\ \A u \in CacheThreads : Has(u)' = Has(u) \ {item}
  <2>1. Has(t)' = Has(t) \ {item}
    BY <1>1, <1>4, <1>5, <1>8, Zenon DEF Has
  <2>2. ASSUME NEW u \in CacheThreads, u # t PROVE Has(u)' = Has(u) \ {item}
    <3>1. Has(u)' = Has(u)
      BY <1>5, <1>8, <2>2, Zenon DEF Has
    <3> QED
      BY <1>1, <2>2, <3>1, Zenon
  <2> QED
    BY <2>1, <2>2, Zenon
<1>15. \A u \in CacheThreads : \A z : Adds(u, z)' <=> Adds(u, z)
  BY <1>4, <1>8, Zenon DEF Adds
<1>16. CacheTyped'
  BY <1>2, <1>5, <1>8, <1>10, <1>11, <1>12, Zenon DEF CacheTyped
<1>17. \A u \in CacheThreads : Knows(u)'
  <2>1. Knows(t)'
    <3>1. held[t] \cap c.buffer = {}
      BY <1>2, <1>4, Zenon DEF Knows
    <3> QED
      BY <1>4, <1>5, <1>8, <3>1, Zenon DEF Knows
  <2>2. ASSUME NEW u \in CacheThreads, u # t PROVE Knows(u)'
    <3>1. Knows(u) /\ thread'[u] = thread[u] /\ held'[u] = held[u]
      BY <1>2, <1>5, <1>8, <2>2, Zenon
    <3>2. thread[u].at # "take"
      BY <1>1, <1>2, <2>2, Zenon DEF Locked
    <3>3. ASSUME thread[u].at = "append"
          PROVE  thread[u].slab \in slabs' /\ items'[thread[u].slab] = Items
      <4>1. thread[u].slab \in slabs /\ items[thread[u].slab] = Items /\ thread[u].slab # s
        BY <1>1, <3>1, <3>3, Zenon DEF Knows, Adds
      <4> QED
        BY <1>10, <1>12, <1>13, <4>1, Zenon
    <3> QED
      BY <3>1, <3>2, <3>3, Zenon DEF Knows
  <2> QED
    BY <2>1, <2>2, Zenon
<1>18. Conserved'
  <2> USE <1>2 DEF Conserved
  <2>1. Owned'
    <3>1. ASSUME NEW u \in CacheThreads, NEW y \in Has(u)'
          PROVE  y[1] \in slabs' /\ y[2] \notin items'[y[1]]
      <4>1. y \in Has(u) /\ y # item
        BY <1>14, Zenon
      <4>2. y \in Slabs \X Items
        BY <4>1, HasTyped, Zenon
      <4>3. y = <<y[1], y[2]>> /\ y[1] \in Slabs /\ y[2] \in Items
        BY <4>2
      <4>4. y[1] \in slabs /\ y[2] \notin items[y[1]]
        BY <4>1, Zenon DEF Owned
      <4>5. CASE y[1] = s
        <5>1. y[2] # i
          BY <1>1, <4>1, <4>3, <4>5, Zenon
        <5>2. y[2] \notin items[s] \cup {i}
          BY <4>4, <4>5, <5>1, Zenon
        <5>3. slabs' = slabs
          BY <1>6, <4>3, <5>2, Zenon
        <5> QED
          BY <1>10, <4>4, <4>5, <5>2, <5>3, Zenon
      <4>6. CASE y[1] # s
        BY <1>10, <1>13, <4>3, <4>4, <4>6, Zenon
      <4> QED
        BY <4>5, <4>6, Zenon
    <3> QED
      BY <3>1, Zenon DEF Owned
  <2>2. Found'
    <3>1. ASSUME NEW z \in slabs', NEW j \in Items, j \notin items'[z]
          PROVE  \E u \in CacheThreads : <<z, j>> \in Has(u)'
      <4>1. z \in slabs /\ z \in Slabs /\ j \notin items[z] /\ ~(z = s /\ j = i)
        BY <1>10, <1>12, <3>1, Zenon
      <4>2. PICK u \in CacheThreads : <<z, j>> \in Has(u)
        BY <4>1, Zenon DEF Found
      <4>3. <<z, j>> # item
        BY <1>1, <4>1
      <4> QED
        BY <1>14, <4>2, <4>3, Zenon
    <3> QED
      BY <3>1, Zenon DEF Found
  <2>3. Apart'
    <3>1. ASSUME NEW u \in CacheThreads, NEW v \in CacheThreads, u # v
          PROVE  Has(u)' \cap Has(v)' = {}
      <4>1. Has(u) \cap Has(v) = {}
        BY <3>1, Zenon DEF Apart
      <4> QED
        BY <1>14, <4>1, Zenon
    <3> QED
      BY <3>1, Zenon DEF Apart
  <2>4. Counted'
    <3>1. ASSUME NEW z \in slabs' PROVE allocated_items'[z] = items_per_slab - Cardinality(items'[z])
      <4>1. CASE z = s
        BY <1>9, <1>10, <1>11, <4>1, Zenon DEF InUse
      <4>2. CASE z # s
        BY <1>10, <1>11, <1>12, <4>2, Zenon DEF Counted
      <4> QED
        BY <4>1, <4>2, Zenon
    <3> QED
      BY <3>1, Zenon DEF Counted
  <2>5. Available'
    <3>1. ASSUME NEW z \in Slabs
          PROVE  z \in Range(available_slabs') <=>
                     z \in slabs' /\ items'[z] # {} /\ \A u \in CacheThreads : ~Adds(u, z)
      <4>1. CASE z = s
        <5>1. items'[s] # {} /\ \A u \in CacheThreads : ~Adds(u, s)
          BY <1>1, <1>10, Zenon
        <5>2. s \in Range(available_slabs') <=> s \in slabs'
          BY <1>1, <1>6, Zenon
        <5> QED
          BY <4>1, <5>1, <5>2, Zenon
      <4>2. CASE z # s
        <5>1. items'[z] = items[z]
          BY <1>10, <4>2, Zenon
        <5> QED
          BY <1>13, <4>2, <5>1, Zenon DEF Available
      <4> QED
        BY <4>1, <4>2, Zenon
    <3> QED
      BY <1>15, <3>1, Zenon DEF Available
  <2>6. Full'
    <3>1. ASSUME NEW z \in Slabs
          PROVE  z \in Range(full_slabs') <=> z \in slabs' /\ items'[z] = {}
      <4>1. CASE z = s
        <5>1. items'[s] # {} /\ s \notin Range(full_slabs')
          BY <1>5, <1>10, Zenon
        <5> QED
          BY <4>1, <5>1, Zenon
      <4>2. CASE z # s
        <5>1. items'[z] = items[z]
          BY <1>10, <4>2, Zenon
        <5> QED
          BY <1>13, <4>2, <5>1, Zenon DEF Full
      <4> QED
        BY <4>1, <4>2, Zenon
    <3> QED
      BY <3>1, Zenon DEF Full
  <2>7. Looked'
    <3>1. ASSUME NEW y, y \in item_lookup' PROVE \E u \in CacheThreads : y \in Has(u)'
      <4>1. y \in item_lookup /\ y # item
        BY <1>5, <3>1, Zenon
      <4>2. PICK u \in CacheThreads : y \in Has(u)
        BY <4>1, Zenon DEF Looked
      <4> QED
        BY <1>14, <4>1, <4>2, Zenon
    <3>2. ASSUME config.large, NEW u \in CacheThreads PROVE Has(u)' \subseteq item_lookup'
      <4>1. Has(u) \subseteq item_lookup
        BY <3>2, Zenon DEF Looked
      <4> QED
        BY <1>5, <1>14, <4>1, Zenon
    <3> QED
      BY <1>5, <3>1, <3>2, Zenon DEF Looked
  <2> QED
    BY <2>1, <2>2, <2>3, <2>4, <2>5, <2>6, <2>7, Zenon DEF Conserved
<1> QED
  BY <1>8, <1>16, <1>17, <1>18, Zenon DEF CacheInv

----------------------------------------------------------------------------
(* The last actions, and the theorems *)

LEMMA TakeKeeps ==
    ASSUME SlabCounts, CacheInv, NEW t \in CacheThreads, Take(t)
    PROVE  CacheInv'
<1>1. thread[t].at = "take" /\ UNCHANGED <<config, allocate_mutex, held>>
  BY Zenon DEF Take
<1>2. CASE TakeItem(t)
  <2>1. PICK i \in items[thread[t].slab], x \in {"pick", "take"} : Takes(t, thread[t].slab, i, x)
    BY <1>1, <1>2, TakeItemIs, Zenon
  <2> QED
    BY <1>1, <2>1, TakesKeeps, Zenon
<1>3. CASE LookupFails(t)
  BY <1>1, <1>3, LookupFailsKeeps, Zenon
<1>4. items[thread[t].slab] # {}
  <2>1. Knows(t) /\ Conserved /\ Lists(available_slabs)
    BY Zenon DEF CacheInv, CacheTyped
  <2>2. thread[t].slab \in Range(available_slabs)
    BY <1>1, <2>1, Zenon DEF Knows
  <2>3. thread[t].slab \in Slabs
    BY <2>1, <2>2 DEF Lists, Range
  <2> QED
    BY <2>1, <2>2, <2>3, Zenon DEF Conserved, Available
<1> QED
  BY <1>2, <1>3, <1>4, Zenon DEF Take

LEMMA GiveKeeps ==
    ASSUME SlabCounts, CacheInv, NEW t \in CacheThreads, Give(t)
    PROVE  CacheInv'
<1>1. thread[t].at = "give" /\ UNCHANGED <<config, allocate_mutex, held>>
  BY Zenon DEF Give
<1>2. CASE /\ thread[t].buffer = {} /\ cache_lock' = None
           /\ thread' = [thread EXCEPT ![t] = IdleThread] /\ UNCHANGED lists
  <2>1. UNCHANGED <<config, allocate_mutex, lists, held>>
    BY <1>1, <1>2, Zenon
  <2> QED
    BY <1>1, <1>2, <2>1, GiveEndsKeeps, Zenon
<1>3. ASSUME NEW item \in thread[t].buffer, UNCHANGED cache_lock, GiveItem(t, item)
      PROVE  CacheInv'
  <2>1. UNCHANGED <<config, cache_lock, allocate_mutex, held>>
    BY <1>1, <1>3, Zenon
  <2>2. PICK gone \in BOOLEAN : Gives(t, item, gone)
    BY <1>1, <1>3, <2>1, GiveItemIs, Zenon
  <2> QED
    BY <1>1, <2>2, GivesKeeps, Zenon
<1>4. \A item \in thread[t].buffer : ~(config.large /\ item \notin item_lookup)
  BY Zenon DEF CacheInv, Conserved, Looked, Has
<1> QED
  BY <1>2, <1>3, <1>4, Zenon DEF Give

\* Torn down when every item is back, a cache finds all its slabs available
\* and unused.
LEMMA deinitKeeps ==
    ASSUME SlabCounts, CacheInv, NEW t \in CacheThreads, deinit(t)
    PROVE  CacheInv'
<1>1. CacheTyped /\ Conserved /\ \A u \in CacheThreads : Locked(u) /\ Knows(u)
  BY Zenon DEF CacheInv
<1>2. \A u \in CacheThreads : thread[u] = IdleThread /\ held[u] = {}
  BY Zenon DEF deinit
<1>3. /\ config' = config /\ cache_lock' = cache_lock /\ allocate_mutex' = allocate_mutex
      /\ full_slabs' = full_slabs /\ items' = items /\ allocated_items' = allocated_items
      /\ item_lookup' = item_lookup /\ held' = held
  BY Zenon DEF deinit
<1>4. \A u \in CacheThreads : Has(u) = {} /\ thread[u].at = "idle"
  BY <1>2, IdleIs, Zenon DEF Has
<1>5. slabs \in SUBSET Slabs /\ items \in [Slabs -> SUBSET Items] /\ Lists(available_slabs) /\ Lists(full_slabs)
  BY <1>1, Zenon DEF CacheTyped
<1>6. ASSUME NEW s \in slabs PROVE items[s] = Items /\ allocated_items[s] = 0 /\ s \in Range(available_slabs)
  <2>1. items[s] \in SUBSET Items /\ s \in Slabs
    BY <1>5, Zenon
  <2>2. \A i \in Items : i \in items[s]
    BY <1>1, <1>4, Zenon DEF Conserved, Found
  <2>3. items[s] = Items
    BY <2>1, <2>2, Zenon
  <2>4. InUse(allocated_items[s], Items)
    BY <1>1, <2>3, Zenon DEF Conserved, Counted, InUse
  <2>5. \A u \in CacheThreads : ~Adds(u, s)
    BY <1>4, Zenon DEF Adds
  <2> QED
    BY <1>1, <2>1, <2>3, <2>4, <2>5, NewSlab, Zenon DEF Conserved, Available, InUse
<1>7. Range(full_slabs) = {}
  <2>1. \A s \in Range(full_slabs) : s \in Slabs
    BY <1>5 DEF Lists, Range
  <2> QED
    BY <1>1, <1>6, <2>1, NewSlab, Zenon DEF Conserved, Full
<1>8. full_slabs = <<>>
  BY <1>5, <1>7, Ends, Zenon
<1>9. item_lookup = {}
  BY <1>1, <1>4, Zenon DEF Conserved, Looked
<1>10. \A i \in DOMAIN available_slabs : allocated_items[available_slabs[i]] = 0
  <2>1. ASSUME NEW i \in DOMAIN available_slabs PROVE available_slabs[i] \in slabs
    <3>1. available_slabs[i] \in Range(available_slabs)
      BY Zenon DEF Range
    <3>2. available_slabs[i] \in Slabs
      BY <1>5 DEF Lists
    <3> QED
      BY <1>1, <3>1, <3>2, Zenon DEF Conserved, Available
  <2> QED
    BY <1>6, <2>1, Zenon
<1>11. available_slabs' = <<>> /\ slabs' = slabs \ Range(available_slabs) /\ thread' = thread
  BY <1>8, <1>9, <1>10, Zenon DEF deinit
<1>12. slabs' = {}
  BY <1>6, <1>11, Zenon
<1>13. CacheTyped'
  <2>1. Lists(<<>>)
    BY Ends, Zenon
  <2> QED
    BY <1>1, <1>3, <1>11, <1>12, <2>1, Zenon DEF CacheTyped
<1>14. \A u \in CacheThreads : Locked(u)'
  BY <1>1, <1>3, <1>11, Zenon DEF Locked
<1>15. \A u \in CacheThreads : Knows(u)'
  <2>1. ASSUME NEW u \in CacheThreads PROVE Knows(u)'
    <3>1. thread'[u] = IdleThread /\ held'[u] = {}
      BY <1>2, <1>3, <1>11, Zenon
    <3> QED
      BY <3>1, IdleIs, Zenon DEF Knows
  <2> QED
    BY <2>1, Zenon
<1>16. \A u \in CacheThreads : Has(u)' = {}
  BY <1>3, <1>4, <1>11, Zenon DEF Has
<1>17. Conserved'
  <2>1. Owned' /\ Found' /\ Apart' /\ Counted'
    BY <1>12, <1>16, Zenon DEF Owned, Found, Apart, Counted
  <2>2. Range(available_slabs') = {} /\ Range(full_slabs') = {}
    BY <1>3, <1>7, <1>11, Ends, Zenon
  <2>3. Available' /\ Full'
    BY <1>12, <2>2, Zenon DEF Available, Full
  <2>4. Looked'
    BY <1>3, <1>9, <1>16, Zenon DEF Looked
  <2> QED
    BY <2>1, <2>3, <2>4, Zenon DEF Conserved
<1> QED
  BY <1>13, <1>14, <1>15, <1>17, Zenon DEF CacheInv

LEMMA CacheInitInv == CacheInit => CacheInv
<1> SUFFICES ASSUME CacheInit PROVE CacheInv
  OBVIOUS
<1>1. /\ config \in [last_slab : {"keep", "free"}, large : BOOLEAN]
      /\ cache_lock = None /\ allocate_mutex = None
      /\ available_slabs = <<>> /\ full_slabs = <<>> /\ slabs = {}
      /\ items = [s \in Slabs |-> {}] /\ allocated_items = [s \in Slabs |-> 0] /\ item_lookup = {}
      /\ thread = [t \in CacheThreads |-> IdleThread] /\ held = [t \in CacheThreads |-> {}]
  BY Zenon DEF CacheInit
<1>2. \A u \in CacheThreads : thread[u] = IdleThread /\ held[u] = {} /\ u # None
  BY <1>1, CacheAssumption, Zenon
<1>3. \A u \in CacheThreads : Has(u) = {}
  BY <1>2, IdleIs, Zenon DEF Has
<1>4. CacheTyped
  <2>1. thread \in [CacheThreads -> CacheCall]
    BY <1>1, IdleIs, Zenon
  <2>2. held \in [CacheThreads -> SUBSET (Slabs \X Items)]
    BY <1>1, Zenon
  <2>3. items \in [Slabs -> SUBSET Items]
    BY <1>1, Zenon
  <2>4. 0 \in Nat
    OBVIOUS
  <2>5. allocated_items \in [Slabs -> Nat]
    BY <1>1, <2>4, Zenon
  <2>6. Lists(available_slabs) /\ Lists(full_slabs) /\ slabs \in SUBSET Slabs
    BY <1>1, Ends, Zenon
  <2>7. cache_lock \in CacheThreads \cup {None} /\ allocate_mutex \in CacheThreads \cup {None}
    BY <1>1, Zenon
  <2> QED
    BY <1>1, <2>1, <2>2, <2>3, <2>5, <2>6, <2>7, Zenon DEF CacheTyped
<1>5. \A u \in CacheThreads : Locked(u)
  BY <1>1, <1>2, IdleIs, Zenon DEF Locked
<1>6. \A u \in CacheThreads : Knows(u)
  <2>1. ASSUME NEW u \in CacheThreads PROVE Knows(u)
    BY <1>2, IdleIs, Zenon DEF Knows
  <2> QED
    BY <2>1, Zenon
<1>7. Conserved
  <2>1. Owned /\ Found /\ Apart /\ Counted
    BY <1>1, <1>3, Zenon DEF Owned, Found, Apart, Counted
  <2>2. Range(available_slabs) = {} /\ Range(full_slabs) = {}
    BY <1>1, Ends, Zenon
  <2>3. Available /\ Full
    BY <1>1, <2>2, Zenon DEF Available, Full
  <2>4. Looked
    BY <1>1, <1>3, Zenon DEF Looked
  <2> QED
    BY <2>1, <2>3, <2>4, Zenon DEF Conserved
<1> QED
  BY <1>4, <1>5, <1>6, <1>7, Zenon DEF CacheInv

LEMMA CacheStutters == ASSUME CacheInv, UNCHANGED rvars PROVE CacheInv'
<1>1. /\ config' = config /\ cache_lock' = cache_lock /\ allocate_mutex' = allocate_mutex
      /\ available_slabs' = available_slabs /\ full_slabs' = full_slabs /\ slabs' = slabs
      /\ items' = items /\ allocated_items' = allocated_items /\ item_lookup' = item_lookup
      /\ thread' = thread /\ held' = held
  BY Zenon DEF rvars
<1>2. CacheTyped /\ Conserved /\ \A t \in CacheThreads : Locked(t) /\ Knows(t)
  BY Zenon DEF CacheInv
<1>3. CacheTyped' /\ \A t \in CacheThreads : Locked(t)' /\ Knows(t)'
  BY <1>1, <1>2, Zenon DEF CacheTyped, Locked, Knows
<1>4. (\A t : Has(t)' = Has(t)) /\ \A t, s : Adds(t, s)' <=> Adds(t, s)
  BY <1>1, Zenon DEF Has, Adds
<1>5. Owned' /\ Apart' /\ Counted' /\ Full'
  BY <1>1, <1>2, <1>4, Zenon DEF Conserved, Owned, Apart, Counted, Full
<1>6. Found'
  BY <1>1, <1>2, Zenon DEF Conserved, Found, Has
<1>7. Available'
  BY <1>1, <1>2, <1>4, Zenon DEF Conserved, Available
<1>8. Looked'
  BY <1>1, <1>2, Zenon DEF Conserved, Looked, Has
<1> QED
  BY <1>3, <1>5, <1>6, <1>7, <1>8, Zenon DEF CacheInv, Conserved

\* The invariant is inductive: one step for each operation of the cache.
LEMMA CacheStep ==
    ASSUME SlabCounts, CacheInv, [CacheNext]_rvars
    PROVE  CacheInv'
<1>1. ASSUME NEW t \in CacheThreads, Build(t) PROVE CacheInv'
  <2>1. CASE \E s \in Slabs \ slabs :
                 /\ slabs' = slabs \cup {s} /\ items' = [items EXCEPT ![s] = Items]
                 /\ allocated_items' = [allocated_items EXCEPT ![s] = 0]
                 /\ thread' = [thread EXCEPT ![t].at = "append", ![t].slab = s]
                 /\ UNCHANGED allocate_mutex
    <3>1. PICK s \in Slabs : Builds(t, s)
      BY <1>1, <2>1, Zenon DEF Build, Builds
    <3> QED
      BY <3>1, BuildKeeps, Zenon
  <2>2. CASE allocate_mutex' = None /\ Go(t, "undo") /\ UNCHANGED <<slabs, items, allocated_items>>
    <3>1. thread[t].at = "build" /\ cache_lock' = cache_lock /\ UNCHANGED <<config, lists, held>>
      BY <1>1, <2>2, Zenon DEF Build, lists
    <3> QED
      BY <2>2, <3>1, BuildFailsKeeps, Zenon
  <2> QED
    BY <1>1, <2>1, <2>2, Zenon DEF Build
<1>2. ASSUME NEW t \in CacheThreads,
             \/ allocateMany(t) \/ Pick(t) \/ Take(t) \/ Undo(t) \/ LockMutex(t) \/ Peek(t) \/ Recheck(t)
             \/ AppendSlab(t) \/ deallocateMany(t) \/ Give(t) \/ deinit(t)
      PROVE  CacheInv'
  BY <1>2, allocateManyKeeps, PickKeeps, TakeKeeps, UndoKeeps, LockMutexKeeps, PeekKeeps, RecheckKeeps,
     AppendSlabKeeps, deallocateManyKeeps, GiveKeeps, deinitKeeps, Zenon
<1>3. CASE CacheNext
  BY <1>1, <1>2, <1>3, LockKeeps, Zenon DEF CacheNext
<1>4. CASE UNCHANGED rvars
  BY <1>4, CacheStutters, Zenon
<1> QED
  BY <1>3, <1>4, Zenon

----------------------------------------------------------------------------
(* With the library's theorems on finite sets *)

INSTANCE FiniteSetTheorems

LEMMA SetsCount == SetCounts
<1>1. IsFiniteSet(Executors)
    BY FS_Interval, FlushAssumption DEF Executors
<1>2. ASSUME NEW T, IsFiniteSet(T)
      PROVE  OneByOne(T)
    <2> SUFFICES ASSUME NEW S, S \subseteq T
                 PROVE  /\ Cardinality(S) \in Nat
                        /\ Cardinality(S) = 0 <=> S = {}
                        /\ \A x : x \notin S => Cardinality(S \cup {x}) = Cardinality(S) + 1
                        /\ \A x : x \in S => Cardinality(S \ {x}) = Cardinality(S) - 1
        BY Zenon DEF OneByOne
    <2>1. IsFiniteSet(S)
        BY <1>2, FS_Subset, Zenon
    <2> QED
        BY <2>1, FS_CardinalityType, FS_EmptySet, FS_AddElement, FS_RemoveElement, Zenon
<1> QED
    BY <1>1, <1>2, Zenon DEF SetCounts

LEMMA ItemCounts == SlabCounts
<1>1. items_per_slab \in Nat
  BY CacheAssumption, Zenon
<1>2. IsFiniteSet(Items) /\ Cardinality(Items) = items_per_slab
  <2>1. 1 \in Int /\ items_per_slab \in Int /\ items_per_slab - 1 + 1 = items_per_slab /\ ~(1 > items_per_slab)
    BY CacheAssumption
  <2>2. /\ IsFiniteSet(1 .. items_per_slab)
        /\ Cardinality(1 .. items_per_slab) =
               IF 1 > items_per_slab THEN 0 ELSE items_per_slab - 1 + 1
    BY <2>1, FS_Interval, Zenon
  <2> QED
    BY <2>1, <2>2, Zenon DEF Items
<1>3. ASSUME NEW S \in SUBSET Items
      PROVE  /\ Cardinality(S) \in Nat /\ (Cardinality(S) = 0 <=> S = {})
             /\ (Cardinality(S) = items_per_slab <=> S = Items)
             /\ \A i \in S : Cardinality(S \ {i}) = Cardinality(S) - 1
             /\ \A i \in Items \ S : Cardinality(S \cup {i}) = Cardinality(S) + 1
  <2>1. IsFiniteSet(S) /\ (Cardinality(S) = Cardinality(Items) => S = Items)
    BY <1>2, FS_Subset, Zenon
  <2>2. Cardinality(S) \in Nat
    BY <2>1, FS_CardinalityType, Zenon
  <2>3. Cardinality(S) = 0 <=> S = {}
    BY <2>1, FS_EmptySet, Zenon
  <2>4. \A i \in S : Cardinality(S \ {i}) = Cardinality(S) - 1
    <3> TAKE i \in S
    <3>1. Cardinality(S \ {i}) = IF i \in S THEN Cardinality(S) - 1 ELSE Cardinality(S)
      BY <2>1, FS_RemoveElement, Zenon
    <3> QED
      BY <3>1, Zenon
  <2>5. \A i \in Items \ S : Cardinality(S \cup {i}) = Cardinality(S) + 1
    <3> TAKE i \in Items \ S
    <3>1. Cardinality(S \cup {i}) = IF i \in S THEN Cardinality(S) ELSE Cardinality(S) + 1
      BY <2>1, FS_AddElement, Zenon
    <3> QED
      BY <3>1, Zenon
  <2> QED
    BY <1>2, <2>1, <2>2, <2>3, <2>4, <2>5, Zenon
<1> QED
  BY <1>3, Zenon DEF SlabCounts

\* The invariant holds of every behaviour of the shootdown.
THEOREM FlushInvHolds == FlushSpec => []FlushInv
<1>1. FlushInit => FlushInv
    BY SetsCount, InitFlushInv, Zenon
<1>2. FlushInv /\ [FlushNext]_fvars => FlushInv'
    <2> SUFFICES ASSUME FlushInv, [FlushNext]_fvars PROVE FlushInv'
        BY Zenon
    <2>1. CASE UNCHANGED fvars
        BY <2>1, StutterKeeps, Zenon
    <2>2. CASE FlushNext
        <3> PICK e \in Executors :
                \/ Fill(e) \/ SwitchTask(e) \/ processFlushRequests(e)
                \/ \E t \in Requesters : Run(t, e)
            BY <2>2, Zenon DEF FlushNext
        <3>1. CASE Fill(e)
            BY <3>1, FillKeeps, Zenon
        <3>2. CASE SwitchTask(e)
            BY <3>2, SwitchTaskKeeps, Zenon
        <3>3. CASE processFlushRequests(e)
            BY <3>3, SetsCount, InterruptKeeps, PopKeeps, FlushPoppedKeeps, Zenon DEF processFlushRequests
        <3>4. ASSUME NEW t \in Requesters, Run(t, e) PROVE FlushInv'
            BY <3>4, SetsCount, UnmapKeeps, SubmitKeeps, RequestKeeps, SendKeeps, FlushOwnKeeps, WaitKeeps, Zenon DEF Run
        <3> QED
            BY <3>1, <3>2, <3>3, <3>4, Zenon
    <2> QED
        BY <2>1, <2>2, Zenon
<1> QED
    BY <1>1, <1>2, PTL DEF FlushSpec

\* When submitAndWait returns no TLB holds the mapping: nobody has yet to flush
\* it, as a request that is held anywhere keeps its requester waiting.
THEOREM ShootdownComplete == FlushSpec => []NoStaleTranslation
<1>1. FlushInv => NoStaleTranslation
    <2> SUFFICES ASSUME FlushInv, NEW t \in Requesters, step[t] = "done", NEW e \in Executors
                 PROVE  t \notin tlb[e]
        BY Zenon DEF NoStaleTranslation
    <2>1. ~ Listed(t, e) /\ ~ Popped(t, e)
        BY Zenon DEF FlushInv, Held
    <2>2. flushing[e] # [request |-> t, at |-> "enter"]
        BY <2>1 DEF Popped
    <2>3. ~ Outstanding(t, e)
        BY <2>1, <2>2, Zenon DEF Outstanding
    <2> QED
        BY <2>3, SMTT(20) DEF FlushInv, Cached
<1> QED
    BY <1>1, FlushInvHolds, PTL

\* A request is counted for exactly the executors that have yet to serve it,
\* and each of them will look at its list.
THEOREM RequestsAreServed == FlushSpec => []RequestsServed
<1>1. FlushInv => RequestsServed
    <2> SUFFICES ASSUME FlushInv PROVE RequestsServed
        BY Zenon
    <2>1. ASSUME NEW t \in Requesters
          PROVE  /\ count[t] = Own(t) + Cardinality(ListedAt(t)) + Cardinality(PoppedAt(t))
                 /\ step[t] = "done" => count[t] = 0
        <3>1. count[t] = Own(t) + Cardinality(ListedAt(t)) + Cardinality(PoppedAt(t))
            BY Zenon DEF FlushInv, RequestsCounted
        <3>2. step[t] = "done" => Own(t) = 0 /\ ListedAt(t) = {} /\ PoppedAt(t) = {}
            BY Zenon DEF FlushInv, Held, Own, Submitting, ListedAt, PoppedAt
        <3> QED
            BY <3>1, <3>2, SetsCount, NoneCounted
    <2> QED
        BY <2>1, Zenon DEF RequestsServed, FlushInv, Announced, ListedAt, PoppedAt, Listed, Popped, Own
<1> QED
    BY <1>1, FlushInvHolds, PTL

LEMMA CacheInvHolds == CacheSpec => []CacheInv
<1>1. CacheInit => CacheInv
  BY CacheInitInv, Zenon
<1>2. CacheInv /\ [CacheNext]_rvars => CacheInv'
  BY ItemCounts, CacheStep, Zenon
<1> QED
  BY <1>1, <1>2, PTL DEF CacheSpec

\* Every item is free in its slab or belongs to one thread, and the counts, the
\* lists and the lookup agree with that, for any number of threads, slabs and
\* items in a slab, whatever was found, undone and given back at the same time.
THEOREM CacheConservesItems == CacheSpec => []ItemsConserved
<1>1. CacheInv => ItemsConserved
  <2> SUFFICES ASSUME CacheInv PROVE ItemsConserved
    OBVIOUS
  <2> DEFINE Added == {thread[t].slab : t \in {u \in CacheThreads : thread[u].at = "append"}}
             Used == UNION {Has(t) : t \in CacheThreads}
  <2>1. CacheTyped /\ Conserved
    BY Zenon DEF CacheInv
  <2>2. slabs \in SUBSET Slabs /\ Lists(available_slabs) /\ Lists(full_slabs)
    BY <2>1, Zenon DEF CacheTyped
  <2>3. Used = {x \in slabs \X Items : x[2] \notin items[x[1]]}
    <3>1. ASSUME NEW x \in Used PROVE x \in slabs \X Items /\ x[2] \notin items[x[1]]
      <4>1. PICK t \in CacheThreads : x \in Has(t)
        BY Zenon
      <4>2. x \in Slabs \X Items
        BY <4>1, HasTyped, Zenon
      <4>3. x[1] \in slabs /\ x[2] \notin items[x[1]]
        BY <2>1, <4>1, Zenon DEF Conserved, Owned
      <4> QED
        BY <4>2, <4>3
    <3>2. ASSUME NEW x \in slabs \X Items, x[2] \notin items[x[1]] PROVE x \in Used
      <4>1. x = <<x[1], x[2]>> /\ x[1] \in slabs /\ x[2] \in Items
        OBVIOUS
      <4>2. PICK t \in CacheThreads : <<x[1], x[2]>> \in Has(t)
        BY <2>1, <3>2, <4>1, Zenon DEF Conserved, Found
      <4> QED
        BY <4>1, <4>2, Zenon
    <3> QED
      BY <3>1, <3>2, Zenon
  <2>4. \A s : s \in Added <=> \E t \in CacheThreads : Adds(t, s)
    BY Zenon DEF Adds
  <2> HIDE DEF Added
  <2>5. (\A s \in Range(available_slabs) : s \in Slabs) /\ (\A s \in Range(full_slabs) : s \in Slabs)
    BY <2>2 DEF Lists, Range
  <2>6. Range(available_slabs) = {s \in slabs \ Added : items[s] # {}}
    BY <2>1, <2>2, <2>4, <2>5, Zenon DEF Conserved, Available
  <2>7. Range(full_slabs) = {s \in slabs : items[s] = {}}
    BY <2>1, <2>2, <2>5, Zenon DEF Conserved, Full
  <2>8. config.large => item_lookup = Used
    BY <2>1, Zenon DEF Conserved, Looked
  <2>9. \A t, u \in CacheThreads : t # u => Has(t) \cap Has(u) = {}
    BY <2>1, Zenon DEF Conserved, Apart
  <2>10. \A s \in slabs : allocated_items[s] = items_per_slab - Cardinality(items[s])
    BY <2>1, Zenon DEF Conserved, Counted
  <2>11. IsInjective(available_slabs) /\ IsInjective(full_slabs)
    BY <2>2, Zenon DEF Lists
  <2> QED
    BY <2>3, <2>6, <2>7, <2>8, <2>9, <2>10, <2>11, Zenon DEF ItemsConserved, Has, Added
<1> QED
  BY <1>1, CacheInvHolds, PTL

\* No thread meets one of the states that the code calls unreachable or
\* panics on, and none returns or waits with a lock it did not give back.
THEOREM CacheNeverFails == CacheSpec => []CacheDoesNotFail
<1>1. CacheInv => CacheDoesNotFail
  <2> SUFFICES ASSUME CacheInv PROVE CacheDoesNotFail
    OBVIOUS
  <2>1. ASSUME NEW t \in CacheThreads
        PROVE  /\ thread[t].at # "panic"
               /\ thread[t].at \in {"idle", "lock", "relinquish"} => cache_lock # t /\ allocate_mutex # t
    <3>1. thread[t].at \in CachePlaces /\ Locked(t)
      BY ThreadFacts, Zenon
    <3> QED
      BY <3>1, Zenon DEF CachePlaces, Locked
  <2> QED
    BY <2>1, Zenon DEF CacheDoesNotFail
<1> QED
  BY <1>1, CacheInvHolds, PTL

=============================================================================
