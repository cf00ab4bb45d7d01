--------------------------- MODULE DoomLibProofs ---------------------------
(***************************************************************************)
(* qsort sorts and is stable, and bsearch finds, for arrays of any length  *)
(* and any integer keys.                                                   *)
(***************************************************************************)
EXTENDS DoomLib, TLAPS

LibAssumption == N \in Nat \ {0} /\ Keys \subseteq Int

----------------------------------------------------------------------------
(* The inductive invariant *)

Places == 1 .. N

Types ==
    /\ orig \in [Places -> Elements] /\ arr \in [Places -> Elements]
    /\ \A p \in Places : orig[p].place = p
    /\ i \in 1 .. N + 1 /\ j \in Places /\ tmp \in Elements
    /\ key \in Keys /\ lo \in 1 .. N + 1 /\ hi \in 1 .. N + 1
    /\ at \in {"qsort", "outer", "inner", "sorted", "unsorted", "missing", "found", "strtok", "done"}

\* Before the sort, and without it, the array is the one that was given.
Untouched == at \in {"qsort", "unsorted", "strtok", "done"} => arr = orig

\* The elements before i are in order and came from there, the others are where
\* they were, and none is missing.
SortedTo(n) ==
    /\ \A p, q \in Places : p < q /\ q < n => Before(arr[p], arr[q])
    /\ \A p \in Places : p < n => arr[p].place < n
    /\ \A p \in Places : p >= n => arr[p] = orig[p]
    /\ \A p \in Places : \E q \in Places : arr[q] = orig[p]

Outer == at = "outer" => SortedTo(i)

Done == at \in {"sorted", "missing", "found"} => SortedTo(N + 1)

\* While tmp, the element that was at i, looks for its place, j is the hole.
Inner ==
    at = "inner" =>
        /\ i \in Places /\ j <= i /\ tmp = orig[i]
        /\ \A p, q \in Places : p < q /\ q <= i /\ p # j /\ q # j => Before(arr[p], arr[q])
        /\ \A p \in Places : p <= i /\ p # j => arr[p].place < i
        /\ \A p \in Places : j < p /\ p <= i => tmp.key < arr[p].key
        /\ \A p \in Places : p > i => arr[p] = orig[p]
        /\ \A p \in Places : p # i => \E q \in Places : q # j /\ arr[q] = orig[p]

\* What is left of the search.
Search ==
    /\ lo <= hi
    /\ at \notin {"sorted", "missing", "found"} => lo = 1 /\ hi = N + 1
    /\ at \in {"sorted", "missing"} => \A p \in Places : arr[p].key = key => p \in lo .. hi - 1
    /\ at = "missing" => lo >= hi
    /\ at = "found" => arr[Mid].key = key

LibInv == Types /\ Untouched /\ Outer /\ Inner /\ Done /\ Search

----------------------------------------------------------------------------

\* An array of elements compares by keys, which are integers.
LEMMA ElementFacts ==
    ASSUME LibAssumption, NEW x \in Elements
    PROVE  x.key \in Int /\ x.place \in Places
  BY Zenon DEF LibAssumption, Elements, Places

LEMMA LibInit ==
    ASSUME LibAssumption, Init
    PROVE  LibInv
  <1>1. Types
    BY DEF LibAssumption, Init, Types, Places
  <1>2. Untouched /\ Outer /\ Inner /\ Done
    BY DEF Init, Untouched, Outer, Inner, Done
  <1>3. Search
    BY DEF LibAssumption, Init, Search
  <1> QED  BY <1>1, <1>2, <1>3 DEF LibInv

\* The array is already in order when it has one element.
LEMMA StartKeeps ==
    ASSUME LibAssumption, LibInv, qsort_start
    PROVE  LibInv'
  <1> USE DEF LibInv
  <1>1. Types' /\ Untouched' /\ Inner' /\ Done' /\ Search'
    BY DEF LibAssumption, Types, Untouched, Inner, Done, Search, qsort_start, Mid, Places
  <1>2. CASE at' = "outer"
    <2>1. arr' = orig /\ orig' = orig /\ i' = 2
      BY <1>2 DEF qsort_start, Untouched
    <2>2. \A p \in Places : p < 2 => p = 1
      BY DEF Places
    <2>3. SortedTo(2)'
      <3>1. \A p, q \in Places : p < q /\ q < 2 => FALSE
        BY DEF LibAssumption, Places
      <3>2. \A p \in Places : arr'[p] = orig[p] /\ orig[p].place = p
        BY <2>1 DEF Types
      <3> QED  BY <2>1, <2>2, <3>1, <3>2 DEF SortedTo
    <2> QED  BY <1>1, <2>1, <2>3 DEF Outer, SortedTo
  <1>3. CASE at' # "outer"
    BY <1>1, <1>3 DEF Outer
  <1> QED  BY <1>2, <1>3

LEMMA NextKeeps ==
    ASSUME LibAssumption, LibInv, qsort_next
    PROVE  LibInv'
  <1> USE DEF LibInv
  <1>1. SortedTo(i) /\ i \in 1 .. N + 1
    BY DEF qsort_next, Outer, Types
  <1>2. UNCHANGED <<arr, orig, i, key, lo, hi>>
    BY DEF qsort_next
  <1>3. CASE i <= N
    <2>1. i \in Places /\ tmp' = arr[i] /\ j' = i /\ at' = "inner"
      BY <1>1, <1>3 DEF qsort_next, Places
    <2>2. tmp' = orig[i]
      BY <2>1, <1>1 DEF SortedTo, Places
    <2>3. Types'
      BY <1>2, <2>1, <1>1 DEF Types
    <2>4. Inner'
      <3>1. \A p, q \in Places : p < q /\ q <= i /\ q # i => Before(arr[p], arr[q])
        BY <1>1 DEF SortedTo, Places
      <3>2. \A p \in Places : p <= i /\ p # i => arr[p].place < i
        BY <1>1 DEF SortedTo, Places
      <3>3. \A p \in Places : ~ (i < p /\ p <= i)
        BY <1>1 DEF Places
      <3>4. \A p \in Places : p > i => arr[p] = orig[p]
        BY <1>1 DEF SortedTo, Places
      <3>5. \A p \in Places : p # i => \E q \in Places : q # i /\ arr[q] = orig[p]
        <4>1. TAKE p \in Places
        <4>2. HAVE p # i
        <4>3. PICK q \in Places : arr[q] = orig[p]
          BY <1>1 DEF SortedTo
        <4>4. orig[p].place = p /\ orig[i].place = i /\ arr[i] = orig[i]
          BY <2>1, <2>2 DEF Types
        <4> QED  BY <4>2, <4>3, <4>4
      <3> QED  BY <1>2, <2>1, <2>2, <3>1, <3>2, <3>3, <3>4, <3>5 DEF Inner, Before, Places
    <2>5. Untouched' /\ Outer' /\ Done'
      BY <2>1 DEF Untouched, Outer, Done
    <2>6. Search'
      BY <1>2, <2>1 DEF Search, qsort_next
    <2> QED  BY <2>3, <2>4, <2>5, <2>6
  <1>4. CASE ~ (i <= N)
    <2>1. i = N + 1 /\ at' = "sorted" /\ UNCHANGED <<tmp, j>>
      BY <1>1, <1>4 DEF LibAssumption, qsort_next
    <2>2. SortedTo(N + 1)'
      BY <1>1, <1>2, <2>1 DEF SortedTo
    <2>3. Types' /\ Untouched' /\ Outer' /\ Inner' /\ Done'
      BY <1>2, <2>1, <2>2 DEF Types, Untouched, Outer, Inner, Done
    <2>4. lo = 1 /\ hi = N + 1
      BY DEF Search, qsort_next
    <2>5. Search'
      BY <1>2, <2>1, <2>4 DEF LibAssumption, Search, Places
    <2> QED  BY <2>3, <2>5
  <1> QED  BY <1>3, <1>4

\* A greater element moves into the hole, which moves down.
LEMMA MoveKeeps ==
    ASSUME LibAssumption, LibInv, qsort_insert, j > 1 /\ arr[j - 1].key > tmp.key
    PROVE  LibInv'
  <1> USE DEF LibInv
  <1>1. /\ at = "inner" /\ at' = "inner" /\ j' = j - 1
        /\ arr' = [arr EXCEPT ![j] = arr[j - 1]]
        /\ UNCHANGED <<orig, i, tmp, key, lo, hi>>
    BY DEF qsort_insert
  <1>2. /\ i \in Places /\ j \in Places /\ j - 1 \in Places /\ j <= i
        /\ i \in Int /\ j \in Int
    BY <1>1 DEF Types, Inner, Places, LibAssumption
  <1>3. \A p \in Places : arr'[p] = IF p = j THEN arr[j - 1] ELSE arr[p]
    BY <1>1 DEF Types
  <1>4. Types'
    BY <1>1, <1>2 DEF Types
  <1>5. Inner'
    <2>1. \A p, q \in Places : p < q /\ q <= i /\ p # j - 1 /\ q # j - 1 => Before(arr'[p], arr'[q])
      <3>1. TAKE p, q \in Places
      <3>2. HAVE p < q /\ q <= i /\ p # j - 1 /\ q # j - 1
      <3>3. CASE q = j
        <4>1. p < j - 1 /\ arr'[p] = arr[p] /\ arr'[q] = arr[j - 1]
          BY <1>2, <1>3, <3>2, <3>3 DEF Places
        <4> QED  BY <1>1, <1>2, <4>1 DEF Inner, Places
      <3>4. CASE p = j
        <4>1. j - 1 < q /\ q # j /\ arr'[p] = arr[j - 1] /\ arr'[q] = arr[q]
          BY <1>2, <1>3, <3>2, <3>4 DEF Places
        <4> QED  BY <1>1, <1>2, <3>2, <4>1 DEF Inner, Places
      <3>5. CASE p # j /\ q # j
        BY <1>1, <1>3, <3>2, <3>5 DEF Inner
      <3> QED  BY <3>3, <3>4, <3>5
    <2>2. \A p \in Places : p <= i /\ p # j - 1 => arr'[p].place < i
      BY <1>1, <1>2, <1>3 DEF Inner, Places
    <2>3. \A p \in Places : j - 1 < p /\ p <= i => tmp.key < arr'[p].key
      <3>1. TAKE p \in Places
      <3>2. HAVE j - 1 < p /\ p <= i
      <3>3. CASE p = j
        <4>1. arr[j - 1] \in Elements /\ tmp \in Elements
          BY <1>2 DEF Types
        <4> QED  BY <1>3, <3>3, <4>1, ElementFacts
      <3>4. CASE p # j
        BY <1>1, <1>2, <1>3, <3>2, <3>4 DEF Inner, Places
      <3> QED  BY <3>3, <3>4
    <2>4. \A p \in Places : p > i => arr'[p] = orig[p]
      BY <1>1, <1>2, <1>3 DEF Inner, Places
    <2>5. \A p \in Places : p # i => \E q \in Places : q # j - 1 /\ arr'[q] = orig[p]
      <3>1. TAKE p \in Places
      <3>2. HAVE p # i
      <3>3. PICK q \in Places : q # j /\ arr[q] = orig[p]
        BY <1>1, <3>2 DEF Inner
      <3>4. CASE q = j - 1
        <4>1. j # j - 1 /\ arr'[j] = orig[p]
          BY <1>2, <1>3, <3>3, <3>4
        <4> QED  BY <1>2, <4>1
      <3>5. CASE q # j - 1
        BY <1>3, <3>3, <3>5
      <3> QED  BY <3>4, <3>5
    <2>6. j - 1 <= i /\ tmp = orig[i]
      BY <1>1, <1>2 DEF Inner, Places
    <2> QED  BY <1>1, <1>2, <2>1, <2>2, <2>3, <2>4, <2>5, <2>6 DEF Inner, Before
  <1>6. Untouched' /\ Outer' /\ Done'
    BY <1>1 DEF Untouched, Outer, Done
  <1>7. Search'
    BY <1>1 DEF Search
  <1> QED  BY <1>4, <1>5, <1>6, <1>7

\* tmp fills the hole.
LEMMA PlaceKeeps ==
    ASSUME LibAssumption, LibInv, qsort_insert, ~ (j > 1 /\ arr[j - 1].key > tmp.key)
    PROVE  LibInv'
  <1> USE DEF LibInv
  <1>1. /\ at = "inner" /\ at' = "outer" /\ i' = i + 1
        /\ arr' = [arr EXCEPT ![j] = tmp]
        /\ UNCHANGED <<orig, j, tmp, key, lo, hi>>
    BY DEF qsort_insert
  <1>2. i \in Places /\ j \in Places /\ j <= i /\ i \in Int /\ j \in Int /\ i + 1 \in 1 .. N + 1
    BY <1>1 DEF Types, Inner, Places, LibAssumption
  <1>3. \A p \in Places : arr'[p] = IF p = j THEN tmp ELSE arr[p]
    BY <1>1 DEF Types
  <1>4. Types'
    BY <1>1, <1>2 DEF Types
  <1>5. tmp = orig[i] /\ tmp.place = i /\ tmp \in Elements
    BY <1>1, <1>2 DEF Inner, Types
  <1>6. \A p \in Places : p < j => Before(arr[p], tmp)
    <2>1. TAKE p \in Places
    <2>2. HAVE p < j
    <2>0. j - 1 \in Places /\ p \in Int
      BY <1>2, <2>2 DEF LibAssumption, Places
    <2>3. j - 1 \in Places /\ arr[j - 1] \in Elements /\ arr[p] \in Elements /\ p \in Int
      BY <2>0 DEF Types
    <2>4. arr[j - 1].key <= tmp.key /\ arr[j - 1].key \in Int /\ arr[p].key \in Int /\ tmp.key \in Int
      BY <1>2, <1>5, <2>2, <2>3, ElementFacts DEF Places
    <2>5. p = j - 1 \/ Before(arr[p], arr[j - 1])
      BY <1>1, <1>2, <2>2, <2>3 DEF Inner, Places
    <2>6. arr[p].place < i
      BY <1>1, <1>2, <2>2, <2>3 DEF Inner
    <2> QED  BY <1>5, <2>4, <2>5, <2>6 DEF Before
  <1>7. \A p \in Places : j < p /\ p <= i => Before(tmp, arr[p])
    BY <1>1 DEF Inner, Before
  <1>8. SortedTo(i)'
    <2>1. \A p, q \in Places : p < q /\ q < i + 1 => Before(arr'[p], arr'[q])
      <3>1. TAKE p, q \in Places
      <3>2. HAVE p < q /\ q < i + 1
      <3>3. CASE p = j
        BY <1>2, <1>3, <1>7, <3>2, <3>3 DEF Places
      <3>4. CASE q = j
        BY <1>2, <1>3, <1>6, <3>2, <3>4 DEF Places
      <3>5. CASE p # j /\ q # j
        BY <1>1, <1>2, <1>3, <3>2, <3>5 DEF Inner, Places
      <3> QED  BY <3>3, <3>4, <3>5
    <2>2. \A p \in Places : p < i + 1 => arr'[p].place < i + 1
      <3>1. TAKE p \in Places
      <3>2. HAVE p < i + 1
      <3>3. CASE p = j
        BY <1>2, <1>3, <1>5, <3>3
      <3>4. CASE p # j
        <4>1. arr[p].place < i /\ arr'[p] = arr[p] /\ arr[p] \in Elements
          BY <1>1, <1>2, <1>3, <3>2, <3>4 DEF Inner, Places, Types
        <4>2. arr[p].place \in Places
          BY <4>1, ElementFacts
        <4> QED  BY <1>2, <4>1, <4>2 DEF Places
      <3> QED  BY <3>3, <3>4
    <2>3. \A p \in Places : p >= i + 1 => arr'[p] = orig[p]
      BY <1>1, <1>2, <1>3 DEF Inner, Places
    <2>4. \A p \in Places : \E q \in Places : arr'[q] = orig[p]
      <3>1. TAKE p \in Places
      <3>2. CASE p = i
        BY <1>2, <1>3, <1>5, <3>2
      <3>3. CASE p # i
        <4>1. PICK q \in Places : q # j /\ arr[q] = orig[p]
          BY <1>1, <3>3 DEF Inner
        <4> QED  BY <1>3, <4>1
      <3> QED  BY <3>2, <3>3
    <2> QED  BY <1>1, <2>1, <2>2, <2>3, <2>4 DEF SortedTo, Before
  <1>9. Untouched' /\ Outer' /\ Inner' /\ Done' /\ Search'
    BY <1>1, <1>8 DEF Untouched, Outer, Inner, Done, Search, SortedTo
  <1> QED  BY <1>4, <1>9

\* bsearch compares with the element in the middle of what is left.
LEMMA MidFacts ==
    ASSUME LibAssumption, Types, lo < hi
    PROVE  Mid \in Places /\ lo <= Mid /\ Mid < hi
  BY DEF LibAssumption, Types, Mid, Places

LEMMA BsearchKeeps ==
    ASSUME LibAssumption, LibInv, bsearch
    PROVE  LibInv'
  <1> USE DEF LibInv
  <1>1. at = "sorted" /\ SortedTo(N + 1) /\ UNCHANGED <<arr, orig, i, j, tmp, key>>
    BY DEF bsearch, Done
  <1>2. at' \in {"sorted", "missing", "found"} /\ SortedTo(N + 1)'
    BY <1>1 DEF bsearch, SortedTo
  <1>3. Untouched' /\ Outer' /\ Inner' /\ Done'
    BY <1>2 DEF Untouched, Outer, Inner, Done, SortedTo
  <1>4. CASE lo >= hi
    <2>1. at' = "missing" /\ UNCHANGED <<lo, hi>>
      BY <1>4 DEF bsearch
    <2>2. Types' /\ Search'
      BY <1>1, <1>4, <2>1 DEF Types, Search
    <2> QED  BY <1>3, <2>2
  <1>5. CASE ~ (lo >= hi)
    <2>1. lo < hi /\ lo \in Int /\ hi \in Int
      BY <1>5 DEF Types
    <2>2. Mid \in Places /\ lo <= Mid /\ Mid < hi /\ Mid \in Int
      BY <2>1, MidFacts DEF Places
    <2>3. \A p \in Places : arr[p].key \in Int /\ p \in Int
      BY ElementFacts DEF Types, Places
    <2>4. key \in Int
      BY DEF LibAssumption, Types
    <2>5. \A p, q \in Places : p < q => arr[p].key <= arr[q].key
      BY <1>1, <2>3 DEF LibAssumption, SortedTo, Before, Places
    <2>6. CASE key < arr[Mid].key /\ hi' = Mid /\ UNCHANGED <<at, lo>>
      <3>1. \A p \in Places : p >= Mid => arr[p].key # key
        BY <2>2, <2>3, <2>4, <2>5, <2>6
      <3>2. \A p \in Places : arr[p].key = key => p \in lo .. Mid - 1
        BY <1>1, <2>2, <2>3, <3>1 DEF Search
      <3>3. hi' \in 1 .. N + 1
        BY <2>2, <2>6 DEF LibAssumption, Places
      <3>5. Types'
        BY <1>1, <1>2, <3>3, <2>6 DEF Types
      <3>4. Search'
        BY <1>1, <2>2, <2>6, <3>2 DEF Search
      <3> QED  BY <1>3, <3>4, <3>5
    <2>7. CASE key > arr[Mid].key /\ lo' = Mid + 1 /\ UNCHANGED <<at, hi>>
      <3>1. \A p \in Places : p <= Mid => arr[p].key # key
        BY <2>2, <2>3, <2>4, <2>5, <2>7
      <3>2. \A p \in Places : arr[p].key = key => p \in Mid + 1 .. hi - 1
        BY <1>1, <2>2, <2>3, <3>1 DEF Search
      <3>3. lo' \in 1 .. N + 1
        BY <2>2, <2>7 DEF LibAssumption, Places
      <3>5. Types'
        BY <1>1, <1>2, <3>3, <2>7 DEF Types
      <3>4. Search'
        BY <1>1, <2>1, <2>2, <2>7, <3>2 DEF Search
      <3> QED  BY <1>3, <3>4, <3>5
    <2>8. CASE key = arr[Mid].key /\ at' = "found" /\ UNCHANGED <<lo, hi>>
      <3>1. Types' /\ Search'
        BY <1>1, <2>8 DEF Types, Search, Mid
      <3> QED  BY <1>3, <3>1
    <2> QED  BY <1>5, <2>6, <2>7, <2>8 DEF bsearch
  <1> QED  BY <1>4, <1>5

LEMMA StrtokKeeps ==
    ASSUME LibAssumption, LibInv, strtok
    PROVE  LibInv'
  <1>1. at = "strtok" /\ at' \in {"strtok", "done"} /\ UNCHANGED avars
    BY DEF strtok
  <1> QED
    BY <1>1 DEF LibInv, Types, Untouched, Outer, Inner, Done, Search, avars, Mid

\* The invariant holds throughout.
THEOREM LibInvHolds ==
    ASSUME LibAssumption
    PROVE  Spec => []LibInv
  <1>1. Init => LibInv
    BY LibInit
  <1>2. LibInv /\ [Next]_vars => LibInv'
    <2> SUFFICES ASSUME LibInv, [Next]_vars
                 PROVE  LibInv'
      OBVIOUS
    <2>1. CASE qsort_start
      BY <2>1, StartKeeps
    <2>2. CASE qsort_next
      BY <2>2, NextKeeps
    <2>3. CASE qsort_insert
      BY <2>3, MoveKeeps, PlaceKeeps
    <2>4. CASE bsearch
      BY <2>4, BsearchKeeps
    <2>5. CASE strtok
      BY <2>5, StrtokKeeps
    <2>6. CASE UNCHANGED vars
      BY <2>6 DEF vars, avars, LibInv, Types, Untouched, Outer, Inner, Done, SortedTo, Search, Mid
    <2> QED  BY <2>1, <2>2, <2>3, <2>4, <2>5, <2>6 DEF Next
  <1> QED  BY <1>1, <1>2, PTL DEF Spec

\* qsort (innigkeit_libc.c:561) returns the array in order, equal elements in
\* the order they had, with none lost, for every length and every comparison by
\* integer keys; without memory for its temporary it changes nothing.
THEOREM SortCorrect ==
    ASSUME LibAssumption
    PROVE  Spec => []SortsStably
  <1>1. LibInv => SortsStably
    <2> SUFFICES ASSUME LibInv
                 PROVE  SortsStably
      OBVIOUS
    <2>1. ASSUME at \in {"sorted", "missing", "found"}, NEW p \in Places, NEW q \in Places, p < q
          PROVE  Before(arr[p], arr[q])
      BY <2>1 DEF LibInv, Done, SortedTo, LibAssumption, Places
    <2>2. ASSUME at # "inner", NEW p \in Places
          PROVE  \E q \in Places : arr[q] = orig[p]
      BY <2>2 DEF LibInv, Types, Untouched, Outer, Done, SortedTo
    <2>3. at = "unsorted" => arr = orig
      BY DEF LibInv, Untouched
    <2> QED  BY <2>1, <2>2, <2>3 DEF SortsStably, Places
  <1> QED  BY <1>1, LibInvHolds, PTL

\* bsearch (innigkeit_libc.c:578) on the sorted array stays inside it, returns
\* an element with the key, and returns NULL only if there is none.
THEOREM SearchCorrect ==
    ASSUME LibAssumption
    PROVE  Spec => []SearchFinds
  <1>1. LibInv => SearchFinds
    <2> SUFFICES ASSUME LibInv
                 PROVE  SearchFinds
      OBVIOUS
    <2>1. at = "sorted" /\ lo < hi => Mid \in 1 .. N
      BY MidFacts DEF LibInv, Places
    <2>2. at = "missing" => \A p \in 1 .. N : arr[p].key # key
      BY DEF LibInv, Types, Search, Places
    <2> QED  BY <2>1, <2>2 DEF SearchFinds, LibInv, Search, Places
  <1> QED  BY <1>1, LibInvHolds, PTL

=============================================================================
