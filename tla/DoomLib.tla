------------------------------ MODULE DoomLib ------------------------------
(***************************************************************************)
(* Algorithms of the DOOM port's C library (apps/doom/innigkeit_libc.c).   *)
(* A program sorts an array with qsort and looks a key up in it with       *)
(* bsearch, or splits a string with strtok.  One action is one turn of a   *)
(* loop, or one call of strtok.  An element is a key, which cmp compares,  *)
(* and the place it had at first.                                          *)
(***************************************************************************)
EXTENDS Integers, Sequences, SequencesExt

CONSTANTS
    N,              \* number of elements
    Keys,           \* their keys: integers
    Strings,        \* the strings given to strtok: sequences of characters
    Delims          \* the characters that separate tokens

VARIABLES
    at,             \* where the program is
    arr,            \* the array
    orig,           \* history: the array given to qsort
    i, j, tmp,      \* locals of qsort
    key, lo, hi,    \* argument and locals of bsearch; lo .. hi - 1 is left
    str,            \* the string, NUL where strtok put one
    saved,          \* the static of strtok: a position, 0 before the first call
    tokens,         \* history: the tokens returned
    given           \* history: the string given to strtok

avars == <<arr, orig, i, j, tmp, key, lo, hi>>
svars == <<str, saved, tokens, given>>
vars == <<at, avars, svars>>

NUL == "NUL"
Elements == [key : Keys, place : 1 .. N]

Init ==
    /\ orig \in [1 .. N -> Elements] /\ \A p \in 1 .. N : orig[p].place = p
    /\ arr = orig
    /\ i = 1 /\ j = 1 /\ tmp = arr[1]
    /\ key \in Keys /\ lo = 1 /\ hi = N + 1
    /\ at \in {"qsort", "strtok"}
    /\ given \in (IF at = "strtok" THEN Strings ELSE {<<>>})
    /\ at = "strtok" => \A p \in 1 .. N : orig[p].key = key
    /\ str = Append(given, NUL) /\ saved = 0 /\ tokens = <<>>

----------------------------------------------------------------------------
(* qsort: insertion with a temporary from malloc *)

\* Without the temporary the array is left as it is.
qsort_start ==
    /\ at = "qsort"
    /\ \/ at' = "outer" /\ i' = 2
       \/ at' = "unsorted" /\ UNCHANGED i
    /\ UNCHANGED <<arr, orig, j, tmp, key, lo, hi, svars>>

qsort_next ==
    /\ at = "outer"
    /\ IF i <= N
       THEN at' = "inner" /\ tmp' = arr[i] /\ j' = i
       ELSE at' = "sorted" /\ UNCHANGED <<tmp, j>>
    /\ UNCHANGED <<arr, orig, i, key, lo, hi, svars>>

\* Mutant: an equal element is moved too.
qsort_insert_unstable ==
    /\ at = "inner"
    /\ IF j > 1 /\ arr[j - 1].key >= tmp.key
       THEN arr' = [arr EXCEPT ![j] = arr[j - 1]] /\ j' = j - 1 /\ UNCHANGED <<at, i>>
       ELSE arr' = [arr EXCEPT ![j] = tmp] /\ at' = "outer" /\ i' = i + 1 /\ UNCHANGED j
    /\ UNCHANGED <<orig, tmp, key, lo, hi, svars>>

\* A greater element moves up, or the temporary goes to its place.
qsort_insert ==
    /\ at = "inner"
    /\ IF j > 1 /\ arr[j - 1].key > tmp.key
       THEN arr' = [arr EXCEPT ![j] = arr[j - 1]] /\ j' = j - 1 /\ UNCHANGED <<at, i>>
       ELSE arr' = [arr EXCEPT ![j] = tmp] /\ at' = "outer" /\ i' = i + 1 /\ UNCHANGED j
    /\ UNCHANGED <<orig, tmp, key, lo, hi, svars>>

----------------------------------------------------------------------------
(* bsearch *)

Mid == lo + (hi - lo) \div 2

bsearch ==
    /\ at = "sorted"
    /\ IF lo >= hi THEN at' = "missing" /\ UNCHANGED <<lo, hi>>
       ELSE \/ key < arr[Mid].key /\ hi' = Mid /\ UNCHANGED <<at, lo>>
            \/ key > arr[Mid].key /\ lo' = Mid + 1 /\ UNCHANGED <<at, hi>>
            \/ key = arr[Mid].key /\ at' = "found" /\ UNCHANGED <<lo, hi>>
    /\ UNCHANGED <<arr, orig, i, j, tmp, key, svars>>

----------------------------------------------------------------------------
(* strtok *)

\* The first position from p on whose character is the NUL, or is in the set.
First(p, set) ==
    CHOOSE q \in p .. Len(str) :
        /\ str[q] \in set \cup {NUL}
        /\ \A r \in p .. q - 1 : str[r] \notin set \cup {NUL}

\* strtok(str, delim) at first, strtok(NULL, delim) then.
strtok ==
    /\ at = "strtok"
    /\ LET from == First(IF saved = 0 THEN 1 ELSE saved, Range(str) \ Delims)
           to == First(from, Delims)
       IN  IF str[from] = NUL
           THEN saved' = from /\ at' = "done" /\ UNCHANGED <<str, tokens>>
           ELSE /\ tokens' = Append(tokens, SubSeq(str, from, to - 1))
                /\ str' = [str EXCEPT ![to] = NUL]
                /\ saved' = IF str[to] = NUL THEN to ELSE to + 1
                /\ UNCHANGED at
    /\ UNCHANGED <<avars, given>>

Next == qsort_start \/ qsort_next \/ qsort_insert \/ bsearch \/ strtok

Spec == Init /\ [][Next]_vars

----------------------------------------------------------------------------
(* Properties *)

Before(x, y) == x.key < y.key \/ (x.key = y.key /\ x.place < y.place)

\* qsort ends with the elements it was given, in order, and equal elements in
\* the order they had; or it had no memory and changed nothing.
SortsStably ==
    /\ at \in {"sorted", "missing", "found"} =>
          \A p \in 1 .. N, q \in 1 .. N : p < q => Before(arr[p], arr[q])
    /\ at # "inner" => \A p \in 1 .. N : \E q \in 1 .. N : arr[q] = orig[p]
    /\ at = "unsorted" => arr = orig

\* bsearch never leaves the array and never excludes the key it looks for.
SearchFinds ==
    /\ at = "sorted" /\ lo < hi => Mid \in 1 .. N
    /\ at = "sorted" => \A p \in 1 .. N : arr[p].key = key => p \in lo .. hi - 1
    /\ at = "missing" => \A p \in 1 .. N : arr[p].key # key
    /\ at = "found" => arr[Mid].key = key

\* The tokens of the string: its longest runs without a delimiter.
Tokens ==
    LET Starts == {p \in DOMAIN given : given[p] \notin Delims /\ (p = 1 \/ given[p - 1] \in Delims)}
        End(p) == CHOOSE q \in p .. Len(given) :
                     /\ q = Len(given) \/ given[q + 1] \in Delims
                     /\ \A r \in p .. q : given[r] \notin Delims
    IN  [n \in 1 .. Len(SetToSeq(Starts)) |->
            LET p == CHOOSE p \in Starts : Len(SetToSeq({r \in Starts : r <= p})) = n
            IN  SubSeq(given, p, End(p))]

\* strtok returns the tokens in order, although it overwrites the string it
\* splits and remembers a place in it from call to call.
TokensSplit ==
    /\ IsPrefix(tokens, Tokens)
    /\ at = "done" => tokens = Tokens

\* The three functions do what their callers rely on.
LibraryCorrect == SortsStably /\ SearchFinds /\ TokensSplit

=============================================================================
