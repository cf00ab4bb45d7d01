---------------------------- MODULE DoomStrings ----------------------------
(***************************************************************************)
(* String functions of the DOOM port's C library                           *)
(* (apps/doom/innigkeit_libc.c): strcpy, strncpy, strcat, strncat, strlen  *)
(* on a buffer of the program, and strtol.  One action is one turn of a    *)
(* loop.                                                                   *)
(* The program calls a function only as C allows it to: a string that is   *)
(* appended to is terminated, and the buffer has room for what the call    *)
(* may store.                                                              *)
(***************************************************************************)
EXTENDS Integers, Sequences, FiniteSetsExt, TLC

CONSTANTS
    Cap,            \* size of the buffer
    Texts,          \* the strings copied: sequences of characters
    Numbers,        \* the strings given to strtol,
    Bases           \* and the bases

VARIABLES
    call,           \* the function the program is in
    buf,            \* the buffer, from 0
    src, n,         \* the arguments, src with its NUL
    d, k,           \* the places written and read next
    old,            \* history: the buffer before the call
    num             \* locals of strtol: neg, base and v

vars == <<call, buf, src, n, d, k, old, num>>

NUL == "NUL"
Buffers == 0 .. Cap - 1

\* strlen: the place of the first NUL.
Terminated(b) == \E p \in Buffers : b[p] = NUL
strlen(b) == CHOOSE p \in Buffers : b[p] = NUL /\ \A q \in 0 .. p - 1 : b[q] # NUL

Init ==
    /\ call = "program"
    /\ buf = [p \in Buffers |-> "?"] /\ old = buf
    /\ src = <<NUL>> /\ n = 0 /\ d = 0 /\ k = 1
    /\ num = [neg |-> FALSE, base |-> 10, v |-> 0]

Enter(f, text, count) ==
    /\ call \in {"program", "strcpy done", "strncpy done", "strcat done", "strncat done"}
    /\ call' = f /\ src' = Append(text, NUL) /\ n' = count
    /\ d' = 0 /\ k' = 1 /\ old' = buf
    /\ UNCHANGED <<buf, num>>

Call ==
    \E text \in Texts, count \in 0 .. Cap :
        \/ Len(text) + 1 <= Cap /\ count = 0 /\ Enter("strcpy", text, count)
        \/ Enter("strncpy", text, count)
        \/ /\ Terminated(buf) /\ strlen(buf) + count + 1 <= Cap
           /\ Enter("strncat", text, count)
        \/ /\ Terminated(buf) /\ strlen(buf) + Len(text) + 1 <= Cap /\ count = 0
           /\ Enter("strcat", text, count)

Store(c) == buf' = [buf EXCEPT ![d] = c] /\ d' = d + 1

----------------------------------------------------------------------------

\* The two loops of strncpy: up to the NUL of src, then zeros.
strncpy ==
    /\ call = "strncpy"
    /\ IF d < n
       THEN /\ Store(src[k])
            /\ k' = IF src[k] = NUL THEN k ELSE k + 1
            /\ UNCHANGED call
       ELSE call' = "strncpy done" /\ UNCHANGED <<buf, d, k>>
    /\ UNCHANGED <<src, n, old, num>>

\* while (*d) d++, of strcat and strncat.
SkipString ==
    /\ call \in {"strcat", "strncat"} /\ k = 1 /\ d = 0
    /\ d' = strlen(buf)
    /\ call' = IF call = "strcat" THEN "strcat copy" ELSE "strncat copy"
    /\ UNCHANGED <<buf, src, n, k, old, num>>

\* while ((*d++ = *src++));
CopyString(loop, done) ==
    /\ call = loop
    /\ Store(src[k]) /\ k' = k + 1
    /\ call' = IF src[k] = NUL THEN done ELSE call
    /\ UNCHANGED <<src, n, old, num>>

strcpy == CopyString("strcpy", "strcpy done")
strcat == CopyString("strcat copy", "strcat done")

\* Mutant: the count is tested after the character is stored.
strncat_late ==
    /\ call = "strncat copy"
    /\ IF n >= 0 /\ (k = 1 \/ src[k - 1] # NUL)
       THEN Store(src[k]) /\ k' = k + 1 /\ n' = n - 1 /\ UNCHANGED call
       ELSE /\ buf' = [buf EXCEPT ![d] = NUL] /\ call' = "strncat done"
            /\ UNCHANGED <<d, k, n>>
    /\ UNCHANGED <<src, old, num>>

\* The NUL of a short src is copied, and another one stored after it.
strncat ==
    /\ call = "strncat copy"
    /\ IF n > 0 /\ (k = 1 \/ src[k - 1] # NUL)
       THEN Store(src[k]) /\ k' = k + 1 /\ n' = n - 1 /\ UNCHANGED call
       ELSE /\ buf' = [buf EXCEPT ![d] = NUL] /\ call' = "strncat done"
            /\ UNCHANGED <<d, k, n>>
    /\ UNCHANGED <<src, old, num>>

----------------------------------------------------------------------------
\* strtol.

Digits ==
    ("0" :> 0) @@ ("1" :> 1) @@ ("7" :> 7) @@ ("9" :> 9) @@ ("a" :> 10) @@ ("A" :> 10) @@ ("x" :> 33) @@ ("X" :> 33)

IsDigit(c, base) == c \in DOMAIN Digits /\ Digits[c] < base

CallStrtol ==
    /\ call = "program"
    /\ \E text \in Numbers, base \in Bases :
        /\ src' = Append(text, NUL)
        /\ num' = [neg |-> FALSE, base |-> base, v |-> 0]
    /\ call' = "strtol" /\ k' = 1
    /\ UNCHANGED <<buf, n, d, old>>

\* The blanks, the sign and the prefix, up to the first digit.
StrtolPrefix ==
    LET Blank == {" ", "\t"}
        start == CHOOSE p \in DOMAIN src :
                    src[p] \notin Blank /\ \A q \in 1 .. p - 1 : src[q] \in Blank
        sign == start + IF src[start] \in {"-", "+"} THEN 1 ELSE 0
        octal == num.base = 0 /\ src[sign] = "0"
        hex == octal /\ src[sign + 1] \in {"x", "X"}
    IN  /\ call = "strtol"
        /\ k' = sign + (IF hex THEN 2 ELSE IF octal THEN 1 ELSE 0)
        /\ num' = [neg |-> src[start] = "-", v |-> 0,
                   base |-> IF hex THEN 16 ELSE IF octal THEN 8
                            ELSE IF num.base = 0 THEN 10 ELSE num.base]
        /\ call' = "strtol digits" /\ n' = sign
        /\ UNCHANGED <<buf, src, d, old>>

StrtolDigit ==
    /\ call = "strtol digits"
    /\ IF IsDigit(src[k], num.base)
       THEN /\ num' = [num EXCEPT !.v = @ * num.base + Digits[src[k]]]
            /\ k' = k + 1 /\ UNCHANGED call
       ELSE /\ call' = "strtol done"
            /\ num' = [num EXCEPT !.v = IF num.neg THEN - @ ELSE @]
            /\ UNCHANGED k
    /\ UNCHANGED <<buf, src, n, d, old>>

Next ==
    \/ Call \/ strcpy \/ strncpy \/ SkipString \/ strcat \/ strncat
    \/ CallStrtol \/ StrtolPrefix \/ StrtolDigit

Spec == Init /\ [][Next]_vars

----------------------------------------------------------------------------

String(b) == [p \in 1 .. strlen(b) |-> b[p - 1]]

Text == SubSeq(src, 1, Len(src) - 1)

\* After a call the buffer holds what C says: strncpy stores exactly n characters,
\* padded with NULs and not terminated when src is too long; strcpy leaves a copy,
\* strcat and strncat leave the two strings one after the other; and no call stores beyond the room
\* that its caller has to provide.
StringsCopied ==
    /\ d <= Cap
    /\ call = "strncpy done" =>
        \A p \in Buffers :
            buf[p] = IF p >= n THEN old[p] ELSE IF p < Len(Text) THEN Text[p + 1] ELSE NUL
    /\ call = "strcpy done" => String(buf) = Text
    /\ call = "strcat done" => String(buf) = String(old) \o Text
    /\ call = "strncat done" =>
        LET count == n + k - 1
            copied == IF count < Len(Text) THEN count ELSE Len(Text)
        IN  /\ Terminated(buf)
            /\ String(buf) = String(old) \o SubSeq(Text, 1, copied)
            /\ \A p \in Buffers : p > strlen(old) + count => buf[p] = old[p]

\* strtol ends at the first character that is no digit of the base, with the value
\* of the digits before it: "0" and "0x" choose the base only when the base is 0.
NumberParsed ==
    call = "strtol done" =>
        LET base == num.base
            last == k - 1
            first == CHOOSE p \in n .. k :
                        /\ \A q \in p .. last : IsDigit(src[q], base)
                        /\ p = n \/ ~ IsDigit(src[p - 1], base)
            magnitude == MapThenSumSet(LAMBDA p : Digits[src[p]] * base ^ (last - p), first .. last)
        IN  /\ ~ IsDigit(src[k], base)
            /\ num.v = IF num.neg THEN - magnitude ELSE magnitude

=============================================================================
