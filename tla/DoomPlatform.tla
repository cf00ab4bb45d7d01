---------------------------- MODULE DoomPlatform ----------------------------
(***************************************************************************)
(* The platform layer of the DOOM port (apps/doom/doomgeneric_innigkeit.c) *)
(* and the keyboard path that feeds it: the interrupt handler puts raw     *)
(* PS/2 bytes into a ring of the kernel, each frame drains some of them,   *)
(* translates them and puts key events into the ring of the port, and the  *)
(* game takes events out one by one.  The game is not under src/: it draws *)
(* frames and asks for keys in any order.  A drain is one step; an         *)
(* interrupt in the middle of it only moves the border between two drains. *)
(***************************************************************************)
EXTENDS Integers, Sequences, SequencesExt, TLC

CONSTANTS
    KeyQueueSize,   \* KEYQUEUE_SIZE
    RawSize,        \* sizeof(raw) in poll_keyboard
    RawSlots,       \* slots of the kernel's ring
    Bytes,          \* the bytes the keyboard sends
    MaxBytes,       \* bound on the bytes that arrive
    Displays,       \* the framebuffers: width, height and pixels per row
    DoomW, DoomH, Scale

VARIABLES
    raw_kb,                         \* bytes in the kernel's ring
    in_extended,                    \* the static of poll_keyboard
    s_key_queue, s_key_write, s_key_read,
    s_fb,                           \* the mapped display, or NoDisplay
    screen,                         \* address |-> pixel of the game, as drawn
    typed,                          \* history: the bytes that entered raw_kb
    delivered,                      \* history: what DG_GetKey returned
    overrun                         \* history: the port's ring was filled

kvars == <<raw_kb, in_extended, s_key_queue, s_key_write, s_key_read, typed, delivered, overrun>>
vars == <<kvars, s_fb, screen>>

NoDisplay == [w |-> 0, h |-> 0, stride |-> 0]
NoEvent == [pressed |-> FALSE, key |-> "none"]

Init ==
    /\ raw_kb = <<>> /\ typed = <<>>
    /\ in_extended = FALSE
    /\ s_key_queue = [i \in 0 .. KeyQueueSize - 1 |-> NoEvent]
    /\ s_key_write = 0 /\ s_key_read = 0
    /\ s_fb = NoDisplay /\ screen = <<>>
    /\ delivered = <<>> /\ overrun = FALSE

----------------------------------------------------------------------------
(* Scan codes *)

Row(first, keys) == [make \in first .. first + Len(keys) - 1 |-> keys[make - first + 1]]

ExtendedKeys ==
    (72 :> "up") @@ (80 :> "down") @@ (75 :> "left") @@ (77 :> "right") @@ (29 :> "rctrl") @@ (56 :> "ralt")

PlainKeys ==
    Row(1, <<"escape", "1", "2", "3", "4", "5", "6", "7", "8", "9", "0", "-", "=">>)
    @@ Row(15, <<"tab", "q", "w", "e", "r", "t", "y", "u", "i", "o", "p">>)
    @@ Row(28, <<"enter", "fire", "a", "s", "d", "f", "g", "h", "j", "k", "l">>)
    @@ Row(44, <<"z", "x", "c", "v", "b", "n", "m">>)
    @@ (42 :> "rshift") @@ (54 :> "rshift") @@ (56 :> "lalt") @@ (57 :> "use")
    @@ Row(59, <<"F1", "F2", "F3", "F4", "F5", "F6", "F7", "F8", "F9", "F10">>)
    @@ Row(87, <<"F11", "F12">>)

scancode_to_doom(make, is_extended) ==
    LET keys == IF is_extended THEN ExtendedKeys ELSE PlainKeys
    IN  IF make \in DOMAIN keys THEN keys[make] ELSE "none"

----------------------------------------------------------------------------
(* The rings *)

\* The interrupt handler: a byte that finds the ring full is dropped.
Interrupt(byte) ==
    /\ Len(typed) < MaxBytes
    /\ Len(raw_kb) < RawSlots - 1
    /\ raw_kb' = Append(raw_kb, byte)
    /\ typed' = Append(typed, byte)
    /\ UNCHANGED <<in_extended, s_key_queue, s_key_write, s_key_read, delivered, overrun, s_fb, screen>>

\* The ring of the port has no test for full: the key is stored in any case.
key_push(ring, event) ==
    [ring EXCEPT !.queue[ring.write] = event, !.write = (@ + 1) % KeyQueueSize]

\* One byte of poll_keyboard.
Take(ring, byte) ==
    IF byte = 224 THEN [ring EXCEPT !.ext = TRUE]
    ELSE LET key == scancode_to_doom(byte % 128, ring.ext)
             next == [ring EXCEPT !.ext = FALSE]
         IN  IF key = "none" THEN next
             ELSE key_push(next, [pressed |-> byte < 128, key |-> key])

\* What is typed and drained, and the events it stands for: a byte is extended
\* when the byte before it is the prefix, whichever drain that one was in.
Drained(all, left) == SubSeq(all, 1, Len(all) - Len(left))
Codes(bytes) ==
    [i \in DOMAIN bytes |->
        [pressed |-> bytes[i] < 128,
         key |-> IF bytes[i] = 224 THEN "none"
                 ELSE scancode_to_doom(bytes[i] % 128, i > 1 /\ bytes[i - 1] = 224)]]
Events(bytes) == SelectSeq(Codes(bytes), LAMBDA e : e.key # "none")

\* Mutant: a prefix at the end of a drain is forgotten.
poll_keyboard_forgets ==
    LET n == IF Len(raw_kb) < RawSize THEN Len(raw_kb) ELSE RawSize
        ring == FoldLeft(Take, [ext |-> FALSE, queue |-> s_key_queue, write |-> s_key_write],
                         SubSeq(raw_kb, 1, n))
    IN  /\ raw_kb' = SubSeq(raw_kb, n + 1, Len(raw_kb))
        /\ in_extended' = ring.ext /\ s_key_queue' = ring.queue /\ s_key_write' = ring.write
        /\ overrun' = (overrun \/ Len(Events(Drained(typed, raw_kb'))) - Len(delivered) >= KeyQueueSize)
        /\ UNCHANGED <<s_key_read, typed, delivered>>

poll_keyboard ==
    LET n == IF Len(raw_kb) < RawSize THEN Len(raw_kb) ELSE RawSize
        ring == FoldLeft(Take, [ext |-> in_extended, queue |-> s_key_queue, write |-> s_key_write],
                         SubSeq(raw_kb, 1, n))
    IN  /\ raw_kb' = SubSeq(raw_kb, n + 1, Len(raw_kb))
        /\ in_extended' = ring.ext /\ s_key_queue' = ring.queue /\ s_key_write' = ring.write
        /\ overrun' = (overrun \/ Len(Events(Drained(typed, raw_kb'))) - Len(delivered) >= KeyQueueSize)
        /\ UNCHANGED <<s_key_read, typed, delivered>>

DG_GetKey ==
    /\ s_key_read # s_key_write
    /\ delivered' = Append(delivered, s_key_queue[s_key_read])
    /\ s_key_read' = (s_key_read + 1) % KeyQueueSize
    /\ UNCHANGED <<raw_kb, in_extended, s_key_queue, s_key_write, typed, overrun, s_fb, screen>>

----------------------------------------------------------------------------
(* Frames *)

\* framebuffer_map may fail; DG_Init is called once.
DG_Init ==
    /\ s_fb = NoDisplay
    /\ s_fb' \in Displays
    /\ UNCHANGED <<kvars, screen>>

Margin(size, needed) == IF size > needed THEN (size - needed) \div 2 ELSE 0

\* Mutant: the right edge is not clipped.
Stores_unclipped(d) ==
    { <<(Margin(d.h, DoomH * Scale) + sy * Scale + dy) * d.stride
           + Margin(d.w, DoomW * Scale) + sx * Scale + dx, sx, sy>> :
        <<sx, sy, dx, dy>> \in
          { q \in (0 .. DoomW - 1) \X (0 .. DoomH - 1) \X (0 .. Scale - 1) \X (0 .. Scale - 1) :
              Margin(d.h, DoomH * Scale) + q[2] * Scale + q[4] < d.h } }

\* The loops of DG_DrawFrame, as the set of the pixels they store.
Stores(d) ==
    { <<(Margin(d.h, DoomH * Scale) + sy * Scale + dy) * d.stride
           + Margin(d.w, DoomW * Scale) + sx * Scale + dx, sx, sy>> :
        <<sx, sy, dx, dy>> \in
          { q \in (0 .. DoomW - 1) \X (0 .. DoomH - 1) \X (0 .. Scale - 1) \X (0 .. Scale - 1) :
              /\ Margin(d.h, DoomH * Scale) + q[2] * Scale + q[4] < d.h
              /\ Margin(d.w, DoomW * Scale) + q[1] * Scale + q[3] < d.w } }

\* Without a framebuffer the frame ends before the keyboard is polled.
DG_DrawFrame ==
    /\ s_fb # NoDisplay
    /\ screen' = [a \in {s[1] : s \in Stores(s_fb)} |->
                    LET s == CHOOSE s \in Stores(s_fb) : s[1] = a IN <<s[2], s[3]>>]
    /\ poll_keyboard
    /\ UNCHANGED s_fb

Next ==
    \/ \E byte \in Bytes : Interrupt(byte)
    \/ DG_Init
    \/ DG_DrawFrame
    \/ DG_GetKey

Spec == Init /\ [][Next]_vars

----------------------------------------------------------------------------
(* Properties *)

\* The events the ring of the port shows to DG_GetKey.
Waiting ==
    [i \in 1 .. (s_key_write - s_key_read) % KeyQueueSize |->
        s_key_queue[(s_key_read + i - 1) % KeyQueueSize]]

\* The game gets the keys that were typed, in order: however the bytes are cut
\* into drains, what it has got and what waits are the events of the whole
\* stream (the prefix 0xE0 counts for the byte after it, also in the next
\* frame).  When the ring was filled events are lost, but the ones that wait
\* are still the latest ones, in order.
KeysInOrder ==
    LET all == Events(Drained(typed, raw_kb))
    IN  /\ IsSuffix(Waiting, all)
        /\ ~overrun => delivered \o Waiting = all

\* DG_DrawFrame stores only to pixels of the display, and every pixel of the
\* display that the scaled and centred picture covers shows the right pixel of
\* the game, also on a display that is smaller than the picture.
FrameInside ==
    screen # <<>> =>
        LET left == Margin(s_fb.w, DoomW * Scale)
            top == Margin(s_fb.h, DoomH * Scale)
            At(x, y) == y * s_fb.stride + x
            Covered == { <<x, y>> \in (0 .. s_fb.w - 1) \X (0 .. s_fb.h - 1) :
                           /\ x \in left .. left + DoomW * Scale - 1
                           /\ y \in top .. top + DoomH * Scale - 1 }
        IN  /\ DOMAIN screen = {At(p[1], p[2]) : p \in Covered}
            /\ \A p \in Covered :
                  screen[At(p[1], p[2])] = <<(p[1] - left) \div Scale, (p[2] - top) \div Scale>>

=============================================================================
