------------------------------ MODULE DoomHeap ------------------------------
(***************************************************************************)
(* The heap of the DOOM port's C library (apps/doom/innigkeit_libc.c): a   *)
(* bump allocator over one mmap'd arena, with mappings of their own for    *)
(* what does not fit, a header word before each block, and a free() that   *)
(* does nothing.  Memory is a sequence of mappings, each a sequence of     *)
(* cells of the size of a word; a pointer is a mapping and an offset.  The *)
(* kernel zero-fills a mapping, rounds it up to pages, and may refuse it.  *)
(***************************************************************************)
EXTENDS Integers, Sequences, SequencesExt

CONSTANTS
    HeapSize,       \* HEAP_SIZE, in words
    PageSize,       \* PAGE_SIZE, in words
    Align,          \* alignment of a block, in words
    SizeLimit,      \* 2^w for the width of size_t, in words
    Sizes,          \* the sizes the program asks for
    MaxBlocks       \* bound on the calls that allocate

VARIABLES
    heap,           \* mappings, heap_base (a mapping or NULL), heap_used, heap_cap
    blocks          \* history: the blocks in use, and what the program left in them

vars == <<heap, blocks>>

NULL == 0
Word == 1           \* sizeof(size_t)

Init ==
    /\ heap = [maps |-> <<>>, base |-> NULL, used |-> 0, cap |-> 0]
    /\ blocks = <<>>

ALIGN_UP(x, a) == (((x + a - 1) % SizeLimit) \div a) * a

Minimum(x, y) == IF x < y THEN x ELSE y

----------------------------------------------------------------------------
(* Memory *)

\* innigkeit_mmap: the outcomes, each a heap and the mapping or NULL.
Mmap(h, size) ==
    { [heap |-> h, map |-> NULL],
      [heap |-> [h EXCEPT !.maps = Append(@, [i \in 1 .. ALIGN_UP(size, PageSize) |-> 0])],
       map |-> Len(h.maps) + 1] }

\* A read past the end of a mapping finds anything; the program never looks at it.
Junk == -1
Load(h, p, i) == IF p.off + i < Len(h.maps[p.map]) THEN h.maps[p.map][p.off + i + 1] ELSE Junk

Store(h, p, i, value) == [h EXCEPT !.maps[p.map][p.off + i + 1] = value]

\* memcpy of the words that values gives, which are numbered from 0.
StoreAll(h, p, values) ==
    [h EXCEPT !.maps[p.map] =
        [c \in DOMAIN @ |-> IF c - 1 - p.off \in DOMAIN values THEN values[c - 1 - p.off] ELSE @[c]]]

heap_init(h) ==
    IF h.base # NULL THEN {h}
    ELSE { [m.heap EXCEPT !.base = m.map, !.cap = IF m.map # NULL THEN HeapSize ELSE 0, !.used = 0] :
             m \in Mmap(h, HeapSize) }

\* A block: its header holds the size, the program gets what follows.
Block(h, map, off, size) ==
    [heap |-> Store(h, [map |-> map, off |-> off], 0, size), map |-> map, off |-> off + Word]

\* Mutant: the header is not counted against the arena.
malloc_headerless(h0, request) ==
    UNION { LET size == ALIGN_UP(request, Align)
            IN  IF h.used + size > h.cap
                THEN { IF m.map = NULL THEN [heap |-> m.heap, map |-> NULL, off |-> 0]
                       ELSE Block(m.heap, m.map, 0, ALIGN_UP(size + Word, PageSize)) :
                         m \in Mmap(h, ALIGN_UP(size + Word, PageSize)) }
                ELSE { Block([h EXCEPT !.used = @ + size], h.base, h.used, size) } :
              h \in heap_init(h0) }

\* malloc: the outcomes, each a heap and a pointer (NULL when mmap refuses).
malloc(h0, request) ==
    UNION { LET size == ALIGN_UP((request + Word) % SizeLimit, Align)
            IN  IF h.used + size > h.cap
                THEN { IF m.map = NULL THEN [heap |-> m.heap, map |-> NULL, off |-> 0]
                       ELSE Block(m.heap, m.map, 0, ALIGN_UP(size + Word, PageSize)) :
                         m \in Mmap(h, ALIGN_UP(size + Word, PageSize)) }
                ELSE { Block([h EXCEPT !.used = @ + size], h.base, h.used, size) } :
              h \in heap_init(h0) }

\* The program holds a new block of n words, with the given contents.
Holds(old, p, n, value(_)) ==
    IF p.map = NULL THEN old
    ELSE Append(old, [map |-> p.map, off |-> p.off, data |-> [i \in 1 .. n |-> value(i - 1)]])

----------------------------------------------------------------------------
(* Calls of the program *)

Room == Len(blocks) < MaxBlocks /\ Len(heap.maps) < MaxBlocks

\* malloc: the contents are whatever the memory holds.
Malloc(n) ==
    /\ Room
    /\ \E p \in malloc(heap, n) :
          /\ heap' = p.heap
          /\ blocks' = Holds(blocks, p, n, LAMBDA i : Load(p.heap, p, i))

\* calloc does not clear: the program may expect zeros.
calloc(nmemb, size) ==
    /\ Room
    /\ \E p \in malloc(heap, (nmemb * size) % SizeLimit) :
          /\ heap' = p.heap
          /\ blocks' = Holds(blocks, p, nmemb * size, LAMBDA i : 0)

\* The header's size counts the header, so the copy may take one word too many
\* from the old block.  The program goes on with the new block.
realloc(k, new_size) ==
    LET old == blocks[k]
        old_size == Load(heap, [old EXCEPT !.off = @ - Word], 0)
        copy == Minimum(old_size, new_size)
        Copied(p) == StoreAll(p.heap, p, [i \in 0 .. copy - 1 |-> Load(p.heap, old, i)])
    IN  /\ Room
        /\ \E p \in malloc(heap, new_size) :
              IF p.map = NULL THEN heap' = p.heap /\ UNCHANGED blocks
              ELSE /\ heap' = Copied(p)
                   /\ blocks' = Holds(RemoveAt(blocks, k), p, new_size,
                                  LAMBDA i : IF i < Len(old.data) THEN old.data[i + 1]
                                             ELSE Load(Copied(p), p, i))

free(k) == UNCHANGED heap /\ blocks' = RemoveAt(blocks, k)

\* strdup and strndup: a string of len characters and its NUL.
Char == -2
strndup(len) ==
    /\ Room
    /\ \E p \in malloc(heap, len + 1) :
          /\ heap' = IF p.map = NULL THEN p.heap
                     ELSE StoreAll(p.heap, p, [i \in 0 .. len |-> IF i = len THEN 0 ELSE Char])
          /\ blocks' = Holds(blocks, p, len + 1, LAMBDA i : IF i = len THEN 0 ELSE Char)

\* The program fills a block with a value of its own.
Fill(k, value) ==
    /\ blocks[k].data # <<>>
    /\ heap' = StoreAll(heap, blocks[k], [i \in 0 .. Len(blocks[k].data) - 1 |-> value])
    /\ blocks' = [blocks EXCEPT ![k].data = [i \in DOMAIN @ |-> value]]

Next ==
    \/ \E n \in Sizes : Malloc(n)
    \/ \E n \in Sizes : calloc(2, n)
    \/ \E n \in Sizes : strndup(n)
    \/ \E k \in DOMAIN blocks, n \in Sizes : realloc(k, n)
    \/ \E k \in DOMAIN blocks : free(k)
    \/ \E k \in DOMAIN blocks : Fill(k, -3)

Spec == Init /\ [][Next]_vars

----------------------------------------------------------------------------
(* Properties *)

\* A block keeps what the program left in it until the program stores to that
\* block: blocks and headers do not overlap and lie inside their mappings, a
\* realloc carries the contents over, a calloc is zero although nothing clears
\* it, and the header still holds the size that the next realloc reads.
ContentsKept ==
    \A k \in DOMAIN blocks :
        LET b == blocks[k]
        IN  /\ b.off + Len(b.data) <= Len(heap.maps[b.map])
            /\ \A i \in DOMAIN b.data : Load(heap, b, i - 1) = b.data[i]
            /\ Load(heap, [b EXCEPT !.off = @ - Word], 0) >= Len(b.data) + Word

=============================================================================
