------------------------------ MODULE RawCache ------------------------------
(***************************************************************************)
(* The slab cache (memory/cache/RawCache.zig).  Threads allocate and give  *)
(* back several items at a time; a cache without an available slab lets go *)
(* of its lock while a new slab is made, so that other threads allocate,   *)
(* free and retire slabs in between, and every step of an allocation may   *)
(* fail and have to undo the ones before it.                               *)
(*                                                                         *)
(* An item is a slab and an index.  Which free item a slab hands out is    *)
(* left open.                                                              *)
(***************************************************************************)
EXTENDS Optional, Naturals, Sequences, FiniteSets, Functions

CONSTANTS
    CacheThreads,
    Slabs,          \* the places a slab can be made at
    items_per_slab,
    MaxMany         \* items allocated by one call, and held by one thread

ASSUME CacheAssumption ==
    /\ items_per_slab \in Nat \ {0} /\ MaxMany \in Nat
    /\ None \notin CacheThreads \cup Slabs

VARIABLES
    config,         \* last_slab, and whether the items are large
    cache_lock, allocate_mutex,
    available_slabs, full_slabs,
    slabs,          \* the slabs that exist
    items,          \* of a slab: its free items
    allocated_items,
    item_lookup,    \* the items in use, kept for large items only
    thread,         \* of a thread: where it is, and its locals
    held            \* of a thread: the items it was given

rvars == <<config, cache_lock, allocate_mutex, available_slabs, full_slabs, slabs, items,
           allocated_items, item_lookup, thread, held>>

lists == <<available_slabs, full_slabs, slabs, items, allocated_items, item_lookup>>

----------------------------------------------------------------------------

Items == 1 .. items_per_slab

IdleThread == [at |-> "idle", left |-> 0, buffer |-> {}, slab |-> None]

\* A list of slabs without the slab s, which is in it.
Unlinked(list, s) ==
    LET k == CHOOSE i \in DOMAIN list : list[i] = s
    IN  [i \in 1 .. Len(list) - 1 |-> IF i < k THEN list[i] ELSE list[i + 1]]

Go(t, at) == thread' = [thread EXCEPT ![t].at = at]

CacheInit ==
    /\ config \in [last_slab : {"keep", "free"}, large : BOOLEAN]
    /\ cache_lock = None /\ allocate_mutex = None
    /\ available_slabs = <<>> /\ full_slabs = <<>> /\ slabs = {}
    /\ items = [s \in Slabs |-> {}]
    /\ allocated_items = [s \in Slabs |-> 0]
    /\ item_lookup = {}
    /\ thread = [t \in CacheThreads |-> IdleThread]
    /\ held = [t \in CacheThreads |-> {}]

\* The cache's lock, a sleeping mutex.
Lock(t, from, to) ==
    /\ thread[t].at = from /\ cache_lock = None
    /\ cache_lock' = t /\ Go(t, to)
    /\ UNCHANGED <<config, allocate_mutex, lists, held>>

----------------------------------------------------------------------------
\* allocateMany.

allocateMany(t) ==
    /\ thread[t].at = "idle"
    /\ \E n \in 1 .. MaxMany - Cardinality(held[t]) :
        thread' = [thread EXCEPT ![t] = [IdleThread EXCEPT !.at = "lock", !.left = n]]
    /\ UNCHANGED <<config, cache_lock, allocate_mutex, lists, held>>

\* The head of the outer loop: all items found, a slab that has some, or
\* allocateSlab, which begins by unlocking.
Pick(t) ==
    /\ thread[t].at = "pick"
    /\ \/ /\ thread[t].left = 0
          /\ cache_lock' = None
          /\ held' = [held EXCEPT ![t] = @ \cup thread[t].buffer]
          /\ thread' = [thread EXCEPT ![t] = IdleThread]
       \/ /\ thread[t].left > 0 /\ available_slabs # <<>>
          /\ thread' = [thread EXCEPT ![t].at = "take", ![t].slab = Head(available_slabs)]
          /\ UNCHANGED <<cache_lock, held>>
       \/ /\ thread[t].left > 0 /\ available_slabs = <<>>
          /\ cache_lock' = None
          /\ Go(t, "mutex")
          /\ UNCHANGED held
    /\ UNCHANGED <<config, allocate_mutex, lists>>

\* An item leaves its slab, which is moved when it was the last one.
TakeItem(t) ==
    \E i \in items[thread[t].slab] :
        LET s == thread[t].slab
            full == allocated_items[s] + 1 = items_per_slab
            left == thread[t].left - 1
        IN  /\ items' = [items EXCEPT ![s] = @ \ {i}]
            /\ allocated_items' = [allocated_items EXCEPT ![s] = @ + 1]
            /\ item_lookup' = IF config.large THEN item_lookup \cup {<<s, i>>} ELSE item_lookup
            /\ available_slabs' = IF full THEN Unlinked(available_slabs, s) ELSE available_slabs
            /\ full_slabs' = IF full THEN Append(full_slabs, s) ELSE full_slabs
            /\ thread' = [thread EXCEPT
                    ![t].at = IF full \/ left = 0 THEN "pick" ELSE "take",
                    ![t].left = left,
                    ![t].buffer = @ \cup {<<s, i>>}]
            /\ UNCHANGED <<slabs, cache_lock>>

\* Mutant: the errdefer is run with the lock still held.
LookupFails_locked(t) ==
    /\ config.large /\ items[thread[t].slab] # {}
    /\ Go(t, "undo")
    /\ UNCHANGED <<lists, cache_lock>>

\* The item goes back where it was, and the lock is released.
LookupFails(t) ==
    /\ config.large /\ items[thread[t].slab] # {}
    /\ cache_lock' = None
    /\ Go(t, "undo")
    /\ UNCHANGED lists

Take(t) ==
    /\ thread[t].at = "take"
    /\ \/ TakeItem(t)
       \/ LookupFails(t)
       \/ /\ items[thread[t].slab] = {}
          /\ Go(t, "panic") /\ UNCHANGED <<lists, cache_lock>>
    /\ UNCHANGED <<config, allocate_mutex, held>>

\* The errdefer of allocateMany: what it got so far is given back.
Undo(t) ==
    /\ thread[t].at = "undo"
    /\ thread' = [thread EXCEPT ![t] =
            IF @.buffer = {} THEN IdleThread ELSE [@ EXCEPT !.at = "relinquish"]]
    /\ UNCHANGED <<config, cache_lock, allocate_mutex, lists, held>>

----------------------------------------------------------------------------
\* allocateSlab.

LockMutex(t) ==
    /\ thread[t].at = "mutex" /\ allocate_mutex = None
    /\ allocate_mutex' = t
    /\ Go(t, "peek")
    /\ UNCHANGED <<config, cache_lock, lists, held>>

\* The look at the list without the lock.
Peek(t) ==
    /\ thread[t].at = "peek"
    /\ Go(t, IF available_slabs # <<>> THEN "relock" ELSE "build")
    /\ UNCHANGED <<config, cache_lock, allocate_mutex, lists, held>>

Recheck(t) ==
    /\ thread[t].at = "recheck"
    /\ IF available_slabs # <<>>
       THEN /\ thread' = [thread EXCEPT ![t].at = "take", ![t].slab = Head(available_slabs)]
            /\ allocate_mutex' = None /\ UNCHANGED cache_lock
       ELSE cache_lock' = None /\ Go(t, "build") /\ UNCHANGED allocate_mutex
    /\ UNCHANGED <<config, lists, held>>

\* Memory, the slab's record and its items' records are found and the items
\* constructed; or one of these fails and those before it are undone.
Build(t) ==
    /\ thread[t].at = "build"
    /\ \/ \E s \in Slabs \ slabs :
            /\ slabs' = slabs \cup {s}
            /\ items' = [items EXCEPT ![s] = Items]
            /\ allocated_items' = [allocated_items EXCEPT ![s] = 0]
            /\ thread' = [thread EXCEPT ![t].at = "append", ![t].slab = s]
            /\ UNCHANGED allocate_mutex
       \/ /\ allocate_mutex' = None
          /\ Go(t, "undo")
          /\ UNCHANGED <<slabs, items, allocated_items>>
    /\ UNCHANGED <<config, cache_lock, available_slabs, full_slabs, item_lookup, held>>

AppendSlab(t) ==
    /\ thread[t].at = "append" /\ cache_lock = None
    /\ cache_lock' = t /\ allocate_mutex' = None
    /\ available_slabs' = Append(available_slabs, thread[t].slab)
    /\ Go(t, "take")
    /\ UNCHANGED <<config, full_slabs, slabs, items, allocated_items, item_lookup, held>>

----------------------------------------------------------------------------
\* deallocateMany and deinit.

deallocateMany(t) ==
    /\ thread[t].at = "idle"
    /\ \E some \in SUBSET held[t] \ {{}} :
        /\ thread' = [thread EXCEPT ![t] =
                [IdleThread EXCEPT !.at = "relinquish", !.buffer = some]]
        /\ held' = [held EXCEPT ![t] = @ \ some]
    /\ UNCHANGED <<config, cache_lock, allocate_mutex, lists>>

\* An unused slab is kept when it is the only available one.
IsLastSlab(s, available) ==
    config.last_slab = "keep" /\ Len(available) = 1

\* Mutant: whether the slab was full is asked after the item is back.
WasFull_after(s) == allocated_items[s] - 1 = items_per_slab

WasFull(s) == allocated_items[s] = items_per_slab

deallocateSlab(s) == slabs' = slabs \ {s}

\* One item goes back to its slab.
GiveItem(t, item) ==
    LET s == item[1]
        available == IF WasFull(s) THEN Append(available_slabs, s) ELSE available_slabs
        unused == allocated_items[s] = 1 /\ ~ IsLastSlab(s, available)
    IN  /\ config.large => item \in item_lookup
        /\ item_lookup' = item_lookup \ {item}
        /\ full_slabs' = IF WasFull(s) THEN Unlinked(full_slabs, s) ELSE full_slabs
        /\ items' = [items EXCEPT ![s] = @ \cup {item[2]}]
        /\ allocated_items' = [allocated_items EXCEPT ![s] = @ - 1]
        /\ available_slabs' = IF unused THEN Unlinked(available, s) ELSE available
        /\ IF unused THEN deallocateSlab(s) ELSE UNCHANGED slabs
        /\ thread' = [thread EXCEPT ![t].buffer = @ \ {item}]

Give(t) ==
    /\ thread[t].at = "give"
    /\ \/ /\ thread[t].buffer = {}
          /\ cache_lock' = None
          /\ thread' = [thread EXCEPT ![t] = IdleThread]
          /\ UNCHANGED lists
       \/ \E item \in thread[t].buffer :
            /\ UNCHANGED cache_lock
            /\ \/ GiveItem(t, item)
               \/ /\ config.large /\ item \notin item_lookup
                  /\ Go(t, "panic") /\ UNCHANGED lists
    /\ UNCHANGED <<config, allocate_mutex, held>>

\* The owner has had all items back; the cache may then be initialised again.
deinit(t) ==
    /\ \A u \in CacheThreads : thread[u] = IdleThread /\ held[u] = {}
    /\ slabs # {}
    /\ IF \/ full_slabs # <<>> \/ item_lookup # {}
          \/ \E i \in DOMAIN available_slabs : allocated_items[available_slabs[i]] # 0
       THEN Go(t, "panic") /\ UNCHANGED <<available_slabs, slabs>>
       ELSE /\ available_slabs' = <<>>
            /\ slabs' = slabs \ Range(available_slabs)
            /\ UNCHANGED thread
    /\ UNCHANGED <<config, cache_lock, allocate_mutex, full_slabs, items, allocated_items,
                   item_lookup, held>>

CacheNext ==
    \E t \in CacheThreads :
        \/ allocateMany(t) \/ Lock(t, "lock", "pick") \/ Pick(t) \/ Take(t) \/ Undo(t)
        \/ LockMutex(t) \/ Peek(t) \/ Lock(t, "relock", "recheck") \/ Recheck(t)
        \/ Build(t) \/ AppendSlab(t)
        \/ deallocateMany(t) \/ Lock(t, "relinquish", "give") \/ Give(t)
        \/ deinit(t)

CacheSpec == CacheInit /\ [][CacheNext]_rvars

----------------------------------------------------------------------------

\* Every item of a slab is free in it or belongs to one thread, whatever was
\* allocated, undone and given back meanwhile: no item is handed out twice, and
\* none is lost or outlives its slab.  The lists hold the slabs with and without
\* free items, except one that is being added, and the lookup what is in use.
ItemsConserved ==
    LET Has(t) == held[t] \cup thread[t].buffer
        Added == {thread[t].slab : t \in {u \in CacheThreads : thread[u].at = "append"}}
        InUse == UNION {Has(t) : t \in CacheThreads}
    IN  /\ \A t, u \in CacheThreads : t # u => Has(t) \cap Has(u) = {}
        /\ InUse = {x \in slabs \X Items : x[2] \notin items[x[1]]}
        /\ \A s \in slabs : allocated_items[s] = items_per_slab - Cardinality(items[s])
        /\ Range(available_slabs) = {s \in slabs \ Added : items[s] # {}}
        /\ Range(full_slabs) = {s \in slabs : items[s] = {}}
        /\ IsInjective(available_slabs) /\ IsInjective(full_slabs)
        /\ config.large => item_lookup = InUse

\* No thread meets an available slab without items, an item missing from the
\* lookup or a cache that is torn down with items in use; and none waits for,
\* or returns with, the lock that an earlier failure left with it.
CacheDoesNotFail ==
    \A t \in CacheThreads :
        /\ thread[t].at # "panic"
        /\ thread[t].at \in {"idle", "lock", "relinquish"} =>
               cache_lock # t /\ allocate_mutex # t

=============================================================================
