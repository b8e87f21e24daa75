------------------------------- MODULE Memory -------------------------------
(***************************************************************************)
(* Where the memory of a simulated program comes from: memory_mgr          *)
(* (memory.hpp) behind new, delete, malloc and free of the test, with its  *)
(* caches of freed blocks and its ring of deferred frees, and the handles  *)
(* of the primitives (mutex, condvar, semaphore, generic_event), whose     *)
(* state comes from the slab allocators of the context.  The manager       *)
(* lives as long as the context: the caches survive an iteration.          *)
(*                                                                         *)
(* Blocks are numbered in the order malloc makes them.                     *)
(***************************************************************************)
EXTENDS Naturals, FiniteSets, Sequences, SequencesExt

CONSTANTS
    Sizes,          \* the sizes the test allocates
    DeferredCount,  \* deferred_count, 64
    Handles,        \* the handles of primitives in the test
    MaxBlocks       \* bounds how many blocks malloc makes

ASSUME MemoryAssumption ==
    DeferredCount \in Nat \ {0} /\ MaxBlocks \in Nat

VARIABLES
    size,           \* of each block malloc made: what it writes in front of it
    allocs,         \* allocs_: the blocks the test has
    cache,          \* alloc_cache_: of each size a stack of freed blocks
    ring,           \* deferred_free_, NoBlock for 0
    ringIndex,      \* deferred_index_ % deferred_count
    impl,           \* impl_ of each handle: its slab element, or NoBlock
    freelist,       \* freelist_ of the slab allocator, as a stack
    slabs,          \* the elements of its batches
    allocCount,     \* alloc_count_
    verdict         \* "none" while the iteration goes on

memory == <<size, allocs, cache, ring, ringIndex>>
slab == <<impl, freelist, slabs, allocCount>>
memoryVars == <<memory, slab, verdict>>

NoBlock == 0
Blocks == DOMAIN size
Slots == 0 .. DeferredCount - 1

Goes == verdict = "none"

MemoryInit ==
    /\ size = <<>> /\ allocs = {}
    /\ cache = [s \in Sizes |-> <<>>]
    /\ ring = [i \in Slots |-> NoBlock] /\ ringIndex = 0
    /\ impl = [h \in Handles |-> NoBlock]
    /\ freelist = <<>> /\ slabs = 0 /\ allocCount = 0
    /\ verdict = "none"

-----------------------------------------------------------------------------
(* memory_mgr *)

(* Mutant of Alloc: the top of the cache is handed out and stays there. *)
AllocTop(s) ==
    /\ Goes
    /\ \/ /\ cache[s] # <<>>
          /\ allocs' = allocs \cup {Head(cache[s])}
          /\ UNCHANGED size
       \/ /\ cache[s] = <<>> /\ Len(size) < MaxBlocks
          /\ size' = Append(size, s)
          /\ allocs' = allocs \cup {Len(size')}
    /\ UNCHANGED <<cache, ring, ringIndex, slab, verdict>>

(* memory_mgr::alloc: the block freed last, of the same size, or a new one *)
Alloc(s) ==
    /\ Goes
    /\ \/ /\ cache[s] # <<>>
          /\ allocs' = allocs \cup {Head(cache[s])}
          /\ cache' = [cache EXCEPT ![s] = Tail(@)]
          /\ UNCHANGED size
       \/ /\ cache[s] = <<>> /\ Len(size) < MaxBlocks
          /\ size' = Append(size, s)
          /\ allocs' = allocs \cup {Len(size')}
          /\ UNCHANGED cache
    /\ UNCHANGED <<ring, ringIndex, slab, verdict>>

(* rl_free_impl *)
ToCache(p) == [cache EXCEPT ![size[p]] = <<p>> \o @]

(* Mutant of Defer: the slot the block is put in is released. *)
DeferSameSlot(p) ==
    /\ ring' = [ring EXCEPT ![ringIndex] = p]
    /\ ringIndex' = (ringIndex + 1) % DeferredCount
    /\ cache' = IF ring[ringIndex] = NoBlock THEN ToCache(p) ELSE ToCache(ring[ringIndex])

(* The block goes into the ring, and the oldest one there, if the ring has *)
(* come round, is freed; its slot keeps it until it is overwritten.        *)
Defer(p) ==
    LET next == (ringIndex + 1) % DeferredCount
        ring1 == [ring EXCEPT ![ringIndex] = p]
    IN  /\ ring' = ring1
        /\ ringIndex' = next
        /\ cache' = IF ring1[next] = NoBlock THEN cache ELSE ToCache(ring1[next])

(* Mutant of Free: what the test frees is not looked up. *)
FreeUnchecked(p, defer) ==
    /\ Goes /\ p \in Blocks
    /\ allocs' = allocs \ {p}
    /\ IF defer THEN Defer(p) ELSE cache' = ToCache(p) /\ UNCHANGED <<ring, ringIndex>>
    /\ UNCHANGED <<size, slab, verdict>>

(* context::free, with the draw that says whether the free is deferred.    *)
(* The test may free any block once more.                                  *)
Free(p, defer) ==
    /\ Goes /\ p \in Blocks
    /\ IF p \in allocs
       THEN /\ allocs' = allocs \ {p}
            /\ IF defer THEN Defer(p)
               ELSE cache' = ToCache(p) /\ UNCHANGED <<ring, ringIndex>>
            /\ UNCHANGED <<size, slab, verdict>>
       ELSE verdict' = "double_free" /\ UNCHANGED <<memory, slab>>

-----------------------------------------------------------------------------
(* Handles. *)

BatchSize == 2  \* batch_size, 128

(* slab_allocator::alloc, and alloc_batch when the list is empty. *)
SlabAlloc(h) ==
    LET list == IF freelist # <<>> THEN freelist
                ELSE [i \in 1 .. BatchSize |-> slabs + BatchSize + 1 - i]
    IN  /\ slabs' = IF freelist # <<>> THEN slabs ELSE slabs + BatchSize
        /\ impl' = [impl EXCEPT ![h] = Head(list)]
        /\ freelist' = Tail(list)
        /\ allocCount' = allocCount + 1

(* init *)
InitHandle(h) ==
    /\ Goes
    /\ IF impl[h] = NoBlock THEN SlabAlloc(h) /\ UNCHANGED <<memory, verdict>>
       ELSE verdict' = "double_initialization" /\ UNCHANGED <<memory, slab>>

(* deinit, and slab_allocator::free *)
DeinitHandle(h) ==
    /\ Goes
    /\ IF impl[h] # NoBlock
       THEN /\ freelist' = <<impl[h]>> \o freelist
            /\ allocCount' = allocCount - 1
            /\ impl' = [impl EXCEPT ![h] = NoBlock]
            /\ UNCHANGED <<memory, verdict, slabs>>
       ELSE verdict' = "usage_of_non_initialized" /\ UNCHANGED <<memory, slab>>

(* check, before every other operation of a handle *)
UseHandle(h) ==
    /\ Goes /\ impl[h] = NoBlock
    /\ verdict' = "usage_of_non_initialized"
    /\ UNCHANGED <<memory, slab>>

(* A handle is copied or assigned: the copy has no state, and assigning    *)
(* leaves it alone, so neither does anything to the two.  A handle of a    *)
(* thread, closed, is freed although nobody allocated it (rl_CloseHandle). *)
CloseThreadHandle ==
    /\ Goes
    /\ verdict' = "double_free"
    /\ UNCHANGED <<memory, slab>>

-----------------------------------------------------------------------------
(* The checks when the last thread has finished and the suite is gone. *)
LeakCheck ==
    /\ Goes
    /\ IF allocs = {}
       THEN IF allocCount = 0 THEN UNCHANGED verdict ELSE verdict' = "resource_leak"
       ELSE verdict' = "memory_leak"
    /\ UNCHANGED <<memory, slab>>

HeapNext ==
    \/ \E s \in Sizes : Alloc(s)
    \/ \E p \in Blocks, defer \in BOOLEAN : Free(p, defer)
    \/ CloseThreadHandle
    \/ LeakCheck

HandleNext ==
    \/ \E h \in Handles : InitHandle(h) \/ DeinitHandle(h) \/ UseHandle(h)
    \/ LeakCheck

MemorySpec == MemoryInit /\ [][HeapNext \/ HandleNext]_memoryVars

-----------------------------------------------------------------------------
(* Properties. *)

(* The blocks of the ring that are not freed yet: the slot at the index    *)
(* holds one that already has been.                                        *)
Deferred == {ring[i] : i \in Slots \ {ringIndex}} \ {NoBlock}
Cached == UNION {Range(cache[s]) : s \in Sizes}

(* Every block is in one place: with the test, in the cache of its size,   *)
(* once, or in the ring, once.  So no block is handed out twice, and a     *)
(* block the test frees is not handed out while its free is deferred       *)
(* (memory_mgr::free, whose ring keeps the pointers it has freed).         *)
BlocksHaveOnePlace ==
    /\ allocs \cap Cached = {} /\ allocs \cap Deferred = {} /\ Cached \cap Deferred = {}
    /\ allocs \cup Cached \cup Deferred = Blocks
    /\ \A s \in Sizes : IsInjective(cache[s]) /\ \A p \in Range(cache[s]) : size[p] = s
    /\ \A i, j \in Slots \ {ringIndex} : ring[i] = ring[j] => i = j \/ ring[i] = NoBlock

(* Every element of the slab is with one handle or once in the free list,  *)
(* and alloc_count_ counts the handles that have one: two primitives never *)
(* share their state, through init, deinit and init again.                 *)
HandlesHaveTheirOwn ==
    /\ IsInjective(freelist)
    /\ \A h, g \in Handles : impl[h] = impl[g] => h = g \/ impl[h] = NoBlock
    /\ Range(freelist) \cup ({impl[h] : h \in Handles} \ {NoBlock}) = 1 .. slabs
    /\ \A h \in Handles : impl[h] \notin Range(freelist)
    /\ allocCount = Cardinality({h \in Handles : impl[h] # NoBlock})

(* Nothing is handed out twice, by memory_mgr or by the slab allocators,   *)
(* and nothing that is handed out is lost.                                 *)
MemoryHasOnePlace == BlocksHaveOnePlace /\ HandlesHaveTheirOwn
=============================================================================
