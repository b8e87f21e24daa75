--------------------------- MODULE ServicesProofs ---------------------------
(***************************************************************************)
(* Proofs about the services of the context that TLC checks side by side   *)
(* in MCServices: the memory (Memory), the enumeration of the executions   *)
(* of a test (TreeSearch), the thread locals and the hashes of addresses   *)
(* (ThreadLocal), and the fibers (Fibers).  They have nothing to do with   *)
(* one another; each has an invariant of its own.                          *)
(***************************************************************************)
EXTENDS Memory, TreeSearch, ThreadLocal, Fibers, FiniteSetTheorems, SequenceTheorems,
        NaturalsInduction, WellFoundedInduction, TLAPS

-----------------------------------------------------------------------------
(* Stacks. *)

(* Something new is put on a stack. *)
LEMMA Push ==
    ASSUME NEW S, NEW s \in Seq(S), NEW p \in S, IsInjective(s), p \notin Range(s)
    PROVE  /\ <<p>> \o s \in Seq(S)
           /\ Range(<<p>> \o s) = Range(s) \cup {p}
           /\ IsInjective(<<p>> \o s)
<1> DEFINE q == <<p>> \o s
<1>1. /\ q \in Seq(S) /\ DOMAIN q = 1 .. Len(s) + 1 /\ DOMAIN s = 1 .. Len(s) /\ Len(s) \in Nat
      /\ q[1] = p /\ \A i \in DOMAIN s : i + 1 \in DOMAIN q /\ q[i + 1] = s[i]
    OBVIOUS
<1>2. ASSUME NEW j \in DOMAIN q, j # 1
      PROVE  j - 1 \in DOMAIN s /\ q[j] = s[j - 1]
    <2>1. j \in 1 .. Len(s) + 1
        BY <1>1
    <2>2. j - 1 \in 1 .. Len(s) /\ (j - 1) + 1 = j
        BY <1>1, <1>2, <2>1
    <2> QED
        BY <1>1, <2>2
<1> HIDE DEF q
<1>3. Range(q) = Range(s) \cup {p}
    <2>1. Range(q) \subseteq Range(s) \cup {p}
        BY <1>1, <1>2 DEF Range
    <2>2. Range(s) \subseteq Range(q)
        <3> SUFFICES ASSUME NEW i \in DOMAIN s
                     PROVE  s[i] \in Range(q)
            BY DEF Range
        <3> QED
            BY <1>1 DEF Range
    <2>3. p \in Range(q)
        <3>1. 1 \in DOMAIN q
            BY <1>1
        <3> QED
            BY <1>1, <3>1 DEF Range
    <2> QED
        BY <2>1, <2>2, <2>3
<1>4. IsInjective(q)
    <2> SUFFICES ASSUME NEW i \in DOMAIN q, NEW j \in DOMAIN q, q[i] = q[j]
                 PROVE  i = j
        BY DEF IsInjective
    <2>1. \A k \in DOMAIN s : s[k] # p
        BY DEF Range
    <2>2. i = 1 <=> j = 1
        BY <1>1, <1>2, <2>1
    <2>3. CASE i # 1 /\ j # 1
        <3>1. i - 1 = j - 1
            BY <1>2, <2>3 DEF IsInjective
        <3> QED
            BY <1>1, <3>1
    <2> QED
        BY <2>2, <2>3
<1> QED
    BY <1>1, <1>3, <1>4 DEF q

(* The top of a stack is taken. *)
LEMMA Pop ==
    ASSUME NEW S, NEW s \in Seq(S), IsInjective(s), s # <<>>
    PROVE  /\ Head(s) \in S /\ Head(s) \in Range(s)
           /\ Tail(s) \in Seq(S)
           /\ Range(Tail(s)) = Range(s) \ {Head(s)}
           /\ IsInjective(Tail(s))
<1> DEFINE q == Tail(s)
           p == Head(s)
<1>1. /\ q \in Seq(S) /\ DOMAIN s = 1 .. Len(s) /\ Len(s) \in Nat \ {0}
      /\ DOMAIN q = 1 .. Len(s) - 1 /\ p = s[1]
      /\ \A i \in DOMAIN q : i + 1 \in DOMAIN s /\ q[i] = s[i + 1]
    OBVIOUS
<1>2. 1 \in DOMAIN s /\ p \in S
    BY <1>1
<1>3. ASSUME NEW j \in DOMAIN s, j # 1
      PROVE  j - 1 \in DOMAIN q /\ s[j] = q[j - 1]
    <2>1. j \in 1 .. Len(s)
        BY <1>1
    <2>2. j - 1 \in 1 .. Len(s) - 1 /\ (j - 1) + 1 = j
        BY <1>1, <1>3, <2>1
    <2> QED
        BY <1>1, <2>2
<1> HIDE DEF q, p
<1>4. p \in Range(s)
    BY <1>1, <1>2 DEF Range
<1>5. Range(q) \subseteq Range(s) \ {p}
    <2> SUFFICES ASSUME NEW i \in DOMAIN q
                 PROVE  q[i] \in Range(s) \ {p}
        BY DEF Range
    <2>1. i + 1 \in DOMAIN s /\ q[i] = s[i + 1] /\ i + 1 # 1
        BY <1>1
    <2>2. s[i + 1] # s[1]
        BY <1>2, <2>1 DEF IsInjective
    <2> QED
        BY <1>1, <2>1, <2>2 DEF Range
<1>6. Range(s) \ {p} \subseteq Range(q)
    <2> SUFFICES ASSUME NEW j \in DOMAIN s, s[j] # p
                 PROVE  s[j] \in Range(q)
        BY DEF Range
    <2> QED
        BY <1>1, <1>3 DEF Range
<1>7. IsInjective(q)
    <2> SUFFICES ASSUME NEW i \in DOMAIN q, NEW j \in DOMAIN q, q[i] = q[j]
                 PROVE  i = j
        BY DEF IsInjective
    <2>1. i + 1 = j + 1
        BY <1>1 DEF IsInjective
    <2> QED
        BY <1>1, <2>1
<1> QED
    BY <1>1, <1>2, <1>4, <1>5, <1>6, <1>7 DEF q, p

-----------------------------------------------------------------------------
(* memory_mgr. *)

HeapTypes ==
    /\ size \in Seq(Sizes)
    /\ cache \in [Sizes -> Seq(Nat \ {0})]
    /\ ring \in [Slots -> Nat] /\ ringIndex \in Slots

HeapInv == HeapTypes /\ BlocksHaveOnePlace

(* Blocks are counted from 1. *)
LEMMA BlocksFacts ==
    ASSUME HeapTypes
    PROVE  /\ Blocks = 1 .. Len(size) /\ Len(size) \in Nat
           /\ Blocks \subseteq Nat \ {0}
           /\ \A p \in Blocks : size[p] \in Sizes
           /\ ringIndex \in Nat /\ Slots \subseteq Nat
    BY DEF HeapTypes, Blocks, Slots

(* A block that was nowhere in the caches is put in that of its size. *)
LEMMA Caching ==
    ASSUME HeapInv, NEW p \in Blocks, p \notin Cached, cache' = ToCache(p), size' = size
    PROVE  /\ cache' \in [Sizes -> Seq(Nat \ {0})]
           /\ Cached' = Cached \cup {p}
           /\ \A s \in Sizes :
                  IsInjective(cache'[s]) /\ \A q \in Range(cache'[s]) : size'[q] = s
<1>1. cache \in [Sizes -> Seq(Nat \ {0})] /\ size[p] \in Sizes /\ p \in Nat \ {0}
    BY BlocksFacts DEF HeapInv, HeapTypes
<1>2. \A s \in Sizes : IsInjective(cache[s]) /\ \A q \in Range(cache[s]) : size[q] = s
    BY DEF HeapInv, BlocksHaveOnePlace
<1>3. p \notin Range(cache[size[p]])
    BY <1>1 DEF Cached
<1>4. /\ <<p>> \o cache[size[p]] \in Seq(Nat \ {0})
      /\ Range(<<p>> \o cache[size[p]]) = Range(cache[size[p]]) \cup {p}
      /\ IsInjective(<<p>> \o cache[size[p]])
    BY <1>1, <1>2, <1>3, Push
<1>5. \A s \in Sizes : cache'[s] = IF s = size[p] THEN <<p>> \o cache[size[p]] ELSE cache[s]
    BY <1>1 DEF ToCache
<1>6. \A s \in Sizes : Range(cache'[s]) =
          IF s = size[p] THEN Range(cache[s]) \cup {p} ELSE Range(cache[s])
    BY <1>4, <1>5
<1>7. Cached' = Cached \cup {p}
    <2>1. Cached' = UNION {Range(cache'[s]) : s \in Sizes}
        BY DEF Cached
    <2>2. \A q : q \in Cached' <=> \E s \in Sizes : q \in Range(cache'[s])
        BY <2>1
    <2>3. \A q : q \in Cached <=> \E s \in Sizes : q \in Range(cache[s])
        BY DEF Cached
    <2>4. ASSUME NEW q, q \in Cached'
          PROVE  q \in Cached \cup {p}
        <3>1. PICK s \in Sizes : q \in Range(cache'[s])
            BY <2>2, <2>4
        <3>2. q \in Range(cache[s]) \/ q = p
            BY <1>6, <3>1
        <3> QED
            BY <2>3, <3>2
    <2>5. ASSUME NEW q, q \in Cached
          PROVE  q \in Cached'
        <3>1. PICK s \in Sizes : q \in Range(cache[s])
            BY <2>3, <2>5
        <3>2. q \in Range(cache'[s])
            BY <1>6, <3>1
        <3> QED
            BY <2>2, <3>2
    <2>6. p \in Cached'
        <3>1. p \in Range(cache'[size[p]])
            BY <1>1, <1>6
        <3> QED
            BY <1>1, <2>2, <3>1
    <2> QED
        BY <2>4, <2>5, <2>6
<1>8. cache' \in [Sizes -> Seq(Nat \ {0})]
    BY <1>1, <1>4 DEF ToCache
<1>9. ASSUME NEW s \in Sizes
      PROVE  IsInjective(cache'[s]) /\ \A q \in Range(cache'[s]) : size'[q] = s
    BY <1>2, <1>4, <1>5, <1>6
<1> QED
    BY <1>7, <1>8, <1>9

(* The block freed last is taken out of the cache of its size.             *)
LEMMA Uncaching ==
    ASSUME HeapInv, NEW s \in Sizes, cache[s] # <<>>,
           cache' = [cache EXCEPT ![s] = Tail(@)], size' = size
    PROVE  /\ Head(cache[s]) \in Cached
           /\ cache' \in [Sizes -> Seq(Nat \ {0})]
           /\ Cached' = Cached \ {Head(cache[s])}
           /\ \A z \in Sizes :
                  IsInjective(cache'[z]) /\ \A q \in Range(cache'[z]) : size'[q] = z
<1> DEFINE p == Head(cache[s])
<1>1. cache \in [Sizes -> Seq(Nat \ {0})]
    BY DEF HeapInv, HeapTypes
<1>2. \A z \in Sizes : IsInjective(cache[z]) /\ \A q \in Range(cache[z]) : size[q] = z
    BY DEF HeapInv, BlocksHaveOnePlace
<1>3. /\ p \in Range(cache[s])
      /\ Tail(cache[s]) \in Seq(Nat \ {0})
      /\ Range(Tail(cache[s])) = Range(cache[s]) \ {p}
      /\ IsInjective(Tail(cache[s]))
    BY <1>1, <1>2, Pop
<1>4. \A z \in Sizes : cache'[z] = IF z = s THEN Tail(cache[s]) ELSE cache[z]
    BY <1>1
<1> HIDE DEF p
<1>5. /\ Range(cache'[s]) = Range(cache[s]) \ {p}
      /\ \A z \in Sizes \ {s} : Range(cache'[z]) = Range(cache[z])
    BY <1>3, <1>4
<1>6. \A z \in Sizes \ {s} : p \notin Range(cache[z])
    BY <1>2, <1>3
<1>7. Cached' = Cached \ {p}
    <2>1. Cached' = UNION {Range(cache'[z]) : z \in Sizes}
        BY DEF Cached
    <2>2. \A q : q \in Cached' <=> \E z \in Sizes : q \in Range(cache'[z])
        BY <2>1
    <2>3. \A q : q \in Cached <=> \E z \in Sizes : q \in Range(cache[z])
        BY DEF Cached
    <2>4. ASSUME NEW q, q \in Cached'
          PROVE  q \in Cached \ {p}
        <3>1. PICK z \in Sizes : q \in Range(cache'[z])
            BY <2>2, <2>4
        <3>2. q \in Range(cache[z]) /\ q # p
            <4>1. CASE z = s
                BY <1>5, <3>1, <4>1
            <4>2. CASE z # s
                BY <1>5, <1>6, <3>1, <4>2
            <4> QED
                BY <4>1, <4>2
        <3> QED
            BY <2>3, <3>2
    <2>5. ASSUME NEW q, q \in Cached \ {p}
          PROVE  q \in Cached'
        <3>1. PICK z \in Sizes : q \in Range(cache[z])
            BY <2>3, <2>5
        <3>2. q \in Range(cache'[z])
            <4>1. CASE z = s
                BY <1>5, <2>5, <3>1, <4>1
            <4>2. CASE z # s
                BY <1>5, <3>1, <4>2
            <4> QED
                BY <4>1, <4>2
        <3> QED
            BY <2>2, <3>2
    <2> QED
        BY <2>4, <2>5
<1>8. cache' \in [Sizes -> Seq(Nat \ {0})]
    BY <1>1, <1>3
<1>9. ASSUME NEW z \in Sizes
      PROVE  IsInjective(cache'[z]) /\ \A q \in Range(cache'[z]) : size'[q] = z
    BY <1>2, <1>3, <1>4, <1>5
<1>10. p \in Cached
    BY <1>3 DEF Cached
<1> QED
    BY <1>7, <1>8, <1>9, <1>10 DEF p

(* Steps that leave the heap alone. *)
LEMMA HeapStutters ==
    ASSUME HeapInv, UNCHANGED memory
    PROVE  HeapInv'
<1>1. /\ size' = size /\ allocs' = allocs /\ cache' = cache /\ ring' = ring
      /\ ringIndex' = ringIndex
    BY DEF memory
<1>2. HeapTypes'
    BY <1>1 DEF HeapInv, HeapTypes
<1>3. Cached' = Cached /\ Deferred' = Deferred /\ Blocks' = Blocks
    BY <1>1 DEF Cached, Deferred, Blocks
<1> QED
    BY <1>1, <1>2, <1>3 DEF HeapInv, BlocksHaveOnePlace

(* alloc hands out a block that nobody has. *)
LEMMA AllocKeeps ==
    ASSUME HeapInv, NEW s \in Sizes, Alloc(s)
    PROVE  HeapInv'
<1>1. /\ ring' = ring /\ ringIndex' = ringIndex /\ Deferred' = Deferred
      /\ allocs \cap Cached = {} /\ allocs \cap Deferred = {} /\ Cached \cap Deferred = {}
      /\ allocs \cup Cached \cup Deferred = Blocks
    BY DEF Alloc, Deferred, HeapInv, BlocksHaveOnePlace
<1>2. \A i, j \in Slots \ {ringIndex} : ring[i] = ring[j] => i = j \/ ring[i] = NoBlock
    BY DEF HeapInv, BlocksHaveOnePlace
<1>3. CASE cache[s] # <<>>
    <2> DEFINE p == Head(cache[s])
    <2>1. /\ allocs' = allocs \cup {p} /\ cache' = [cache EXCEPT ![s] = Tail(@)]
          /\ size' = size /\ Blocks' = Blocks
        BY <1>3 DEF Alloc, Blocks
    <2>2. /\ p \in Cached
          /\ cache' \in [Sizes -> Seq(Nat \ {0})]
          /\ Cached' = Cached \ {p}
          /\ \A z \in Sizes :
                 IsInjective(cache'[z]) /\ \A q \in Range(cache'[z]) : size'[q] = z
        BY <1>3, <2>1, Uncaching
    <2> HIDE DEF p
    <2>3. HeapTypes'
        BY <1>1, <2>1, <2>2 DEF HeapInv, HeapTypes
    <2> QED
        BY <1>1, <1>2, <2>1, <2>2, <2>3 DEF HeapInv, BlocksHaveOnePlace
<1>4. CASE cache[s] = <<>>
    <2> DEFINE p == Len(size')
    <2>1. /\ allocs' = allocs \cup {p} /\ cache' = cache /\ size' = Append(size, s)
        BY <1>4 DEF Alloc
    <2>2. /\ Blocks = 1 .. Len(size) /\ Len(size) \in Nat /\ size \in Seq(Sizes)
        BY BlocksFacts DEF HeapInv, HeapTypes
    <2>3. size' \in Seq(Sizes) /\ p = Len(size) + 1 /\ \A q \in Blocks : size'[q] = size[q]
        BY <2>1, <2>2
    <2>4. Blocks' = 1 .. p
        BY <2>3 DEF Blocks
    <2> HIDE DEF p
    <2>5. p \notin Blocks /\ Blocks' = Blocks \cup {p}
        BY <2>2, <2>3, <2>4
    <2>6. Cached' = Cached /\ \A z \in Sizes : Range(cache[z]) \subseteq Cached
        BY <2>1 DEF Cached
    <2>7. \A z \in Sizes :
              IsInjective(cache'[z]) /\ \A q \in Range(cache'[z]) : size'[q] = z
        BY <1>1, <2>1, <2>3, <2>6 DEF HeapInv, BlocksHaveOnePlace
    <2>8. HeapTypes'
        BY <1>1, <2>1, <2>3 DEF HeapInv, HeapTypes
    <2> QED
        BY <1>1, <1>2, <2>1, <2>5, <2>6, <2>7, <2>8 DEF HeapInv, BlocksHaveOnePlace
<1> QED
    BY <1>3, <1>4

(* The slot after the one at the index, which may be the same. *)
LEMMA NextSlot ==
    ASSUME HeapTypes
    PROVE  (ringIndex + 1) % DeferredCount \in Slots
    BY MemoryAssumption DEF HeapTypes, Slots

(* A free puts the block in the cache or in the ring, and the oldest block *)
(* of the ring in the cache.                                               *)
LEMMA FreeKeeps ==
    ASSUME HeapInv, NEW p \in Blocks, NEW defer \in BOOLEAN, Free(p, defer)
    PROVE  HeapInv'
<1>1. /\ allocs \cap Cached = {} /\ allocs \cap Deferred = {} /\ Cached \cap Deferred = {}
      /\ allocs \cup Cached \cup Deferred = Blocks
      /\ \A i, j \in Slots \ {ringIndex} : ring[i] = ring[j] => i = j \/ ring[i] = NoBlock
    BY DEF HeapInv, BlocksHaveOnePlace
<1>2. CASE p \notin allocs
    <2>1. UNCHANGED memory
        BY <1>2 DEF Free
    <2> QED
        BY <2>1, HeapStutters
<1>3. CASE p \in allocs /\ ~ defer
    <2>1. /\ allocs' = allocs \ {p} /\ cache' = ToCache(p)
          /\ UNCHANGED <<ring, ringIndex, size>> /\ Deferred' = Deferred /\ Blocks' = Blocks
        BY <1>3 DEF Free, Deferred, Blocks
    <2>2. p \notin Cached
        BY <1>1, <1>3
    <2>3. /\ cache' \in [Sizes -> Seq(Nat \ {0})]
          /\ Cached' = Cached \cup {p}
          /\ \A s \in Sizes :
                 IsInjective(cache'[s]) /\ \A q \in Range(cache'[s]) : size'[q] = s
        BY <2>1, <2>2, Caching
    <2>4. HeapTypes'
        BY <2>1, <2>3 DEF HeapInv, HeapTypes
    <2> QED
        BY <1>1, <1>3, <2>1, <2>3, <2>4 DEF HeapInv, BlocksHaveOnePlace
<1>4. CASE p \in allocs /\ defer
    <2> DEFINE next == (ringIndex + 1) % DeferredCount
               old == ring'[next]
    <2>1. /\ allocs' = allocs \ {p} /\ size' = size /\ Blocks' = Blocks
          /\ ring' = [ring EXCEPT ![ringIndex] = p] /\ ringIndex' = next
          /\ cache' = IF old = NoBlock THEN cache ELSE ToCache(old)
        BY <1>4 DEF Free, Defer, Blocks
    <2>2. next \in Slots /\ ringIndex \in Slots /\ ring \in [Slots -> Nat]
          /\ p \in Nat \ {0} /\ Blocks \subseteq Nat \ {0}
        BY NextSlot, BlocksFacts DEF HeapInv, HeapTypes
    <2>3. ring' \in [Slots -> Nat] /\ ring'[ringIndex] = p
          /\ \A i \in Slots \ {ringIndex} : ring'[i] = ring[i]
        BY <2>1, <2>2
    <2>4. \A b : b \in Deferred' <=>
              b # NoBlock /\ \E i \in Slots \ {next} : ring'[i] = b
        BY <2>1 DEF Deferred
    <2>5. \A b : b \in Deferred <=>
              b # NoBlock /\ \E i \in Slots \ {ringIndex} : ring[i] = b
        BY DEF Deferred
    <2> HIDE DEF next
    <2>6. p # NoBlock /\ p \notin Deferred /\ p \notin Cached
        BY <1>1, <1>4, <2>2 DEF NoBlock
    <2>7. old = NoBlock \/ old \in Deferred \/ old = p
        BY <2>2, <2>3, <2>5
    <2>8. \A i, j \in Slots : ring'[i] = ring'[j] => i = j \/ ring'[i] = NoBlock
        BY <1>1, <2>2, <2>3, <2>5, <2>6
    <2>9. Deferred' = (Deferred \cup {p}) \ {old}
        <3>1. \A b : b \in Deferred \cup {p} <=> b # NoBlock /\ \E i \in Slots : ring'[i] = b
            BY <2>2, <2>3, <2>5, <2>6
        <3>2. ASSUME NEW b, b \in Deferred'
              PROVE  b \in (Deferred \cup {p}) \ {old}
            BY <2>2, <2>4, <2>8, <3>1, <3>2
        <3>3. ASSUME NEW b, b \in (Deferred \cup {p}) \ {old}
              PROVE  b \in Deferred'
            BY <2>4, <3>1, <3>3
        <3> QED
            BY <3>2, <3>3
    <2>10. /\ cache' \in [Sizes -> Seq(Nat \ {0})]
           /\ Cached' = Cached \cup ({old} \ {NoBlock})
           /\ \A s \in Sizes :
                  IsInjective(cache'[s]) /\ \A q \in Range(cache'[s]) : size'[q] = s
        <3>1. CASE old = NoBlock
            <4>1. cache' = cache /\ Cached' = Cached
                BY <2>1, <3>1 DEF Cached
            <4> QED
                BY <2>1, <3>1, <4>1 DEF HeapInv, HeapTypes, BlocksHaveOnePlace
        <3>2. CASE old # NoBlock
            <4>1. PICK o : o = old
                OBVIOUS
            <4>2. o \in Blocks /\ o \notin Cached /\ cache' = ToCache(o)
                BY <1>1, <2>1, <2>6, <2>7, <3>2, <4>1
            <4>3. /\ cache' \in [Sizes -> Seq(Nat \ {0})]
                  /\ Cached' = Cached \cup {o}
                  /\ \A s \in Sizes :
                         IsInjective(cache'[s]) /\ \A q \in Range(cache'[s]) : size'[q] = s
                BY <2>1, <4>2, Caching
            <4> QED
                BY <3>2, <4>1, <4>3
        <3> QED
            BY <3>1, <3>2
    <2> HIDE DEF old
    <2>11. HeapTypes'
        BY <2>1, <2>2, <2>3, <2>10 DEF HeapInv, HeapTypes
    <2>12. /\ (allocs \cap Cached = {} /\ allocs \cap Deferred = {} /\ Cached \cap Deferred = {})'
           /\ (allocs \cup Cached \cup Deferred = Blocks)'
        <3>1. NoBlock \notin Deferred
            BY <2>5
        <3> QED
            BY <1>1, <1>4, <2>1, <2>6, <2>7, <2>9, <2>10, <3>1
    <2> QED
        BY <2>8, <2>10, <2>11, <2>12 DEF HeapInv, BlocksHaveOnePlace
<1> QED
    BY <1>2, <1>3, <1>4

(* The heap of a new context is empty. *)
LEMMA HeapInitial == MemoryInit => HeapInv
<1> SUFFICES ASSUME MemoryInit
             PROVE  HeapInv
    OBVIOUS
<1>1. HeapTypes
    BY MemoryAssumption DEF MemoryInit, HeapTypes, Slots, NoBlock
<1>2. /\ \A s \in Sizes : cache[s] = <<>> /\ DOMAIN cache[s] = {}
      /\ Blocks = {} /\ Deferred = {} /\ allocs = {}
      /\ \A i \in Slots : ring[i] = NoBlock
    BY DEF MemoryInit, Blocks, Deferred
<1>3. /\ \A s \in Sizes : Range(cache[s]) = {} /\ IsInjective(cache[s])
    BY <1>2 DEF Range, IsInjective
<1>4. Cached = {}
    BY <1>3 DEF Cached
<1> QED
    BY <1>1, <1>2, <1>3, <1>4 DEF HeapInv, BlocksHaveOnePlace

-----------------------------------------------------------------------------
(* Handles. *)

Having == {h \in Handles : impl[h] # NoBlock}

HandleTypes ==
    /\ impl \in [Handles -> Nat]
    /\ freelist \in Seq(Nat \ {0})
    /\ slabs \in Nat /\ allocCount \in Int
    /\ IsFiniteSet(Having)

HandleInv == HandleTypes /\ HandlesHaveTheirOwn

(* The elements of the slab that handles have. *)
Held == {impl[h] : h \in Handles} \ {NoBlock}

(* What slab_allocator::alloc takes from: the free list, or a new batch    *)
(* that nobody has.                                                        *)
LEMMA ListFacts ==
    ASSUME HandleInv, NEW h \in Handles, impl[h] = NoBlock, SlabAlloc(h)
    PROVE  \E list \in Seq(Nat \ {0}) :
              /\ list # <<>> /\ IsInjective(list)
              /\ Range(list) \cap Held = {}
              /\ Range(list) \cup Held = 1 .. slabs' /\ slabs' \in Nat
              /\ impl' = [impl EXCEPT ![h] = Head(list)]
              /\ freelist' = Tail(list)
              /\ allocCount' = allocCount + 1
<1>1. /\ freelist \in Seq(Nat \ {0}) /\ slabs \in Nat /\ IsInjective(freelist)
      /\ Range(freelist) \cap Held = {} /\ Range(freelist) \cup Held = 1 .. slabs
    BY DEF HandleInv, HandleTypes, HandlesHaveTheirOwn, Held
<1>2. CASE freelist # <<>>
    BY <1>1, <1>2 DEF SlabAlloc
<1>3. CASE freelist = <<>>
    <2> DEFINE list == [i \in 1 .. BatchSize |-> slabs + BatchSize + 1 - i]
    <2>1. /\ slabs' = slabs + BatchSize /\ impl' = [impl EXCEPT ![h] = Head(list)]
          /\ freelist' = Tail(list) /\ allocCount' = allocCount + 1
        BY <1>3 DEF SlabAlloc
    <2>2. /\ DOMAIN list = 1 .. BatchSize /\ BatchSize = 2
          /\ list[1] = slabs + 2 /\ list[2] = slabs + 1
        BY <1>1 DEF BatchSize
    <2>3. list \in Seq(Nat \ {0}) /\ list # <<>>
        <3>1. \A i \in 1 .. 2 : slabs + 2 + 1 - i \in Nat \ {0}
            BY <1>1
        <3>2. list \in [1 .. 2 -> Nat \ {0}] /\ 2 \in Nat
            BY <3>1 DEF BatchSize
        <3> HIDE DEF list
        <3>3. list \in Seq(Nat \ {0})
            BY <3>2, SeqDef
        <3>4. 1 \in DOMAIN list
            BY <3>2
        <3> QED
            BY <3>3, <3>4
    <2> HIDE DEF list
    <2>4. DOMAIN list = {1, 2}
        BY <2>2
    <2>5. IsInjective(list) /\ Range(list) = {slabs + 1, slabs + 2}
        BY <1>1, <2>2, <2>4 DEF IsInjective, Range
    <2>6. Range(freelist) = {}
        BY <1>3 DEF Range
    <2>7. Held = 1 .. slabs
        BY <1>1, <2>6
    <2>8. Range(list) \cap Held = {} /\ Range(list) \cup Held = 1 .. slabs'
        BY <1>1, <2>1, <2>2, <2>5, <2>7
    <2>9. slabs' \in Nat
        BY <1>1, <2>1 DEF BatchSize
    <2> QED
        BY <2>1, <2>3, <2>5, <2>8, <2>9
<1> QED
    BY <1>2, <1>3

(* init takes an element that nobody has. *)
LEMMA InitHandleKeeps ==
    ASSUME HandleInv, NEW h \in Handles, impl[h] = NoBlock, SlabAlloc(h)
    PROVE  HandleInv'
<1>1. PICK list \in Seq(Nat \ {0}) :
          /\ list # <<>> /\ IsInjective(list)
          /\ Range(list) \cap Held = {}
          /\ Range(list) \cup Held = 1 .. slabs' /\ slabs' \in Nat
          /\ impl' = [impl EXCEPT ![h] = Head(list)]
          /\ freelist' = Tail(list)
          /\ allocCount' = allocCount + 1
    BY ListFacts
<1> DEFINE e == Head(list)
<1>2. /\ e \in Nat \ {0} /\ e \in Range(list)
      /\ freelist' \in Seq(Nat \ {0})
      /\ Range(freelist') = Range(list) \ {e}
      /\ IsInjective(freelist')
    BY <1>1, Pop
<1> HIDE DEF e
<1>3. /\ impl \in [Handles -> Nat] /\ allocCount \in Int /\ IsFiniteSet(Having)
      /\ \A g, k \in Handles : impl[g] = impl[k] => g = k \/ impl[g] = NoBlock
      /\ allocCount = Cardinality(Having)
    BY DEF HandleInv, HandleTypes, HandlesHaveTheirOwn, Having
<1>4. impl' \in [Handles -> Nat] /\ impl'[h] = e /\ \A g \in Handles \ {h} : impl'[g] = impl[g]
    BY <1>1, <1>2, <1>3 DEF e
<1>5. e # NoBlock /\ e \notin Held
    BY <1>1, <1>2 DEF NoBlock
<1>6. Held' = Held \cup {e}
    <2>1. \A x : x \in Held' <=> x # NoBlock /\ \E g \in Handles : impl'[g] = x
        BY DEF Held
    <2>2. \A x : x \in Held <=> x # NoBlock /\ \E g \in Handles : impl[g] = x
        BY DEF Held
    <2> QED
        BY <1>4, <1>5, <2>1, <2>2
<1>7. Having' = Having \cup {h} /\ h \notin Having
    BY <1>4, <1>5 DEF Having
<1>8. IsFiniteSet(Having') /\ allocCount' = Cardinality(Having') /\ allocCount' \in Int
    BY <1>1, <1>3, <1>7, FS_AddElement
<1>9. \A g \in Handles : impl[g] \in Held \/ impl[g] = NoBlock
    BY DEF Held
<1>10. \A g, k \in Handles : impl'[g] = impl'[k] => g = k \/ impl'[g] = NoBlock
    BY <1>3, <1>4, <1>5, <1>9
<1>11. /\ Range(freelist') \cup Held' = 1 .. slabs'
       /\ Range(freelist') \cap Held' = {}
    BY <1>1, <1>2, <1>5, <1>6
<1>12. \A g \in Handles : impl'[g] \notin Range(freelist')
    <2>1. \A g \in Handles : impl'[g] \in Held' \/ impl'[g] = NoBlock
        BY DEF Held
    <2>2. NoBlock \notin 1 .. slabs'
        BY <1>1 DEF NoBlock
    <2> QED
        BY <1>11, <2>1, <2>2
<1> QED
    BY <1>1, <1>2, <1>4, <1>8, <1>10, <1>11, <1>12
    DEF HandleInv, HandleTypes, HandlesHaveTheirOwn, Having, Held

(* deinit gives back what the handle had. *)
LEMMA DeinitHandleKeeps ==
    ASSUME HandleInv, NEW h \in Handles, impl[h] # NoBlock, DeinitHandle(h)
    PROVE  HandleInv'
<1> DEFINE e == impl[h]
<1>1. /\ freelist' = <<e>> \o freelist /\ allocCount' = allocCount - 1
      /\ impl' = [impl EXCEPT ![h] = NoBlock] /\ slabs' = slabs
    BY DEF DeinitHandle
<1>2. /\ impl \in [Handles -> Nat] /\ allocCount \in Int /\ IsFiniteSet(Having) /\ slabs \in Nat
      /\ freelist \in Seq(Nat \ {0}) /\ IsInjective(freelist)
      /\ \A g, k \in Handles : impl[g] = impl[k] => g = k \/ impl[g] = NoBlock
      /\ \A g \in Handles : impl[g] \notin Range(freelist)
      /\ Range(freelist) \cup Held = 1 .. slabs
      /\ allocCount = Cardinality(Having)
    BY DEF HandleInv, HandleTypes, HandlesHaveTheirOwn, Having, Held
<1>3. e \in Nat \ {0} /\ e \notin Range(freelist)
    BY <1>2 DEF NoBlock
<1>4. /\ freelist' \in Seq(Nat \ {0})
      /\ Range(freelist') = Range(freelist) \cup {e}
      /\ IsInjective(freelist')
    BY <1>1, <1>2, <1>3, Push
<1>5. impl' \in [Handles -> Nat] /\ impl'[h] = NoBlock
      /\ \A g \in Handles \ {h} : impl'[g] = impl[g] /\ impl[g] # e
    BY <1>1, <1>2 DEF NoBlock
<1>6. e \in Held /\ impl[h] = e
    BY DEF Held
<1> HIDE DEF e
<1>7. Held' = Held \ {e}
    <2>1. \A x : x \in Held' <=> x # NoBlock /\ \E g \in Handles : impl'[g] = x
        BY DEF Held
    <2>2. \A x : x \in Held <=> x # NoBlock /\ \E g \in Handles : impl[g] = x
        BY DEF Held
    <2> QED
        BY <1>5, <1>6, <2>1, <2>2
<1>8. Having' = Having \ {h} /\ h \in Having
    BY <1>5 DEF Having
<1>9. IsFiniteSet(Having') /\ allocCount' = Cardinality(Having') /\ allocCount' \in Int
    BY <1>1, <1>2, <1>8, FS_RemoveElement
<1>10. \A g, k \in Handles : impl'[g] = impl'[k] => g = k \/ impl'[g] = NoBlock
    BY <1>2, <1>5
<1>11. Range(freelist') \cup Held' = 1 .. slabs'
    BY <1>1, <1>2, <1>4, <1>6, <1>7
<1>12. \A g \in Handles : impl'[g] \notin Range(freelist')
    <2>1. NoBlock \notin Range(freelist')
        BY <1>2, <1>3, <1>4 DEF NoBlock
    <2> QED
        BY <1>2, <1>4, <1>5, <2>1
<1> QED
    BY <1>1, <1>2, <1>4, <1>5, <1>9, <1>10, <1>11, <1>12
    DEF HandleInv, HandleTypes, HandlesHaveTheirOwn, Having, Held

(* Steps that leave the handles alone. *)
LEMMA HandleStutters ==
    ASSUME HandleInv, UNCHANGED slab
    PROVE  HandleInv'
    BY DEF slab, HandleInv, HandleTypes, HandlesHaveTheirOwn, Having

(* A new slab allocator is empty. *)
LEMMA HandlesInitial == MemoryInit => HandleInv
<1> SUFFICES ASSUME MemoryInit
             PROVE  HandleInv
    OBVIOUS
<1>1. Having = {} /\ Held = {} /\ Range(freelist) = {} /\ 1 .. slabs = {}
    BY DEF MemoryInit, Having, Held, Range
<1>2. IsFiniteSet(Having) /\ Cardinality(Having) = 0
    BY <1>1, FS_EmptySet
<1>3. IsInjective(freelist) /\ freelist \in Seq(Nat \ {0})
    BY DEF MemoryInit, IsInjective
<1>4. HandleTypes
    BY <1>2, <1>3 DEF MemoryInit, HandleTypes, NoBlock
<1> QED
    BY <1>1, <1>2, <1>3, <1>4 DEF MemoryInit, HandleInv, HandlesHaveTheirOwn, Having, Held

-----------------------------------------------------------------------------
(* The theorem about the memory. *)

(* Every step of the heap or of a handle keeps both invariants.            *)
LEMMA MemoryStep ==
    HeapInv /\ HandleInv /\ [HeapNext \/ HandleNext]_memoryVars => (HeapInv /\ HandleInv)'
<1> SUFFICES ASSUME HeapInv, HandleInv, [HeapNext \/ HandleNext]_memoryVars
             PROVE  (HeapInv /\ HandleInv)'
    OBVIOUS
<1>1. ASSUME NEW s \in Sizes, Alloc(s)
      PROVE  (HeapInv /\ HandleInv)'
    BY <1>1, AllocKeeps, HandleStutters DEF Alloc
<1>2. ASSUME NEW p \in Blocks, NEW defer \in BOOLEAN, Free(p, defer)
      PROVE  (HeapInv /\ HandleInv)'
    <2>1. UNCHANGED slab
        BY <1>2 DEF Free
    <2> QED
        BY <1>2, <2>1, FreeKeeps, HandleStutters
<1>3. CASE CloseThreadHandle \/ LeakCheck
    BY <1>3, HeapStutters, HandleStutters DEF CloseThreadHandle, LeakCheck
<1>4. ASSUME NEW h \in Handles, InitHandle(h)
      PROVE  (HeapInv /\ HandleInv)'
    BY <1>4, HeapStutters, HandleStutters, InitHandleKeeps DEF InitHandle
<1>5. ASSUME NEW h \in Handles, DeinitHandle(h)
      PROVE  (HeapInv /\ HandleInv)'
    <2>1. UNCHANGED memory /\ (impl[h] = NoBlock => UNCHANGED slab)
        BY <1>5 DEF DeinitHandle
    <2> QED
        BY <1>5, <2>1, HeapStutters, HandleStutters, DeinitHandleKeeps
<1>6. ASSUME NEW h \in Handles, UseHandle(h)
      PROVE  (HeapInv /\ HandleInv)'
    BY <1>6, HeapStutters, HandleStutters DEF UseHandle
<1>7. CASE UNCHANGED memoryVars
    BY <1>7, HeapStutters, HandleStutters DEF memoryVars
<1> QED
    BY <1>1, <1>2, <1>3, <1>4, <1>5, <1>6, <1>7 DEF HeapNext, HandleNext

(* Nothing is handed out twice and nothing is lost. *)
THEOREM MemoryCorrect == MemorySpec => []MemoryHasOnePlace
<1>1. HeapInv /\ HandleInv => MemoryHasOnePlace
    BY DEF HeapInv, HandleInv, MemoryHasOnePlace
<1> QED
    BY <1>1, HeapInitial, HandlesInitial, MemoryStep, PTL DEF MemorySpec

-----------------------------------------------------------------------------
(* Thread locals. *)

Locals == [Threads -> Values \cup {0}]
Entries == [alive : BOOLEAN, value : Locals]

LocalTypes ==
    /\ entries \in Seq(Entries)
    /\ ctxSeq \in Nat \ {0}
    /\ varSeq \in [Vars -> Nat] /\ \A v \in Vars : varSeq[v] <= ctxSeq
    /\ index \in [Objects -> Int]
    /\ stored \in [Objects -> Locals]
    /\ DOMAIN destroyed = Keys

(* An object has an entry in this context. *)
Has(o) == IF o \in Vars THEN ~ Stale(o) ELSE index[o] # NoEntry

(* Each object has an entry of its own, which is alive and holds what the  *)
(* threads have set in this iteration; an object without an entry has not  *)
(* been set, unless it is a key that was deleted.                          *)
EntriesOwn ==
    /\ \A o \in Objects : Has(o) =>
           /\ index[o] \in DOMAIN entries
           /\ entries[index[o]].alive
           /\ entries[index[o]].value = stored[o]
    /\ \A v \in Vars : ~ Has(v) => stored[v] = Zeros
    /\ \A o, p \in Objects : Has(o) /\ Has(p) /\ index[o] = index[p] => o = p

(* The hashes are the numbers below hash_seq_, one for each address. *)
Used == {a \in Addresses : hash[a] # -1}
HashesCounted ==
    /\ hash \in [Addresses -> Int]
    /\ hashSeq \in Nat
    /\ IsFiniteSet(Used) /\ Cardinality(Used) = hashSeq
    /\ {hash[a] : a \in Used} = 0 .. hashSeq - 1

LocalInv ==
    /\ LocalTypes
    /\ EntriesOwn
    /\ ~ broken
    /\ DeletedKeyIsDestroyed
    /\ HashesCounted

(* Keys are no thread_local_vars, and static ones are no members. *)
LEMMA ObjectsFacts ==
    /\ Objects = Vars \cup Keys /\ Vars \cap Keys = {}
    /\ Zeros \in Locals
    /\ Statics \subseteq Vars /\ Members \subseteq Vars /\ Statics \cap Members = {}
BY ThreadLocalAssumption DEF Objects, Vars, Zeros, Locals

(* i is the entry of o in a list that has the entries of the other objects.*)
IsEntry(o, list, i) ==
    /\ list \in Seq(Entries)
    /\ i \in DOMAIN list
    /\ list[i].alive /\ list[i].value = stored[o]
    /\ \A p \in Objects \ {o} : Has(p) =>
           /\ index[p] \in DOMAIN list
           /\ list[index[p]] = entries[index[p]]
           /\ index[p] # i

(* A new entry at the end is one that nobody has. *)
LEMMA NewEntryFacts ==
    ASSUME LocalInv, NEW o \in Objects, NEW f \in Locals, f = Zeros
    PROVE  LET list == NewEntry(entries)
               i == Len(entries) + 1
           IN  /\ list \in Seq(Entries) /\ i \in DOMAIN list /\ i \in Nat \ {0}
               /\ list[i].alive /\ list[i].value = f
               /\ \A p \in Objects \ {o} : Has(p) =>
                      /\ index[p] \in DOMAIN list
                      /\ list[index[p]] = entries[index[p]]
                      /\ index[p] # i
<1> DEFINE e == [alive |-> TRUE, value |-> Zeros]
           list == Append(entries, e)
           i == Len(entries) + 1
<1>1. e \in Entries /\ e.alive /\ e.value = Zeros
    BY ObjectsFacts DEF Entries
<1> HIDE DEF e
<1>2. entries \in Seq(Entries)
    BY DEF LocalInv, LocalTypes
<1>3. /\ list \in Seq(Entries) /\ DOMAIN list = 1 .. i /\ i \in Nat \ {0}
      /\ DOMAIN entries = 1 .. i - 1
      /\ list[i] = e /\ \A j \in DOMAIN entries : list[j] = entries[j]
    BY <1>1, <1>2
<1>4. \A p \in Objects : Has(p) => index[p] \in DOMAIN entries
    BY DEF LocalInv, EntriesOwn
<1>5. list = NewEntry(entries)
    BY DEF NewEntry, e
<1> HIDE DEF list, i
<1>6. \A p \in Objects : Has(p) =>
          index[p] \in DOMAIN list /\ list[index[p]] = entries[index[p]] /\ index[p] # i
    <2> SUFFICES ASSUME NEW p \in Objects, Has(p)
                 PROVE  /\ index[p] \in DOMAIN list /\ list[index[p]] = entries[index[p]]
                        /\ index[p] # i
        OBVIOUS
    <2>1. index[p] \in DOMAIN entries /\ index[p] \in 1 .. i - 1
        BY <1>3, <1>4
    <2>2. index[p] \in 1 .. i /\ index[p] # i
        BY <1>3, <2>1
    <2> QED
        BY <1>3, <2>1, <2>2
<1>7. i \in DOMAIN list /\ list[i].alive /\ list[i].value = f
    BY <1>1, <1>3
<1> QED
    BY <1>3, <1>5, <1>6, <1>7 DEF i

(* The entry that a get or set of a variable uses. *)
LEMMA EntryOfVar ==
    ASSUME LocalInv, NEW v \in Vars
    PROVE  IsEntry(v, EntriesFor(v), IndexFor(v)) /\ IndexFor(v) \in Int
<1>1. v \in Objects
    BY ObjectsFacts
<1>2. CASE Stale(v)
    <2>1. stored[v] = Zeros /\ stored[v] \in Locals
        BY <1>1, <1>2 DEF LocalInv, EntriesOwn, Has, LocalTypes
    <2> QED
        BY <1>1, <1>2, <2>1, NewEntryFacts DEF IsEntry, EntriesFor, IndexFor
<1>3. CASE ~ Stale(v)
    <2>1. EntriesFor(v) = entries /\ IndexFor(v) = index[v] /\ Has(v)
        BY <1>3 DEF EntriesFor, IndexFor, Has
    <2> QED
        BY <1>1, <2>1 DEF IsEntry, LocalInv, EntriesOwn, LocalTypes
<1> QED
    BY <1>2, <1>3

(* The entry that a get or set of a key uses. *)
LEMMA EntryOfKey ==
    ASSUME LocalInv, NEW k \in Keys, index[k] # NoEntry
    PROVE  IsEntry(k, entries, index[k])
<1>1. k \in Objects /\ Has(k)
    BY ObjectsFacts DEF Has
<1> QED
    BY <1>1 DEF IsEntry, LocalInv, EntriesOwn, LocalTypes

(* A get or set finds the entry and leaves those of the others alone. *)
LEMMA AccessKeeps ==
    ASSUME LocalInv, NEW o \in Objects, NEW list, NEW i, IsEntry(o, list, i),
           \/ \E t \in Threads, x \in Values \cup {0} : SetEntry(list, i, o, t, x)
           \/ GetEntry(list, i),
           index'[o] = i, Has(o)',
           \A p \in Objects \ {o} : index'[p] = index[p] /\ (Has(p)' <=> Has(p))
    PROVE  /\ entries' \in Seq(Entries) /\ stored' \in [Objects -> Locals]
           /\ \A p \in Objects \ {o} : stored'[p] = stored[p]
           /\ EntriesOwn' /\ ~ broken'
<1>1. /\ stored \in [Objects -> Locals] /\ EntriesOwn /\ ~ broken
    BY DEF LocalInv, LocalTypes
<1>2. /\ list \in Seq(Entries) /\ i \in DOMAIN list
      /\ list[i].alive /\ list[i].value = stored[o] /\ list[i] \in Entries
      /\ \A p \in Objects \ {o} : Has(p) =>
             /\ index[p] \in DOMAIN list
             /\ list[index[p]] = entries[index[p]]
             /\ index[p] # i
    BY DEF IsEntry
<1>3. /\ entries' \in Seq(Entries) /\ DOMAIN entries' = DOMAIN list
      /\ stored' \in [Objects -> Locals]
      /\ \A p \in Objects \ {o} : stored'[p] = stored[p]
      /\ ~ broken'
      /\ entries'[i].alive /\ entries'[i].value = stored'[o]
      /\ \A j \in DOMAIN list \ {i} : entries'[j] = list[j]
    <2>1. ASSUME NEW t \in Threads, NEW x \in Values \cup {0}, SetEntry(list, i, o, t, x)
          PROVE  /\ entries' \in Seq(Entries) /\ DOMAIN entries' = DOMAIN list
                 /\ stored' \in [Objects -> Locals]
                 /\ \A p \in Objects \ {o} : stored'[p] = stored[p]
                 /\ ~ broken'
                 /\ entries'[i].alive /\ entries'[i].value = stored'[o]
                 /\ \A j \in DOMAIN list \ {i} : entries'[j] = list[j]
        <3>1. /\ entries' = [list EXCEPT ![i].value[t] = x]
              /\ stored' = [stored EXCEPT ![o][t] = x] /\ broken' = broken
            BY <1>2, <2>1 DEF SetEntry
        <3>2. [list[i] EXCEPT !.value[t] = x] \in Entries
              /\ [list[i] EXCEPT !.value[t] = x].alive
              /\ [list[i] EXCEPT !.value[t] = x].value = [stored[o] EXCEPT ![t] = x]
            BY <1>2 DEF Entries, Locals
        <3>3. /\ DOMAIN entries' = DOMAIN list
              /\ entries'[i] = [list[i] EXCEPT !.value[t] = x]
              /\ \A j \in DOMAIN list \ {i} : entries'[j] = list[j]
            BY <1>2, <3>1
        <3>4. entries' \in Seq(Entries)
            BY <1>2, <3>1, <3>2
        <3>5. /\ stored' \in [Objects -> Locals] /\ stored'[o] = [stored[o] EXCEPT ![t] = x]
              /\ \A p \in Objects \ {o} : stored'[p] = stored[p]
            BY <1>1, <3>1 DEF Locals
        <3> QED
            BY <1>1, <3>1, <3>2, <3>3, <3>4, <3>5
    <2>2. CASE GetEntry(list, i)
        <3>1. Alive(list, i)
            BY <1>2, ObjectsFacts DEF Alive, NoEntry
        <3> QED
            BY <1>1, <1>2, <2>2, <3>1 DEF GetEntry
    <2> QED
        BY <2>1, <2>2
<1>4. ASSUME NEW p \in Objects, Has(p)'
      PROVE  index'[p] \in DOMAIN entries' /\ entries'[index'[p]].alive
             /\ entries'[index'[p]].value = stored'[p]
             /\ (p # o => index'[p] # i)
    <2>1. CASE p = o
        BY <1>2, <1>3, <2>1
    <2>2. CASE p # o
        <3>1. Has(p) /\ index'[p] = index[p] /\ stored'[p] = stored[p]
            BY <1>3, <1>4, <2>2
        <3>2. /\ index[p] \in DOMAIN list /\ list[index[p]] = entries[index[p]] /\ index[p] # i
            BY <1>2, <2>2, <3>1
        <3>3. entries[index[p]].alive /\ entries[index[p]].value = stored[p]
            BY <1>1, <3>1 DEF EntriesOwn
        <3> QED
            BY <1>3, <3>1, <3>2, <3>3
    <2> QED
        BY <2>1, <2>2
<1>5. ASSUME NEW v \in Vars, ~ Has(v)'
      PROVE  stored'[v] = Zeros
    <2>1. v \in Objects \ {o}
        BY <1>5, ObjectsFacts
    <2>2. ~ Has(v) /\ stored'[v] = stored[v]
        BY <1>3, <1>5, <2>1
    <2> QED
        BY <1>1, <1>5, <2>2 DEF EntriesOwn
<1>6. ASSUME NEW p \in Objects, NEW q \in Objects, Has(p)', Has(q)', index'[p] = index'[q]
      PROVE  p = q
    <2>1. CASE p = o \/ q = o
        BY <1>4, <1>6, <2>1
    <2>2. CASE p # o /\ q # o
        BY <1>1, <1>6, <2>2 DEF EntriesOwn
    <2> QED
        BY <2>1, <2>2
<1>7. EntriesOwn'
    BY <1>4, <1>5, <1>6 DEF EntriesOwn
<1> QED
    BY <1>3, <1>7

(* The keys that are deleted have had their values destroyed, if only a    *)
(* key that is there changes.                                              *)
LEMMA KeysKept ==
    ASSUME DeletedKeyIsDestroyed, destroyed' = destroyed,
           \A k \in Keys : index'[k] = NoEntry => index[k] = NoEntry /\ stored'[k] = stored[k]
    PROVE  DeletedKeyIsDestroyed'
    BY DEF DeletedKeyIsDestroyed

(* Nothing happens to the hashes. *)
LEMMA HashesKept ==
    ASSUME HashesCounted, UNCHANGED <<hash, hashSeq>>
    PROVE  HashesCounted'
<1>1. Used' = Used
    BY DEF Used
<1> QED
    BY <1>1 DEF HashesCounted

(* get and set of a thread_local_var. *)
LEMMA VarKeeps ==
    ASSUME LocalInv, NEW v \in Vars,
           GetVar(v) \/ \E t \in Threads, x \in Values \cup {0} : SetVar(v, t, x)
    PROVE  LocalInv'
<1>1. /\ v \in Objects /\ IsEntry(v, EntriesFor(v), IndexFor(v)) /\ IndexFor(v) \in Int
      /\ WithEntry(v) /\ UNCHANGED <<ctxSeq, hash, hashSeq, destroyed>>
    BY EntryOfVar, ObjectsFacts DEF GetVar, SetVar
<1>2. /\ varSeq' = [varSeq EXCEPT ![v] = ctxSeq]
      /\ index' = [index EXCEPT ![v] = IndexFor(v)]
    BY <1>1 DEF WithEntry
<1>3. LocalTypes
    BY DEF LocalInv
<1>4. /\ varSeq' \in [Vars -> Nat] /\ (\A u \in Vars : varSeq'[u] <= ctxSeq)
      /\ index' \in [Objects -> Int] /\ index'[v] = IndexFor(v)
      /\ \A p \in Objects \ {v} : index'[p] = index[p]
      /\ varSeq'[v] = ctxSeq /\ \A u \in Vars \ {v} : varSeq'[u] = varSeq[u]
    BY <1>1, <1>2, <1>3 DEF LocalTypes
<1>5. Has(v)' /\ \A p \in Objects \ {v} : Has(p)' <=> Has(p)
    BY <1>1, <1>4 DEF Has, Stale
<1>6. \/ \E t \in Threads, x \in Values \cup {0} :
             SetEntry(EntriesFor(v), IndexFor(v), v, t, x)
      \/ GetEntry(EntriesFor(v), IndexFor(v))
    BY DEF GetVar, SetVar
<1> DEFINE list == EntriesFor(v)
           i == IndexFor(v)
<1>7. /\ IsEntry(v, list, i) /\ index'[v] = i
      /\ \/ \E t \in Threads, x \in Values \cup {0} : SetEntry(list, i, v, t, x)
         \/ GetEntry(list, i)
    BY <1>1, <1>4, <1>6
<1> HIDE DEF list, i
<1>8. /\ entries' \in Seq(Entries) /\ stored' \in [Objects -> Locals]
      /\ \A p \in Objects \ {v} : stored'[p] = stored[p]
      /\ EntriesOwn' /\ ~ broken'
    BY <1>1, <1>4, <1>5, <1>7, AccessKeeps
<1>9. LocalTypes'
    BY <1>1, <1>3, <1>4, <1>8 DEF LocalTypes
<1>10. DeletedKeyIsDestroyed'
    BY <1>1, <1>4, <1>8, KeysKept, ObjectsFacts DEF LocalInv
<1>11. HashesCounted'
    BY <1>1, HashesKept DEF LocalInv
<1> QED
    BY <1>8, <1>9, <1>10, <1>11 DEF LocalInv

(* get and set of a key. *)
LEMMA UseKeyKeeps ==
    ASSUME LocalInv, NEW k \in Keys, NEW t \in Threads, NEW x \in Values \cup {0},
           UseKey(k, t, x)
    PROVE  LocalInv'
<1>1. /\ k \in Objects /\ k \notin Vars /\ index[k] # NoEntry /\ IsEntry(k, entries, index[k])
      /\ SetEntry(entries, index[k], k, t, x) \/ GetEntry(entries, index[k])
      /\ UNCHANGED <<ctxSeq, varSeq, index, hash, hashSeq, destroyed>>
    BY EntryOfKey, ObjectsFacts DEF UseKey
<1>2. \A p \in Objects : Has(p)' <=> Has(p)
    BY <1>1 DEF Has, Stale
<1>3. Has(k)' /\ index'[k] = index[k]
    BY <1>1, <1>2 DEF Has
<1>4. PICK i : i = index[k]
    OBVIOUS
<1>5. /\ entries' \in Seq(Entries) /\ stored' \in [Objects -> Locals]
      /\ \A p \in Objects \ {k} : stored'[p] = stored[p]
      /\ EntriesOwn' /\ ~ broken'
    <2>1. /\ IsEntry(k, entries, i) /\ index'[k] = i
          /\ \/ \E u \in Threads, y \in Values \cup {0} : SetEntry(entries, i, k, u, y)
             \/ GetEntry(entries, i)
        BY <1>1, <1>4
    <2> QED
        BY <1>1, <1>2, <1>3, <2>1, AccessKeeps
<1>6. LocalTypes'
    BY <1>1, <1>5 DEF LocalInv, LocalTypes
<1>7. DeletedKeyIsDestroyed'
    BY <1>1, <1>5, KeysKept, ObjectsFacts DEF LocalInv
<1>8. HashesCounted'
    BY <1>1, HashesKept DEF LocalInv
<1> QED
    BY <1>5, <1>6, <1>7, <1>8 DEF LocalInv

(* A key is created: its entry is new. *)
LEMMA CreateKeyKeeps ==
    ASSUME LocalInv, NEW k \in Keys, CreateKey(k)
    PROVE  LocalInv'
<1> DEFINE list == NewEntry(entries)
           i == Len(entries) + 1
<1>1. /\ k \in Objects /\ k \notin Vars /\ Zeros \in Locals
      /\ index' = [index EXCEPT ![k] = i] /\ entries' = list
      /\ stored' = [stored EXCEPT ![k] = Zeros] /\ destroyed' = [destroyed EXCEPT ![k] = 0]
      /\ UNCHANGED <<ctxSeq, varSeq, hash, hashSeq, broken>>
    BY ObjectsFacts DEF CreateKey
<1>2. /\ list \in Seq(Entries) /\ i \in DOMAIN list /\ i \in Nat \ {0}
      /\ list[i].alive /\ list[i].value = Zeros
      /\ \A p \in Objects \ {k} : Has(p) =>
             /\ index[p] \in DOMAIN list
             /\ list[index[p]] = entries[index[p]]
             /\ index[p] # i
    BY <1>1, NewEntryFacts
<1> HIDE DEF list, i
<1>3. LocalTypes /\ EntriesOwn /\ ~ broken
    BY DEF LocalInv
<1>4. /\ index' \in [Objects -> Int] /\ stored' \in [Objects -> Locals]
      /\ index'[k] = i /\ stored'[k] = Zeros
      /\ \A p \in Objects \ {k} : index'[p] = index[p] /\ stored'[p] = stored[p]
    BY <1>1, <1>2, <1>3 DEF LocalTypes
<1>5. LocalTypes'
    BY <1>1, <1>2, <1>3, <1>4 DEF LocalTypes
<1>6. \A p \in Objects \ {k} : Has(p)' <=> Has(p)
    BY <1>1, <1>4 DEF Has, Stale
<1>7. EntriesOwn'
    <2>1. ASSUME NEW p \in Objects, Has(p)'
          PROVE  /\ index'[p] \in DOMAIN entries' /\ entries'[index'[p]].alive
                 /\ entries'[index'[p]].value = stored'[p]
                 /\ (p # k => index'[p] # i)
        <3>1. CASE p = k
            BY <1>1, <1>2, <1>4, <3>1
        <3>2. CASE p # k
            <4>1. Has(p) /\ index'[p] = index[p] /\ stored'[p] = stored[p]
                BY <1>4, <1>6, <2>1, <3>2
            <4>2. /\ index[p] \in DOMAIN list /\ list[index[p]] = entries[index[p]]
                  /\ index[p] # i
                BY <1>2, <3>2, <4>1
            <4>3. entries[index[p]].alive /\ entries[index[p]].value = stored[p]
                BY <1>3, <4>1 DEF EntriesOwn
            <4> QED
                BY <1>1, <4>1, <4>2, <4>3
        <3> QED
            BY <3>1, <3>2
    <2>2. ASSUME NEW v \in Vars, ~ Has(v)'
          PROVE  stored'[v] = Zeros
        <3>1. v \in Objects \ {k}
            BY <1>1, ObjectsFacts
        <3> QED
            BY <1>3, <1>4, <1>6, <2>2, <3>1 DEF EntriesOwn
    <2>3. ASSUME NEW p \in Objects, NEW q \in Objects, Has(p)', Has(q)', index'[p] = index'[q]
          PROVE  p = q
        <3>1. CASE p = k \/ q = k
            BY <1>4, <2>1, <2>3, <3>1
        <3>2. CASE p # k /\ q # k
            BY <1>3, <1>4, <1>6, <2>3, <3>2 DEF EntriesOwn
        <3> QED
            BY <3>1, <3>2
    <2> QED
        BY <2>1, <2>2, <2>3 DEF EntriesOwn
<1>8. DeletedKeyIsDestroyed'
    <2> SUFFICES ASSUME NEW j \in Keys, index'[j] = NoEntry
                 PROVE  destroyed'[j] = Cardinality({t \in Threads : stored'[j][t] # 0})
        BY DEF DeletedKeyIsDestroyed
    <2>1. j # k
        BY <1>2, <1>4 DEF NoEntry
    <2>2. j \in Objects /\ destroyed'[j] = destroyed[j]
        BY <1>1, <2>1, ObjectsFacts
    <2> QED
        BY <1>4, <2>1, <2>2 DEF LocalInv, DeletedKeyIsDestroyed
<1>9. HashesCounted'
    BY <1>1, HashesKept DEF LocalInv
<1> QED
    BY <1>1, <1>3, <1>5, <1>7, <1>8, <1>9 DEF LocalInv

(* A key is deleted: its values are destroyed. *)
LEMMA DeleteKeyKeeps ==
    ASSUME LocalInv, NEW k \in Keys, DeleteKey(k)
    PROVE  LocalInv'
<1> DEFINE i == index[k]
<1>1. /\ k \in Objects /\ k \notin Vars /\ index[k] # NoEntry /\ Has(k)
      /\ entries' = [entries EXCEPT ![i].alive = FALSE]
      /\ destroyed' = [destroyed EXCEPT ![k] = RunDtors(k)]
      /\ index' = [index EXCEPT ![k] = NoEntry]
      /\ UNCHANGED <<ctxSeq, varSeq, hash, hashSeq, stored, broken>>
    BY ObjectsFacts DEF DeleteKey, Has
<1>2. LocalTypes /\ EntriesOwn /\ ~ broken
    BY DEF LocalInv
<1>3. i \in DOMAIN entries /\ entries[i] \in Entries /\ entries[i].value = stored[k]
    BY <1>1, <1>2 DEF LocalTypes, EntriesOwn
<1>4. /\ entries' \in Seq(Entries) /\ DOMAIN entries' = DOMAIN entries
      /\ \A j \in DOMAIN entries \ {i} : entries'[j] = entries[j]
    <2>1. [entries[i] EXCEPT !.alive = FALSE] \in Entries
        BY <1>3 DEF Entries
    <2> QED
        BY <1>1, <1>2, <1>3, <2>1 DEF LocalTypes
<1>5. /\ index' \in [Objects -> Int] /\ index'[k] = NoEntry
      /\ \A p \in Objects \ {k} : index'[p] = index[p]
    BY <1>1, <1>2 DEF LocalTypes, NoEntry
<1>6. ~ Has(k)' /\ \A p \in Objects \ {k} : Has(p)' <=> Has(p)
    BY <1>1, <1>5 DEF Has, Stale
<1>7. LocalTypes'
    BY <1>1, <1>2, <1>4, <1>5 DEF LocalTypes
<1>8. EntriesOwn'
    <2>1. ASSUME NEW p \in Objects, Has(p)'
          PROVE  /\ p # k /\ Has(p) /\ index'[p] = index[p]
                 /\ index'[p] \in DOMAIN entries' /\ entries'[index'[p]].alive
                 /\ entries'[index'[p]].value = stored'[p]
        <3>1. p # k /\ Has(p) /\ index'[p] = index[p]
            BY <1>5, <1>6, <2>1
        <3>2. index[p] \in DOMAIN entries /\ index[p] # i
              /\ entries[index[p]].alive /\ entries[index[p]].value = stored[p]
            BY <1>1, <1>2, <3>1 DEF EntriesOwn
        <3> QED
            BY <1>1, <1>4, <3>1, <3>2
    <2>2. \A v \in Vars : v # k /\ v \in Objects
        BY <1>1, ObjectsFacts
    <2> QED
        BY <1>1, <1>2, <1>6, <2>1, <2>2 DEF EntriesOwn
<1>9. DeletedKeyIsDestroyed'
    <2> SUFFICES ASSUME NEW j \in Keys, index'[j] = NoEntry
                 PROVE  destroyed'[j] = Cardinality({t \in Threads : stored[j][t] # 0})
        BY <1>1 DEF DeletedKeyIsDestroyed
    <2>1. CASE j = k
        <3>1. destroyed'[j] = RunDtors(k)
            BY <1>1, <1>2, <2>1 DEF LocalTypes
        <3> QED
            BY <1>3, <2>1, <3>1 DEF RunDtors
    <2>2. CASE j # k
        <3>1. j \in Objects /\ destroyed'[j] = destroyed[j] /\ index[j] = NoEntry
            BY <1>1, <1>5, <2>2, ObjectsFacts
        <3> QED
            BY <3>1 DEF LocalInv, DeletedKeyIsDestroyed
    <2> QED
        BY <2>1, <2>2
<1>10. HashesCounted'
    BY <1>1, HashesKept DEF LocalInv
<1> QED
    BY <1>1, <1>2, <1>7, <1>8, <1>9, <1>10 DEF LocalInv

(* An address is hashed for the first time in the iteration. *)
LEMMA HashAddressKeeps ==
    ASSUME LocalInv, NEW a \in Addresses, HashAddress(a)
    PROVE  LocalInv'
<1>1. /\ hash[a] = -1 /\ hash' = [hash EXCEPT ![a] = hashSeq] /\ hashSeq' = hashSeq + 1
      /\ UNCHANGED <<entries, ctxSeq, varSeq, index, destroyed, stored, broken>>
    BY DEF HashAddress
<1>2. HashesCounted
    BY DEF LocalInv
<1>3. /\ hash' \in [Addresses -> Int] /\ hash'[a] = hashSeq /\ hashSeq \in Nat
      /\ \A b \in Addresses \ {a} : hash'[b] = hash[b]
    BY <1>1, <1>2 DEF HashesCounted
<1>4. Used' = Used \cup {a} /\ a \notin Used
    <2>1. hashSeq # -1
        BY <1>3
    <2> QED
        BY <1>1, <1>3, <2>1 DEF Used
<1>5. IsFiniteSet(Used') /\ Cardinality(Used') = hashSeq'
    BY <1>1, <1>2, <1>4, FS_AddElement DEF HashesCounted
<1>6. {hash'[b] : b \in Used'} = {hash[b] : b \in Used} \cup {hashSeq}
    <2>1. \A b \in Used : b \in Addresses \ {a} /\ hash'[b] = hash[b]
        BY <1>3, <1>4 DEF Used
    <2> QED
        BY <1>3, <1>4, <2>1
<1>7. 0 .. hashSeq' - 1 = (0 .. hashSeq - 1) \cup {hashSeq}
    BY <1>1, <1>3
<1>8. HashesCounted'
    <2>1. {hash'[b] : b \in Used'} = 0 .. hashSeq' - 1
        BY <1>2, <1>6, <1>7 DEF HashesCounted
    <2>2. hashSeq' \in Nat
        BY <1>1, <1>3
    <2> QED
        BY <1>3, <1>5, <2>1, <2>2 DEF HashesCounted
<1>9. \A o \in Objects : Has(o)' <=> Has(o)
    BY <1>1 DEF Has, Stale
<1>10. LocalTypes' /\ EntriesOwn' /\ DeletedKeyIsDestroyed' /\ ~ broken'
    <2>1. LocalTypes' /\ DeletedKeyIsDestroyed' /\ ~ broken'
        BY <1>1 DEF LocalInv, LocalTypes, DeletedKeyIsDestroyed
    <2>2. EntriesOwn'
        BY <1>1, <1>9, ObjectsFacts DEF LocalInv, EntriesOwn
    <2> QED
        BY <2>1, <2>2
<1> QED
    BY <1>8, <1>10 DEF LocalInv

(* A new iteration: only the static variables that have an entry in this   *)
(* context keep it, and its values are zeroed.                             *)
LEMMA NewIterationKeeps ==
    ASSUME LocalInv, BeginIteration \/ BeginContext
    PROVE  LocalInv'
<1>1. /\ index' = [o \in Objects |-> IF o \in Statics THEN index[o] ELSE NoEntry]
      /\ varSeq' = [v \in Vars |-> IF v \in Statics THEN varSeq[v] ELSE 0]
      /\ hash' = [a \in Addresses |-> -1] /\ hashSeq' = 0
      /\ destroyed' = [k \in Keys |-> 0]
      /\ stored' = [o \in Objects |-> Zeros]
      /\ broken' = broken
    BY DEF BeginIteration, BeginContext, NewIteration, ForgetHashes
<1>2. LocalTypes /\ EntriesOwn /\ ~ broken /\ HashesCounted
    BY DEF LocalInv
<1>3. ctxSeq' \in Nat \ {0} /\ ctxSeq <= ctxSeq'
    BY <1>2 DEF BeginIteration, BeginContext, LocalTypes
<1>4. /\ varSeq' \in [Vars -> Nat] /\ \A v \in Vars : varSeq'[v] <= ctxSeq'
      /\ index' \in [Objects -> Int] /\ stored' \in [Objects -> Locals]
    <2>1. \A v \in Vars : varSeq'[v] \in Nat /\ varSeq'[v] <= ctxSeq'
        BY <1>1, <1>2, <1>3 DEF LocalTypes
    <2> QED
        BY <1>1, <1>2, <2>1, ObjectsFacts DEF LocalTypes, NoEntry
<1>5. ASSUME NEW o \in Objects, Has(o)'
      PROVE  /\ o \in Statics /\ index'[o] = index[o] /\ varSeq[o] = ctxSeq' /\ Has(o)
             /\ ctxSeq' = ctxSeq
    <2>1. CASE o \in Vars
        <3>1. varSeq'[o] = ctxSeq'
            BY <1>5, <2>1 DEF Has, Stale
        <3>2. o \in Statics /\ varSeq[o] = ctxSeq'
            BY <1>1, <1>3, <2>1, <3>1
        <3>3. varSeq[o] <= ctxSeq /\ ctxSeq \in Nat /\ varSeq[o] \in Nat
            BY <1>2, <2>1 DEF LocalTypes
        <3>4. ctxSeq' = ctxSeq
            BY <1>3, <3>2, <3>3
        <3> QED
            BY <1>1, <2>1, <3>2, <3>4 DEF Has, Stale
    <2>2. CASE o \notin Vars
        BY <1>1, <1>5, <2>2, ObjectsFacts DEF Has, NoEntry
    <2> QED
        BY <2>1, <2>2
<1>6. entries' \in Seq(Entries)
      /\ (ctxSeq' = ctxSeq =>
             /\ DOMAIN entries' = DOMAIN entries
             /\ \A i \in DOMAIN entries :
                    entries'[i].alive = entries[i].alive /\ entries'[i].value = Zeros)
    <2>1. CASE BeginIteration
        <3>1. entries' = [i \in 1 .. Len(entries) |-> [entries[i] EXCEPT !.value = Zeros]]
              /\ DOMAIN entries = 1 .. Len(entries) /\ Len(entries) \in Nat
            BY <1>2, <2>1 DEF BeginIteration, Zeroed, LocalTypes
        <3>2. \A i \in 1 .. Len(entries) :
                  /\ [entries[i] EXCEPT !.value = Zeros] \in Entries
                  /\ [entries[i] EXCEPT !.value = Zeros].alive = entries[i].alive
                  /\ [entries[i] EXCEPT !.value = Zeros].value = Zeros
            <4>1. \A e \in Entries : LET z == [e EXCEPT !.value = Zeros]
                                    IN  z \in Entries /\ z.alive = e.alive /\ z.value = Zeros
                BY ObjectsFacts DEF Entries
            <4>2. \A i \in 1 .. Len(entries) : entries[i] \in Entries
                BY <1>2 DEF LocalTypes
            <4> QED
                BY <4>1, <4>2
        <3>3. entries' \in Seq(Entries)
            BY <3>1, <3>2
        <3> QED
            BY <3>1, <3>2, <3>3
    <2>2. CASE BeginContext
        BY <1>2, <2>2 DEF BeginContext, LocalTypes
    <2> QED
        BY <2>1, <2>2
<1>7. LocalTypes'
    <2>1. DOMAIN destroyed' = Keys
        BY <1>1
    <2> QED
        BY <1>3, <1>4, <1>6, <2>1 DEF LocalTypes
<1>8. EntriesOwn'
    <2>1. ASSUME NEW o \in Objects, Has(o)'
          PROVE  /\ index'[o] \in DOMAIN entries' /\ entries'[index'[o]].alive
                 /\ entries'[index'[o]].value = stored'[o]
        <3>1. Has(o) /\ index'[o] = index[o] /\ ctxSeq' = ctxSeq
            BY <1>5, <2>1
        <3>2. index[o] \in DOMAIN entries /\ entries[index[o]].alive
            BY <1>2, <3>1 DEF EntriesOwn
        <3> QED
            BY <1>1, <1>6, <3>1, <3>2
    <2>2. \A v \in Vars : stored'[v] = Zeros
        BY <1>1, ObjectsFacts
    <2>3. ASSUME NEW o \in Objects, NEW p \in Objects, Has(o)', Has(p)', index'[o] = index'[p]
          PROVE  o = p
        BY <1>2, <1>5, <2>3 DEF EntriesOwn
    <2> QED
        BY <2>1, <2>2, <2>3 DEF EntriesOwn
<1>9. DeletedKeyIsDestroyed'
    <2>1. {t \in Threads : Zeros[t] # 0} = {}
        BY DEF Zeros
    <2>2. \A k \in Keys : destroyed'[k] = 0 /\ stored'[k] = Zeros
        BY <1>1, ObjectsFacts
    <2> QED
        BY <2>1, <2>2, FS_EmptySet DEF DeletedKeyIsDestroyed
<1>10. HashesCounted'
    <2>1. Used' = {}
        BY <1>1 DEF Used
    <2>2. {hash'[a] : a \in Used'} = {} /\ 0 .. 0 - 1 = {}
        BY <2>1
    <2> QED
        BY <1>1, <2>1, <2>2, FS_EmptySet DEF HashesCounted
<1> QED
    BY <1>1, <1>2, <1>7, <1>8, <1>9, <1>10 DEF LocalInv

(* LocalInv is inductive. *)
LEMMA LocalStep == LocalInv /\ [LocalNext]_localVars => LocalInv'
<1> SUFFICES ASSUME LocalInv, [LocalNext]_localVars
             PROVE  LocalInv'
    OBVIOUS
<1>1. CASE UNCHANGED localVars
    <2>1. /\ entries' = entries /\ ctxSeq' = ctxSeq /\ varSeq' = varSeq /\ index' = index
          /\ hash' = hash /\ hashSeq' = hashSeq /\ destroyed' = destroyed
          /\ stored' = stored /\ broken' = broken
        BY <1>1 DEF localVars
    <2>2. LocalTypes' /\ EntriesOwn' /\ DeletedKeyIsDestroyed'
        BY <2>1 DEF LocalInv, LocalTypes, EntriesOwn, DeletedKeyIsDestroyed, Has, Stale
    <2> QED
        BY <2>1, <2>2, HashesKept DEF LocalInv
<1> QED
    BY <1>1, VarKeeps, UseKeyKeeps, CreateKeyKeeps, DeleteKeyKeeps, HashAddressKeeps,
       NewIterationKeeps DEF LocalNext

(* It holds of a new context. *)
LEMMA LocalInitial == LocalInit => LocalInv
<1> SUFFICES ASSUME LocalInit
             PROVE  LocalInv
    OBVIOUS
<1>1. LocalTypes
    BY ObjectsFacts DEF LocalInit, LocalTypes, NoEntry
<1>2. \A o \in Objects : ~ Has(o) /\ stored[o] = Zeros
    BY ObjectsFacts DEF LocalInit, Has, Stale, NoEntry
<1>3. EntriesOwn
    BY <1>2, ObjectsFacts DEF EntriesOwn
<1>4. DeletedKeyIsDestroyed
    <2>1. {t \in Threads : Zeros[t] # 0} = {}
        BY DEF Zeros
    <2>2. \A k \in Keys : destroyed[k] = 0 /\ stored[k] = Zeros
        BY <1>2, ObjectsFacts DEF LocalInit
    <2> QED
        BY <2>1, <2>2, FS_EmptySet DEF DeletedKeyIsDestroyed
<1>5. HashesCounted
    <2>1. Used = {} /\ hashSeq = 0
        BY DEF LocalInit, Used
    <2>2. {hash[a] : a \in Used} = {} /\ 0 .. 0 - 1 = {}
        BY <2>1
    <2> QED
        BY <2>1, <2>2, FS_EmptySet DEF LocalInit, HashesCounted
<1> QED
    BY <1>1, <1>3, <1>4, <1>5 DEF LocalInit, LocalInv

(* A thread local is what its thread made it. *)
THEOREM LocalsCorrect == LocalSpec => []LocalsAreOwn
<1>1. LocalInv => LocalsAreOwn
    <2> SUFFICES ASSUME LocalInv
                 PROVE  LocalsAreOwn
        OBVIOUS
    <2>1. EntriesOwn /\ ~ broken /\ DeletedKeyIsDestroyed
        BY DEF LocalInv
    <2>2. ASSUME NEW o \in Objects, NEW t \in Threads, o \in Vars \/ index[o] # NoEntry
          PROVE  Seen(o, t) = stored[o][t]
        <3>1. CASE Has(o)
            BY <2>1, <3>1 DEF EntriesOwn, Has, Seen
        <3>2. CASE ~ Has(o)
            <4>1. o \in Vars /\ Stale(o) /\ stored[o] = Zeros
                BY <2>1, <2>2, <3>2 DEF EntriesOwn, Has
            <4> QED
                BY <4>1 DEF Seen, Zeros
        <3> QED
            BY <3>1, <3>2
    <2>3. HashIsOrderOfUse
        BY DEF LocalInv, HashesCounted, HashIsOrderOfUse, Used
    <2> QED
        BY <2>1, <2>2, <2>3 DEF LocalsAreOwn
<1> QED
    BY <1>1, LocalInitial, LocalStep, PTL DEF LocalSpec

-----------------------------------------------------------------------------
(* The tree search. *)

(* The draws that the saved nodes stand for. *)
Branch == [i \in DOMAIN stree |-> stree[i].index]

(* q comes before s in the order of the search: where they part, q takes   *)
(* the smaller result.                                                     *)
Before(q, s) ==
    \E i \in DOMAIN q \cap DOMAIN s : q[i] < s[i] /\ \A j \in 1 .. i - 1 : q[j] = s[j]

SavedNodes == [count : Nat, index : Nat]

SearchTypes ==
    /\ test \in Tests
    /\ failing \in Leaves(test) \cup {NoPath}
    /\ stree \in Seq(SavedNodes)
    /\ path \in Seq(Nat)
    /\ phase \in Runs \cup {"done", "reproduced"}

(* The saved nodes are what the test draws along a branch of its own, and  *)
(* the iteration follows it.                                               *)
FollowsBranch ==
    /\ Branch \in DOMAIN test
    /\ \A i \in DOMAIN stree : stree[i].count = test[SubSeq(Branch, 1, i - 1)]
    /\ Len(path) <= Len(stree)
    /\ \A i \in DOMAIN path : path[i] = stree[i].index

(* What has been visited is what comes before the branch. *)
VisitedBefore ==
    /\ phase \in {"first", "second"} => visited = {q \in Leaves(test) : Before(q, Branch)}
    /\ phase = "done" => visited = Leaves(test)

(* The failing execution has not passed, and the second run is on it.      *)
FailureAhead ==
    /\ failing \notin visited
    /\ phase = "done" => failing = NoPath
    /\ phase = "second" => Branch = failing
    /\ phase = "reproduced" => path = failing

SearchInv ==
    deterministic => SearchTypes /\ FollowsBranch /\ VisitedBefore /\ FailureAhead

LEMMA SavedFacts ==
    ASSUME NEW s \in Seq(SavedNodes)
    PROVE  /\ Len(s) \in Nat /\ DOMAIN s = 1 .. Len(s)
           /\ \A i \in DOMAIN s : i \in Nat \ {0} /\ s[i].count \in Nat /\ s[i].index \in Nat
<1>1. Len(s) \in Nat /\ DOMAIN s = 1 .. Len(s) /\ \A i \in DOMAIN s : s[i] \in SavedNodes
    OBVIOUS
<1> QED
    BY <1>1 DEF SavedNodes

(* A bounded set of numbers has a largest one. *)
LEMMA LargestOf ==
    ASSUME NEW n \in Nat, NEW S \in SUBSET (0 .. n), S # {}
    PROVE  \E k \in S : \A j \in S : j <= k
<1> DEFINE D == {d \in Nat : n - d \in S}
<1>1. D \subseteq Nat /\ D # {}
    <2>1. PICK j \in S : TRUE
        OBVIOUS
    <2>2. n - j \in Nat /\ n - (n - j) = j
        BY <2>1
    <2>3. n - j \in D
        BY <2>1, <2>2
    <2> QED
        BY <2>3
<1>2. PICK m \in D : \A d \in D : ~ (<<d, m>> \in OpToRel(<, Nat))
    <2> HIDE DEF D
    <2> QED
        BY <1>1, NatLessThanWellFounded, WFMin, Zenon
<1> HIDE DEF D
<1>3. \A d \in D : ~ (d < m) /\ m \in Nat /\ d \in Nat
    BY <1>1, <1>2 DEF OpToRel
<1>4. ASSUME NEW j \in S
      PROVE  j <= n - m
    <2>1. n - j \in Nat /\ n - (n - j) = j
        OBVIOUS
    <2>2. n - j \in D
        BY <2>1 DEF D
    <2>3. m <= n - j
        BY <1>3, <2>2
    <2>4. m \in Nat
        BY <1>3, <2>2
    <2> QED
        BY <2>3, <2>4
<1>5. n - m \in S
    BY <1>2 DEF D
<1> QED
    BY <1>4, <1>5

(* Two executions of a test part somewhere, in the results of one draw.    *)
LEMMA LeavesPart ==
    ASSUME NEW t, IsTest(t), NEW q \in Leaves(t), NEW s \in Leaves(t), q # s
    PROVE  \E i \in DOMAIN q \cap DOMAIN s :
              /\ q[i] # s[i] /\ \A j \in 1 .. i - 1 : q[j] = s[j]
              /\ q[i] < t[SubSeq(s, 1, i - 1)]
<1>1. /\ q \in DOMAIN t /\ s \in DOMAIN t /\ t[q] = 0 /\ t[s] = 0
      /\ q \in Seq(Nat) /\ s \in Seq(Nat)
    BY DEF Leaves, IsTest
<1> DEFINE D == {i \in Nat \ {0} : i > Len(q) \/ i > Len(s) \/ q[i] # s[i]}
<1>2. D \subseteq Nat /\ D # {}
    <2>1. Len(q) + 1 \in D
        BY <1>1
    <2> QED
        BY <2>1
<1> HIDE DEF D
<1>3. PICK m \in D : \A i \in D : ~ (<<i, m>> \in OpToRel(<, Nat))
    BY <1>2, NatLessThanWellFounded, WFMin, Zenon
<1>4. \A i \in D : ~ (i < m)
    BY <1>2, <1>3 DEF OpToRel
<1>5. m \in Nat \ {0} /\ (m > Len(q) \/ m > Len(s) \/ q[m] # s[m])
    BY DEF D
<1>6. \A j \in 1 .. m - 1 : j <= Len(q) /\ j <= Len(s) /\ q[j] = s[j]
    BY <1>1, <1>4, <1>5 DEF D
<1>7. m - 1 <= Len(q) /\ m - 1 <= Len(s) /\ m - 1 \in Nat
    <2>1. CASE m = 1
        BY <1>1, <2>1
    <2>2. CASE m # 1
        <3>1. m - 1 \in 1 .. m - 1
            BY <1>5, <2>2
        <3> QED
            BY <1>5, <1>6, <3>1
    <2> QED
        BY <2>1, <2>2
<1>8. SubSeq(q, 1, m - 1) = SubSeq(s, 1, m - 1)
    BY <1>1, <1>6, <1>7
<1>9. ASSUME NEW a, NEW b, a \in DOMAIN t, b \in DOMAIN t, a \in Seq(Nat), b \in Seq(Nat),
             t[a] = 0, Len(a) = m - 1, Len(b) >= m, a = SubSeq(b, 1, m - 1)
      PROVE  FALSE
    <2>1. m \in DOMAIN b
        BY <1>5, <1>9
    <2>2. b[m] < t[SubSeq(b, 1, m - 1)] /\ b[m] \in Nat
        BY <1>9, <2>1 DEF IsTest
    <2> QED
        BY <1>9, <2>2
<1>10. m <= Len(q) /\ m <= Len(s)
    <2>1. CASE Len(q) = m - 1
        <3>1. q = SubSeq(q, 1, m - 1)
            BY <1>1, <2>1
        <3>2. CASE Len(s) = m - 1
            <4>1. s = SubSeq(s, 1, m - 1)
                BY <1>1, <3>2
            <4> QED
                BY <1>8, <3>1, <4>1
        <3>3. CASE Len(s) # m - 1
            <4>1. Len(s) >= m
                BY <1>1, <1>5, <1>7, <3>3
            <4>2. q = SubSeq(s, 1, m - 1)
                BY <1>8, <3>1
            <4> QED
                BY ONLY <1>1, <1>9, <2>1, <4>1, <4>2
        <3> QED
            BY <3>2, <3>3
    <2>2. CASE Len(s) = m - 1
        <3>1. s = SubSeq(s, 1, m - 1)
            BY <1>1, <2>2
        <3>2. CASE Len(q) # m - 1
            <4>1. Len(q) >= m
                BY <1>1, <1>5, <1>7, <3>2
            <4>2. s = SubSeq(q, 1, m - 1)
                BY <1>8, <3>1
            <4> QED
                BY ONLY <1>1, <1>9, <2>2, <4>1, <4>2
        <3> QED
            BY <2>1, <3>2
    <2>3. CASE Len(q) # m - 1 /\ Len(s) # m - 1
        BY <1>1, <1>5, <1>7, <2>3
    <2> QED
        BY <2>1, <2>2, <2>3
<1>11. m \in DOMAIN q /\ m \in DOMAIN s /\ q[m] # s[m]
    BY <1>1, <1>5, <1>10
<1>12. q[m] < t[SubSeq(s, 1, m - 1)]
    BY <1>1, <1>8, <1>11 DEF IsTest
<1> QED
    BY <1>6, <1>11, <1>12

(* What is known of a search that goes on: the branch goes through the test. *)
LEMMA BranchFacts ==
    ASSUME SearchTypes, FollowsBranch
    PROVE  /\ IsTest(test)
           /\ stree \in Seq(SavedNodes)
           /\ \A i \in DOMAIN stree :
                 i \in Nat \ {0} /\ stree[i].count \in Nat /\ stree[i].index \in Nat
           /\ Branch \in Seq(Nat) /\ Len(Branch) = Len(stree)
           /\ \A i \in DOMAIN stree : Branch[i] = stree[i].index
           /\ \A i \in DOMAIN stree : /\ SubSeq(Branch, 1, i - 1) \in DOMAIN test
                                      /\ stree[i].index < stree[i].count
           /\ path \in Seq(Nat) /\ Len(path) <= Len(stree)
           /\ path = SubSeq(Branch, 1, Len(path)) /\ path \in DOMAIN test
<1>1. IsTest(test) /\ path \in Seq(Nat)
    BY TreeSearchAssumption DEF SearchTypes
<1>2. /\ stree \in Seq(SavedNodes)
      /\ \A k \in DOMAIN stree :
            k \in Nat \ {0} /\ stree[k].count \in Nat /\ stree[k].index \in Nat
    BY SavedFacts DEF SearchTypes
<1>3. Branch \in Seq(Nat) /\ Len(Branch) = Len(stree) /\ DOMAIN Branch = DOMAIN stree
    BY <1>2 DEF Branch
<1>4. \A i \in DOMAIN stree : Branch[i] = stree[i].index
    BY DEF Branch
<1>5. /\ Branch \in DOMAIN test /\ Len(path) <= Len(stree)
      /\ \A i \in DOMAIN path : path[i] = stree[i].index
      /\ \A i \in DOMAIN stree : stree[i].count = test[SubSeq(Branch, 1, i - 1)]
    BY DEF FollowsBranch
<1>6. \A i \in DOMAIN stree : /\ SubSeq(Branch, 1, i - 1) \in DOMAIN test
                              /\ Branch[i] < test[SubSeq(Branch, 1, i - 1)]
    BY <1>1, <1>3, <1>5 DEF IsTest
<1>7. \A i \in DOMAIN stree : stree[i].index < stree[i].count
    BY <1>4, <1>5, <1>6
<1>8. \A i \in 1 .. Len(path) : path[i] = Branch[i]
    BY <1>1, <1>2, <1>4, <1>5
<1>9. path = SubSeq(Branch, 1, Len(path))
    BY <1>1, <1>2, <1>3, <1>5, <1>8
<1>10. path \in DOMAIN test
    <2>1. CASE Len(path) = Len(stree)
        <3>1. path = Branch
            BY <1>3, <1>9, <2>1
        <3> QED
            BY <1>5, <3>1
    <2>2. CASE Len(path) # Len(stree)
        <3>1. Len(path) + 1 \in DOMAIN stree /\ Len(path) + 1 - 1 = Len(path)
            BY <1>1, <1>2, <1>5, <2>2
        <3>2. SubSeq(Branch, 1, Len(path)) \in DOMAIN test
            BY <1>6, <3>1
        <3> QED
            BY <1>9, <3>2
    <2> QED
        BY <2>1, <2>2
<1> QED
    BY <1>1, <1>2, <1>3, <1>4, <1>5, <1>6, <1>7, <1>9, <1>10

(* The draws of a deterministic test have the limits of its branch. *)
LEMMA LimitOfTest ==
    ASSUME SearchTypes, FollowsBranch, deterministic
    PROVE  Limits = {test[path]}
BY BranchFacts DEF Limits

(* At the end of an execution the branch is that execution. *)
LEMMA EndOfBranch ==
    ASSUME SearchTypes, FollowsBranch, deterministic, 0 \in Limits
    PROVE  path = Branch /\ path \in Leaves(test) /\ Len(path) = Len(stree)
<1>1. test[path] = 0 /\ path \in DOMAIN test
    BY LimitOfTest, BranchFacts
<1>2. path \in Seq(Nat) /\ Len(path) <= Len(stree) /\ stree \in Seq(SavedNodes)
      /\ path = SubSeq(Branch, 1, Len(path))
      /\ Branch \in Seq(Nat) /\ Len(Branch) = Len(stree)
    BY BranchFacts
<1>3. Len(path) = Len(stree)
    <2> SUFFICES ASSUME Len(path) # Len(stree)
                 PROVE  FALSE
        OBVIOUS
    <2>1. Len(path) + 1 \in DOMAIN stree /\ Len(path) + 1 - 1 = Len(path)
        BY <1>2
    <2> DEFINE i == Len(path) + 1
    <2>2. stree[i].index < stree[i].count /\ stree[i].count = test[SubSeq(Branch, 1, Len(path))]
        BY <2>1, BranchFacts DEF FollowsBranch
    <2>3. stree[i].index \in Nat
        BY <2>1, BranchFacts
    <2>4. stree[i].count = 0
        BY <1>1, <1>2, <2>2
    <2> QED
        BY <2>2, <2>3, <2>4
<1>4. path = Branch
    BY <1>2, <1>3
<1> QED
    BY <1>1, <1>3, <1>4 DEF Leaves

LEMMA DrawKeeps ==
    ASSUME SearchInv, deterministic, Draw
    PROVE  SearchInv'
<1>1. SearchTypes /\ FollowsBranch /\ VisitedBefore /\ FailureAhead
    BY DEF SearchInv
<1> DEFINE limit == test[path]
<1>2. limit # 0 /\ Rand(limit) /\ phase \in Runs
    BY <1>1, LimitOfTest DEF Draw
<1>3. /\ IsTest(test) /\ Branch \in Seq(Nat) /\ Len(Branch) = Len(stree)
      /\ \A i \in DOMAIN stree : Branch[i] = stree[i].index
      /\ \A i \in DOMAIN stree : /\ SubSeq(Branch, 1, i - 1) \in DOMAIN test
                                 /\ stree[i].index < stree[i].count
      /\ path = SubSeq(Branch, 1, Len(path)) /\ path \in DOMAIN test
      /\ stree \in Seq(SavedNodes)
      /\ \A i \in DOMAIN stree :
            i \in Nat \ {0} /\ stree[i].count \in Nat /\ stree[i].index \in Nat
    BY <1>1, BranchFacts
<1>4. limit \in Nat \ {0}
    BY <1>2, <1>3 DEF IsTest
<1>5. UNCHANGED <<test, failing, deterministic, visited>>
    BY <1>2 DEF Rand
<1>6. /\ stree \in Seq(SavedNodes) /\ path \in Seq(Nat)
      /\ Len(path) <= Len(stree) /\ Branch \in DOMAIN test
      /\ \A i \in DOMAIN path : path[i] = stree[i].index
      /\ \A i \in DOMAIN stree : stree[i].count = test[SubSeq(Branch, 1, i - 1)]
    BY <1>1 DEF SearchTypes, FollowsBranch
<1> HIDE DEF limit
<1>7. CASE Len(path) = Len(stree)
    <2>1. /\ stree' = Append(stree, [count |-> limit, index |-> 0])
          /\ path' = Append(path, 0) /\ phase' = phase
        BY <1>2, <1>7 DEF Rand
    <2>2. path = Branch
        BY <1>3, <1>6, <1>7
    <2>3. stree' \in Seq(SavedNodes) /\ path' \in Seq(Nat)
        BY <1>4, <1>6, <2>1 DEF SavedNodes
    <2>4. Branch' = Append(Branch, 0)
        BY <1>3, <1>6, <2>1 DEF Branch
    <2>5. Branch' \in DOMAIN test
        BY <1>3, <1>4, <2>2, <2>4 DEF IsTest, limit
    <2>6. \A i \in DOMAIN stree : /\ stree'[i] = stree[i]
                                  /\ SubSeq(Branch', 1, i - 1) = SubSeq(Branch, 1, i - 1)
        BY <1>3, <1>6, <2>1, <2>4
    <2>7. LET n == Len(stree) + 1
          IN  /\ DOMAIN stree' = DOMAIN stree \cup {n}
              /\ stree'[n].count = limit /\ stree'[n].index = 0
              /\ SubSeq(Branch', 1, n - 1) = Branch
        BY <1>3, <1>6, <2>1, <2>4
    <2>8. FollowsBranch'
        <3>1. Len(path') <= Len(stree') /\ \A i \in DOMAIN path' : path'[i] = stree'[i].index
            BY <1>6, <1>7, <2>1
        <3>2. \A i \in DOMAIN stree' : stree'[i].count = test[SubSeq(Branch', 1, i - 1)]
            BY <1>6, <2>2, <2>6, <2>7 DEF limit
        <3> QED
            BY <1>5, <2>5, <3>1, <3>2 DEF FollowsBranch
    <2>9. ASSUME NEW q \in Leaves(test)
          PROVE  Before(q, Branch') <=> Before(q, Branch)
        <3>1. q \in Seq(Nat)
            BY <1>3 DEF Leaves, IsTest
        <3>2. DOMAIN Branch' = DOMAIN Branch \cup {Len(Branch) + 1} /\ Branch'[Len(Branch) + 1] = 0
              /\ \A i \in DOMAIN Branch : Branch'[i] = Branch[i]
            BY <1>3, <2>4
        <3>3. \A i \in DOMAIN q : ~ (q[i] < 0)
            BY <3>1
        <3>4. \A i \in DOMAIN Branch : \A j \in 1 .. i - 1 : j \in DOMAIN Branch
            BY <1>3
        <3> QED
            BY <3>2, <3>3, <3>4 DEF Before
    <2>10. phase # "second"
        <3> SUFFICES ASSUME phase = "second"
                     PROVE  FALSE
            OBVIOUS
        <3>1. path = failing
            BY <1>1, <2>2 DEF FailureAhead
        <3>2. CASE failing = NoPath
            <4>1. path[1] = -1 /\ path[1] \in Nat
                BY <1>6, <3>1, <3>2 DEF NoPath
            <4> QED
                BY <4>1
        <3>3. CASE failing \in Leaves(test)
            BY <1>4, <3>1, <3>3 DEF Leaves, limit
        <3> QED
            BY <1>1, <3>2, <3>3 DEF SearchTypes
    <2>11. SearchTypes' /\ FailureAhead'
        BY <1>1, <1>2, <1>5, <2>1, <2>3, <2>10 DEF SearchTypes, FailureAhead, Runs, Leaves
    <2>12. VisitedBefore'
        BY <1>1, <1>2, <1>5, <2>1, <2>9 DEF VisitedBefore, Runs, Leaves
    <2> QED
        BY <2>8, <2>11, <2>12 DEF SearchInv
<1>8. CASE Len(path) # Len(stree)
    <2> DEFINE n == Len(path) + 1
    <2>1. n \in DOMAIN stree /\ n - 1 = Len(path)
        BY <1>6, <1>8
    <2>2. stree[n].count = limit
        BY <1>3, <1>6, <2>1 DEF limit
    <2>3. path' = Append(path, stree[n].index) /\ UNCHANGED <<stree, phase>>
        BY <1>2, <1>8, <2>2 DEF Rand
    <2>4. stree[n].index \in Nat
        BY <1>3, <2>1
    <2>5. path' \in Seq(Nat) /\ Len(path') <= Len(stree)
          /\ \A i \in DOMAIN path' : path'[i] = stree[i].index
        BY <1>6, <2>1, <2>3, <2>4
    <2>6. Branch' = Branch
        BY <2>3 DEF Branch
    <2>7. FollowsBranch'
        BY <1>5, <1>6, <2>3, <2>5, <2>6 DEF FollowsBranch
    <2>8. SearchTypes' /\ VisitedBefore' /\ FailureAhead'
        BY <1>1, <1>2, <1>5, <2>3, <2>5, <2>6
        DEF SearchTypes, VisitedBefore, FailureAhead, Runs, Leaves
    <2> QED
        BY <2>7, <2>8 DEF SearchInv
<1> QED
    BY <1>7, <1>8

(* A branch that ends at its i-th draw, with the result after the one of b. *)
LEMMA TurnedAt ==
    ASSUME NEW b \in Seq(Nat), NEW c \in Seq(Nat), NEW i \in DOMAIN b, Len(c) = i,
           \A k \in 1 .. i - 1 : c[k] = b[k], c[i] = b[i] + 1
    PROVE  /\ c = Append(SubSeq(b, 1, i - 1), b[i] + 1)
           /\ \A k \in 1 .. i : SubSeq(c, 1, k - 1) = SubSeq(b, 1, k - 1)
OBVIOUS

(* If b takes the last result of every draw after the i-th, it is the last *)
(* execution before that branch.                                           *)
LEMMA NextBranch ==
    ASSUME NEW t, IsTest(t), NEW b \in Leaves(t), NEW c \in Seq(Nat), NEW i \in DOMAIN b,
           Len(c) = i, \A k \in 1 .. i - 1 : c[k] = b[k], c[i] = b[i] + 1,
           \A m \in DOMAIN b : m > i => t[SubSeq(b, 1, m - 1)] = b[m] + 1
    PROVE  \A q \in Leaves(t) : Before(q, c) <=> Before(q, b) \/ q = b
<1>1. b \in Seq(Nat) /\ \A q \in Leaves(t) : q \in Seq(Nat)
    BY DEF Leaves, IsTest
<1>2. i \in Nat \ {0} /\ DOMAIN c = 1 .. i /\ i \in DOMAIN c /\ i <= Len(b)
      /\ \A k \in DOMAIN b : k \in Nat \ {0} /\ b[k] \in Nat
    BY <1>1
<1>3. ASSUME NEW q \in Leaves(t), Before(q, b) \/ q = b
      PROVE  Before(q, c)
    <2>1. CASE q = b
        BY <1>2, <2>1 DEF Before
    <2>2. CASE Before(q, b)
        <3>1. PICK k \in DOMAIN q \cap DOMAIN b : q[k] < b[k] /\ \A j \in 1 .. k - 1 : q[j] = b[j]
            BY <2>2 DEF Before
        <3>2. k \in Nat \ {0} /\ b[k] \in Nat /\ q[k] \in Nat
            BY <1>1, <1>2, <3>1
        <3>3. CASE k < i
            <4>1. k \in 1 .. i - 1 /\ k \in DOMAIN c /\ \A j \in 1 .. k - 1 : j \in 1 .. i - 1
                BY <1>2, <3>2, <3>3
            <4> QED
                BY <3>1, <4>1 DEF Before
        <3>4. CASE k = i
            <4>1. q[i] < c[i]
                BY <3>1, <3>2, <3>4
            <4> QED
                BY <1>2, <3>1, <3>4, <4>1 DEF Before
        <3>5. CASE k > i
            <4>1. i \in 1 .. k - 1 /\ \A j \in 1 .. i - 1 : j \in 1 .. k - 1
                BY <1>2, <3>2, <3>5
            <4>2. i \in DOMAIN q
                BY <1>1, <1>2, <3>1, <3>5
            <4>3. q[i] < c[i]
                BY <1>2, <3>1, <4>1
            <4> QED
                BY <1>2, <3>1, <4>1, <4>2, <4>3 DEF Before
        <3> QED
            BY <1>2, <3>2, <3>3, <3>4, <3>5
    <2> QED
        BY <1>3, <2>1, <2>2
<1>4. ASSUME NEW q \in Leaves(t), Before(q, c), q # b
      PROVE  Before(q, b)
    <2>1. PICK k \in DOMAIN q \cap DOMAIN c : q[k] < c[k] /\ \A j \in 1 .. k - 1 : q[j] = c[j]
        BY <1>4 DEF Before
    <2>2. PICK m \in DOMAIN q \cap DOMAIN b :
              /\ q[m] # b[m] /\ \A j \in 1 .. m - 1 : q[j] = b[j]
              /\ q[m] < t[SubSeq(b, 1, m - 1)]
        BY <1>4, LeavesPart, Zenon
    <2>3. /\ k \in 1 .. i /\ k \in Nat \ {0} /\ m \in Nat \ {0}
          /\ q[k] \in Nat /\ q[m] \in Nat /\ b[m] \in Nat /\ b[i] \in Nat
        <3>1. k \in DOMAIN q /\ m \in DOMAIN q /\ m \in DOMAIN b /\ k \in DOMAIN c
            OBVIOUS
        <3>2. q[k] \in Nat /\ q[m] \in Nat
            BY <1>1, <3>1
        <3> QED
            BY <1>2, <3>1, <3>2
    <2>4. ~ (k < m /\ k < i)
        <3> SUFFICES ASSUME k < m, k < i
                     PROVE  FALSE
            OBVIOUS
        <3>1. k \in 1 .. m - 1 /\ k \in 1 .. i - 1
            BY <1>2, <2>3
        <3>2. q[k] = b[k] /\ q[k] < b[k]
            BY <2>1, <2>2, <3>1
        <3> QED
            BY <2>3, <3>2
    <2>5. q[m] < b[m]
        <3>1. CASE m > i
            BY <2>2, <2>3, <3>1
        <3>2. CASE m < i
            <4>1. ~ (m < k)
                <5> SUFFICES ASSUME m < k
                             PROVE  FALSE
                    OBVIOUS
                <5>1. m \in 1 .. k - 1 /\ m \in 1 .. i - 1
                    BY <1>2, <2>3, <3>2
                <5> QED
                    BY <2>1, <2>2, <5>1
            <4>2. k = m /\ m \in 1 .. i - 1
                BY <1>2, <2>3, <2>4, <3>2, <4>1
            <4> QED
                BY <2>1, <4>2
        <3>3. CASE m = i
            <4>1. k = i
                BY <2>3, <2>4, <3>3
            <4>2. q[i] < b[i] + 1 /\ q[i] # b[i]
                BY <2>1, <2>2, <3>3, <4>1
            <4> QED
                BY <2>3, <3>3, <4>2
        <3> QED
            BY <1>2, <2>3, <3>1, <3>2, <3>3
    <2> QED
        BY <2>2, <2>5 DEF Before
<1> QED
    BY <1>3, <1>4

(* An execution ends and the search goes on to the one after it.           *)
LEMMA AdvanceKeeps ==
    ASSUME SearchTypes, FollowsBranch, VisitedBefore, FailureAhead, deterministic,
           phase = "first", path = Branch, path \in Leaves(test), path # failing,
           NEW i \in Open, \A j \in Open : j <= i,
           Advance(i), visited' = visited \cup {path}, path' = <<>>,
           UNCHANGED <<test, failing, deterministic, phase>>
    PROVE  SearchTypes' /\ FollowsBranch' /\ VisitedBefore' /\ FailureAhead'
<1>1. /\ IsTest(test) /\ Branch \in Seq(Nat) /\ Len(Branch) = Len(stree)
      /\ \A k \in DOMAIN stree : Branch[k] = stree[k].index
      /\ \A k \in DOMAIN stree : /\ SubSeq(Branch, 1, k - 1) \in DOMAIN test
                                 /\ stree[k].index < stree[k].count
      /\ stree \in Seq(SavedNodes)
      /\ \A k \in DOMAIN stree :
            k \in Nat \ {0} /\ stree[k].count \in Nat /\ stree[k].index \in Nat
    BY BranchFacts
<1>2. stree \in Seq(SavedNodes)
      /\ \A k \in DOMAIN stree : stree[k].count = test[SubSeq(Branch, 1, k - 1)]
    BY DEF SearchTypes, FollowsBranch
<1>3. i \in DOMAIN stree /\ i \in Nat \ {0} /\ stree[i].index # stree[i].count - 1
      /\ \A k \in DOMAIN stree : k > i => stree[k].index = stree[k].count - 1
    BY <1>1 DEF Open
<1> DEFINE short == SubSeq(stree, 1, i)
           node == [stree[i] EXCEPT !.index = @ + 1]
<1>4. /\ stree' \in Seq(SavedNodes) /\ Len(stree') = i
      /\ \A k \in 1 .. i - 1 : stree'[k] = stree[k]
      /\ stree'[i].count = stree[i].count /\ stree'[i].index = stree[i].index + 1
    <2>1. short \in Seq(SavedNodes) /\ Len(short) = i /\ \A k \in 1 .. i : short[k] = stree[k]
        BY <1>1, <1>2, <1>3
    <2>2. stree[i] \in SavedNodes
        BY <1>2, <1>3
    <2>3. node \in SavedNodes /\ node.count = stree[i].count /\ node.index = stree[i].index + 1
        BY <2>2 DEF SavedNodes
    <2>6. stree' = [short EXCEPT ![i] = [short[i] EXCEPT !.index = @ + 1]]
        BY DEF Advance
    <2>7. short[i] = stree[i]
        BY <1>3, <2>1
    <2> HIDE DEF short
    <2>4. stree' = [short EXCEPT ![i] = node]
        BY <2>6, <2>7
    <2> HIDE DEF node
    <2>5. stree' \in Seq(SavedNodes) /\ Len(stree') = i
          /\ \A k \in 1 .. i : stree'[k] = IF k = i THEN node ELSE stree[k]
        BY <1>3, <2>1, <2>3, <2>4
    <2> QED
        BY <1>3, <2>3, <2>5
<1> HIDE DEF short, node
<1>5. /\ Branch' \in Seq(Nat) /\ Len(Branch') = i /\ i \in DOMAIN Branch
      /\ \A k \in 1 .. i - 1 : Branch'[k] = Branch[k]
      /\ Branch'[i] = Branch[i] + 1
    <2>1. \A k \in 1 .. i : k \in DOMAIN stree /\ k \in DOMAIN stree'
        BY <1>1, <1>3, <1>4
    <2>2. \A k \in 1 .. i : k = i \/ k \in 1 .. i - 1
        BY <1>3
    <2>3. \A k \in 1 .. i : stree'[k].index = IF k = i THEN stree[k].index + 1 ELSE stree[k].index
        BY <1>4, <2>2
    <2>4. \A k \in 1 .. i : stree'[k].index \in Nat
        BY <1>1, <2>1, <2>3
    <2>5. DOMAIN stree' = 1 .. i
        BY <1>3, <1>4
    <2>6. Branch' = [k \in 1 .. i |-> stree'[k].index]
        BY <2>5 DEF Branch
    <2>7. Branch' \in Seq(Nat) /\ Len(Branch') = i
        BY <1>3, <2>4, <2>6
    <2>8. \A k \in 1 .. i : Branch'[k] = IF k = i THEN Branch[k] + 1 ELSE Branch[k]
        BY <1>1, <2>1, <2>3, <2>6
    <2>9. i \in 1 .. i /\ \A k \in 1 .. i - 1 : k \in 1 .. i /\ k # i
        BY <1>3
    <2>10. i \in DOMAIN Branch
        BY <1>3 DEF Branch
    <2> QED
        BY <2>7, <2>8, <2>9, <2>10
<1>6. /\ Branch' = Append(SubSeq(Branch, 1, i - 1), Branch[i] + 1)
      /\ \A k \in 1 .. i : SubSeq(Branch', 1, k - 1) = SubSeq(Branch, 1, k - 1)
    <2> HIDE DEF Branch
    <2> QED
        BY <1>1, <1>5, TurnedAt, Zenon
<1>7. Branch' \in DOMAIN test
    <2>1. /\ stree[i].index \in Nat /\ stree[i].count \in Nat
          /\ stree[i].index < stree[i].count /\ Branch[i] = stree[i].index
        BY <1>1, <1>3
    <2>2. Branch[i] + 1 \in 0 .. stree[i].count - 1
        BY <1>3, <2>1
    <2> QED
        BY <1>1, <1>2, <1>3, <1>6, <2>2 DEF IsTest
<1>8. FollowsBranch'
    <2>1. ASSUME NEW k \in DOMAIN stree'
          PROVE  stree'[k].count = test[SubSeq(Branch', 1, k - 1)]
        <3>1. k \in 1 .. i /\ (k = i \/ k \in 1 .. i - 1) /\ k \in DOMAIN stree
            BY <1>1, <1>3, <1>4
        <3>2. stree'[k].count = stree[k].count
            BY <1>4, <3>1
        <3> QED
            BY <1>2, <1>6, <3>1, <3>2
    <2> QED
        BY <1>4, <1>7, <2>1 DEF FollowsBranch
<1>9. visited' = {q \in Leaves(test) : Before(q, Branch')}
    <2>1. visited = {q \in Leaves(test) : Before(q, Branch)}
        BY DEF VisitedBefore
    <2>2. \A m \in DOMAIN Branch : m > i => test[SubSeq(Branch, 1, m - 1)] = Branch[m] + 1
        <3>1. ASSUME NEW m \in DOMAIN stree, m > i
              PROVE  stree[m].count = stree[m].index + 1
            BY <1>1, <1>3, <3>1
        <3>2. DOMAIN Branch = DOMAIN stree
            BY DEF Branch
        <3> QED
            BY <1>1, <1>2, <3>1, <3>2
    <2>3. \A q \in Leaves(test) : Before(q, Branch') <=> Before(q, Branch) \/ q = Branch
        <3>1. Branch \in Leaves(test) /\ IsTest(test)
            BY <1>1
        <3> HIDE DEF Branch
        <3> QED
            BY <1>5, <2>2, <3>1, NextBranch
    <2> QED
        BY <2>1, <2>3
<1>10. SearchTypes' /\ FailureAhead'
    BY <1>4 DEF SearchTypes, FailureAhead, Leaves
<1>11. VisitedBefore'
    BY <1>9 DEF VisitedBefore, Leaves
<1> QED
    BY <1>8, <1>10, <1>11

(* When no node has a branch left, every execution has been visited.       *)
LEMMA NothingLeft ==
    ASSUME SearchTypes, FollowsBranch, VisitedBefore, Open = {},
           phase = "first", Branch \in Leaves(test)
    PROVE  visited \cup {Branch} = Leaves(test)
<1>1. /\ IsTest(test) /\ Branch \in Seq(Nat) /\ Len(Branch) = Len(stree)
      /\ \A k \in DOMAIN stree : Branch[k] = stree[k].index
      /\ stree \in Seq(SavedNodes)
      /\ \A k \in DOMAIN stree : stree[k].count \in Nat
    BY BranchFacts
<1>2. stree \in Seq(SavedNodes)
      /\ \A k \in DOMAIN stree : stree[k].count = test[SubSeq(Branch, 1, k - 1)]
    BY DEF SearchTypes, FollowsBranch
<1>3. \A k \in DOMAIN stree : stree[k].index = stree[k].count - 1
    BY DEF Open
<1>4. ASSUME NEW q \in Leaves(test), q # Branch
      PROVE  Before(q, Branch)
    <2>1. PICK m \in DOMAIN q \cap DOMAIN Branch :
              /\ q[m] # Branch[m] /\ \A j \in 1 .. m - 1 : q[j] = Branch[j]
              /\ q[m] < test[SubSeq(Branch, 1, m - 1)]
        BY <1>1, <1>4, LeavesPart, Zenon
    <2>2. q[m] \in Nat /\ m \in DOMAIN stree
        <3>1. q \in Seq(Nat)
            BY <1>1 DEF Leaves, IsTest
        <3> QED
            BY <1>1, <2>1, <3>1
    <2>3. Branch[m] = stree[m].count - 1 /\ stree[m].count \in Nat /\ q[m] < stree[m].count
        BY <1>1, <1>2, <1>3, <2>1, <2>2
    <2>4. q[m] < Branch[m]
        BY <2>1, <2>2, <2>3
    <2> QED
        BY <2>1, <2>4 DEF Before
<1> QED
    BY <1>4 DEF VisitedBefore

LEMMA EndKeeps ==
    ASSUME SearchInv, deterministic, End
    PROVE  SearchInv'
<1>1. SearchTypes /\ FollowsBranch /\ VisitedBefore /\ FailureAhead
    BY DEF SearchInv
<1>2. phase \in Runs /\ 0 \in Limits /\ UNCHANGED <<test, failing, deterministic>>
    BY DEF End
<1>3. path = Branch /\ path \in Leaves(test) /\ Len(path) = Len(stree)
    BY <1>1, <1>2, EndOfBranch
<1>4. CASE path = failing
    <2>1. Fail
        BY <1>4 DEF End
    <2>2. CASE phase = "second"
        <3>1. phase' = "reproduced" /\ UNCHANGED <<stree, path, visited>>
            BY <2>1, <2>2 DEF Fail, Stop
        <3>2. Branch' = Branch
            BY <3>1 DEF Branch
        <3> QED
            BY <1>1, <1>2, <1>4, <3>1, <3>2
            DEF SearchInv, SearchTypes, FollowsBranch, VisitedBefore, FailureAhead, Leaves
    <2>3. CASE phase # "second"
        <3>1. phase' = "second" /\ path' = <<>> /\ UNCHANGED <<stree, visited>> /\ phase = "first"
            BY <1>2, <2>1, <2>3 DEF Fail, Runs
        <3>2. Branch' = Branch
            BY <3>1 DEF Branch
        <3>3. SearchTypes' /\ FailureAhead'
            <4>1. path' \in Seq(Nat)
                BY <3>1
            <4> QED
                BY <1>1, <1>2, <1>3, <1>4, <3>1, <3>2, <4>1
                DEF SearchTypes, FailureAhead, Leaves, Runs
        <3>4. FollowsBranch'
            <4>1. Len(path') <= Len(stree) /\ DOMAIN path' = {}
                BY <1>1, <3>1 DEF SearchTypes
            <4> QED
                BY <1>1, <1>2, <3>1, <3>2, <4>1 DEF FollowsBranch
        <3>5. VisitedBefore'
            BY <1>1, <1>2, <3>1, <3>2 DEF VisitedBefore, Leaves
        <3> QED
            BY <3>3, <3>4, <3>5 DEF SearchInv
    <2> QED
        BY <2>2, <2>3
<1>5. CASE path # failing
    <2>1. phase # "second" /\ phase = "first"
        BY <1>1, <1>2, <1>3, <1>5 DEF FailureAhead, Runs
    <2>2. IterationEnd
        BY <1>5, <2>1 DEF End
    <2>3. CASE Open = {}
        <3>1. phase' = "done" /\ visited' = visited \cup {path} /\ UNCHANGED <<stree, path>>
            BY <1>3, <2>2, <2>3 DEF IterationEnd
        <3>2. visited' = Leaves(test) /\ Branch' = Branch
            BY <1>1, <1>3, <2>1, <2>3, <3>1, NothingLeft DEF Branch
        <3>3. failing \notin visited' /\ failing = NoPath
            BY <1>1, <1>5, <3>1, <3>2 DEF FailureAhead, SearchTypes
        <3> QED
            BY <1>1, <1>2, <3>1, <3>2, <3>3
            DEF SearchInv, SearchTypes, FollowsBranch, VisitedBefore, FailureAhead, Leaves
    <2>4. CASE Open # {}
        <3> DEFINE i == CHOOSE i \in Open : \A j \in Open : j <= i
        <3>1. Advance(i) /\ visited' = visited \cup {path} /\ path' = <<>> /\ UNCHANGED phase
            BY <1>3, <2>2, <2>4 DEF IterationEnd
        <3>2. i \in Open /\ \A j \in Open : j <= i
            <4>1. stree \in Seq(SavedNodes)
                BY <1>1 DEF SearchTypes
            <4>2. Open \in SUBSET (0 .. Len(stree)) /\ Len(stree) \in Nat
                BY <4>1 DEF Open
            <4>3. \E k \in Open : \A j \in Open : j <= k
                BY <2>4, <4>2, LargestOf
            <4> QED
                BY <4>3
        <3> HIDE DEF i
        <3> QED
            BY <1>1, <1>2, <1>3, <1>5, <2>1, <3>1, <3>2, AdvanceKeeps DEF SearchInv
    <2> QED
        BY <2>3, <2>4
<1> QED
    BY <1>4, <1>5

LEMMA SearchStart == SearchInit => SearchInv
<1> SUFFICES ASSUME SearchInit
             PROVE  SearchInv
    OBVIOUS
<1>1. IsTest(test) /\ stree = <<>> /\ path = <<>> /\ visited = {} /\ phase = "first"
    BY TreeSearchAssumption DEF SearchInit
<1>2. Branch = <<>> /\ \A q : ~ Before(q, Branch)
    BY <1>1 DEF Branch, Before
<1> QED
    BY <1>1, <1>2
    DEF SearchInit, SearchInv, SearchTypes, FollowsBranch, VisitedBefore, FailureAhead, Runs,
        IsTest

LEMMA SearchStep == SearchInv /\ [SearchNext]_searchVars => SearchInv'
<1> SUFFICES ASSUME SearchInv, [SearchNext]_searchVars
             PROVE  SearchInv'
    OBVIOUS
<1>1. CASE ~ deterministic
    <2>1. deterministic' = deterministic
        BY DEF SearchNext, Draw, Rand, End, searchVars
    <2> QED
        BY <1>1, <2>1 DEF SearchInv
<1>2. CASE deterministic /\ Draw
    BY <1>2, DrawKeeps
<1>3. CASE deterministic /\ End
    BY <1>3, EndKeeps
<1>4. CASE UNCHANGED searchVars
    BY <1>4
    DEF searchVars, SearchInv, SearchTypes, FollowsBranch, VisitedBefore, FailureAhead, Branch,
        Leaves, Runs
<1> QED
    BY <1>1, <1>2, <1>3, <1>4 DEF SearchNext

(* For any deterministic test the search runs every execution, and none    *)
(* twice (rand_impl and iteration_end_impl of full_search_scheduler.hpp).  *)
THEOREM SearchCorrect == SearchSpec => []SearchIsExhaustive
<1>1. SearchInv => SearchIsExhaustive
    <2> SUFFICES ASSUME SearchInv, deterministic
                 PROVE  /\ phase = "first" => path \notin visited
                        /\ phase = "done" => visited = Leaves(test)
        BY DEF SearchIsExhaustive
    <2>1. SearchTypes /\ FollowsBranch /\ VisitedBefore
        BY DEF SearchInv
    <2>2. ~ Before(path, Branch)
        <3>1. \A i \in DOMAIN path : path[i] = Branch[i] /\ path[i] \in Nat
            <4>1. path \in Seq(Nat) /\ stree \in Seq(SavedNodes)
                  /\ Len(path) <= Len(stree)
                BY <2>1 DEF SearchTypes, FollowsBranch
            <4>2. \A i \in DOMAIN path : i \in DOMAIN stree
                BY <4>1
            <4> QED
                BY <2>1, <4>1, <4>2 DEF FollowsBranch, Branch
        <3> QED
            BY <3>1 DEF Before
    <2> QED
        BY <2>1, <2>2 DEF VisitedBefore
<1> QED
    BY <1>1, SearchStart, SearchStep, PTL DEF SearchSpec

(* And the second run of a test that fails repeats its failure (simulate   *)
(* and simulate2 of context.hpp).                                          *)
THEOREM SearchReplays == SearchSpec => []FailureIsReplayed
<1>1. SearchInv => FailureIsReplayed
    BY DEF SearchInv, SearchTypes, FailureAhead, FailureIsReplayed, Runs
<1> QED
    BY <1>1, SearchStart, SearchStep, PTL DEF SearchSpec

-----------------------------------------------------------------------------
(* Fibers: for any threads and any nesting of preemption_disablers, who    *)
(* runs has its own level, no RL_VERIFY of the switches fails, and         *)
(* iterations do not mix.                                                  *)

Calls_ == LoopTop \cup InTest \cup {"before", "done", "after"}

FibersTypeOK ==
    /\ current \in Fibers \cup {MainFiber}
    /\ at \in [Fibers -> Calls_]
    /\ disable \in Nat
    /\ saved \in [Fibers -> Nat \cup {None}]
    /\ from \in [Fibers -> Fibers \cup {NoFiber}]
    /\ dp \in [Fibers -> Nat]
    /\ handOver \in [Fibers -> BOOLEAN] /\ normal \in [Fibers -> BOOLEAN]
    /\ func \in [Fibers -> BOOLEAN]
    /\ first \in BOOLEAN /\ began \in BOOLEAN
    /\ ready \subseteq Fibers /\ waiting \subseteq Fibers /\ timed \subseteq Fibers
    /\ absent \subseteq Fibers /\ created \subseteq Fibers
    /\ level \in [Fibers -> Nat]

(* The lists of the scheduler and where their threads are. *)
Listed ==
    /\ timed \subseteq waiting
    /\ ready \cap waiting = {} /\ ready \cap absent = {}
    /\ \A t \in waiting : at[t] = "parked" /\ t # current
    /\ \A t \in absent : at[t] \in LoopTop
    /\ \A t \in Fibers : at[t] \notin LoopTop \cup {"after"} => t \in ready \cup waiting
    /\ current \in Fibers /\ at[current] # "after" => current \in ready
    /\ current = MainFiber => \A t \in Fibers : at[t] \in LoopTop

(* Only the current fiber is in the middle of something, and a hand-over   *)
(* joins two fibers: the waker in unpark_thread and the one that runs.     *)
HandedOver ==
    \A t \in Fibers :
        /\ at[t] \in {"user", "handed", "before", "done", "after"} => t = current
        /\ at[t] = "unparking" /\ t # current => current \in Fibers /\ from[current] = t
        /\ from[t] # NoFiber =>
              /\ t = current /\ at[t] \in {"parked", "handed"}
              /\ at[from[t]] = "unparking"
              /\ handOver[t] /\ normal[t]
        /\ at[t] = "handed" => from[t] # NoFiber
        /\ at[t] = "parked" /\ from[t] = NoFiber /\ handOver[t] =>
              t \in waiting \/ (t = current /\ ~ normal[t])
        /\ saved[t] # None <=> at[t] \in {"handed", "switched"}

(* The level of a fiber is where it has left it; at every switch the       *)
(* counter is 0.                                                           *)
Levels ==
    /\ \A t \in Fibers :
          /\ at[t] \in LoopTop \cup {"before", "done", "after", "sched", "unparking"}
                => level[t] = 0
          /\ at[t] = "parked" => level[t] = dp[t]
          /\ at[t] = "switched" => level[t] = saved[t]
    /\ current \in Fibers =>
          CASE at[current] = "user" -> disable = level[current]
            [] at[current] = "handed" -> disable + saved[current] = level[current]
            [] OTHER -> disable = 0

(* An iteration begins with before() and ends with after(). *)
Apart ==
    /\ current \in Fibers /\ first =>
          current \in Static /\ \A t \in Fibers : at[t] \in LoopTop
    /\ current \in Fibers /\ ~ first => began \/ at[current] = "before"
    /\ \A t \in Fibers :
          /\ at[t] = "before" => t \in Static
          /\ at[t] \in {"before", "after"} => \A u \in Fibers \ {t} : at[u] \in LoopTop
          /\ at[t] \in InTest => began /\ t \in Static \cup created
          /\ func[t] => t \in created

FibersInv ==
    /\ FibersTypeOK
    /\ outcome # "verify_failed"
    /\ outcome = "none" => Listed /\ HandedOver /\ Levels /\ Apart

-----------------------------------------------------------------------------
USE DEF Calls_, LoopTop, InTest, None, NoFiber, MainFiber

(* Each step of a fiber preserves the invariant: one lemma for each action,*)
(* one step for each of its parts.                                         *)

LEMMA IterateStep ==
    ASSUME FibersInv, Iterate
    PROVE  FibersInv'
<1> USE DEF Iterate, ForgetThreads
<1> outcome = "none"
    OBVIOUS
<1> FibersTypeOK /\ Listed /\ HandedOver /\ Levels /\ Apart
    BY DEF FibersInv
<1>1. FibersTypeOK'
    BY FibersAssumption DEF FibersTypeOK
<1>2. outcome' # "verify_failed"
    OBVIOUS
<1>3. outcome' = "none" => Listed'
    BY DEF Listed
<1>4. outcome' = "none" => HandedOver'
    BY DEF Listed, HandedOver
<1>5. outcome' = "none" => Levels'
    BY DEF Listed, Levels
<1>6. outcome' = "none" => Apart'
    BY DEF Listed, Apart
<1>7. QED
    BY <1>1, <1>2, <1>3, <1>4, <1>5, <1>6 DEF FibersInv

LEMMA EnterLoopStep ==
    ASSUME FibersInv, NEW t \in Fibers, EnterLoop(t)
    PROVE  FibersInv'
<1> USE DEF EnterLoop, OnStart, HasBody, Verify, Go, switching, scheduling
<1> outcome = "none"
    OBVIOUS
<1> FibersTypeOK /\ Listed /\ HandedOver /\ Levels /\ Apart
    BY DEF FibersInv
<1>1. FibersTypeOK'
    BY DEF FibersTypeOK
<1>2. outcome' # "verify_failed"
    BY DEF HandedOver
<1>3. outcome' = "none" => Listed'
    BY FibersAssumption DEF FibersTypeOK, Listed
<1>4. outcome' = "none" => HandedOver'
    BY DEF FibersTypeOK, HandedOver
<1>5. outcome' = "none" => Levels'
    BY DEF FibersTypeOK, Levels
<1>6. outcome' = "none" => Apart'
    BY DEF FibersTypeOK, HandedOver, Apart
<1>7. QED
    BY <1>1, <1>2, <1>3, <1>4, <1>5, <1>6 DEF FibersInv

LEMMA BeforeEndsStep ==
    ASSUME FibersInv, NEW t \in Fibers, BeforeEnds(t)
    PROVE  FibersInv'
<1> USE DEF BeforeEnds, OnStart, HasBody, Verify, Go, RunsIn, switching,
       scheduling
<1> outcome = "none"
    OBVIOUS
<1> FibersTypeOK /\ Listed /\ HandedOver /\ Levels /\ Apart
    BY DEF FibersInv
<1>1. FibersTypeOK'
    BY DEF FibersTypeOK
<1>2. outcome' # "verify_failed"
    BY DEF HandedOver
<1>3. outcome' = "none" => Listed'
    BY DEF Listed
<1>4. outcome' = "none" => HandedOver'
    BY DEF HandedOver
<1>5. outcome' = "none" => Levels'
    BY DEF Levels
<1>6. outcome' = "none" => Apart'
    BY DEF Apart
<1>7. QED
    BY <1>1, <1>2, <1>3, <1>4, <1>5, <1>6 DEF FibersInv

LEMMA SchedulingPointStep ==
    ASSUME FibersInv, NEW t \in Fibers, SchedulingPoint(t)
    PROVE  FibersInv'
<1> USE DEF SchedulingPoint, Schedule_, Verify, Go, RunsIn, switching,
       iterating
<1> outcome = "none"
    OBVIOUS
<1> FibersTypeOK /\ Listed /\ HandedOver /\ Levels /\ Apart
    BY DEF FibersInv
<1>1. FibersTypeOK'
    <2>1. at' \in [Fibers -> Calls_]
        BY DEF FibersTypeOK
    <2>2. current' \in Fibers /\ \E b \in BOOLEAN : normal' = [normal EXCEPT ![current'] = b]
        BY DEF FibersTypeOK
    <2>3. normal' \in [Fibers -> BOOLEAN]
        BY <2>2 DEF FibersTypeOK
    <2>4. ready' \subseteq Fibers /\ waiting' \subseteq Fibers /\ timed' \subseteq Fibers
        BY DEF FibersTypeOK
    <2>5. UNCHANGED <<disable, saved, from, dp, handOver, func, first, began, absent, created,
                      level>>
        OBVIOUS
    <2> QED
        BY <2>1, <2>2, <2>3, <2>4, <2>5 DEF FibersTypeOK
<1>2. outcome' # "verify_failed"
    BY DEF HandedOver
<1>3. outcome' = "none" => Listed'
    BY FibersAssumption DEF FibersTypeOK, Listed
<1>4. outcome' = "none" => HandedOver'
    BY DEF FibersTypeOK, HandedOver
<1>5. outcome' = "none" => Levels'
    BY DEF HandedOver, Levels
<1>6. outcome' = "none" => Apart'
    BY DEF Apart
<1>7. QED
    BY <1>1, <1>2, <1>3, <1>4, <1>5, <1>6 DEF FibersInv

LEMMA ReturnFromSchedStep ==
    ASSUME FibersInv, NEW t \in Fibers, ReturnFromSched(t)
    PROVE  FibersInv'
<1> USE DEF ReturnFromSched, Verify, Go, RunsIn, switching, iterating,
       scheduling
<1> outcome = "none"
    OBVIOUS
<1> FibersTypeOK /\ Listed /\ HandedOver /\ Levels /\ Apart
    BY DEF FibersInv
<1>1. FibersTypeOK'
    BY DEF FibersTypeOK
<1>2. outcome' # "verify_failed"
    BY DEF Levels
<1>3. outcome' = "none" => Listed'
    BY DEF Listed
<1>4. outcome' = "none" => HandedOver'
    BY DEF HandedOver
<1>5. outcome' = "none" => Levels'
    BY DEF Levels
<1>6. outcome' = "none" => Apart'
    BY DEF Apart
<1>7. QED
    BY <1>1, <1>2, <1>3, <1>4, <1>5, <1>6 DEF FibersInv

LEMMA DisableStep ==
    ASSUME FibersInv, NEW t \in Fibers, Disable(t)
    PROVE  FibersInv'
<1> USE DEF Disable, RunsIn, iterating, scheduling
<1> outcome = "none"
    OBVIOUS
<1> FibersTypeOK /\ Listed /\ HandedOver /\ Levels /\ Apart
    BY DEF FibersInv
<1>1. FibersTypeOK'
    BY DEF FibersTypeOK
<1>2. outcome' # "verify_failed"
    OBVIOUS
<1>3. outcome' = "none" => Listed'
    BY DEF Listed
<1>4. outcome' = "none" => HandedOver'
    BY DEF HandedOver
<1>5. outcome' = "none" => Levels'
    BY DEF FibersTypeOK, Levels
<1>6. outcome' = "none" => Apart'
    BY DEF Apart
<1>7. QED
    BY <1>1, <1>2, <1>3, <1>4, <1>5, <1>6 DEF FibersInv

LEMMA EnableStep ==
    ASSUME FibersInv, NEW t \in Fibers, Enable(t)
    PROVE  FibersInv'
<1> USE DEF Enable, RunsIn, iterating, scheduling
<1> outcome = "none"
    OBVIOUS
<1> FibersTypeOK /\ Listed /\ HandedOver /\ Levels /\ Apart
    BY DEF FibersInv
<1>1. FibersTypeOK'
    BY DEF FibersTypeOK, Levels
<1>2. outcome' # "verify_failed"
    OBVIOUS
<1>3. outcome' = "none" => Listed'
    BY DEF Listed
<1>4. outcome' = "none" => HandedOver'
    BY DEF HandedOver
<1>5. outcome' = "none" => Levels'
    BY DEF FibersTypeOK, Levels
<1>6. outcome' = "none" => Apart'
    BY DEF Apart
<1>7. QED
    BY <1>1, <1>2, <1>3, <1>4, <1>5, <1>6 DEF FibersInv

LEMMA ReturnFromParkStep ==
    ASSUME FibersInv, NEW t \in Fibers, ReturnFromPark(t)
    PROVE  FibersInv'
<1> USE DEF ReturnFromPark, TakesLevel, Verify, Go, RunsIn, iterating,
       scheduling
<1> outcome = "none"
    OBVIOUS
<1> FibersTypeOK /\ Listed /\ HandedOver /\ Levels /\ Apart
    BY DEF FibersInv
<1>1. FibersTypeOK'
    BY DEF FibersTypeOK
<1>2. outcome' # "verify_failed"
    BY DEF Listed, HandedOver, Levels
<1>3. outcome' = "none" => Listed'
    BY DEF FibersTypeOK, Listed
<1>4. outcome' = "none" => HandedOver'
    BY DEF FibersTypeOK, HandedOver
<1>5. outcome' = "none" => Levels'
    BY DEF FibersTypeOK, Levels
<1>6. outcome' = "none" => Apart'
    BY DEF FibersTypeOK, Apart
<1>7. QED
    BY <1>1, <1>2, <1>3, <1>4, <1>5, <1>6 DEF FibersInv

LEMMA ReturnFromUnparkStep ==
    ASSUME FibersInv, NEW t \in Fibers, ReturnFromUnpark(t)
    PROVE  FibersInv'
<1> USE DEF ReturnFromUnpark, Go, RunsIn, switching, iterating, scheduling
<1> outcome = "none"
    OBVIOUS
<1> FibersTypeOK /\ Listed /\ HandedOver /\ Levels /\ Apart
    BY DEF FibersInv
<1>1. FibersTypeOK'
    BY DEF FibersTypeOK
<1>2. outcome' # "verify_failed"
    OBVIOUS
<1>3. outcome' = "none" => Listed'
    BY DEF Listed
<1>4. outcome' = "none" => HandedOver'
    BY DEF HandedOver
<1>5. outcome' = "none" => Levels'
    BY DEF Levels
<1>6. outcome' = "none" => Apart'
    BY DEF Apart
<1>7. QED
    BY <1>1, <1>2, <1>3, <1>4, <1>5, <1>6 DEF FibersInv

LEMMA SwitchBackStep ==
    ASSUME FibersInv, NEW t \in Fibers, SwitchBack(t)
    PROVE  FibersInv'
<1> USE DEF SwitchBack, Verify, Go, RunsIn, iterating, scheduling
<1> outcome = "none"
    OBVIOUS
<1> FibersTypeOK /\ Listed /\ HandedOver /\ Levels /\ Apart
    BY DEF FibersInv
<1>1. FibersTypeOK'
    BY DEF FibersTypeOK, HandedOver
<1>2. outcome' # "verify_failed"
    BY DEF HandedOver
<1>3. outcome' = "none" => Listed'
    BY FibersAssumption DEF FibersTypeOK, Listed, HandedOver
<1>4. outcome' = "none" => HandedOver'
    BY DEF FibersTypeOK, HandedOver
<1>5. outcome' = "none" => Levels'
    BY DEF FibersTypeOK, HandedOver, Levels
<1>6. outcome' = "none" => Apart'
    BY DEF Apart
<1>7. QED
    BY <1>1, <1>2, <1>3, <1>4, <1>5, <1>6 DEF FibersInv

LEMMA ReturnFromSwitchBackStep ==
    ASSUME FibersInv, NEW t \in Fibers, ReturnFromSwitchBack(t)
    PROVE  FibersInv'
<1> USE DEF ReturnFromSwitchBack, Verify, Go, RunsIn, iterating, scheduling
<1> outcome = "none"
    OBVIOUS
<1> FibersTypeOK /\ Listed /\ HandedOver /\ Levels /\ Apart
    BY DEF FibersInv
<1>1. FibersTypeOK'
    BY DEF FibersTypeOK, HandedOver
<1>2. outcome' # "verify_failed"
    BY DEF HandedOver
<1>3. outcome' = "none" => Listed'
    BY DEF Listed
<1>4. outcome' = "none" => HandedOver'
    BY DEF FibersTypeOK, HandedOver
<1>5. outcome' = "none" => Levels'
    BY DEF FibersTypeOK, Levels
<1>6. outcome' = "none" => Apart'
    BY DEF Apart
<1>7. QED
    BY <1>1, <1>2, <1>3, <1>4, <1>5, <1>6 DEF FibersInv

LEMMA FinishThreadStep ==
    ASSUME FibersInv, NEW t \in Fibers, FinishThread(t)
    PROVE  FibersInv'
<1> USE DEF FinishThread, Schedule_, NobodyLeft, Verify, Go, RunsIn, switching
<1> outcome = "none"
    OBVIOUS
<1> FibersTypeOK /\ Listed /\ HandedOver /\ Levels /\ Apart
    BY DEF FibersInv
<1>1. FibersTypeOK'
  <2>1. ready' \subseteq Fibers /\ waiting' \subseteq Fibers /\ timed' \subseteq Fibers
    BY DEF FibersTypeOK
  <2>2. absent' \subseteq Fibers
    BY DEF FibersTypeOK
  <2>3. current' \in Fibers \cup {MainFiber}
    BY DEF FibersTypeOK
  <2>4. at' \in [Fibers -> Calls_]
    BY DEF FibersTypeOK
  <2>5. normal' \in [Fibers -> BOOLEAN]
    BY DEF FibersTypeOK
  <2>q. QED
    BY <2>1, <2>2, <2>3, <2>4, <2>5 DEF FibersTypeOK
<1>2. outcome' # "verify_failed"
    BY DEF HandedOver, Levels
<1>3. outcome' = "none" => Listed'
    BY FibersAssumption DEF FibersTypeOK, Listed
<1>4. outcome' = "none" => HandedOver'
    BY DEF FibersTypeOK, HandedOver
<1>5. outcome' = "none" => Levels'
    BY DEF FibersTypeOK, HandedOver, Levels
<1>6. outcome' = "none" => Apart'
    BY DEF FibersTypeOK, Listed, Apart
<1>7. QED
    BY <1>1, <1>2, <1>3, <1>4, <1>5, <1>6 DEF FibersInv

LEMMA AfterEndsStep ==
    ASSUME FibersInv, NEW t \in Fibers, AfterEnds(t)
    PROVE  FibersInv'
<1> USE DEF AfterEnds, Go, RunsIn, switching, iterating, scheduling
<1> outcome = "none"
    OBVIOUS
<1> FibersTypeOK /\ Listed /\ HandedOver /\ Levels /\ Apart
    BY DEF FibersInv
<1>1. FibersTypeOK'
    BY DEF FibersTypeOK
<1>2. outcome' # "verify_failed"
    OBVIOUS
<1>3. outcome' = "none" => Listed'
    BY FibersAssumption DEF FibersTypeOK, Listed, Apart
<1>4. outcome' = "none" => HandedOver'
    BY DEF FibersTypeOK, HandedOver, Apart
<1>5. outcome' = "none" => Levels'
    BY DEF HandedOver, Levels
<1>6. outcome' = "none" => Apart'
    BY DEF Apart
<1>7. QED
    BY <1>1, <1>2, <1>3, <1>4, <1>5, <1>6 DEF FibersInv

LEMMA FailTestStep ==
    ASSUME FibersInv, NEW t \in Fibers, FailTest(t)
    PROVE  FibersInv'
<1> USE DEF FailTest, switching, iterating, scheduling
<1> outcome = "none"
    OBVIOUS
<1> FibersTypeOK /\ Listed /\ HandedOver /\ Levels /\ Apart
    BY DEF FibersInv
<1>1. FibersTypeOK'
    BY DEF FibersTypeOK
<1>2. outcome' # "verify_failed"
    OBVIOUS
<1>3. outcome' = "none" => Listed'
    BY DEF Listed
<1>4. outcome' = "none" => HandedOver'
    BY DEF HandedOver
<1>5. outcome' = "none" => Levels'
    BY DEF Levels
<1>6. outcome' = "none" => Apart'
    BY DEF Apart
<1>7. QED
    BY <1>1, <1>2, <1>3, <1>4, <1>5, <1>6 DEF FibersInv

LEMMA ParkStep ==
    ASSUME FibersInv, NEW t \in Fibers, NEW isTimed \in BOOLEAN, NEW doSwitch
           \in BOOLEAN, Park_(t, isTimed, doSwitch)
    PROVE  FibersInv'
<1> USE DEF Park_, Schedule_, NobodyLeft, Verify, Go, RunsIn, iterating,
       scheduling
<1> outcome = "none"
    OBVIOUS
<1> FibersTypeOK /\ Listed /\ HandedOver /\ Levels /\ Apart
    BY DEF FibersInv
<1>1. FibersTypeOK'
  <2>1. ready' \subseteq Fibers /\ waiting' \subseteq Fibers /\ timed' \subseteq Fibers
    BY DEF FibersTypeOK
  <2>2. current' \in Fibers \cup {MainFiber}
    BY DEF FibersTypeOK
  <2>3. at' \in [Fibers -> Calls_]
    BY DEF FibersTypeOK
  <2>4. normal' \in [Fibers -> BOOLEAN]
    BY DEF FibersTypeOK
  <2>5. dp' \in [Fibers -> Nat] /\ handOver' \in [Fibers -> BOOLEAN] /\ disable' \in Nat
    BY DEF FibersTypeOK
  <2>q. QED
    BY <2>1, <2>2, <2>3, <2>4, <2>5 DEF FibersTypeOK
<1>2. outcome' # "verify_failed"
    BY DEF HandedOver
<1>3. outcome' = "none" => Listed'
    BY FibersAssumption DEF FibersTypeOK, Listed
<1>4. outcome' = "none" => HandedOver'
    BY DEF FibersTypeOK, HandedOver
<1>5. outcome' = "none" => Levels'
    BY DEF FibersTypeOK, HandedOver, Levels
<1>6. outcome' = "none" => Apart'
    BY DEF FibersTypeOK, Apart
<1>7. QED
    BY <1>1, <1>2, <1>3, <1>4, <1>5, <1>6 DEF FibersInv

LEMMA UnparkStep ==
    ASSUME FibersInv, NEW t \in Fibers, NEW u \in Fibers, UnparkFiber(t, u)
    PROVE  FibersInv'
<1> USE DEF UnparkFiber, Go, RunsIn, iterating
<1> outcome = "none"
    OBVIOUS
<1> FibersTypeOK /\ Listed /\ HandedOver /\ Levels /\ Apart
    BY DEF FibersInv
<1>1. FibersTypeOK'
  <2>1. ready' \subseteq Fibers /\ waiting' \subseteq Fibers /\ timed' \subseteq Fibers
    BY DEF FibersTypeOK
  <2>2. current' \in Fibers \cup {MainFiber}
    BY DEF FibersTypeOK
  <2>3. at' \in [Fibers -> Calls_]
    BY DEF FibersTypeOK
  <2>4. normal' \in [Fibers -> BOOLEAN]
    BY DEF FibersTypeOK
  <2>5. from' \in [Fibers -> Fibers \cup {NoFiber}]
    BY DEF FibersTypeOK
  <2>q. QED
    BY <2>1, <2>2, <2>3, <2>4, <2>5 DEF FibersTypeOK
<1>2. outcome' # "verify_failed"
    OBVIOUS
<1>3. outcome' = "none" => Listed'
    BY FibersAssumption DEF FibersTypeOK, Listed
<1>4. outcome' = "none" => HandedOver'
    BY FibersAssumption DEF FibersTypeOK, Listed, HandedOver
<1>5. outcome' = "none" => Levels'
    BY DEF FibersTypeOK, Listed, Levels
<1>6. outcome' = "none" => Apart'
    BY DEF FibersTypeOK, Apart
<1>7. QED
    BY <1>1, <1>2, <1>3, <1>4, <1>5, <1>6 DEF FibersInv

LEMMA CreateStep ==
    ASSUME FibersInv, NEW t \in Fibers, NEW u \in Fibers, CreateFiberThread(t,
           u)
    PROVE  FibersInv'
<1> USE DEF CreateFiberThread, Go, RunsIn, switching
<1> outcome = "none"
    OBVIOUS
<1> FibersTypeOK /\ Listed /\ HandedOver /\ Levels /\ Apart
    BY DEF FibersInv
<1>1. FibersTypeOK'
    BY DEF FibersTypeOK
<1>2. outcome' # "verify_failed"
    OBVIOUS
<1>3. outcome' = "none" => Listed'
    BY DEF Listed
<1>4. outcome' = "none" => HandedOver'
    BY DEF HandedOver
<1>5. outcome' = "none" => Levels'
    BY DEF Levels
<1>6. outcome' = "none" => Apart'
    BY DEF Apart
<1>7. QED
    BY <1>1, <1>2, <1>3, <1>4, <1>5, <1>6 DEF FibersInv

LEMMA InitInv == FibersInit => FibersInv
<1> SUFFICES ASSUME FibersInit
             PROVE  FibersInv
    OBVIOUS
<1> USE FibersAssumption DEF FibersInit
<1>1. FibersTypeOK
    BY DEF FibersTypeOK
<1>2. outcome = "none"
    OBVIOUS
<1>3. Listed
    BY DEF Listed
<1>4. HandedOver
    BY DEF HandedOver
<1>5. Levels
    BY DEF Levels
<1>6. Apart
    BY DEF Apart
<1>7. QED
    BY <1>1, <1>2, <1>3, <1>4, <1>5, <1>6 DEF FibersInv

LEMMA StutterStep == FibersInv /\ UNCHANGED fiberVars => FibersInv'
<1> SUFFICES ASSUME FibersInv, UNCHANGED fiberVars
             PROVE  FibersInv'
    OBVIOUS
<1> USE DEF fiberVars
<1>1. FibersTypeOK'
    BY DEF FibersInv, FibersTypeOK
<1>2. outcome' # "verify_failed"
    BY DEF FibersInv
<1>3. outcome' = "none" => Listed' /\ HandedOver' /\ Levels' /\ Apart'
    BY DEF FibersInv, Listed, HandedOver, Levels, Apart
<1>4. QED
    BY <1>1, <1>2, <1>3 DEF FibersInv

LEMMA NextInv == FibersInv /\ [FibersNext]_fiberVars => FibersInv'
<1> SUFFICES ASSUME FibersInv, [FibersNext]_fiberVars
             PROVE  FibersInv'
    OBVIOUS
<1>1. CASE Iterate
    BY <1>1, IterateStep
<1>2. ASSUME NEW t \in Fibers, FiberStep(t)
      PROVE  FibersInv'
  <2>1. CASE EnterLoop(t) \/ BeforeEnds(t)
    BY <2>1, EnterLoopStep, BeforeEndsStep
  <2>2. CASE SchedulingPoint(t) \/ ReturnFromSched(t)
    BY <2>2, SchedulingPointStep, ReturnFromSchedStep
  <2>3. CASE Disable(t) \/ Enable(t)
    BY <2>3, DisableStep, EnableStep
  <2>4. CASE \E isTimed, doSwitch \in BOOLEAN : Park_(t, isTimed, doSwitch)
    BY <2>4, ParkStep
  <2>5. CASE ReturnFromPark(t) \/ ReturnFromUnpark(t)
    BY <2>5, ReturnFromParkStep, ReturnFromUnparkStep
  <2>6. CASE \E u \in Fibers : UnparkFiber(t, u) \/ CreateFiberThread(t, u)
    BY <2>6, UnparkStep, CreateStep
  <2>7. CASE SwitchBack(t) \/ ReturnFromSwitchBack(t)
    BY <2>7, SwitchBackStep, ReturnFromSwitchBackStep
  <2>8. CASE FinishThread(t) \/ AfterEnds(t) \/ FailTest(t)
    BY <2>8, FinishThreadStep, AfterEndsStep, FailTestStep
  <2>9. QED
    BY <1>2, <2>1, <2>2, <2>3, <2>4, <2>5, <2>6, <2>7, <2>8 DEF FiberStep
<1>3. CASE UNCHANGED fiberVars
    BY <1>3, StutterStep
<1>4. QED
    BY <1>1, <1>2, <1>3 DEF FibersNext

(* For any threads and any nesting of preemption_disablers the fields of   *)
(* the fibers agree with one another whenever a fiber runs (context.hpp).  *)
THEOREM FibersCorrect == FibersSpec => []FibersInv
BY InitInv, NextInv, PTL DEF FibersSpec

(* Whoever runs has its own level of disabled preemption, whichever way it *)
(* was resumed, and no RL_VERIFY of the switches fails (schedule, park,    *)
(* unpark and switch_back of context.hpp).                                 *)
THEOREM LevelsCorrect == FibersSpec => []LevelsAreOwn
<1>1. FibersInv => LevelsAreOwn
    BY DEF FibersInv, FibersTypeOK, Levels, LevelsAreOwn, RunsIn
<1>2. QED
    BY <1>1, FibersCorrect, PTL

(* No thread runs outside of the iteration it belongs to, and before() and *)
(* after() run alone, although the fibers live through all the iterations  *)
(* (fiber_proc_impl).                                                      *)
THEOREM IterationsCorrect == FibersSpec => []IterationsApart
<1>1. FibersInv => IterationsApart
    BY DEF FibersInv, FibersTypeOK, Apart, IterationsApart
<1>2. QED
    BY <1>1, FibersCorrect, PTL
=============================================================================
