--------------------------- MODULE SamplesProofs ----------------------------
(***************************************************************************)
(* Proofs about the sample programs, for any clients and any number of     *)
(* threads: the deque of ws_deque.cpp (WsDeque), the eventcounts           *)
(* (EventCount) and the lock-free stacks (AbaStack).  They share the way   *)
(* their clients call them (Samples) and have nothing else to do with one  *)
(* another; each has an invariant of its own.                              *)
(***************************************************************************)
EXTENDS AbaStack, WsDeque, EventCount, FiniteSetTheorems, SequenceTheorems,
        NaturalsInduction, WellFoundedInduction, TLAPS

-----------------------------------------------------------------------------
(* The deque. *)

(* What the deque holds: from the head, or from the one that the thief     *)
(* with the lock is after, to the tail, an item included that the owner is *)
(* putting there or may still take.                                        *)
First == IF mem.lock = main THEN mem.head ELSE loc[mem.lock].head

Past == IF label[Owner] \in {"dpush.tail", "dpop.head", "dpop.lock"}
        THEN mem.tail + 1 ELSE mem.tail

ItemsIn(slots, n, first, m) == [i \in 1 .. m |-> slots[(first + i - 1) % n]]

Held == ItemsIn(mem.slots, Size, First, Past - First)

Increasing(s) == \A i, j \in DOMAIN s : i < j => s[i] < s[j]

(* Every one of the n items pushed is in the deque, popped or stolen; what *)
(* is stolen is older than what is still there.                            *)
ItemsAgree(held, n, popped, stolen) ==
    /\ Increasing(held) /\ Increasing(stolen) /\ IsInjective(popped)
    /\ Range(popped) \cap (Range(held) \cup Range(stolen)) = {}
    /\ \A x \in Range(stolen), y \in Range(held) : x < y
    /\ Range(held) \cup Range(popped) \cup Range(stolen) = 1 .. n

Arrays == UNION {[0 .. n - 1 -> Nat] : n \in Nat \ {0}}

StealLabels == {"steal.head", "steal.tail", "steal.item", "steal.undo"}

LabelsOf(t) ==
    CASE t = Owner -> {"idle", "dpush.tail", "dpush.lock", "dpop.head", "dpop.lock"}
      [] t = main -> {"idle"}
      [] OTHER -> {"idle"} \cup StealLabels

DequeTypes ==
    /\ sample = [name |-> "deque", variant |-> "cpp"]
    /\ mem \in [slots : Arrays, head : Nat, tail : Nat, lock : Callers, pushed : Nat,
                popped : Seq(Nat), stolen : Seq(Nat)]
    /\ loc \in [Callers -> [head : Nat]]

CallsUnderWay ==
    /\ label \in [Callers -> {"idle", "dpush.tail", "dpush.lock", "dpop.head", "dpop.lock"}
                              \cup StealLabels]
    /\ todo \in [Callers -> Seq({dpush, dpop, steal})]
    /\ \A t \in Callers :
          /\ label[t] \in LabelsOf(t) /\ todo[t] \in Seq(DequeCalls(t))
          /\ label[t] # "idle" => todo[t] # <<>>
          /\ label[t] \in {"dpush.tail", "dpush.lock"} => Head(todo[t]) = dpush
          /\ label[t] \in {"dpop.head", "dpop.lock"} => Head(todo[t]) = dpop

EndsAgree ==
    /\ \A t \in Callers : label[t] \in StealLabels <=> mem.lock = t /\ t # main
    /\ mem.lock # main =>
          IF label[mem.lock] = "steal.head" THEN mem.head = First
          ELSE mem.head = First + 1
    /\ First <= Past /\ Past - First <= Size
    /\ mem.lock # main /\ label[mem.lock] = "steal.item" => First < Past

DequeInv ==
    /\ DequeTypes /\ CallsUnderWay /\ EndsAgree
    /\ ItemsAgree(Held, mem.pushed, mem.popped, mem.stolen)

(* Two indices less than n apart have different remainders. *)
LEMMA Quotients ==
    ASSUME NEW n \in Nat \ {0}, NEW a \in Int, NEW b \in Int, a < b
    PROVE  (n * b) - (n * a) >= n
<1>1. n * (b - a) >= n
    OBVIOUS
<1>2. n * (b - a) = (n * b) - (n * a)
    OBVIOUS
<1> QED
    BY <1>1, <1>2

LEMMA Remainders ==
    ASSUME NEW n \in Nat \ {0}, NEW i \in Nat
    PROVE  i = n * (i \div n) + (i % n) /\ i \div n \in Nat /\ i % n \in 0 .. n - 1
OBVIOUS

LEMMA SlotsDiffer ==
    ASSUME NEW n \in Nat \ {0}, NEW i \in Nat, NEW j \in Nat, i < j, j - i < n
    PROVE  i % n # j % n
<1> SUFFICES ASSUME i % n = j % n
             PROVE  FALSE
    OBVIOUS
<1> DEFINE a == i \div n
           b == j \div n
<1>0. /\ i = n * a + (i % n) /\ a \in Nat /\ i % n \in 0 .. n - 1
      /\ j = n * b + (j % n) /\ b \in Nat
    BY Remainders
<1> HIDE DEF a, b
<1>2. a \in Int /\ b \in Int /\ n * b \in Int /\ n * a \in Int
    BY <1>0
<1>1. j - i = (n * b) - (n * a)
    BY <1>0, <1>2
<1>3. CASE a < b
    <2>1. (n * b) - (n * a) >= n
        BY <1>2, <1>3, Quotients
    <2> QED
        BY <1>1, <2>1
<1>4. CASE a = b
    BY <1>1, <1>2, <1>4
<1>5. CASE a > b
    <2>1. (n * a) - (n * b) >= n
        BY <1>2, <1>5, Quotients
    <2> QED
        BY <1>1, <1>2, <2>1
<1> QED
    BY <1>2, <1>3, <1>4, <1>5

(* One more at the end. *)
LEMMA Longer ==
    ASSUME NEW S, NEW s \in Seq(S), NEW x \in S
    PROVE  /\ Append(s, x) \in Seq(S)
           /\ Range(Append(s, x)) = Range(s) \cup {x}
           /\ IsInjective(s) /\ x \notin Range(s) => IsInjective(Append(s, x))
<1> DEFINE r == Append(s, x)
<1>1. /\ r \in Seq(S) /\ DOMAIN r = 1 .. Len(s) + 1 /\ DOMAIN s = 1 .. Len(s) /\ Len(s) \in Nat
      /\ r[Len(s) + 1] = x /\ \A i \in 1 .. Len(s) : r[i] = s[i]
    OBVIOUS
<1> HIDE DEF r
<1>2. \A i \in DOMAIN r : i \in DOMAIN s \/ i = Len(s) + 1
    BY <1>1
<1>3. Range(r) = Range(s) \cup {x}
    <2>1. Range(r) \subseteq Range(s) \cup {x}
        BY <1>1, <1>2 DEF Range
    <2>2. Range(s) \subseteq Range(r)
        <3> SUFFICES ASSUME NEW i \in DOMAIN s
                     PROVE  s[i] \in Range(r)
            BY DEF Range
        <3>1. i \in DOMAIN r /\ r[i] = s[i]
            BY <1>1
        <3> QED
            BY <3>1 DEF Range
    <2>3. Len(s) + 1 \in DOMAIN r
        BY <1>1
    <2>4. x \in Range(r)
        BY <1>1, <2>3 DEF Range
    <2> QED
        BY <2>1, <2>2, <2>4
<1>4. ASSUME IsInjective(s), x \notin Range(s)
      PROVE  IsInjective(r)
    <2> SUFFICES ASSUME NEW i \in DOMAIN r, NEW j \in DOMAIN r, r[i] = r[j]
                 PROVE  i = j
        BY DEF IsInjective
    <2>1. CASE i \in DOMAIN s /\ j \in DOMAIN s
        BY <1>1, <1>4, <2>1 DEF IsInjective
    <2>2. \A k \in DOMAIN s : s[k] # x
        BY <1>4 DEF Range
    <2> QED
        BY <1>1, <1>2, <2>1, <2>2
<1> QED
    BY <1>1, <1>3, <1>4 DEF r

(* Push: the youngest item is put at the end. *)
LEMMA ItemPushed ==
    ASSUME NEW m \in Nat, NEW q \in [1 .. m -> Nat], NEW n \in Nat,
           NEW p \in Seq(Nat), NEW s \in Seq(Nat), ItemsAgree(q, n, p, s),
           NEW r \in [1 .. m + 1 -> Nat],
           \A i \in 1 .. m : r[i] = q[i], r[m + 1] = n + 1
    PROVE  ItemsAgree(r, n + 1, p, s)
<1>1. /\ \A i \in 1 .. m + 1 : i \in 1 .. m \/ i = m + 1
      /\ \A i \in 1 .. m : i \in 1 .. m + 1
      /\ m + 1 \in 1 .. m + 1
    OBVIOUS
<1>2. Range(r) = Range(q) \cup {n + 1}
    <2>1. Range(r) \subseteq Range(q) \cup {n + 1}
        BY <1>1 DEF Range
    <2>2. Range(q) \subseteq Range(r)
        BY <1>1 DEF Range
    <2> QED
        BY <1>1, <2>1, <2>2 DEF Range
<1>3. \A x \in Range(q) \cup Range(p) \cup Range(s) : x \in Nat /\ x < n + 1
    BY DEF ItemsAgree
<1>4. Increasing(r)
    <2> SUFFICES ASSUME NEW i \in 1 .. m + 1, NEW j \in 1 .. m + 1, i < j
                 PROVE  r[i] < r[j]
        BY DEF Increasing
    <2>1. i \in 1 .. m
        OBVIOUS
    <2>2. CASE j \in 1 .. m
        BY <2>1, <2>2 DEF ItemsAgree, Increasing
    <2>3. CASE j = m + 1
        BY <1>3, <2>1, <2>3 DEF Range
    <2> QED
        BY <1>1, <2>2, <2>3
<1>5. /\ Range(p) \cap (Range(r) \cup Range(s)) = {}
      /\ \A x \in Range(s), y \in Range(r) : x < y
    BY <1>2, <1>3 DEF ItemsAgree
<1>6. Range(r) \cup Range(p) \cup Range(s) = 1 .. n + 1
    <2>1. 1 .. n + 1 = 1 .. n \cup {n + 1}
        OBVIOUS
    <2> QED
        BY <1>2, <2>1 DEF ItemsAgree
<1> QED
    BY <1>4, <1>5, <1>6 DEF ItemsAgree

(* Pop: the youngest item that is there is taken. *)
LEMMA ItemPopped ==
    ASSUME NEW m \in Nat, NEW q \in [1 .. m + 1 -> Nat], NEW n \in Nat,
           NEW p \in Seq(Nat), NEW s \in Seq(Nat), ItemsAgree(q, n, p, s),
           NEW r \in [1 .. m -> Nat], \A i \in 1 .. m : r[i] = q[i],
           NEW x \in Nat, q[m + 1] = x
    PROVE  ItemsAgree(r, n, Append(p, x), s)
<1>1. /\ \A i \in 1 .. m + 1 : i \in 1 .. m \/ i = m + 1
      /\ \A i \in 1 .. m : i \in 1 .. m + 1 /\ i < m + 1
      /\ m + 1 \in 1 .. m + 1
    OBVIOUS
<1>2. Range(q) = Range(r) \cup {x}
    <2>1. Range(q) \subseteq Range(r) \cup {x}
        BY <1>1 DEF Range
    <2>2. Range(r) \subseteq Range(q)
        BY <1>1 DEF Range
    <2> QED
        BY <1>1, <2>1, <2>2 DEF Range
<1>3. x \notin Range(r)
    <2>1. \A i \in 1 .. m : r[i] < x /\ r[i] \in Nat
        BY <1>1 DEF ItemsAgree, Increasing
    <2> QED
        BY <2>1 DEF Range
<1>4. x \notin Range(p) /\ x \notin Range(s)
    <2>1. x \in Range(q)
        BY <1>2
    <2> QED
        BY <2>1 DEF ItemsAgree
<1>5. Increasing(r)
    BY <1>1 DEF ItemsAgree, Increasing
<1>6. /\ Range(Append(p, x)) = Range(p) \cup {x} /\ IsInjective(Append(p, x))
    BY <1>4, Longer DEF ItemsAgree
<1> QED
    BY <1>2, <1>3, <1>4, <1>5, <1>6 DEF ItemsAgree

(* Steal: the oldest item that is there is taken. *)
LEMMA ItemStolen ==
    ASSUME NEW m \in Nat, NEW q \in [1 .. m + 1 -> Nat], NEW n \in Nat,
           NEW p \in Seq(Nat), NEW s \in Seq(Nat), ItemsAgree(q, n, p, s),
           NEW r \in [1 .. m -> Nat], \A i \in 1 .. m : r[i] = q[i + 1],
           NEW x \in Nat, q[1] = x
    PROVE  ItemsAgree(r, n, p, Append(s, x))
<1>1. /\ \A i \in 1 .. m + 1 : i = 1 \/ (i - 1 \in 1 .. m /\ r[i - 1] = q[i])
      /\ \A i \in 1 .. m : i + 1 \in 1 .. m + 1 /\ 1 < i + 1
      /\ 1 \in 1 .. m + 1
    <2>1. ASSUME NEW i \in 1 .. m + 1, i # 1
          PROVE  i - 1 \in 1 .. m /\ r[i - 1] = q[i]
        <3>1. i - 1 \in 1 .. m /\ (i - 1) + 1 = i
            BY <2>1
        <3> QED
            BY <3>1
    <2> QED
        BY <2>1
<1>2. Range(q) = Range(r) \cup {x}
    <2>1. Range(q) \subseteq Range(r) \cup {x}
        <3> SUFFICES ASSUME NEW i \in 1 .. m + 1
                     PROVE  q[i] \in Range(r) \cup {x}
            BY DEF Range
        <3>1. CASE i = 1
            BY <3>1
        <3>2. CASE i - 1 \in 1 .. m /\ r[i - 1] = q[i]
            BY <3>2 DEF Range
        <3> QED
            BY <1>1, <3>1, <3>2
    <2>2. Range(r) \subseteq Range(q)
        <3> SUFFICES ASSUME NEW i \in 1 .. m
                     PROVE  r[i] \in Range(q)
            BY DEF Range
        <3>1. i + 1 \in DOMAIN q /\ r[i] = q[i + 1]
            BY <1>1
        <3> QED
            BY <3>1 DEF Range
    <2> QED
        BY <1>1, <2>1, <2>2 DEF Range
<1>3. \A y \in Range(r) : x < y /\ y \in Nat
    <2>1. \A i \in 1 .. m : x < r[i] /\ r[i] \in Nat
        BY <1>1 DEF ItemsAgree, Increasing
    <2> QED
        BY <2>1 DEF Range
<1>4. x \notin Range(p) /\ \A y \in Range(s) : y < x /\ y \in Nat
    <2>1. x \in Range(q)
        BY <1>2
    <2>2. Range(s) \subseteq 1 .. n
        BY DEF ItemsAgree
    <2> QED
        BY <2>1, <2>2 DEF ItemsAgree
<1>5. Increasing(r)
    <2> SUFFICES ASSUME NEW i \in 1 .. m, NEW j \in 1 .. m, i < j
                 PROVE  r[i] < r[j]
        BY DEF Increasing
    <2>1. i + 1 < j + 1
        OBVIOUS
    <2> QED
        BY <1>1, <2>1 DEF ItemsAgree, Increasing
<1>6. Range(Append(s, x)) = Range(s) \cup {x}
    BY Longer
<1>7. Increasing(Append(s, x))
    <2> DEFINE z == Append(s, x)
    <2>1. /\ DOMAIN z = 1 .. Len(s) + 1 /\ DOMAIN s = 1 .. Len(s) /\ Len(s) \in Nat
          /\ z[Len(s) + 1] = x /\ \A i \in 1 .. Len(s) : z[i] = s[i]
        OBVIOUS
    <2> HIDE DEF z
    <2> SUFFICES ASSUME NEW i \in DOMAIN z, NEW j \in DOMAIN z, i < j
                 PROVE  z[i] < z[j]
        BY DEF Increasing, z
    <2>2. i \in DOMAIN s /\ z[i] = s[i]
        BY <2>1
    <2>3. CASE j \in DOMAIN s
        BY <2>1, <2>2, <2>3 DEF ItemsAgree, Increasing
    <2>4. CASE j = Len(s) + 1
        BY <1>4, <2>1, <2>2, <2>4 DEF Range
    <2> QED
        BY <2>1, <2>3, <2>4
<1> QED
    <2>1. \A y \in Range(Append(s, x)), z \in Range(r) : y < z
        BY <1>3, <1>4, <1>6
    <2>2. x \notin Range(r)
        BY <1>3
    <2> QED
        BY <1>2, <1>4, <1>5, <1>6, <1>7, <2>1 DEF ItemsAgree

-----------------------------------------------------------------------------
(* The state of the deque. *)

LEMMA Interval ==
    ASSUME NEW n \in Nat \ {0}
    PROVE  Cardinality(0 .. n - 1) = n
<1>1. Cardinality(0 .. n - 1) = IF 0 > n - 1 THEN 0 ELSE (n - 1) - 0 + 1
    BY FS_Interval
<1> QED
    BY <1>1

LEMMA ArraySize ==
    ASSUME NEW a \in Arrays
    PROVE  /\ Cardinality(DOMAIN a) \in Nat \ {0}
           /\ a \in [0 .. Cardinality(DOMAIN a) - 1 -> Nat]
<1>1. PICK n \in Nat \ {0} : a \in [0 .. n - 1 -> Nat]
    BY DEF Arrays
<1>2. DOMAIN a = 0 .. n - 1
    BY <1>1
<1>3. Cardinality(DOMAIN a) = n
    BY <1>2, Interval
<1> QED
    BY <1>1, <1>3

LEMMA SlotInside ==
    ASSUME NEW n \in Nat \ {0}, NEW i \in Nat
    PROVE  i % n \in 0 .. n - 1
OBVIOUS

LEMMA ItemsTyped ==
    ASSUME NEW n \in Nat \ {0}, NEW a \in [0 .. n - 1 -> Nat], NEW f \in Nat, NEW m \in Nat
    PROVE  ItemsIn(a, n, f, m) \in [1 .. m -> Nat]
<1>1. ASSUME NEW i \in 1 .. m
      PROVE  a[(f + i - 1) % n] \in Nat
    <2>1. f + i - 1 \in Nat
        OBVIOUS
    <2>2. (f + i - 1) % n \in 0 .. n - 1
        BY <2>1, SlotInside
    <2> QED
        BY <2>2
<1> QED
    BY <1>1 DEF ItemsIn

LEMMA DequeFacts ==
    ASSUME DequeTypes, CallsUnderWay, EndsAgree
    PROVE  /\ Size \in Nat \ {0} /\ mem.slots \in [0 .. Size - 1 -> Nat]
           /\ First \in Nat /\ Past \in Nat /\ Past - First \in Nat
           /\ Held \in [1 .. Past - First -> Nat]
           /\ mem.pushed \in Nat /\ mem.popped \in Seq(Nat) /\ mem.stolen \in Seq(Nat)
           /\ mem.head \in Nat /\ mem.tail \in Nat
           /\ mem.head \in {First, First + 1} /\ (mem.lock = main => mem.head = First)
           /\ mem.tail \in {Past, Past - 1}
<1>1. Size \in Nat \ {0} /\ mem.slots \in [0 .. Size - 1 -> Nat]
    BY ArraySize DEF DequeTypes, Size
<1>2. First \in Nat /\ Past \in Nat
    BY DEF DequeTypes, First, Past
<1>3. Past - First \in Nat
    BY <1>2 DEF EndsAgree
<1>4. Held \in [1 .. Past - First -> Nat]
    BY <1>1, <1>2, <1>3, ItemsTyped DEF Held
<1>5. mem.head \in {First, First + 1} /\ (mem.lock = main => mem.head = First)
    BY DEF EndsAgree, First
<1>6. mem.tail \in {Past, Past - 1}
    BY DEF Past, DequeTypes
<1> QED
    BY <1>1, <1>2, <1>3, <1>4, <1>5, <1>6 DEF DequeTypes

LEMMA LabelSets ==
    /\ LabelsOf(Owner) = {"idle", "dpush.tail", "dpush.lock", "dpop.head", "dpop.lock"}
    /\ \A t : t # Owner /\ t # main => LabelsOf(t) = {"idle"} \cup StealLabels
<1>1. Owner # main
    BY DEF Owner, main
<1>2. LabelsOf(Owner) = {"idle", "dpush.tail", "dpush.lock", "dpop.head", "dpop.lock"}
    BY Zenon, <1>1 DEF LabelsOf
<1>3. ASSUME NEW t, t # Owner, t # main
      PROVE  LabelsOf(t) = {"idle"} \cup StealLabels
    BY ONLY <1>3, Zenon DEF LabelsOf
<1> QED
    BY <1>2, <1>3

(* Who is where. *)
LEMMA WhoActs ==
    ASSUME CallsUnderWay, NEW t \in Callers
    PROVE  /\ \/ Calls(t, "dpush") \/ Calls(t, "dpop")
              \/ label[t] \in {"dpush.tail", "dpush.lock", "dpop.head", "dpop.lock"}
              => t = Owner
           /\ Calls(t, "steal") \/ label[t] \in StealLabels => t # Owner /\ t # main
<1>1. ASSUME todo[t] # <<>>
      PROVE  Head(todo[t]) \in DequeCalls(t)
    BY <1>1 DEF CallsUnderWay
<1>2. CASE t = Owner
    <2>1. todo[t] # <<>> => Head(todo[t]) \in {dpush, dpop}
        BY <1>1, <1>2 DEF DequeCalls
    <2> QED
        BY <1>2, <2>1 DEF CallsUnderWay, LabelsOf, StealLabels, Calls, dpush, dpop, Owner, main
<1>3. CASE t = main
    <2>1. todo[t] = <<>>
        BY <1>1, <1>3 DEF DequeCalls, Owner, main
    <2> QED
        BY <1>3, <2>1 DEF CallsUnderWay, LabelsOf, StealLabels, Calls, Owner, main
<1>4. CASE t # Owner /\ t # main
    <2>1. todo[t] # <<>> => Head(todo[t]) = steal
        BY <1>1, <1>4 DEF DequeCalls
    <2> QED
        BY <1>4, <2>1 DEF CallsUnderWay, LabelsOf, StealLabels, Calls, steal
<1> QED
    BY <1>2, <1>3, <1>4

LEMMA DequeJump ==
    ASSUME CallsUnderWay, NEW t \in Callers, NEW l \in LabelsOf(t), Jump(t, l),
           todo[t] # <<>>,
           l \in {"dpush.tail", "dpush.lock"} => Head(todo[t]) = dpush,
           l \in {"dpop.head", "dpop.lock"} => Head(todo[t]) = dpop
    PROVE  CallsUnderWay'
<1>1. l \in {"idle", "dpush.tail", "dpush.lock", "dpop.head", "dpop.lock"} \cup StealLabels
    BY DEF LabelsOf
<1> QED
    BY <1>1 DEF CallsUnderWay, Jump

LEMMA DequeReturn ==
    ASSUME CallsUnderWay, NEW t \in Callers, Return(t), todo[t] # <<>>
    PROVE  CallsUnderWay'
<1>1. /\ Tail(todo[t]) \in Seq({dpush, dpop, steal})
      /\ Tail(todo[t]) \in Seq(DequeCalls(t))
    BY DEF CallsUnderWay
<1>2. "idle" \in LabelsOf(t)
    BY DEF LabelsOf
<1> QED
    BY <1>1, <1>2 DEF CallsUnderWay, Return

(* A step that leaves the items where they are. *)
LEMMA ItemsStay ==
    ASSUME ItemsAgree(Held, mem.pushed, mem.popped, mem.stolen),
           First' = First, Past' = Past, mem'.slots = mem.slots,
           mem'.pushed = mem.pushed, mem'.popped = mem.popped, mem'.stolen = mem.stolen
    PROVE  ItemsAgree(Held, mem.pushed, mem.popped, mem.stolen)'
BY DEF Held, Size, ItemsAgree

LEMMA DequeStart ==
    ASSUME DequeInit
    PROVE  DequeInv
<1> USE DEF DequeInit, Begun
<1>1. DequeTypes
    <2>1. [i \in 0 .. 1 |-> 0] \in [0 .. 2 - 1 -> Nat]
        OBVIOUS
    <2>2. [i \in 0 .. 1 |-> 0] \in Arrays
        <3>1. 2 \in Nat \ {0}
            OBVIOUS
        <3>2. [0 .. 2 - 1 -> Nat] \subseteq Arrays
            BY ONLY <3>1 DEF Arrays
        <3> QED
            BY ONLY <2>1, <3>2
    <2> QED
        BY <2>2, SamplesAssumption DEF DequeTypes, DequeMem, DequeLoc
<1>2. CallsUnderWay
    BY DEF CallsUnderWay, LabelsOf
<1>3. First = 0 /\ Past = 0
    BY DequeAssumption DEF First, Past, DequeMem
<1>4. Size \in Nat
    BY <1>1, ArraySize DEF Size, DequeTypes
<1>5. EndsAgree
    BY <1>3, <1>4 DEF EndsAgree, DequeMem, StealLabels
<1>6. ItemsAgree(Held, mem.pushed, mem.popped, mem.stolen)
    <2>1. DOMAIN Held = {}
        BY <1>3 DEF Held, ItemsIn
    <2>2. Range(Held) = {}
        BY <2>1 DEF Range
    <2>3. mem.popped = <<>> /\ mem.stolen = <<>> /\ mem.pushed = 0
        BY DEF DequeMem
    <2>4. Range(<<>>) = {} /\ IsInjective(<<>>) /\ Increasing(<<>>)
        BY DEF Range, IsInjective, Increasing
    <2>5. Increasing(Held)
        BY <2>1 DEF Increasing
    <2>6. 1 .. 0 = {}
        OBVIOUS
    <2> HIDE DEF DequeInit
    <2> QED
        BY ONLY <2>2, <2>3, <2>4, <2>5, <2>6 DEF ItemsAgree
<1> QED
    BY <1>1, <1>2, <1>5, <1>6 DEF DequeInv

-----------------------------------------------------------------------------
(* The owner pushes. *)

LEMMA SlotWritten ==
    ASSUME NEW a \in Arrays, NEW i \in Nat, NEW x \in Nat
    PROVE  /\ [a EXCEPT ![i % Cardinality(DOMAIN a)] = x] \in Arrays
           /\ DOMAIN [a EXCEPT ![i % Cardinality(DOMAIN a)] = x] = DOMAIN a
           /\ [a EXCEPT ![i % Cardinality(DOMAIN a)] = x][i % Cardinality(DOMAIN a)] = x
<1> DEFINE n == Cardinality(DOMAIN a)
<1>1. n \in Nat \ {0} /\ a \in [0 .. n - 1 -> Nat]
    BY ArraySize
<1> HIDE DEF n
<1>2. i % n \in 0 .. n - 1
    BY <1>1, SlotInside
<1>3. [a EXCEPT ![i % n] = x] \in [0 .. n - 1 -> Nat]
    BY <1>1, <1>2
<1>4. [0 .. n - 1 -> Nat] \subseteq Arrays
    BY ONLY <1>1 DEF Arrays
<1> QED
    BY <1>1, <1>2, <1>3, <1>4 DEF n

(* An item put behind the m that an array holds from f on overwrites none  *)
(* of them.                                                                *)
LEMMA PushedInto ==
    ASSUME NEW a \in Arrays, NEW f \in Nat, NEW m \in Nat, m < Cardinality(DOMAIN a),
           NEW n \in Nat, NEW p \in Seq(Nat), NEW s \in Seq(Nat),
           ItemsAgree(ItemsIn(a, Cardinality(DOMAIN a), f, m), n, p, s),
           NEW b, b = [a EXCEPT ![(f + m) % Cardinality(DOMAIN a)] = n + 1]
    PROVE  ItemsAgree(ItemsIn(b, Cardinality(DOMAIN b), f, m + 1), n + 1, p, s)
<1> DEFINE k == Cardinality(DOMAIN a)
           q == ItemsIn(a, k, f, m)
           r == ItemsIn(b, k, f, m + 1)
           z == (f + m) % k
<1>1. k \in Nat \ {0} /\ a \in [0 .. k - 1 -> Nat] /\ f + m \in Nat /\ n + 1 \in Nat
      /\ m + 1 \in Nat
    BY ArraySize
<1>2. b \in Arrays /\ DOMAIN b = DOMAIN a
    BY <1>1, SlotWritten
<1>3. b \in [0 .. k - 1 -> Nat]
    BY <1>2, ArraySize
<1>4. m < k /\ b = [a EXCEPT ![z] = n + 1]
    OBVIOUS
<1>5. Cardinality(DOMAIN b) = k
    BY <1>2
<1>6. ItemsAgree(q, n, p, s)
    OBVIOUS
<1> HIDE DEF k
<1>7. z \in 0 .. k - 1
    BY <1>1, SlotInside
<1>8. b[z] = n + 1 /\ \A i \in 0 .. k - 1 : i # z => b[i] = a[i]
    BY <1>1, <1>4, <1>7
<1>9. q \in [1 .. m -> Nat] /\ r \in [1 .. m + 1 -> Nat]
    BY <1>1, <1>3, ItemsTyped
<1>10. ASSUME NEW i \in 1 .. m
       PROVE  r[i] = q[i]
    <2> DEFINE j == f + i - 1
    <2>1. j \in Nat /\ j < f + m /\ (f + m) - j < k
        BY <1>1, <1>4
    <2>2. i \in 1 .. m + 1
        OBVIOUS
    <2>3. r[i] = b[j % k] /\ q[i] = a[j % k]
        BY <2>2 DEF ItemsIn
    <2> HIDE DEF j, q, r
    <2>4. j % k # z /\ j % k \in 0 .. k - 1
        BY <1>1, <2>1, SlotsDiffer, SlotInside
    <2> QED
        BY <1>8, <2>3, <2>4
<1>11. r[m + 1] = n + 1
    <2>1. m + 1 \in 1 .. m + 1 /\ f + (m + 1) - 1 = f + m
        OBVIOUS
    <2> QED
        BY <1>8, <2>1 DEF ItemsIn
<1> HIDE DEF q, r
<1>12. ItemsAgree(r, n + 1, p, s)
    BY <1>6, <1>9, <1>10, <1>11, ItemPushed
<1> QED
    BY <1>5, <1>12 DEF r

LEMMA PushKeeps ==
    ASSUME DequeInv, NEW t \in Callers, DequePush(t)
    PROVE  DequeInv'
<1> USE DEF DequeInv
<1>1. /\ Size \in Nat \ {0} /\ First \in Nat /\ Past \in Nat /\ Past - First \in Nat
      /\ mem.pushed \in Nat /\ mem.popped \in Seq(Nat) /\ mem.stolen \in Seq(Nat)
      /\ mem.head \in {First, First + 1} /\ mem.tail \in Nat
    BY DequeFacts
<1>2. t = Owner /\ todo[t] # <<>> /\ Head(todo[t]) = dpush /\ label[t] = "idle"
    <2>1. todo[t] # <<>> /\ Head(todo[t]) \in {dpush, dpop, steal} /\ t = Owner
        BY WhoActs DEF DequePush, Calls, CallsUnderWay
    <2> QED
        BY <2>1 DEF DequePush, Calls, dpush, dpop, steal
<1>3. Past = mem.tail
    BY <1>2 DEF Past
<1>4. mem.tail < mem.head + Size - 1
    BY DEF DequePush, HasRoom, Fits, Mask, DequeTypes
<1>5. mem' = [mem EXCEPT !.slots = [@ EXCEPT ![mem.tail % Cardinality(DOMAIN mem.slots)]
                                       = mem.pushed + 1],
                         !.pushed = mem.pushed + 1]
    BY DEF DequePush, Put, Item, DequeTypes
<1>6. mem.slots \in Arrays /\ mem.pushed + 1 \in Nat
    BY <1>1 DEF DequeTypes
<1>7. /\ mem'.slots = [mem.slots EXCEPT ![mem.tail % Cardinality(DOMAIN mem.slots)]
                                           = mem.pushed + 1]
      /\ mem'.pushed = mem.pushed + 1 /\ mem'.head = mem.head /\ mem'.tail = mem.tail
      /\ mem'.lock = mem.lock /\ mem'.popped = mem.popped /\ mem'.stolen = mem.stolen
    BY <1>5 DEF DequeTypes
<1>8. mem'.slots \in Arrays /\ DOMAIN mem'.slots = DOMAIN mem.slots
    BY <1>1, <1>6, <1>7, SlotWritten
<1>9. DequeTypes'
    <2>1. sample' = sample /\ loc' = loc
        BY DEF DequePush, Jump
    <2>2. mem' \in [slots : Arrays, head : Nat, tail : Nat, lock : Callers, pushed : Nat,
                    popped : Seq(Nat), stolen : Seq(Nat)]
        BY <1>5, <1>6, <1>7, <1>8 DEF DequeTypes
    <2> QED
        BY <2>1, <2>2 DEF DequeTypes
<1>10. CallsUnderWay'
    <2>1. Jump(t, "dpush.tail") /\ "dpush.tail" \in LabelsOf(t)
        BY <1>2, LabelSets DEF DequePush
    <2> QED
        BY <1>2, <2>1, DequeJump
<1>11. /\ label' = [label EXCEPT ![Owner] = "dpush.tail"] /\ loc' = loc
       /\ DOMAIN label = Callers
    <2>1. DOMAIN label = Callers
        BY DEF CallsUnderWay
    <2> QED
        BY ONLY <1>2, <2>1, DequePush(t) DEF DequePush, Jump
<1>12. First' = First /\ Past' = Past + 1 /\ Size' = Size
    <2>1. First' = First
        BY <1>7, <1>11 DEF First
    <2>2. Past' = Past + 1
        BY <1>3, <1>7, <1>11, DequeAssumption DEF Past
    <2>3. Size' = Size
        BY <1>8 DEF Size
    <2> QED
        BY <2>1, <2>2, <2>3
<1>13. Past - First < Size
    BY <1>1, <1>3, <1>4
<1>14. EndsAgree'
    <2>1. /\ \A u \in Callers : label'[u] \in StealLabels <=> label[u] \in StealLabels
          /\ \A u \in Callers \ {Owner} : label'[u] = label[u]
        BY <1>2, <1>11 DEF StealLabels
    <2>2. mem.lock # Owner /\ mem.lock \in Callers
        BY <1>2 DEF EndsAgree, StealLabels, DequeTypes, Owner, main
    <2>3. First' <= Past' /\ Past' - First' <= Size'
        BY <1>1, <1>12, <1>13
    <2>4. First < Past => First' < Past'
        BY <1>1, <1>12
    <2> QED
        BY <1>7, <1>12, <2>1, <2>2, <2>3, <2>4 DEF EndsAgree
<1>15. ItemsAgree(Held, mem.pushed, mem.popped, mem.stolen)'
    <2> DEFINE m == Past - First
    <2>1. m \in Nat /\ m < Cardinality(DOMAIN mem.slots) /\ First + m = mem.tail
        BY <1>1, <1>3, <1>13 DEF Size
    <2>2. Past' - First' = m + 1
        BY <1>1, <1>12
    <2>3. ItemsAgree(ItemsIn(mem.slots, Cardinality(DOMAIN mem.slots), First, m),
                     mem.pushed, mem.popped, mem.stolen)
        BY DEF Held, Size
    <2> HIDE DEF m
    <2>4. mem'.slots = [mem.slots EXCEPT ![(First + m) % Cardinality(DOMAIN mem.slots)]
                                            = mem.pushed + 1]
        BY <1>7, <2>1
    <2>5. ItemsAgree(ItemsIn(mem'.slots, Cardinality(DOMAIN mem'.slots), First, m + 1),
                     mem.pushed + 1, mem.popped, mem.stolen)
        BY ONLY <1>1, <1>6, <2>1, <2>3, <2>4, PushedInto
    <2> QED
        BY <1>7, <1>12, <2>2, <2>5 DEF Held, Size
<1> QED
    BY <1>9, <1>10, <1>14, <1>15

(* The owner moves nothing but the tail, and the items stay. *)
LEMMA OwnerMoves ==
    ASSUME DequeInv, CallsUnderWay', NEW l, l \notin StealLabels, NEW x \in Nat,
           label[Owner] \notin StealLabels, label' = [label EXCEPT ![Owner] = l],
           sample' = sample, loc' = loc, mem' = [mem EXCEPT !.tail = x], Past' = Past
    PROVE  DequeInv'
<1> USE DEF DequeInv
<1>1. /\ mem'.slots = mem.slots /\ mem'.pushed = mem.pushed /\ mem'.head = mem.head
      /\ mem'.lock = mem.lock /\ mem'.popped = mem.popped /\ mem'.stolen = mem.stolen
    BY DEF DequeTypes
<1>2. DequeTypes'
    BY DEF DequeTypes
<1>3. First' = First /\ Size' = Size
    BY <1>1 DEF First, Size
<1>4. EndsAgree'
    <2>1. /\ \A u \in Callers : label'[u] \in StealLabels <=> label[u] \in StealLabels
          /\ \A u \in Callers \ {Owner} : label'[u] = label[u]
        BY DequeAssumption DEF CallsUnderWay
    <2>2. mem.lock # Owner /\ mem.lock \in Callers
        BY DequeAssumption DEF EndsAgree, DequeTypes, Owner, main
    <2> QED
        BY <1>1, <1>3, <2>1, <2>2 DEF EndsAgree
<1>5. ItemsAgree(Held, mem.pushed, mem.popped, mem.stolen)'
    BY <1>1, <1>3, ItemsStay
<1> QED
    BY <1>2, <1>4, <1>5

LEMMA OwnersStep ==
    ASSUME DequeInv, NEW t \in Callers,
           \/ PushTail(t) \/ DequePushFull(t) \/ DequePop(t) \/ DequePopZero(t)
           \/ PopMeetsThief(t) \/ PopLoses(t)
    PROVE  DequeInv'
<1> USE DEF DequeInv
<1>1. /\ mem.tail \in Nat /\ mem = [mem EXCEPT !.tail = mem.tail]
      /\ \A x : [mem EXCEPT !.tail = x].tail = x
    BY DEF DequeTypes
<1>2. t = Owner /\ todo[t] # <<>> /\ label[Owner] \notin StealLabels /\ DOMAIN label = Callers
      /\ Owner \in Callers
    <2>1. t = Owner
        BY WhoActs DEF PushTail, DequePushFull, DequePop, DequePopZero, PopMeetsThief,
                       PopLoses, Reached
    <2>2. todo[t] # <<>>
        BY DEF PushTail, DequePushFull, DequePop, DequePopZero, PopMeetsThief, PopLoses,
               Reached, Calls, CallsUnderWay
    <2>3. label[Owner] \notin StealLabels
        BY <2>1 DEF Owner, main, PushTail, DequePushFull,
           DequePop, DequePopZero, PopMeetsThief, PopLoses, Reached, Calls, StealLabels
    <2> QED
        BY <2>1, <2>2, <2>3 DEF CallsUnderWay
<1>3. /\ Calls(t, "dpush") => Head(todo[t]) = dpush
      /\ Calls(t, "dpop") => Head(todo[t]) = dpop
    <2>1. Head(todo[t]) \in {dpush, dpop, steal}
        BY <1>2 DEF CallsUnderWay
    <2> QED
        BY <2>1 DEF Calls, dpush, dpop, steal
<1>4. \A l \in {"dpush.tail", "dpush.lock", "dpop.head", "dpop.lock", "idle"} :
          l \in LabelsOf(t) /\ l \notin StealLabels
    BY <1>2, LabelSets DEF StealLabels
<1>5. \A l : label' = [label EXCEPT ![t] = l] => label'[Owner] = l
    BY <1>2
<1>6. CASE PushTail(t)
    <2>1. /\ mem' = [mem EXCEPT !.tail = mem.tail + 1] /\ Return(t) /\ loc' = loc
          /\ label[Owner] = "dpush.tail"
        BY <1>2, <1>6 DEF PushTail, DequeTypes, Reached
    <2>2. CallsUnderWay'
        BY <1>2, <2>1, DequeReturn
    <2>3. label' = [label EXCEPT ![t] = "idle"] /\ label'[Owner] = "idle" /\ sample' = sample
        BY <1>5, <2>1 DEF Return
    <2>4. Past' = Past
        BY <1>1, <2>1, <2>3 DEF Past
    <2>5. mem.tail + 1 \in Nat
        BY <1>1
    <2> QED
        BY <1>2, <1>4, <2>1, <2>2, <2>3, <2>4, <2>5, OwnerMoves
<1>7. CASE DequePushFull(t)
    <2>1. Jump(t, "dpush.lock") /\ loc' = loc /\ mem' = mem /\ label[Owner] = "idle"
          /\ Head(todo[t]) = dpush
        BY <1>2, <1>3, <1>7 DEF DequePushFull, Calls
    <2>2. CallsUnderWay'
        BY <1>2, <1>4, <2>1, DequeJump
    <2>3. label' = [label EXCEPT ![t] = "dpush.lock"] /\ label'[Owner] = "dpush.lock"
          /\ sample' = sample
        BY <1>5, <2>1 DEF Jump
    <2>4. Past' = Past
        BY <2>1, <2>3 DEF Past
    <2>5. mem' = [mem EXCEPT !.tail = mem.tail]
        BY <1>1, <2>1
    <2> QED
        BY <1>1, <1>2, <1>4, <2>1, <2>2, <2>3, <2>4, <2>5, OwnerMoves
<1>8. CASE DequePop(t)
    <2>1. /\ mem' = [mem EXCEPT !.tail = mem.tail - 1] /\ mem.tail > 0 /\ Jump(t, "dpop.head")
          /\ loc' = loc /\ label[Owner] = "idle" /\ Head(todo[t]) = dpop
        BY <1>2, <1>3, <1>8 DEF DequePop, DequeTypes, Calls
    <2>2. CallsUnderWay'
        BY <1>2, <1>4, <2>1, DequeJump
    <2>3. label' = [label EXCEPT ![t] = "dpop.head"] /\ label'[Owner] = "dpop.head"
          /\ sample' = sample
        BY <1>5, <2>1 DEF Jump
    <2>4. mem.tail - 1 \in Nat /\ (mem.tail - 1) + 1 = mem.tail
        BY <1>1, <2>1
    <2>5. Past' = Past
        BY <1>1, <2>1, <2>3, <2>4 DEF Past
    <2> QED
        BY <1>2, <1>4, <2>1, <2>2, <2>3, <2>4, <2>5, OwnerMoves
<1>9. CASE DequePopZero(t)
    <2>1. Return(t) /\ loc' = loc /\ mem' = mem /\ label[Owner] = "idle"
        BY <1>2, <1>9 DEF DequePopZero, Calls
    <2>2. CallsUnderWay'
        BY <1>2, <2>1, DequeReturn
    <2>3. label' = [label EXCEPT ![t] = "idle"] /\ label'[Owner] = "idle" /\ sample' = sample
        BY <1>5, <2>1 DEF Return
    <2>4. Past' = Past
        BY <2>1, <2>3 DEF Past
    <2>5. mem' = [mem EXCEPT !.tail = mem.tail]
        BY <1>1, <2>1
    <2> QED
        BY <1>1, <1>2, <1>4, <2>1, <2>2, <2>3, <2>4, <2>5, OwnerMoves
<1>10. CASE PopMeetsThief(t)
    <2>1. Jump(t, "dpop.lock") /\ loc' = loc /\ mem' = mem /\ label[Owner] = "dpop.head"
        BY <1>2, <1>10 DEF PopMeetsThief, Reached
    <2>2. Head(todo[t]) = dpop
        BY <1>2, <2>1 DEF CallsUnderWay
    <2>3. CallsUnderWay'
        BY <1>2, <1>4, <2>1, <2>2, DequeJump
    <2>4. label' = [label EXCEPT ![t] = "dpop.lock"] /\ label'[Owner] = "dpop.lock"
          /\ sample' = sample
        BY <1>5, <2>1 DEF Jump
    <2>5. Past' = Past
        BY <2>1, <2>4 DEF Past
    <2>6. mem' = [mem EXCEPT !.tail = mem.tail]
        BY <1>1, <2>1
    <2> QED
        BY <1>1, <1>2, <1>4, <2>1, <2>3, <2>4, <2>5, <2>6, OwnerMoves
<1>11. CASE PopLoses(t)
    <2>1. /\ mem' = [mem EXCEPT !.tail = mem.tail + 1] /\ Return(t) /\ loc' = loc
          /\ label[Owner] = "dpop.lock"
        BY <1>2, <1>11 DEF PopLoses, DequeTypes, Reached
    <2>2. CallsUnderWay'
        BY <1>2, <2>1, DequeReturn
    <2>3. label' = [label EXCEPT ![t] = "idle"] /\ label'[Owner] = "idle" /\ sample' = sample
        BY <1>5, <2>1 DEF Return
    <2>4. Past' = Past
        BY <1>1, <2>1, <2>3 DEF Past
    <2>5. mem.tail + 1 \in Nat
        BY <1>1
    <2> QED
        BY <1>2, <1>4, <2>1, <2>2, <2>3, <2>4, <2>5, OwnerMoves
<1> QED
    BY <1>6, <1>7, <1>8, <1>9, <1>10, <1>11

(* The array of twice the size holds the same items. *)
LEMMA GrowKeepsItems ==
    ASSUME DequeInv, mem.lock = main, Past = mem.tail
    PROVE  /\ Grown.slots \in Arrays /\ Cardinality(DOMAIN Grown.slots) = 2 * Size
           /\ ItemsIn(Grown.slots, 2 * Size, 0, Count) = Held
<1> USE DEF DequeInv
<1> DEFINE n == Size
           m == Past - First
           a == mem.slots
           f == First
           b == [i \in 0 .. 2 * n - 1 |-> IF i < m THEN a[(i + f) % n] ELSE 0]
<1>1. n \in Nat \ {0} /\ a \in [0 .. n - 1 -> Nat] /\ f \in Nat /\ m \in Nat /\ m <= n
    BY DequeFacts DEF EndsAgree
<1>2. mem.head = f /\ Count = m
    BY DequeFacts DEF Count
<1>3. Grown.slots = b
    BY <1>2 DEF Grown, Slot, DequeTypes
<1>4. Held = ItemsIn(a, n, f, m)
    BY DEF Held
<1> HIDE DEF n, m, a, f
<1>5. 2 * n \in Nat \ {0}
    BY <1>1
<1>6. ASSUME NEW i \in 0 .. 2 * n - 1
      PROVE  (IF i < m THEN a[(i + f) % n] ELSE 0) \in Nat
    <2>1. i + f \in Nat
        BY <1>1
    <2>2. (i + f) % n \in 0 .. n - 1
        BY <1>1, <2>1, SlotInside
    <2>3. a[(i + f) % n] \in Nat
        BY <1>1, <2>2
    <2> QED
        BY <2>3
<1>7. b \in [0 .. 2 * n - 1 -> Nat]
    BY <1>6
<1>8. Cardinality(DOMAIN b) = 2 * n
    BY <1>5, <1>7, Interval
<1>9. b \in Arrays
    <2>1. [0 .. 2 * n - 1 -> Nat] \subseteq Arrays
        BY ONLY <1>5 DEF Arrays
    <2> QED
        BY <1>7, <2>1
<1>10. ItemsIn(b, 2 * n, 0, m) = ItemsIn(a, n, f, m)
    <2> SUFFICES ASSUME NEW i \in 1 .. m
                 PROVE  b[(0 + i - 1) % (2 * n)] = a[(f + i - 1) % n]
        BY DEF ItemsIn
    <2>1. i - 1 \in 0 .. 2 * n - 1 /\ i - 1 < m /\ (i - 1) + f = f + i - 1 /\ 0 + i - 1 = i - 1
        BY <1>1
    <2>2. (0 + i - 1) % (2 * n) = i - 1
        BY <1>5, <2>1
    <2>3. b[i - 1] = a[((i - 1) + f) % n]
        BY <2>1
    <2> QED
        BY <2>1, <2>2, <2>3
<1> QED
    BY <1>2, <1>3, <1>4, <1>8, <1>9, <1>10 DEF n

LEMMA PushLockedKeeps ==
    ASSUME DequeInv, NEW t \in Callers, PushLocked(t)
    PROVE  DequeInv'
<1> USE DEF DequeInv
<1> DEFINE full == Count >= Mask
           a == IF full THEN Grown.slots ELSE mem.slots
           f == IF full THEN 0 ELSE First
           m == Past - First
<1>1. /\ Size \in Nat \ {0} /\ First \in Nat /\ m \in Nat /\ mem.slots \in Arrays
      /\ mem.pushed \in Nat /\ mem.popped \in Seq(Nat) /\ mem.stolen \in Seq(Nat)
    BY DequeFacts DEF DequeTypes
<1>2. t = Owner /\ label[Owner] = "dpush.lock" /\ todo[t] # <<>> /\ mem.lock = main
    <2>1. label[t] = "dpush.lock" /\ mem.lock = main
        BY DEF PushLocked, Reached, Free
    <2> QED
        BY <2>1, WhoActs DEF CallsUnderWay
<1>3. Past = mem.tail /\ First = mem.head /\ Count = m /\ mem.tail = First + m
    <2>1. Past = mem.tail /\ First = mem.head
        BY <1>2 DEF Past, First
    <2> QED
        BY <1>1, <2>1, DequeFacts DEF Count
<1>4. a \in Arrays /\ f \in Nat /\ m < Cardinality(DOMAIN a)
      /\ ItemsIn(a, Cardinality(DOMAIN a), f, m) = Held
    <2>1. CASE full
        <3>1. a = Grown.slots /\ f = 0
            BY <2>1
        <3>2. /\ Grown.slots \in Arrays /\ Cardinality(DOMAIN Grown.slots) = 2 * Size
              /\ ItemsIn(Grown.slots, 2 * Size, 0, m) = Held
            BY <1>2, <1>3, GrowKeepsItems
        <3>3. m < 2 * Size
            BY <1>1 DEF EndsAgree
        <3> QED
            BY <3>1, <3>2, <3>3
    <2>2. CASE ~full
        <3>1. a = mem.slots /\ f = First
            BY <2>2
        <3>2. m < Size
            BY <1>1, <1>3, <2>2 DEF Mask
        <3> QED
            BY <1>1, <3>1, <3>2 DEF Held, Size
    <2> QED
        BY <2>1, <2>2
<1>5. mem' = [mem EXCEPT !.slots = [a EXCEPT ![(f + m) % Cardinality(DOMAIN a)] = mem.pushed + 1],
                         !.pushed = mem.pushed + 1, !.head = f, !.tail = f + m + 1]
    <2>1. mem' = [Put(IF full THEN Grown ELSE mem) EXCEPT !.tail = @ + 1]
        BY DEF PushLocked
    <2>2. CASE full
        <3>1. Grown = [mem EXCEPT !.slots = a, !.head = 0, !.tail = m]
            BY <1>3, <2>2 DEF Grown, DequeTypes
        <3>2. 0 + m = m /\ f = 0
            BY <1>1, <2>2
        <3> HIDE DEF a, m, f, full
        <3>3. mem' = [Put(Grown) EXCEPT !.tail = @ + 1]
            BY <2>1, <2>2
        <3> QED
            BY <3>1, <3>2, <3>3 DEF Put, Item, DequeTypes
    <2>3. CASE ~full
        <3>1. mem.tail = f + m /\ mem.head = f /\ a = mem.slots
            BY <1>3, <2>3
        <3> HIDE DEF a, m, f, full
        <3>2. mem' = [Put(mem) EXCEPT !.tail = @ + 1]
            BY <2>1, <2>3
        <3> QED
            BY <3>1, <3>2 DEF Put, Item, DequeTypes
    <2> QED
        BY <2>2, <2>3
<1> DEFINE b == [a EXCEPT ![(f + m) % Cardinality(DOMAIN a)] = mem.pushed + 1]
<1> HIDE DEF a, f, m, full
<1>6. /\ mem'.slots = b /\ mem'.pushed = mem.pushed + 1 /\ mem'.head = f
      /\ mem'.tail = f + m + 1 /\ mem'.lock = main
      /\ mem'.popped = mem.popped /\ mem'.stolen = mem.stolen
    BY <1>2, <1>5 DEF DequeTypes
<1>7. b \in Arrays /\ DOMAIN b = DOMAIN a
    <2>1. f + m \in Nat /\ mem.pushed + 1 \in Nat
        BY <1>1, <1>4
    <2> QED
        BY <1>4, <2>1, SlotWritten
<1>8. ItemsAgree(ItemsIn(b, Cardinality(DOMAIN b), f, m + 1), mem.pushed + 1, mem.popped, mem.stolen)
    <2>1. ItemsAgree(ItemsIn(a, Cardinality(DOMAIN a), f, m), mem.pushed, mem.popped, mem.stolen)
        BY <1>4
    <2>2. b = [a EXCEPT ![(f + m) % Cardinality(DOMAIN a)] = mem.pushed + 1]
        OBVIOUS
    <2> HIDE DEF b
    <2> QED
        BY ONLY <1>1, <1>4, <2>1, <2>2, PushedInto
<1> HIDE DEF b
<1>9. sample' = sample /\ loc' = loc /\ label' = [label EXCEPT ![Owner] = "idle"]
    BY <1>2 DEF PushLocked, Return
<1>10. DequeTypes'
    <2>1. f + m + 1 \in Nat /\ mem.pushed + 1 \in Nat
        BY <1>1, <1>4
    <2>2. mem' = [mem EXCEPT !.slots = b, !.pushed = mem.pushed + 1, !.head = f,
                             !.tail = f + m + 1]
        BY <1>5 DEF b
    <2>3. mem' \in [slots : Arrays, head : Nat, tail : Nat, lock : Callers, pushed : Nat,
                    popped : Seq(Nat), stolen : Seq(Nat)]
        BY <1>4, <1>7, <2>1, <2>2 DEF DequeTypes
    <2> QED
        BY <1>9, <2>3 DEF DequeTypes
<1>11. CallsUnderWay'
    BY <1>2, DequeReturn DEF PushLocked
<1>12. label'[Owner] = "idle" /\ \A u \in Callers \ {Owner} : label'[u] = label[u]
    BY <1>9, DequeAssumption DEF CallsUnderWay
<1>13. First' = f /\ Past' = f + m + 1 /\ Past' - First' = m + 1
    <2>1. First' = f /\ Past' = f + m + 1
        BY <1>6, <1>12 DEF First, Past
    <2> QED
        BY <1>1, <1>4, <2>1
<1>14. Size' = Cardinality(DOMAIN b) /\ Size' = Cardinality(DOMAIN a)
    BY <1>6, <1>7 DEF Size
<1>15. EndsAgree'
    <2>1. Cardinality(DOMAIN a) \in Nat
        BY <1>4, ArraySize
    <2>2. First' <= Past' /\ Past' - First' <= Size'
        BY <1>1, <1>4, <1>13, <1>14, <2>1
    <2>3. \A u \in Callers : label'[u] \notin StealLabels
        BY <1>2, <1>12 DEF EndsAgree, StealLabels
    <2> QED
        BY <1>6, <2>2, <2>3 DEF EndsAgree
<1>16. ItemsAgree(Held, mem.pushed, mem.popped, mem.stolen)'
    BY <1>6, <1>8, <1>13, <1>14 DEF Held
<1> QED
    BY <1>10, <1>11, <1>15, <1>16

-----------------------------------------------------------------------------
(* The owner takes the youngest item. *)

LEMMA PopTakesKeeps ==
    ASSUME DequeInv, NEW t \in Callers, PopTakes(t)
    PROVE  DequeInv'
<1> USE DEF DequeInv
<1> DEFINE m == mem.tail - First
           x == mem.slots[mem.tail % Size]
<1>1. /\ Size \in Nat \ {0} /\ First \in Nat /\ Past \in Nat /\ mem.slots \in [0 .. Size - 1 -> Nat]
      /\ mem.pushed \in Nat /\ mem.popped \in Seq(Nat) /\ mem.stolen \in Seq(Nat)
      /\ mem.tail \in Nat /\ mem.head \in Nat /\ mem.head \in {First, First + 1}
    BY DequeFacts
<1>2. t = Owner /\ label[Owner] \in {"dpop.head", "dpop.lock"} /\ todo[t] # <<>>
    <2>1. label[t] \in {"dpop.head", "dpop.lock"}
        BY DEF PopTakes, Reached
    <2> QED
        BY <2>1, WhoActs DEF CallsUnderWay
<1>3. Past = mem.tail + 1 /\ mem.head <= mem.tail
    BY <1>2 DEF Past, PopTakes
<1>4. m \in Nat /\ First + m = mem.tail /\ Past - First = m + 1
    BY <1>1, <1>3
<1>5. mem' = [mem EXCEPT !.popped = Append(mem.popped, x)] /\ loc' = loc /\ Return(t)
    BY DEF PopTakes, Slot, DequeTypes
<1>6. x \in Nat
    <2>1. mem.tail % Size \in 0 .. Size - 1
        BY <1>1, SlotInside
    <2> QED
        BY <1>1, <2>1
<1>7. Held[m + 1] = x
    <2>1. m + 1 \in 1 .. m + 1 /\ First + (m + 1) - 1 = mem.tail
        <3> HIDE DEF m, x
        <3> QED
            BY ONLY <1>1, <1>4
    <2> QED
        BY <1>4, <2>1 DEF Held, ItemsIn
<1> HIDE DEF x
<1>8. /\ mem'.slots = mem.slots /\ mem'.pushed = mem.pushed /\ mem'.head = mem.head
      /\ mem'.lock = mem.lock /\ mem'.popped = Append(mem.popped, x)
      /\ mem'.stolen = mem.stolen /\ mem'.tail = mem.tail
    BY <1>5 DEF DequeTypes
<1>9. sample' = sample /\ label' = [label EXCEPT ![Owner] = "idle"]
    BY <1>2, <1>5 DEF Return
<1>10. DequeTypes'
    <2>1. Append(mem.popped, x) \in Seq(Nat)
        BY <1>1, <1>6
    <2> QED
        BY <1>5, <1>9, <2>1 DEF DequeTypes
<1>11. CallsUnderWay'
    BY <1>2, <1>5, DequeReturn
<1>12. label'[Owner] = "idle" /\ \A u \in Callers \ {Owner} : label'[u] = label[u]
    BY <1>9, DequeAssumption DEF CallsUnderWay
<1>13. First' = First /\ Past' = mem.tail /\ Size' = Size /\ Past' - First' = m
    <2>1. First' = First /\ Past' = mem.tail /\ Size' = Size
        BY <1>5, <1>8, <1>12 DEF First, Past, Size
    <2> QED
        BY <1>1, <2>1
<1>14. EndsAgree'
    <2>1. mem.lock # Owner /\ mem.lock \in Callers
        BY <1>2, DequeAssumption DEF EndsAgree, DequeTypes, StealLabels, Owner, main
    <2>2. \A u \in Callers : label'[u] \in StealLabels <=> label[u] \in StealLabels
        BY <1>2, <1>12 DEF StealLabels
    <2>3. First' <= Past' /\ Past' - First' <= Size'
        <3>1. Past - First <= Size
            BY DEF EndsAgree
        <3> HIDE DEF m
        <3> QED
            BY ONLY <1>1, <1>4, <1>13, <3>1
    <2>4. mem.head = First + 1 => First' < Past'
        BY <1>1, <1>3, <1>13
    <2>5. mem.lock # main /\ label[mem.lock] = "steal.item" => mem.head = First + 1
        BY DEF EndsAgree
    <2> QED
        BY <1>8, <1>12, <1>13, <2>1, <2>2, <2>3, <2>4, <2>5 DEF EndsAgree
<1>15. ItemsAgree(Held, mem.pushed, mem.popped, mem.stolen)'
    <2> DEFINE q == Held
               r == ItemsIn(mem.slots, Size, First, m)
    <2>1. q \in [1 .. m + 1 -> Nat]
        BY <1>4, DequeFacts
    <2>2. r \in [1 .. m -> Nat]
        BY <1>1, <1>4, ItemsTyped
    <2>3. \A i \in 1 .. m : r[i] = q[i]
        <3>1. \A i \in 1 .. m : i \in 1 .. m + 1
            BY <1>4
        <3> QED
            BY <1>4, <3>1 DEF Held, ItemsIn
    <2>4. Held' = r
        BY <1>8, <1>13 DEF Held
    <2>5. q[m + 1] = x /\ ItemsAgree(q, mem.pushed, mem.popped, mem.stolen)
        BY <1>7
    <2> HIDE DEF q, r, m
    <2>6. ItemsAgree(r, mem.pushed, Append(mem.popped, x), mem.stolen)
        BY <1>1, <1>4, <1>6, <2>1, <2>2, <2>3, <2>5, ItemPopped
    <2> QED
        BY <1>8, <2>4, <2>6
<1> QED
    BY <1>10, <1>11, <1>14, <1>15

-----------------------------------------------------------------------------
(* The thieves. *)

(* A thief that has the lock, takes it or gives it back.                   *)
LEMMA ThiefHolds ==
    ASSUME EndsAgree, CallsUnderWay, NEW t \in Callers, t # Owner, t # main,
           mem.lock \in {main, t}, NEW l,
           label' = [label EXCEPT ![t] = l], mem'.tail = mem.tail,
           \/ l = "idle" /\ mem'.lock = main
           \/ l \in StealLabels /\ mem'.lock = t
    PROVE  /\ Past' = Past /\ label'[t] = l
           /\ \A u \in Callers : label'[u] \in StealLabels <=> mem'.lock = u /\ u # main
<1>1. /\ DOMAIN label = Callers /\ label'[t] = l
      /\ \A u \in Callers : u # t => label'[u] = label[u]
    BY DEF CallsUnderWay
<1>2. label'[Owner] = label[Owner]
    BY <1>1, DequeAssumption
<1>3. Past' = Past
    BY <1>2 DEF Past
<1>4. ASSUME NEW u \in Callers
      PROVE  label'[u] \in StealLabels <=> mem'.lock = u /\ u # main
    <2>1. CASE u = t
        BY <1>1, <2>1 DEF StealLabels
    <2>2. CASE u # t
        <3>1. label[u] \notin StealLabels
            BY <2>2 DEF EndsAgree
        <3> QED
            BY <1>1, <2>2, <3>1
    <2> QED
        BY <2>1, <2>2
<1> QED
    BY <1>1, <1>3, <1>4

LEMMA ThiefMoves ==
    ASSUME DequeInv, DequeTypes', CallsUnderWay', NEW t \in Callers, t # Owner, t # main,
           mem.lock \in {main, t}, NEW l, label' = [label EXCEPT ![t] = l],
           mem'.slots = mem.slots, mem'.pushed = mem.pushed, mem'.popped = mem.popped,
           mem'.stolen = mem.stolen, mem'.tail = mem.tail, First' = First,
           \/ l = "idle" /\ mem'.lock = main
           \/ /\ l \in StealLabels /\ mem'.lock = t
              /\ mem'.head = IF l = "steal.head" THEN First ELSE First + 1
              /\ l = "steal.item" => First < Past
    PROVE  DequeInv'
<1> USE DEF DequeInv
<1>1. /\ Past' = Past /\ label'[t] = l
      /\ \A u \in Callers : label'[u] \in StealLabels <=> mem'.lock = u /\ u # main
    BY ThiefHolds
<1>2. Size' = Size
    BY DEF Size
<1>3. EndsAgree'
    <2>1. First <= Past /\ Past - First <= Size
        BY DEF EndsAgree
    <2> QED
        BY <1>1, <1>2, <2>1 DEF EndsAgree
<1>4. ItemsAgree(Held, mem.pushed, mem.popped, mem.stolen)'
    BY <1>1, <1>2, ItemsStay
<1> QED
    BY <1>3, <1>4

LEMMA ThievesStep ==
    ASSUME DequeInv, NEW t \in Callers,
           \/ Steal(t) \/ StealBusy(t) \/ StealHead(t) \/ StealTail(t) \/ StealUndo(t)
    PROVE  DequeInv'
<1> USE DEF DequeInv
<1>1. /\ t # Owner /\ t # main /\ todo[t] # <<>>
      /\ \A l \in {"idle"} \cup StealLabels : l \in LabelsOf(t)
    <2>1. Calls(t, "steal") \/ label[t] \in StealLabels
        BY DEF Steal, StealBusy, StealHead, StealTail, StealUndo, Reached, StealLabels
    <2>2. t # Owner /\ t # main
        BY <2>1, WhoActs
    <2>3. todo[t] # <<>>
        BY <2>1 DEF Calls, CallsUnderWay, StealLabels
    <2> QED
        BY <2>2, <2>3, LabelSets
<1>2. /\ First \in Nat /\ Past \in Nat /\ mem.head \in Nat /\ mem.tail \in Nat
      /\ (mem.lock = main => mem.head = First) /\ mem.tail \in {Past, Past - 1}
    BY DequeFacts
<1>3. /\ loc \in [Callers -> [head : Nat]] /\ First = IF mem.lock = main THEN mem.head
                                                      ELSE loc[mem.lock].head
      /\ DOMAIN label = Callers
    BY DEF DequeTypes, First, CallsUnderWay
<1>4. label[t] \in StealLabels => mem.lock = t /\ loc[t].head = First
    BY <1>1, <1>3 DEF EndsAgree
<1>5. CASE Steal(t)
    <2>1. /\ mem' = [mem EXCEPT !.lock = t] /\ mem.lock = main /\ Jump(t, "steal.head")
          /\ loc' = [loc EXCEPT ![t].head = mem.head]
        BY <1>5 DEF Steal, Free
    <2>2. /\ mem'.slots = mem.slots /\ mem'.pushed = mem.pushed /\ mem'.popped = mem.popped
          /\ mem'.stolen = mem.stolen /\ mem'.tail = mem.tail /\ mem'.lock = t
          /\ mem'.head = mem.head
        BY <2>1 DEF DequeTypes
    <2>3. loc'[t].head = mem.head /\ loc' \in [Callers -> [head : Nat]]
        BY <1>2, <1>3, <2>1
    <2>4. label' = [label EXCEPT ![t] = "steal.head"] /\ sample' = sample
        BY <2>1 DEF Jump
    <2>5. DequeTypes'
        BY <2>1, <2>3, <2>4 DEF DequeTypes
    <2>6. CallsUnderWay'
        BY <1>1, <2>1, DequeJump DEF StealLabels
    <2>7. First' = First
        BY <1>1, <1>2, <2>1, <2>2, <2>3 DEF First
    <2>8. "steal.head" \in StealLabels
        BY DEF StealLabels
    <2> QED
        BY <1>1, <1>2, <2>1, <2>2, <2>4, <2>5, <2>6, <2>7, <2>8, ThiefMoves
<1>6. CASE StealBusy(t)
    <2>1. Return(t) /\ mem' = mem /\ loc' = loc /\ label[t] = "idle"
        BY <1>6 DEF StealBusy, Calls
    <2>2. label' = label /\ sample' = sample
        BY <2>1 DEF Return, CallsUnderWay
    <2>3. CallsUnderWay'
        BY <1>1, <2>1, DequeReturn
    <2>4. First' = First /\ Past' = Past /\ Size' = Size
        BY <2>1, <2>2 DEF First, Past, Size
    <2>5. DequeTypes' /\ EndsAgree'
        BY <2>1, <2>2, <2>4 DEF DequeTypes, EndsAgree
    <2>6. ItemsAgree(Held, mem.pushed, mem.popped, mem.stolen)'
        BY <2>1, <2>4, ItemsStay
    <2> QED
        BY <2>3, <2>5, <2>6
<1>7. CASE StealHead(t)
    <2>1. /\ mem' = [mem EXCEPT !.head = First + 1] /\ Jump(t, "steal.tail") /\ loc' = loc
          /\ mem.lock = t
        BY <1>4, <1>7 DEF StealHead, Reached, StealLabels
    <2>2. /\ mem'.slots = mem.slots /\ mem'.pushed = mem.pushed /\ mem'.popped = mem.popped
          /\ mem'.stolen = mem.stolen /\ mem'.tail = mem.tail /\ mem'.lock = t
          /\ mem'.head = First + 1
        BY <2>1 DEF DequeTypes
    <2>3. label' = [label EXCEPT ![t] = "steal.tail"] /\ sample' = sample
        BY <2>1 DEF Jump
    <2>4. DequeTypes'
        <3>1. First + 1 \in Nat
            BY <1>2
        <3> QED
            BY <2>1, <2>3, <3>1 DEF DequeTypes
    <2>5. CallsUnderWay'
        BY <1>1, <2>1, DequeJump DEF StealLabels
    <2>6. First' = First
        BY <1>1, <1>3, <2>1, <2>2 DEF First
    <2>7. "steal.tail" \in StealLabels
        BY DEF StealLabels
    <2> QED
        BY <1>1, <2>1, <2>2, <2>3, <2>4, <2>5, <2>6, <2>7, ThiefMoves
<1>8. CASE StealTail(t)
    <2> DEFINE l == IF loc[t].head < mem.tail THEN "steal.item" ELSE "steal.undo"
    <2>1. mem' = mem /\ Jump(t, l) /\ loc' = loc /\ mem.lock = t /\ label[t] = "steal.tail"
        BY <1>4, <1>8 DEF StealTail, Reached, StealLabels
    <2>2. l \in StealLabels /\ l # "steal.head" /\ (l = "steal.item" => First < Past)
        BY <1>2, <1>4, <2>1 DEF StealLabels
    <2>3. label' = [label EXCEPT ![t] = l] /\ sample' = sample
        BY <2>1 DEF Jump
    <2>4. mem.head = First + 1
        BY <1>1, <2>1 DEF EndsAgree
    <2>5. DequeTypes' /\ First' = First
        BY <2>1, <2>3 DEF DequeTypes, First
    <2>6. l \in LabelsOf(t)
        BY <1>1, <2>2
    <2>7. l \notin {"idle", "dpush.tail", "dpush.lock", "dpop.head", "dpop.lock"}
        OBVIOUS
    <2> HIDE DEF l
    <2>8. CallsUnderWay'
        BY <1>1, <2>1, <2>6, <2>7, DequeJump
    <2> QED
        BY <1>1, <2>1, <2>2, <2>3, <2>4, <2>5, <2>8, ThiefMoves
<1>9. CASE StealUndo(t)
    <2>1. /\ mem' = [mem EXCEPT !.head = First, !.lock = main] /\ Return(t) /\ loc' = loc
          /\ mem.lock = t
        BY <1>4, <1>9 DEF StealUndo, Reached, StealLabels
    <2>2. /\ mem'.slots = mem.slots /\ mem'.pushed = mem.pushed /\ mem'.popped = mem.popped
          /\ mem'.stolen = mem.stolen /\ mem'.tail = mem.tail /\ mem'.lock = main
          /\ mem'.head = First
        BY <2>1 DEF DequeTypes
    <2>3. label' = [label EXCEPT ![t] = "idle"] /\ sample' = sample
        BY <2>1 DEF Return
    <2>4. DequeTypes'
        BY <1>2, <2>1, <2>3, SamplesAssumption DEF DequeTypes
    <2>5. CallsUnderWay'
        BY <1>1, <2>1, DequeReturn
    <2>6. First' = First
        BY <2>2 DEF First
    <2> QED
        BY <1>1, <2>1, <2>2, <2>3, <2>4, <2>5, <2>6, ThiefMoves
<1> QED
    BY <1>5, <1>6, <1>7, <1>8, <1>9

LEMMA StealItemKeeps ==
    ASSUME DequeInv, NEW t \in Callers, StealItem(t)
    PROVE  DequeInv'
<1> USE DEF DequeInv
<1> DEFINE m == Past - (First + 1)
           x == mem.slots[First % Size]
<1>1. /\ Size \in Nat \ {0} /\ First \in Nat /\ Past \in Nat /\ mem.slots \in [0 .. Size - 1 -> Nat]
      /\ mem.pushed \in Nat /\ mem.popped \in Seq(Nat) /\ mem.stolen \in Seq(Nat)
    BY DequeFacts
<1>2. label[t] = "steal.item" /\ t # Owner /\ t # main /\ todo[t] # <<>>
    <2>1. label[t] = "steal.item"
        BY DEF StealItem, Reached
    <2> QED
        BY <2>1, WhoActs DEF CallsUnderWay, StealLabels
<1>3. mem.lock = t /\ loc[t].head = First /\ mem.head = First + 1 /\ First < Past
    BY <1>2 DEF EndsAgree, StealLabels, First
<1>4. m \in Nat /\ Past - First = m + 1 /\ First + 1 \in Nat
    BY <1>1, <1>3
<1>5. /\ mem' = [mem EXCEPT !.stolen = Append(mem.stolen, x), !.lock = main]
      /\ loc' = loc /\ Return(t)
    BY <1>3 DEF StealItem, Slot, DequeTypes
<1>6. x \in Nat
    <2>1. First % Size \in 0 .. Size - 1
        BY <1>1, SlotInside
    <2> QED
        BY <1>1, <2>1
<1>7. Held[1] = x
    <2>1. First + 1 - 1 = First
        BY <1>1
    <2> HIDE DEF m, x
    <2>2. 1 \in 1 .. m + 1
        BY <1>4
    <2> QED
        BY <1>4, <2>1, <2>2 DEF Held, ItemsIn, x
<1> HIDE DEF x
<1>8. /\ mem'.slots = mem.slots /\ mem'.pushed = mem.pushed /\ mem'.head = First + 1
      /\ mem'.lock = main /\ mem'.popped = mem.popped
      /\ mem'.stolen = Append(mem.stolen, x) /\ mem'.tail = mem.tail
    BY <1>3, <1>5 DEF DequeTypes
<1>9. sample' = sample /\ label' = [label EXCEPT ![t] = "idle"]
    BY <1>5 DEF Return
<1>10. DequeTypes'
    <2>1. Append(mem.stolen, x) \in Seq(Nat)
        BY <1>1, <1>6
    <2> QED
        BY <1>5, <1>9, <2>1, SamplesAssumption DEF DequeTypes
<1>11. CallsUnderWay'
    BY <1>2, <1>5, DequeReturn
<1>12. /\ Past' = Past
       /\ \A u \in Callers : label'[u] \in StealLabels <=> mem'.lock = u /\ u # main
    BY <1>2, <1>3, <1>8, <1>9, ThiefHolds
<1>13. First' = First + 1 /\ Size' = Size /\ Past' - First' = m
    BY <1>8, <1>12 DEF First, Size
<1>14. EndsAgree'
    <2>1. First' <= Past' /\ Past' - First' <= Size'
        <3>1. Past - First <= Size
            BY DEF EndsAgree
        <3> HIDE DEF m
        <3> QED
            BY ONLY <1>1, <1>3, <1>4, <1>12, <1>13, <3>1
    <2> QED
        BY <1>8, <1>12, <2>1 DEF EndsAgree
<1>15. ItemsAgree(Held, mem.pushed, mem.popped, mem.stolen)'
    <2> DEFINE q == Held
               r == ItemsIn(mem.slots, Size, First + 1, m)
    <2>1. q \in [1 .. m + 1 -> Nat]
        BY <1>4, DequeFacts
    <2>2. r \in [1 .. m -> Nat]
        BY <1>1, <1>4, ItemsTyped
    <2>3. ASSUME NEW i \in 1 .. m
          PROVE  r[i] = q[i + 1]
        <3> HIDE DEF m
        <3>1. i + 1 \in 1 .. m + 1 /\ First + (i + 1) - 1 = (First + 1) + i - 1
            BY <1>1, <1>4
        <3> QED
            BY <1>4, <3>1 DEF Held, ItemsIn
    <2>4. Held' = r
        BY <1>8, <1>13 DEF Held
    <2>5. q[1] = x /\ ItemsAgree(q, mem.pushed, mem.popped, mem.stolen)
        BY <1>7
    <2> HIDE DEF q, r, m
    <2>6. ItemsAgree(r, mem.pushed, mem.popped, Append(mem.stolen, x))
        BY <1>1, <1>4, <1>6, <2>1, <2>2, <2>3, <2>5, ItemStolen
    <2> QED
        BY <1>8, <2>4, <2>6
<1> QED
    BY <1>10, <1>11, <1>14, <1>15

-----------------------------------------------------------------------------
(* What the invariant says of the items. *)

LEMMA Concatenated ==
    ASSUME NEW p \in Seq(Nat), NEW s \in Seq(Nat)
    PROVE  /\ Range(p \o s) = Range(p) \cup Range(s)
           /\ IsInjective(p) /\ IsInjective(s) /\ Range(p) \cap Range(s) = {}
              => IsInjective(p \o s)
<1> DEFINE c == p \o s
<1>1. /\ DOMAIN c = 1 .. Len(p) + Len(s) /\ DOMAIN p = 1 .. Len(p) /\ DOMAIN s = 1 .. Len(s)
      /\ Len(p) \in Nat /\ Len(s) \in Nat
    OBVIOUS
<1>2. \A i \in DOMAIN p : i \in DOMAIN c /\ c[i] = p[i]
    BY <1>1
<1>3. \A i \in DOMAIN s : Len(p) + i \in DOMAIN c /\ c[Len(p) + i] = s[i]
    <2> SUFFICES ASSUME NEW i \in DOMAIN s
                 PROVE  Len(p) + i \in DOMAIN c /\ c[Len(p) + i] = s[i]
        OBVIOUS
    <2>1. Len(p) + i \in 1 .. Len(p) + Len(s) /\ ~(Len(p) + i <= Len(p))
          /\ (Len(p) + i) - Len(p) = i
        BY <1>1
    <2> QED
        BY <1>1, <2>1
<1>4. \A i \in DOMAIN c : i \in DOMAIN p \/ (i - Len(p) \in DOMAIN s /\ i = Len(p) + (i - Len(p)))
    BY <1>1
<1> HIDE DEF c
<1>5. Range(c) = Range(p) \cup Range(s)
    <2>1. ASSUME NEW i \in DOMAIN c
          PROVE  c[i] \in Range(p) \cup Range(s)
        <3>1. CASE i \in DOMAIN p
            BY <1>2, <3>1 DEF Range
        <3>2. CASE i - Len(p) \in DOMAIN s /\ i = Len(p) + (i - Len(p))
            <4>1. c[i] = s[i - Len(p)]
                BY <1>3, <3>2
            <4> QED
                BY <3>2, <4>1 DEF Range
        <3> QED
            BY <1>4, <3>1, <3>2
    <2>2. Range(p) \subseteq Range(c)
        BY <1>2 DEF Range
    <2>3. ASSUME NEW i \in DOMAIN s
          PROVE  s[i] \in Range(c)
        BY <1>3 DEF Range
    <2>4. Range(s) \subseteq Range(c)
        BY <2>3 DEF Range
    <2>5. Range(c) \subseteq Range(p) \cup Range(s)
        BY <2>1 DEF Range
    <2> QED
        BY <2>2, <2>4, <2>5
<1>6. ASSUME IsInjective(p), IsInjective(s), Range(p) \cap Range(s) = {}
      PROVE  IsInjective(c)
    <2> SUFFICES ASSUME NEW i \in DOMAIN c, NEW j \in DOMAIN c, c[i] = c[j]
                 PROVE  i = j
        BY DEF IsInjective
    <2>1. \A k \in DOMAIN p : c[k] \in Range(p)
        BY <1>2 DEF Range
    <2>2. \A k \in DOMAIN c : k \notin DOMAIN p =>
             /\ k - Len(p) \in DOMAIN s /\ k = Len(p) + (k - Len(p))
             /\ c[k] = s[k - Len(p)] /\ c[k] \in Range(s)
        BY <1>3, <1>4 DEF Range
    <2>3. CASE i \in DOMAIN p /\ j \in DOMAIN p
        BY <1>2, <1>6, <2>3 DEF IsInjective
    <2>4. CASE i \notin DOMAIN p /\ j \notin DOMAIN p
        <3>1. i - Len(p) = j - Len(p)
            BY <1>6, <2>2, <2>4 DEF IsInjective
        <3> QED
            BY <2>2, <2>4, <3>1
    <2>5. CASE (i \in DOMAIN p) # (j \in DOMAIN p)
        BY <1>6, <2>1, <2>2, <2>5
    <2> QED
        BY <2>3, <2>4, <2>5
<1> QED
    BY <1>5, <1>6 DEF c

LEMMA IncreasingDiffer ==
    ASSUME NEW m \in Nat, NEW q \in [1 .. m -> Nat], Increasing(q)
    PROVE  IsInjective(q) /\ Cardinality(Range(q)) = m
<1>1. IsInjective(q)
    <2> SUFFICES ASSUME NEW i \in 1 .. m, NEW j \in 1 .. m, q[i] = q[j], i # j
                 PROVE  FALSE
        BY DEF IsInjective
    <2>1. i < j \/ j < i
        OBVIOUS
    <2>2. q[i] < q[j] \/ q[j] < q[i]
        BY <2>1 DEF Increasing
    <2> QED
        BY <2>2
<1>2. q \in Bijection(1 .. m, Range(q))
    BY <1>1 DEF Bijection, Injection, Surjection, IsInjective, Range
<1>3. ExistsBijection(1 .. m, Range(q))
    BY <1>2 DEF ExistsBijection
<1> QED
    BY <1>1, <1>3, FS_CountingElements

LEMMA TakenItems ==
    ASSUME DequeInv
    PROVE  /\ IsInjective(Taken) /\ Range(Taken) \cap Range(Held) = {}
           /\ Range(Taken) \cup Range(Held) = 1 .. mem.pushed
<1> USE DEF DequeInv
<1>1. /\ mem.popped \in Seq(Nat) /\ mem.stolen \in Seq(Nat) /\ Past - First \in Nat
      /\ Held \in [1 .. Past - First -> Nat]
    BY DequeFacts
<1>2. IsInjective(mem.stolen)
    <2>1. mem.stolen \in [1 .. Len(mem.stolen) -> Nat] /\ Len(mem.stolen) \in Nat
        BY <1>1
    <2> QED
        BY <2>1, IncreasingDiffer DEF ItemsAgree
<1>3. Range(mem.popped) \cap Range(mem.stolen) = {}
    BY DEF ItemsAgree
<1>4. Range(Taken) = Range(mem.popped) \cup Range(mem.stolen) /\ IsInjective(Taken)
    BY <1>1, <1>2, <1>3, Concatenated DEF Taken, ItemsAgree
<1>5. Range(mem.stolen) \cap Range(Held) = {}
    <2> SUFFICES ASSUME NEW x \in Range(mem.stolen), x \in Range(Held)
                 PROVE  FALSE
        OBVIOUS
    <2>1. x < x
        BY DEF ItemsAgree
    <2>2. x \in 1 .. mem.pushed
        BY DEF ItemsAgree
    <2> QED
        BY <2>1, <2>2
<1> QED
    BY <1>4, <1>5 DEF ItemsAgree

LEMMA ItemsAccounted ==
    ASSUME DequeInv
    PROVE  EachItemOnce
<1> USE DEF DequeInv
<1>1. /\ Size \in Nat \ {0} /\ First \in Nat /\ Past \in Nat /\ Past - First \in Nat
      /\ Held \in [1 .. Past - First -> Nat] /\ mem.pushed \in Nat
    BY DequeFacts
<1>2. StolenInOrder
    BY DEF StolenInOrder, ItemsAgree, Increasing
<1>3. \A i, j \in DOMAIN Taken : Taken[i] = Taken[j] => i = j
    BY TakenItems DEF IsInjective
<1>4. ASSUME \A t \in Callers : label[t] = "idle"
      PROVE  LET left == {n \in 1 .. mem.pushed : \A i \in DOMAIN Taken : Taken[i] # n}
             IN  /\ Count = Cardinality(left)
                 /\ left = {mem.slots[Slot(i)] : i \in mem.head .. mem.tail - 1}
    <2> DEFINE left == {n \in 1 .. mem.pushed : \A i \in DOMAIN Taken : Taken[i] # n}
    <2>1. mem.lock = main
        <3>1. mem.lock \in Callers /\ label[mem.lock] \notin StealLabels
            BY <1>4 DEF DequeTypes, StealLabels
        <3> QED
            BY <3>1 DEF EndsAgree
    <2>2. First = mem.head /\ Past = mem.tail
        BY <1>4, <2>1, DequeAssumption DEF First, Past
    <2>3. left = {n \in 1 .. mem.pushed : n \notin Range(Taken)}
        BY DEF Range
    <2>4. left = Range(Held)
        BY <2>3, TakenItems
    <2>5. Cardinality(Range(Held)) = Count
        BY <1>1, <2>2, IncreasingDiffer DEF Count, ItemsAgree
    <2>6. Range(Held) = {mem.slots[Slot(i)] : i \in mem.head .. mem.tail - 1}
        <3> DEFINE m == Past - First
                   all == {mem.slots[i % Size] : i \in First .. Past - 1}
        <3>1. DOMAIN Held = 1 .. m /\ \A i \in 1 .. m : Held[i] = mem.slots[(First + i - 1) % Size]
            BY DEF Held, ItemsIn
        <3>2. Range(Held) \subseteq all
            <4> SUFFICES ASSUME NEW i \in 1 .. m
                         PROVE  Held[i] \in all
                BY <3>1 DEF Range
            <4>1. First + i - 1 \in First .. Past - 1
                BY <1>1
            <4> QED
                BY <3>1, <4>1
        <3>3. all \subseteq Range(Held)
            <4> SUFFICES ASSUME NEW k \in First .. Past - 1
                         PROVE  mem.slots[k % Size] \in Range(Held)
                OBVIOUS
            <4>1. (k - First) + 1 \in 1 .. m /\ First + ((k - First) + 1) - 1 = k
                BY <1>1
            <4>2. Held[(k - First) + 1] = mem.slots[k % Size]
                BY <3>1, <4>1
            <4> QED
                BY <3>1, <4>1, <4>2 DEF Range
        <3> QED
            BY <2>2, <3>2, <3>3 DEF Slot
    <2> QED
        BY <2>4, <2>5, <2>6
<1> QED
    BY <1>2, <1>3, <1>4 DEF EachItemOnce

-----------------------------------------------------------------------------
(* The theorems about the deque. *)

LEMMA DequeInvariant ==
    DequeSpec => []DequeInv
<1>1. DequeInit => DequeInv
    BY DequeStart
<1>2. DequeInv /\ [DequeNext]_sampleVars => DequeInv'
    <2> SUFFICES ASSUME DequeInv, [DequeNext]_sampleVars
                 PROVE  DequeInv'
        OBVIOUS
    <2>1. ASSUME NEW t \in Callers, DequePush(t)
          PROVE  DequeInv'
        BY <2>1, PushKeeps
    <2>2. ASSUME NEW t \in Callers, PushLocked(t)
          PROVE  DequeInv'
        BY <2>2, PushLockedKeeps
    <2>3. ASSUME NEW t \in Callers, PopTakes(t)
          PROVE  DequeInv'
        BY <2>3, PopTakesKeeps
    <2>4. ASSUME NEW t \in Callers,
                 \/ PushTail(t) \/ DequePushFull(t) \/ DequePop(t) \/ DequePopZero(t)
                 \/ PopMeetsThief(t) \/ PopLoses(t)
          PROVE  DequeInv'
        BY <2>4, OwnersStep
    <2>5. ASSUME NEW t \in Callers,
                 Steal(t) \/ StealBusy(t) \/ StealHead(t) \/ StealTail(t) \/ StealUndo(t)
          PROVE  DequeInv'
        BY <2>5, ThievesStep
    <2>6. ASSUME NEW t \in Callers, StealItem(t)
          PROVE  DequeInv'
        BY <2>6, StealItemKeeps
    <2>7. CASE UNCHANGED sampleVars
        BY <2>7 DEF sampleVars, DequeInv, DequeTypes, CallsUnderWay, EndsAgree, ItemsAgree,
                    Held, ItemsIn, First, Past, Size
    <2> QED
        BY <2>1, <2>2, <2>3, <2>4, <2>5, <2>6, <2>7 DEF DequeNext
<1> QED
    BY <1>1, <1>2, PTL DEF DequeSpec

(* Whatever the owner pushes and pops and however many thieves there are:  *)
(* no item is delivered twice, none is lost, and thieves get the oldest.   *)
THEOREM DequeDeliversEachItemOnce ==
    DequeSpec => []EachItemOnce
<1>1. DequeInv => EachItemOnce
    BY ItemsAccounted
<1> QED
    BY <1>1, DequeInvariant, PTL

LEMMA EmptyDeque ==
    ASSUME DequeInv, First = Past
    PROVE  1 .. mem.pushed \subseteq ToSet(Taken)
<1>1. First \in Nat /\ Past - First = 0
    BY DequeFacts DEF DequeInv
<1>2. Range(Held) = {}
    BY <1>1 DEF Held, ItemsIn, Range
<1>3. Range(Taken) = 1 .. mem.pushed
    BY <1>2, TakenItems
<1> QED
    BY <1>3 DEF Range, ToSet

(* The pop of ws_deque.cpp says that the deque is empty only when it is.   *)
THEOREM DequePopsFindItems ==
    DequeSpec => PopsFindItems
<1> DEFINE Found ==
        Is("deque") =>
           \A t \in Callers :
              /\ todo[t] # <<>> /\ Head(todo[t]) = dpop
              /\ todo'[t] = Tail(todo[t]) /\ mem'.popped = mem.popped
              => 1 .. mem.pushed \subseteq ToSet(Taken)
<1>1. DequeInv /\ [DequeNext]_sampleVars => [Found]_sampleVars
    <2> SUFFICES ASSUME DequeInv, DequeNext, NEW t \in Callers,
                        todo[t] # <<>>, Head(todo[t]) = dpop, todo'[t] = Tail(todo[t]),
                        mem'.popped = mem.popped
                 PROVE  1 .. mem.pushed \subseteq ToSet(Taken)
        BY DEF sampleVars
    <2> USE DEF DequeInv
    <2>1. todo'[t] # todo[t]
        <3>1. todo[t] \in Seq({dpush, dpop, steal})
            BY DEF CallsUnderWay
        <3>2. Len(Tail(todo[t])) # Len(todo[t])
            BY <3>1
        <3> QED
            BY <3>2
    <2>2. PICK u \in Callers :
             \/ DequePush(u) \/ PushTail(u) \/ DequePushFull(u) \/ PushLocked(u)
             \/ DequePop(u) \/ DequePopZero(u) \/ PopTakes(u)
             \/ PopMeetsThief(u) \/ PopLoses(u)
             \/ Steal(u) \/ StealBusy(u) \/ StealHead(u) \/ StealTail(u)
             \/ StealItem(u) \/ StealUndo(u)
        BY DEF DequeNext
    <2>3. ~(\E l : Jump(u, l)) /\ u = t
        <3>1. ~(\E l : Jump(u, l))
            BY <2>1 DEF Jump
        <3>2. Return(u)
            BY <2>2, <3>1 DEF DequePush, PushTail, DequePushFull, PushLocked, DequePop,
               DequePopZero, PopTakes, PopMeetsThief, PopLoses, Steal, StealBusy, StealHead,
               StealTail, StealItem, StealUndo
        <3> QED
            BY <2>1, <3>1, <3>2 DEF Return, CallsUnderWay
    <2>4. t = Owner
        <3>1. Head(todo[t]) \in DequeCalls(t)
            BY DEF CallsUnderWay
        <3> QED
            BY <3>1 DEF DequeCalls, dpop, steal
    <2>5. /\ First \in Nat /\ Past \in Nat /\ mem.tail \in Nat /\ mem.head \in Nat
          /\ mem.popped \in Seq(Nat) /\ First <= Past
          /\ (mem.lock = main => mem.head = First)
        BY DequeFacts DEF EndsAgree
    <2>6. CASE DequePopZero(t)
        <3>1. Past = 0
            BY <2>4, <2>6 DEF DequePopZero, Calls, Past
        <3>2. First = Past
            BY <2>5, <3>1
        <3> QED
            BY <3>2, EmptyDeque
    <2>7. CASE PopLoses(t)
        <3>1. mem.lock = main /\ Past = mem.tail + 1 /\ mem.head > mem.tail
            BY <2>4, <2>7 DEF PopLoses, Reached, Free, Past
        <3>2. First = Past
            BY <2>5, <3>1
        <3> QED
            BY <3>2, EmptyDeque
    <2>8. ~PopTakes(t)
        <3> SUFFICES ASSUME PopTakes(t)
                     PROVE  FALSE
            OBVIOUS
        <3> DEFINE x == mem.slots[Slot(mem.tail)]
        <3>1. mem'.popped = Append(mem.popped, x)
            BY DEF PopTakes, DequeTypes
        <3> HIDE DEF x
        <3>2. Len(Append(mem.popped, x)) = Len(mem.popped) + 1 /\ Len(mem.popped) \in Nat
            BY <2>5
        <3> QED
            BY <3>1, <3>2
    <2>9. ~PushTail(t) /\ ~PushLocked(t)
        BY DEF PushTail, PushLocked, Reached, CallsUnderWay, dpush, dpop
    <2>10. ~StealBusy(t) /\ ~StealItem(t) /\ ~StealUndo(t)
        BY <2>4, WhoActs DEF StealBusy, StealItem, StealUndo, Reached, StealLabels
    <2>11. /\ ~DequePush(t) /\ ~DequePushFull(t) /\ ~DequePop(t) /\ ~PopMeetsThief(t)
           /\ ~Steal(t) /\ ~StealHead(t) /\ ~StealTail(t)
        BY <2>3 DEF DequePush, DequePushFull, DequePop, PopMeetsThief, Steal, StealHead, StealTail
    <2> QED
        BY <2>2, <2>3, <2>6, <2>7, <2>8, <2>9, <2>10, <2>11
<1> QED
    BY <1>1, DequeInvariant, PTL DEF DequeSpec, PopsFindItems

LEMMA RepeatedCalls ==
    ASSUME NEW S, NEW n \in Nat, NEW c \in S
    PROVE  Repeat(n, c) \in Seq(S)
<1>1. [i \in 1 .. n |-> c] \in [1 .. n -> S]
    OBVIOUS
<1>2. [1 .. n -> S] \subseteq Seq(S)
    OBVIOUS
<1> QED
    BY <1>1, <1>2 DEF Repeat

(* The tests of ws_deque.cpp are such clients: what is proved of them is   *)
(* what TLC checks of the tests.                                           *)
THEOREM TestsAreClients ==
    Test0 \/ CppTest => DequeInit
<1>1. ASSUME NEW c, Begin("deque", "cpp", DequeMem, c, DequeLoc),
             \A t \in DOMAIN c : t \in {1, 2, 3} /\ c[t] \in Seq(DequeCalls(t))
      PROVE  DequeInit
    <2>1. \A t \in Callers : todo[t] = IF t \in DOMAIN c THEN c[t] ELSE <<>>
        BY <1>1 DEF Begin
    <2>2. \A t \in Callers : todo[t] \in Seq(DequeCalls(t))
        <3>1. \A t \in Callers : <<>> \in Seq(DequeCalls(t))
            OBVIOUS
        <3> QED
            BY <1>1, <2>1, <3>1
    <2>3. \A t \in Callers : DequeCalls(t) \subseteq {dpush, dpop, steal}
        BY DEF DequeCalls
    <2>4. \A t \in Callers : Seq(DequeCalls(t)) \subseteq Seq({dpush, dpop, steal})
        BY <2>3
    <2>5. DOMAIN todo = Callers /\ todo = [t \in Callers |-> todo[t]]
        BY <1>1 DEF Begin
    <2>6. todo \in [Callers -> Seq({dpush, dpop, steal})]
        BY <2>2, <2>4, <2>5
    <2> QED
        BY <1>1, <2>2, <2>6 DEF DequeInit, Begin
<1>2. /\ DequeCalls(1) = {dpush, dpop} /\ DequeCalls(2) = {steal} /\ DequeCalls(3) = {steal}
    BY DEF DequeCalls, Owner, main
<1>3. CASE Test0
    <2> DEFINE owner == Test0Owner
               thief == Repeat(2, steal)
               c == [t \in 1 .. 3 |-> IF t = Owner THEN owner ELSE thief]
    <2>1. owner \in Seq(DequeCalls(1))
        <3>1. Repeat(4, dpush) \in Seq({dpush, dpop}) /\ Repeat(5, dpop) \in Seq({dpush, dpop})
            BY RepeatedCalls
        <3> QED
            BY <1>2, <3>1 DEF Test0Owner
    <2>2. thief \in Seq(DequeCalls(2)) /\ thief \in Seq(DequeCalls(3))
        BY <1>2, RepeatedCalls
    <2> HIDE DEF owner, thief
    <2>3. DOMAIN c = {1, 2, 3} /\ c[1] = owner /\ c[2] = thief /\ c[3] = thief
        BY DEF Owner
    <2>4. Begin("deque", "cpp", DequeMem, c, DequeLoc)
        BY <1>3 DEF Test0, owner, thief
    <2> HIDE DEF c
    <2> QED
        BY <1>1, <2>1, <2>2, <2>3, <2>4
<1>4. CASE CppTest
    <2> DEFINE owner == <<dpush, dpush, dpop, dpop, dpop>>
               thief == <<steal>>
               c == [t \in 1 .. 2 |-> IF t = Owner THEN owner ELSE thief]
    <2>1. owner \in Seq(DequeCalls(1)) /\ thief \in Seq(DequeCalls(2))
        BY <1>2
    <2> HIDE DEF owner, thief
    <2>2. DOMAIN c = {1, 2} /\ c[1] = owner /\ c[2] = thief
        BY DEF Owner
    <2>3. Begin("deque", "cpp", DequeMem, c, DequeLoc)
        BY <1>4 DEF CppTest, TestTwo, owner, thief
    <2> HIDE DEF c
    <2> QED
        BY <1>1, <2>1, <2>2, <2>3
<1> QED
    BY <1>3, <1>4

-----------------------------------------------------------------------------
(* The lists of an eventcount. *)

(* What holds of 0 and is handed on holds up to n. *)
LEMMA Climb ==
    ASSUME NEW n \in Nat, NEW G, 0 \in G, \A i \in 1 .. n : i - 1 \in G => i \in G
    PROVE  n \in G
<1> SUFFICES ASSUME n \notin G
             PROVE  FALSE
    OBVIOUS
<1> DEFINE D == {i \in Nat : i <= n /\ i \notin G}
<1>1. D \subseteq Nat /\ D # {}
    <2>1. n \in D
        OBVIOUS
    <2> QED
        BY <2>1
<1> HIDE DEF D
<1>2. PICK m \in D : \A i \in D : ~ (<<i, m>> \in OpToRel(<, Nat))
    BY <1>1, NatLessThanWellFounded, WFMin, Zenon
<1>3. \A i \in D : ~ (i < m)
    BY <1>1, <1>2 DEF OpToRel
<1>4. m \in Nat /\ m <= n /\ m \notin G /\ m # 0
    BY DEF D
<1>5. m - 1 \in Nat /\ m - 1 <= n /\ m - 1 < m /\ m \in 1 .. n
    BY <1>4
<1>6. m - 1 \in G
    BY <1>3, <1>5 DEF D
<1> QED
    BY <1>4, <1>5, <1>6

(* The function that Those computes exists. *)
LEMMA ThoseSteps ==
    ASSUME NEW ws \in Seq(Callers), NEW S
    PROVE  \E f : /\ f[0] = <<>> /\ Those(ws, S) = f[Len(ws)]
                  /\ \A i \in 1 .. Len(ws) :
                        f[i] = IF ws[i] \in S THEN Append(f[i - 1], ws[i]) ELSE f[i - 1]
<1> DEFINE Step(q, i) == IF ws[i] \in S THEN Append(q, ws[i]) ELSE q
           Of(g, m) == [i \in 0 .. m |-> IF i = 0 THEN <<>> ELSE Step(g[i - 1], i)]
           n == Len(ws)
           G == {m \in Nat : \E g : g = Of(g, m)}
           upto == CHOOSE g : g = Of(g, n)
<1>1. n \in Nat
    OBVIOUS
<1>2. Those(ws, S) = upto[n]
    BY DEF Those
<1> HIDE DEF Step, n
<1>3. 0 \in G
    <2> DEFINE g == [i \in 0 .. 0 |-> <<>>]
    <2>1. g = Of(g, 0)
        OBVIOUS
    <2> QED
        BY <2>1
<1>4. ASSUME NEW m \in 1 .. n, m - 1 \in G
      PROVE  m \in G
    <2>1. PICK g : g = Of(g, m - 1)
        BY <1>4
    <2> DEFINE h == [i \in 0 .. m |-> IF i = m THEN Step(g[m - 1], m) ELSE g[i]]
    <2>2. \A i \in 0 .. m - 1 : g[i] = IF i = 0 THEN <<>> ELSE Step(g[i - 1], i)
        BY <2>1
    <2>3. m \in Nat /\ m # 0 /\ m - 1 \in 0 .. m - 1 /\ m \notin 0 .. m - 1
        OBVIOUS
    <2>4. h[m] = Step(g[m - 1], m) /\ \A i \in 0 .. m - 1 : h[i] = g[i]
        BY <2>3
    <2>5. ASSUME NEW i \in 0 .. m
          PROVE  h[i] = IF i = 0 THEN <<>> ELSE Step(h[i - 1], i)
        <3> HIDE DEF h
        <3>1. CASE i = m
            BY <2>3, <2>4, <3>1
        <3>2. CASE i # m
            <4>1. i \in 0 .. m - 1 /\ (i # 0 => i - 1 \in 0 .. m - 1)
                BY <2>3, <3>2
            <4> QED
                BY <2>2, <2>4, <4>1
        <3> QED
            BY <3>1, <3>2
    <2>6. h = Of(h, m)
        <3>1. h = [i \in 0 .. m |-> h[i]]
            OBVIOUS
        <3> HIDE DEF h
        <3> QED
            BY <2>5, <3>1
    <2> QED
        BY <2>3, <2>6
<1>5. n \in G
    <2> HIDE DEF G
    <2> QED
        BY <1>1, <1>3, <1>4, Climb
<1>6. upto = Of(upto, n)
    BY <1>5
<1> HIDE DEF upto
<1>7. \A i \in 0 .. n : upto[i] = IF i = 0 THEN <<>> ELSE Step(upto[i - 1], i)
    BY <1>6
<1>8. upto[0] = <<>> /\ \A i \in 1 .. n : upto[i] = Step(upto[i - 1], i)
    <2>1. 0 \in 0 .. n /\ \A i \in 1 .. n : i \in 0 .. n /\ i # 0
        BY <1>1
    <2> QED
        BY <1>7, <2>1
<1> QED
    BY <1>2, <1>8 DEF Step, n

(* Those of ws that are in S, each once if each is once in ws.             *)
LEMMA ThoseFacts ==
    ASSUME NEW ws \in Seq(Callers), IsInjective(ws), NEW S
    PROVE  /\ Those(ws, S) \in Seq(Callers)
           /\ IsInjective(Those(ws, S))
           /\ Range(Those(ws, S)) = Range(ws) \cap S
<1> DEFINE n == Len(ws)
<1>1. PICK f : /\ f[0] = <<>> /\ Those(ws, S) = f[n]
               /\ \A i \in 1 .. n :
                     f[i] = IF ws[i] \in S THEN Append(f[i - 1], ws[i]) ELSE f[i - 1]
    BY ThoseSteps
<1> DEFINE Before(i) == {ws[j] : j \in 1 .. i}
           Holds(q, i) == /\ q \in Seq(Callers) /\ IsInjective(q)
                          /\ Range(q) = Before(i) \cap S
           G == {i \in 0 .. n : Holds(f[i], i)}
<1>2. n \in Nat /\ DOMAIN ws = 1 .. n /\ \A i \in 1 .. n : ws[i] \in Callers
    OBVIOUS
<1>3. 0 \in G
    <2>1. <<>> \in Seq(Callers) /\ IsInjective(<<>>) /\ Range(<<>>) = {}
        BY DEF IsInjective, Range
    <2>2. Before(0) = {}
        OBVIOUS
    <2>3. Holds(<<>>, 0)
        BY <2>1, <2>2
    <2> HIDE DEF Holds
    <2> QED
        BY <1>1, <1>2, <2>3
<1>4. ASSUME NEW i \in 1 .. n, i - 1 \in G
      PROVE  i \in G
    <2> DEFINE q == f[i - 1]
               x == ws[i]
    <2>1. q \in Seq(Callers) /\ IsInjective(q) /\ Range(q) = Before(i - 1) \cap S
        BY <1>4
    <2>2. Before(i) = Before(i - 1) \cup {x}
        <3>1. 1 .. i = (1 .. i - 1) \cup {i}
            BY <1>2
        <3> QED
            BY <3>1
    <2>3. x \in Callers /\ x \notin Before(i - 1)
        BY <1>2 DEF IsInjective
    <2>4. f[i] = IF x \in S THEN Append(q, x) ELSE q
        BY <1>1
    <2> HIDE DEF q, x, Before
    <2>5. CASE x \in S
        <3>1. DOMAIN Append(q, x) = 1 .. Len(q) + 1 /\ Append(q, x)[Len(q) + 1] = x
              /\ (\A j \in 1 .. Len(q) : Append(q, x)[j] = q[j]) /\ DOMAIN q = 1 .. Len(q)
              /\ Len(q) \in Nat /\ Append(q, x) \in Seq(Callers)
            BY <2>1, <2>3
        <3>2. x \notin Range(q)
            BY <2>1, <2>3
        <3>3. IsInjective(Append(q, x))
            BY <2>1, <3>1, <3>2 DEF IsInjective, Range
        <3>4. Range(Append(q, x)) = Range(q) \cup {x}
            BY <3>1 DEF Range
        <3>5. Range(Append(q, x)) = Before(i) \cap S
            BY <2>1, <2>2, <2>5, <3>4
        <3>6. Holds(Append(q, x), i)
            BY <3>1, <3>3, <3>5
        <3>7. f[i] = Append(q, x)
            BY <2>4, <2>5
        <3> HIDE DEF Holds
        <3>8. Holds(f[i], i)
            BY <3>6, <3>7, Zenon
        <3> QED
            BY <3>8, <1>2
    <2>6. CASE x \notin S
        BY <2>1, <2>2, <2>4, <2>6, <1>2
    <2> QED
        BY <2>5, <2>6
<1>5. n \in G
    <2> HIDE DEF G
    <2> QED
        BY <1>2, <1>3, <1>4, Climb
<1>6. Before(n) = Range(ws)
    BY <1>2 DEF Range
<1> HIDE DEF Before
<1> QED
    BY <1>1, <1>5, <1>6

LEMMA ReverseFacts ==
    ASSUME NEW q \in Seq(Callers), IsInjective(q)
    PROVE  /\ Reverse(q) \in Seq(Callers) /\ IsInjective(Reverse(q))
           /\ Range(Reverse(q)) = Range(q)
<1> DEFINE n == Len(q)
           r == Reverse(q)
<1>1. n \in Nat /\ DOMAIN q = 1 .. n /\ \A i \in 1 .. n : q[i] \in Callers
    OBVIOUS
<1>2. r = [i \in 1 .. n |-> q[n - i + 1]]
    BY DEF Reverse
<1> HIDE DEF r, n
<1>3. \A i \in 1 .. n : n - i + 1 \in 1 .. n /\ n - (n - i + 1) + 1 = i
    BY <1>1
<1>4. r \in Seq(Callers) /\ DOMAIN r = 1 .. n /\ \A i \in 1 .. n : r[i] = q[n - i + 1]
    BY <1>1, <1>2, <1>3
<1>5. IsInjective(r)
    <2> SUFFICES ASSUME NEW i \in 1 .. n, NEW j \in 1 .. n, r[i] = r[j]
                 PROVE  i = j
        BY <1>4 DEF IsInjective
    <2>1. n - i + 1 = n - j + 1
        BY <1>1, <1>3, <1>4 DEF IsInjective
    <2> QED
        BY <1>1, <2>1
<1>6. Range(r) = Range(q)
    <2>1. \A i \in 1 .. n : q[i] = r[n - i + 1]
        BY <1>3, <1>4
    <2> QED
        BY <1>1, <1>3, <1>4, <2>1 DEF Range
<1> QED
    BY <1>4, <1>5, <1>6 DEF r

Kinds == {"one", "all", "index", "prefer", "list"}

(* Whatever a notification chooses is in the waitset, once. *)
LEMMA ChosenFacts ==
    ASSUME mem.waitset \in Seq(Callers), IsInjective(mem.waitset),
           NEW t \in Callers, loc[t].kind \in Kinds
    PROVE  /\ Chosen(t) \in Seq(Callers) /\ IsInjective(Chosen(t))
           /\ Range(Chosen(t)) \subseteq Range(mem.waitset)
<1> DEFINE ws == mem.waitset
           Good(q) == q \in Seq(Callers) /\ IsInjective(q) /\ Range(q) \subseteq Range(ws)
<1>1. Good(ws)
    OBVIOUS
<1>2. Good(<<>>)
    BY DEF IsInjective, Range
<1>3. ASSUME NEW S
      PROVE  Good(Those(ws, S))
    BY ThoseFacts
<1>4. ASSUME NEW q, Good(q)
      PROVE  Good(Reverse(q))
    BY <1>4, ReverseFacts
<1>5. ASSUME NEW i \in DOMAIN ws
      PROVE  Good(<<ws[i]>>)
    <2>1. ws[i] \in Callers
        BY <1>5
    <2>2. IsInjective(<<ws[i]>>) /\ Range(<<ws[i]>>) \subseteq Range(ws)
        BY <1>5 DEF IsInjective, Range
    <2> QED
        BY <2>1, <2>2
<1>6. CASE ws = <<>>
    BY <1>2, <1>6 DEF Chosen
<1>7. CASE ws # <<>>
    <2>1. 1 \in DOMAIN ws /\ Len(ws) \in DOMAIN ws /\ Head(ws) = ws[1]
        BY <1>7
    <2>2. CASE loc[t].kind = "one"
        <3>1. Chosen(t) = <<Head(ws)>>
            BY <1>7, <2>2 DEF Chosen
        <3> HIDE DEF Good
        <3> QED
            BY <1>5, <2>1, <3>1 DEF Good
    <2>3. CASE loc[t].kind = "all"
        BY <1>1, <1>7, <2>3 DEF Chosen
    <2>4. CASE loc[t].kind = "index"
        <3>1. Chosen(t) = Reverse(OfIndex(ws, loc[t].arg))
            BY <1>7, <2>4 DEF Chosen
        <3>2. PICK S : OfIndex(ws, loc[t].arg) = Those(ws, S)
            BY DEF OfIndex
        <3> HIDE DEF Good
        <3> QED
            BY <1>3, <1>4, <3>1, <3>2 DEF Good
    <2>5. CASE loc[t].kind = "prefer"
        <3>1. Chosen(t) = Reverse(Preferred(ws, loc[t].arg))
            BY <1>7, <2>5 DEF Chosen
        <3>2. Last(ws) = ws[Len(ws)]
            BY DEF Last
        <3>3. \/ Preferred(ws, loc[t].arg) = OfIndex(ws, loc[t].arg)
              \/ Preferred(ws, loc[t].arg) = <<ws[Len(ws)]>>
            BY <3>2 DEF Preferred
        <3>4. PICK S : OfIndex(ws, loc[t].arg) = Those(ws, S)
            BY DEF OfIndex
        <3> HIDE DEF Good
        <3>5. Good(Preferred(ws, loc[t].arg))
            BY <1>3, <1>5, <2>1, <3>3, <3>4
        <3> QED
            BY <1>4, <3>1, <3>5 DEF Good
    <2>6. CASE loc[t].kind = "list"
        <3> DEFINE a == loc[t].arg
        <3>1. Chosen(t) = Reverse(OfList(ws, a[1], a[2]))
            BY <1>7, <2>6 DEF Chosen
        <3>2. PICK S : OfList(ws, a[1], a[2]) = Those(ws, S)
            BY Zenon DEF OfList
        <3> HIDE DEF Good
        <3> QED
            BY <1>3, <1>4, <3>1, <3>2 DEF Good
    <2> QED
        BY <2>2, <2>3, <2>4, <2>5, <2>6 DEF Kinds
<1> QED
    BY <1>6, <1>7

-----------------------------------------------------------------------------
(* The account of the posts. *)

InWait == {"wait.commit", "wait.sleep", "wait.cancel", "wait.retire", "cv.unlock",
           "dequeue.recheck"}

EcLabels == InWait \cup {"idle", "wait.pump", "notify.size", "notify.lock", "notify.post",
                         "enqueue.store", "dequeue.look", "cv.relock"}

EcTypes ==
    /\ Is("eventcount") \/ Is("pool")
    /\ DOMAIN mem = DOMAIN EcMem({})
    /\ mem.waitset \in Seq(Callers)
    /\ mem.inset \in [Callers -> BOOLEAN]
    /\ mem.spurious \in [Callers -> BOOLEAN]
    /\ mem.sema \in [Callers -> Nat]
    /\ DOMAIN loc = Callers
    /\ label \in [Callers -> EcLabels]
    /\ DOMAIN todo = Callers

(* What is known of a thread by the place it has reached. *)
AtLabel(t) ==
    /\ DOMAIN loc[t] = DOMAIN EcLoc
    /\ loc[t].posts \in Seq(Callers) /\ IsInjective(loc[t].posts)
    /\ label[t] # "notify.post" => loc[t].posts = <<>>
    /\ loc[t].after \in {"return", "dequeue.look", "cv.relock"}
    /\ label[t] = "wait.pump" => loc[t].then \in {"wait.commit", "cv.unlock", "dequeue.recheck"}
    /\ label[t] \in {"notify.size", "notify.lock"} => loc[t].kind \in Kinds
    /\ todo[t] \in Seq(EcCalls(t))
    /\ label[t] # "idle" => todo[t] # <<>> /\ t # main
    /\ label[t] \in InWait => (mem.spurious[t] <=> label[t] = "wait.retire")

(* in_waitset_ says who is in the waitset, and only who waits is. *)
WaitsetAgrees ==
    /\ IsInjective(mem.waitset)
    /\ \A t \in Callers : /\ mem.inset[t] <=> t \in Range(mem.waitset)
                          /\ mem.inset[t] => label[t] \in InWait

(* A post is owed to who has been taken out and has not noticed, or has    *)
(* noticed by itself and set spurious_.                                    *)
Owed(t) == (label[t] \in InWait \/ mem.spurious[t]) /\ ~ mem.inset[t]

Posts(u, t) == t \in Range(loc[u].posts)

(* What is owed has been posted, or one notifier is still to post it.      *)
Account(t) ==
    \/ ~ Owed(t) /\ mem.sema[t] = 0 /\ \A u \in Callers : ~ Posts(u, t)
    \/ Owed(t) /\ mem.sema[t] = 1 /\ \A u \in Callers : ~ Posts(u, t)
    \/ /\ Owed(t) /\ mem.sema[t] = 0
       /\ \E u \in Callers : \A v \in Callers : Posts(v, t) <=> v = u

EcInv ==
    /\ EcTypes /\ WaitsetAgrees
    /\ \A t \in Callers : AtLabel(t) /\ Account(t)

LEMMA EcStart ==
    ASSUME EcInit
    PROVE  EcInv
<1>1. EcTypes
    BY DEF EcInit, Begun, EcTypes, Is, EcMem, EcLabels, InWait
<1>2. WaitsetAgrees
    BY DEF EcInit, Begun, EcMem, WaitsetAgrees, IsInjective, Range
<1>3. \A t \in Callers : AtLabel(t)
    <2>1. \A t \in Callers : label[t] = "idle" /\ loc[t] = EcLoc /\ todo[t] \in Seq(EcCalls(t))
        BY DEF EcInit, Begun
    <2>2. EcLoc.posts = <<>> /\ EcLoc.after = "return"
        BY DEF EcLoc
    <2>3. <<>> \in Seq(Callers) /\ IsInjective(<<>>)
        BY DEF IsInjective
    <2> HIDE DEF EcLoc
    <2> QED
        BY <2>1, <2>2, <2>3 DEF AtLabel, InWait
<1>4. \A t \in Callers : Account(t)
    BY DEF EcInit, Begun, Account, Owed, Posts, EcLoc, EcMem, Range, InWait
<1> QED
    BY <1>1, <1>2, <1>3, <1>4 DEF EcInv

(* Thread t goes on to l. *)
Goes(t, l) ==
    /\ label' = [label EXCEPT ![t] = l] /\ sample' = sample
    /\ DOMAIN todo' = Callers
    /\ \A u \in Callers : u # t => todo'[u] = todo[u]
    /\ todo'[t] \in Seq(EcCalls(t))
    /\ l # "idle" => todo'[t] # <<>> /\ t # main

LEMMA JumpGoes ==
    ASSUME EcInv, NEW t \in Callers, todo[t] # <<>>, NEW l, Jump(t, l),
           l # "idle" => t # main
    PROVE  Goes(t, l)
BY DEF EcInv, EcTypes, AtLabel, Jump, Goes

LEMMA ReturnGoes ==
    ASSUME EcInv, NEW t \in Callers, todo[t] # <<>>, Return(t)
    PROVE  Goes(t, "idle")
<1>1. todo[t] \in Seq(EcCalls(t)) /\ DOMAIN todo = Callers
    BY DEF EcInv, EcTypes, AtLabel
<1>2. Tail(todo[t]) \in Seq(EcCalls(t))
    BY <1>1
<1> QED
    BY <1>1, <1>2 DEF Return, Goes

LEMMA LeaveGoes ==
    ASSUME EcInv, NEW t \in Callers, label[t] # "idle", Leave(t, loc[t].after)
    PROVE  \E l \in {"idle", "dequeue.look", "cv.relock"} : Goes(t, l)
<1>1. /\ loc[t].after \in {"return", "dequeue.look", "cv.relock"}
      /\ todo[t] # <<>> /\ t # main
    BY DEF EcInv, AtLabel
<1>2. CASE loc[t].after = "return"
    BY <1>1, <1>2, ReturnGoes DEF Leave
<1>3. CASE loc[t].after # "return"
    BY <1>1, <1>3, JumpGoes DEF Leave
<1> QED
    BY <1>2, <1>3

(* The locals of t that the account does not look at. *)
LocalsAt(t, l) ==
    /\ DOMAIN loc' = Callers /\ DOMAIN loc'[t] = DOMAIN EcLoc
    /\ \A u \in Callers : u # t => loc'[u] = loc[u]
    /\ loc'[t].after \in {"return", "dequeue.look", "cv.relock"}
    /\ l = "wait.pump" => loc'[t].then \in {"wait.commit", "cv.unlock", "dequeue.recheck"}
    /\ l \in {"notify.size", "notify.lock"} => loc'[t].kind \in Kinds

(* A step that leaves the account as it is. *)
LEMMA EcQuiet ==
    ASSUME EcInv, NEW t \in Callers, NEW l \in EcLabels, Goes(t, l), LocalsAt(t, l),
           loc'[t].posts = loc[t].posts,
           l # "notify.post" => loc[t].posts = <<>>,
           DOMAIN mem' = DOMAIN mem,
           mem'.waitset = mem.waitset, mem'.inset = mem.inset,
           mem'.spurious = mem.spurious, mem'.sema = mem.sema,
           l \in InWait <=> label[t] \in InWait,
           l # "wait.retire" /\ label[t] # "wait.retire"
    PROVE  EcInv'
<1>1. /\ label \in [Callers -> EcLabels] /\ label'[t] = l /\ label' \in [Callers -> EcLabels]
      /\ \A u \in Callers : u # t => label'[u] = label[u]
    BY DEF EcInv, EcTypes, Goes
<1>2. EcTypes'
    BY <1>1 DEF EcInv, EcTypes, Goes, LocalsAt, Is
<1>3. \A u \in Callers : label'[u] \in InWait <=> label[u] \in InWait
    BY <1>1
<1>4. WaitsetAgrees'
    BY <1>3 DEF EcInv, WaitsetAgrees
<1>5. \A u \in Callers : loc'[u].posts = loc[u].posts
    BY DEF LocalsAt
<1>6. ASSUME NEW u \in Callers
      PROVE  AtLabel(u)'
    <2>1. AtLabel(u)
        BY DEF EcInv
    <2>2. CASE u = t
        <3>1. /\ loc'[t].posts \in Seq(Callers) /\ IsInjective(loc'[t].posts)
              /\ label'[t] # "notify.post" => loc'[t].posts = <<>>
            BY <1>1, <2>1, <2>2 DEF AtLabel
        <3>2. label'[t] \in InWait => (mem'.spurious[t] <=> label'[t] = "wait.retire")
            BY <1>1, <2>1, <2>2 DEF AtLabel
        <3>3. /\ todo'[t] \in Seq(EcCalls(t))
              /\ label'[t] # "idle" => todo'[t] # <<>> /\ t # main
            BY <1>1 DEF Goes
        <3> QED
            BY <1>1, <2>2, <3>1, <3>2, <3>3 DEF AtLabel, LocalsAt
    <2>3. CASE u # t
        BY <1>1, <2>1, <2>3 DEF AtLabel, LocalsAt, Goes
    <2> QED
        BY <2>2, <2>3
<1>7. ASSUME NEW u \in Callers
      PROVE  Account(u)'
    <2>1. Account(u)
        BY DEF EcInv
    <2> QED
        BY <1>3, <1>5, <2>1 DEF Account, Owed, Posts
<1> QED
    BY <1>2, <1>4, <1>6, <1>7 DEF EcInv

(* Whoever makes a call or is inside one. *)
LEMMA EcCalling ==
    ASSUME EcInv, NEW t \in Callers,
           \/ label[t] # "idle"
           \/ \E name : name # "destroy" /\ Calls(t, name)
    PROVE  todo[t] # <<>> /\ t # main
<1>1. CASE label[t] # "idle"
    BY <1>1 DEF EcInv, AtLabel
<1>2. CASE \E name : name # "destroy" /\ Calls(t, name)
    <2>1. PICK name : name # "destroy" /\ Calls(t, name)
        BY <1>2
    <2>2. todo[t] # <<>> /\ Head(todo[t])[1] # "destroy" /\ todo[t] \in Seq(EcCalls(t))
        BY <2>1 DEF Calls, EcInv, AtLabel
    <2>3. Head(todo[t]) \in EcCalls(t)
        BY <2>2
    <2>4. t # main
        BY <2>2, <2>3 DEF EcCalls
    <2> QED
        BY <2>2, <2>4
<1> QED
    BY <1>1, <1>2

(* Who is in no call has no posts to make, and neither has who waits.      *)
LEMMA EcKnown ==
    ASSUME EcInv, NEW t \in Callers
    PROVE  /\ DOMAIN loc = Callers /\ DOMAIN loc[t] = DOMAIN EcLoc
           /\ loc[t].after \in {"return", "dequeue.look", "cv.relock"}
           /\ DOMAIN mem = DOMAIN EcMem({})
           /\ label[t] # "notify.post" => loc[t].posts = <<>>
BY DEF EcInv, EcTypes, AtLabel

(* Steps that change no locals. *)
LEMMA EcStays ==
    ASSUME EcInv, NEW t \in Callers, NEW l, UNCHANGED loc,
           l # "wait.pump", l = "notify.size" \/ l = "notify.lock" => loc[t].kind \in Kinds
    PROVE  LocalsAt(t, l) /\ loc'[t].posts = loc[t].posts
BY EcKnown DEF LocalsAt

-----------------------------------------------------------------------------
(* Steps that touch no waitset and no semaphore. *)

LEMMA NotifyGoes ==
    ASSUME EcInv, NEW t \in Callers, NEW m, NEW kind \in Kinds, NEW arg,
           Notify(t, m, kind, arg, "return"), todo[t] # <<>>, t # main
    PROVE  /\ Goes(t, "notify.size") /\ LocalsAt(t, "notify.size")
           /\ loc'[t].posts = loc[t].posts /\ mem' = m
<1>1. Goes(t, "notify.size")
    BY JumpGoes DEF Notify
<1>2. DOMAIN loc = Callers /\ DOMAIN loc[t] = DOMAIN EcLoc
    BY EcKnown
<1>3. loc' = [loc EXCEPT ![t].kind = kind, ![t].arg = arg, ![t].after = "return"]
    BY DEF Notify
<1>4. /\ DOMAIN loc' = Callers /\ DOMAIN loc'[t] = DOMAIN loc[t]
      /\ loc'[t].kind = kind /\ loc'[t].after = "return" /\ loc'[t].posts = loc[t].posts
      /\ \A u \in Callers : u # t => loc'[u] = loc[u]
    BY <1>2, <1>3 DEF EcLoc
<1> QED
    BY <1>1, <1>2, <1>4 DEF LocalsAt, Notify

LEMMA PrepareGoes ==
    ASSUME EcInv, NEW t \in Callers, NEW ctx,
           NEW then \in {"wait.commit", "cv.unlock", "dequeue.recheck"},
           NEW after \in {"return", "dequeue.look", "cv.relock"},
           Prepare(t, mem, ctx, then, after), todo[t] # <<>>, t # main
    PROVE  /\ Goes(t, "wait.pump") /\ LocalsAt(t, "wait.pump")
           /\ loc'[t].posts = loc[t].posts
           /\ mem' = [mem EXCEPT !.ctx[t] = ctx]
<1>1. Goes(t, "wait.pump")
    BY JumpGoes DEF Prepare
<1>2. DOMAIN loc = Callers /\ DOMAIN loc[t] = DOMAIN EcLoc
    BY EcKnown
<1>3. loc' = [loc EXCEPT ![t].then = then, ![t].after = after]
    BY DEF Prepare
<1>4. /\ DOMAIN loc' = Callers /\ DOMAIN loc'[t] = DOMAIN loc[t]
      /\ loc'[t].then = then /\ loc'[t].after = after /\ loc'[t].posts = loc[t].posts
      /\ \A u \in Callers : u # t => loc'[u] = loc[u]
    BY <1>2, <1>3 DEF EcLoc
<1> QED
    BY <1>1, <1>2, <1>4 DEF LocalsAt, Prepare

LEMMA CommitWaitKeeps ==
    ASSUME EcInv, NEW t \in Callers, CommitWait(t)
    PROVE  EcInv'
<1>1. PICK l \in {"wait.sleep", "wait.cancel"} : Jump(t, l)
    BY DEF CommitWait
<1>2. label[t] = "wait.commit" /\ UNCHANGED <<mem, loc>>
    BY DEF CommitWait, Reached
<1>3. Goes(t, l)
    BY <1>1, <1>2, EcCalling, JumpGoes
<1>4. LocalsAt(t, l) /\ loc'[t].posts = loc[t].posts /\ loc[t].posts = <<>>
    BY <1>2, EcStays, EcKnown
<1> QED
    BY <1>2, <1>3, <1>4, EcQuiet DEF EcLabels, InWait

LEMMA NotifyLeaves ==
    ASSUME EcInv, NEW t \in Callers, NotifyNobody(t) \/ NotifyEnds(t)
    PROVE  EcInv'
<1>1. /\ label[t] \in {"notify.size", "notify.post"} /\ loc[t].posts = <<>>
      /\ Leave(t, loc[t].after) /\ UNCHANGED <<mem, loc>>
    BY EcKnown DEF NotifyNobody, NotifyEnds, Reached
<1>2. PICK l \in {"idle", "dequeue.look", "cv.relock"} : Goes(t, l)
    BY <1>1, LeaveGoes
<1>3. LocalsAt(t, l) /\ loc'[t].posts = loc[t].posts
    BY <1>1, EcStays
<1> QED
    BY <1>1, <1>2, <1>3, EcQuiet DEF EcLabels, InWait

LEMMA NotifySeesKeeps ==
    ASSUME EcInv, NEW t \in Callers, NotifySees(t)
    PROVE  EcInv'
<1>1. label[t] = "notify.size" /\ Jump(t, "notify.lock") /\ UNCHANGED <<mem, loc>>
    BY DEF NotifySees, Reached
<1>2. Goes(t, "notify.lock")
    BY <1>1, EcCalling, JumpGoes
<1>3. loc[t].kind \in Kinds /\ loc[t].posts = <<>>
    BY <1>1 DEF EcInv, AtLabel
<1>4. LocalsAt(t, "notify.lock") /\ loc'[t].posts = loc[t].posts
    BY <1>1, <1>3, EcStays
<1> QED
    BY <1>1, <1>2, <1>3, <1>4, EcQuiet DEF EcLabels, InWait

(* The queue takes the next place. *)
LEMMA PlacesKeep ==
    ASSUME EcInv, NEW t \in Callers, Enqueue(t) \/ Dequeue(t)
    PROVE  EcInv'
<1>1. PICK l \in {"enqueue.store", "dequeue.look"}, name \in {"enqueue", "dequeue"} :
         Calls(t, name) /\ Jump(t, l)
    BY DEF Enqueue, Dequeue
<1>2. \E i : loc' = [loc EXCEPT ![t].idx = i]
    BY DEF Enqueue, Dequeue
<1>3. \E n : mem' = [mem EXCEPT !.producer = n] \/ mem' = [mem EXCEPT !.consumer = n]
    BY DEF Enqueue, Dequeue
<1>4. label[t] = "idle"
    BY <1>1 DEF Calls
<1>5. /\ DOMAIN mem' = DOMAIN mem
      /\ mem'.waitset = mem.waitset /\ mem'.inset = mem.inset
      /\ mem'.spurious = mem.spurious /\ mem'.sema = mem.sema
    BY <1>3, EcKnown DEF EcMem
<1>6. Goes(t, l)
    BY <1>1, EcCalling, JumpGoes
<1>7. /\ DOMAIN loc' = Callers /\ DOMAIN loc'[t] = DOMAIN EcLoc
      /\ \A u \in Callers : u # t => loc'[u] = loc[u]
      /\ loc'[t].after = loc[t].after /\ loc'[t].posts = loc[t].posts
    BY <1>2, EcKnown DEF EcLoc
<1>8. LocalsAt(t, l) /\ loc[t].posts = <<>>
    BY <1>4, <1>7, EcKnown DEF LocalsAt
<1> QED
    BY <1>4, <1>5, <1>6, <1>7, <1>8, EcQuiet DEF EcLabels, InWait

LEMMA NotificationBegins ==
    ASSUME EcInv, NEW t \in Callers, NEW m, NEW kind \in Kinds, NEW arg,
           Notify(t, m, kind, arg, "return"),
           label[t] \in {"idle", "enqueue.store"}, todo[t] # <<>>, t # main,
           DOMAIN m = DOMAIN mem, m.waitset = mem.waitset, m.inset = mem.inset,
           m.spurious = mem.spurious, m.sema = mem.sema
    PROVE  EcInv'
<1>1. loc[t].posts = <<>>
    BY EcKnown
<1>2. /\ Goes(t, "notify.size") /\ LocalsAt(t, "notify.size")
      /\ loc'[t].posts = loc[t].posts /\ mem' = m
    BY NotifyGoes
<1> QED
    BY <1>1, <1>2, EcQuiet DEF EcLabels, InWait

LEMMA EnqueueStoresKeeps ==
    ASSUME EcInv, NEW t \in Callers, EnqueueStores(t)
    PROVE  EcInv'
<1>1. label[t] = "enqueue.store" /\ todo[t] # <<>> /\ t # main
    BY EcCalling DEF EnqueueStores, Reached
<1> DEFINE m == [mem EXCEPT !.buffer[loc[t].idx] = Arg(t)]
<1>2. Notify(t, m, "index", loc[t].idx, "return")
    BY DEF EnqueueStores
<1>3. /\ DOMAIN m = DOMAIN mem /\ m.waitset = mem.waitset /\ m.inset = mem.inset
      /\ m.spurious = mem.spurious /\ m.sema = mem.sema
    BY EcKnown DEF EcMem
<1> HIDE DEF m
<1> QED
    BY <1>1, <1>2, <1>3, NotificationBegins DEF Kinds

LEMMA AdvanceKeeps ==
    ASSUME EcInv, NEW t \in Callers, Advance(t)
    PROVE  EcInv'
<1>1. label[t] = "idle" /\ todo[t] # <<>> /\ t # main
    BY EcCalling DEF Advance, Calls
<1> DEFINE m == [mem EXCEPT !.stage = @ + 1]
<1>2. Notify(t, m, "all", 0, "return")
    BY DEF Advance
<1>3. /\ DOMAIN m = DOMAIN mem /\ m.waitset = mem.waitset /\ m.inset = mem.inset
      /\ m.spurious = mem.spurious /\ m.sema = mem.sema
    BY EcKnown DEF EcMem
<1> HIDE DEF m
<1> QED
    BY <1>1, <1>2, <1>3, NotificationBegins DEF Kinds

LEMMA NotifyPoolKeeps ==
    ASSUME EcInv, NEW t \in Callers, NotifyPool(t)
    PROVE  EcInv'
<1>1. PICK kind \in {"one", "prefer", "list"} :
         Calls(t, kind) /\ Notify(t, mem, kind, Arg(t), "return")
    BY DEF NotifyPool
<1>2. label[t] = "idle" /\ todo[t] # <<>> /\ t # main /\ kind \in Kinds
    BY <1>1, EcCalling DEF Calls, Kinds
<1> QED
    BY <1>1, <1>2, NotificationBegins

(* A wait begins. *)
LEMMA PreparesKeep ==
    ASSUME EcInv, NEW t \in Callers, NEW ctx,
           NEW then \in {"wait.commit", "cv.unlock", "dequeue.recheck"},
           NEW after \in {"return", "dequeue.look", "cv.relock"},
           Prepare(t, mem, ctx, then, after),
           \/ label[t] = "dequeue.look" \/ Calls(t, "await") \/ Calls(t, "pool")
    PROVE  EcInv'
<1>1. label[t] \in {"idle", "dequeue.look"} /\ todo[t] # <<>> /\ t # main /\ loc[t].posts = <<>>
    BY EcCalling, EcKnown DEF Calls
<1>2. /\ Goes(t, "wait.pump") /\ LocalsAt(t, "wait.pump")
      /\ loc'[t].posts = loc[t].posts /\ mem' = [mem EXCEPT !.ctx[t] = ctx]
    BY <1>1, PrepareGoes
<1>3. /\ DOMAIN mem' = DOMAIN mem
      /\ mem'.waitset = mem.waitset /\ mem'.inset = mem.inset
      /\ mem'.spurious = mem.spurious /\ mem'.sema = mem.sema
    BY <1>2, EcKnown DEF EcMem
<1> QED
    BY <1>1, <1>2, <1>3, EcQuiet DEF EcLabels, InWait

(* A step that ends the call, whatever it does to the clients' own data.   *)
LEMMA EcReturns ==
    ASSUME EcInv, NEW t \in Callers, Return(t), UNCHANGED loc,
           label[t] \in {"idle", "dequeue.look"}, todo[t] # <<>>,
           DOMAIN mem' = DOMAIN mem,
           mem'.waitset = mem.waitset, mem'.inset = mem.inset,
           mem'.spurious = mem.spurious, mem'.sema = mem.sema
    PROVE  EcInv'
<1>1. Goes(t, "idle")
    BY ReturnGoes
<1>2. LocalsAt(t, "idle") /\ loc'[t].posts = loc[t].posts /\ loc[t].posts = <<>>
    BY EcStays, EcKnown
<1> QED
    BY <1>1, <1>2, EcQuiet DEF EcLabels, InWait

LEMMA CallsEnd ==
    ASSUME EcInv, NEW t \in Callers, DequeueTakes(t) \/ CvLock(t) \/ CvUnlock(t)
    PROVE  EcInv'
<1>1. Return(t) /\ UNCHANGED loc
    BY DEF DequeueTakes, CvLock, CvUnlock
<1>2. label[t] \in {"idle", "dequeue.look"} /\ todo[t] # <<>>
    BY EcCalling DEF DequeueTakes, CvLock, CvUnlock, Reached, Calls
<1>3. \/ \E x : mem' = [mem EXCEPT !.got = x]
      \/ \E x : mem' = [mem EXCEPT !.mtx = x]
    BY DEF DequeueTakes, CvLock, CvUnlock, TakesItem
<1>4. /\ DOMAIN mem' = DOMAIN mem
      /\ mem'.waitset = mem.waitset /\ mem'.inset = mem.inset
      /\ mem'.spurious = mem.spurious /\ mem'.sema = mem.sema
    BY <1>3, EcKnown DEF EcMem
<1> QED
    BY <1>1, <1>2, <1>4, EcReturns

LEMMA AwaitKeeps ==
    ASSUME EcInv, NEW t \in Callers, Await(t)
    PROVE  EcInv'
<1>1. CASE mem.stage = Arg(t)
    <2>1. Return(t) /\ UNCHANGED <<mem, loc>> /\ label[t] = "idle" /\ todo[t] # <<>>
        BY <1>1 DEF Await, Calls
    <2> QED
        BY <2>1, EcReturns
<1>2. CASE mem.stage # Arg(t)
    <2>1. Calls(t, "await") /\ Prepare(t, mem, NoThread, "cv.unlock", "cv.relock")
        BY <1>2 DEF Await
    <2> QED
        BY <2>1, PreparesKeep
<1> QED
    BY <1>1, <1>2

LEMMA DequeueRechecksKeeps ==
    ASSUME EcInv, NEW t \in Callers, DequeueRechecks(t)
    PROVE  EcInv'
<1>1. label[t] = "dequeue.recheck" /\ todo[t] # <<>> /\ t # main /\ loc[t].posts = <<>>
    BY EcCalling, EcKnown DEF DequeueRechecks, Reached
<1>2. CASE Data(t) # 0
    <2>1. /\ mem' = TakesItem(t) /\ Jump(t, "wait.cancel")
          /\ loc' = [loc EXCEPT ![t].after = "return"]
        BY <1>2 DEF DequeueRechecks
    <2>2. /\ DOMAIN mem' = DOMAIN mem
          /\ mem'.waitset = mem.waitset /\ mem'.inset = mem.inset
          /\ mem'.spurious = mem.spurious /\ mem'.sema = mem.sema
        BY <2>1, EcKnown DEF EcMem, TakesItem
    <2>3. /\ DOMAIN loc' = Callers /\ DOMAIN loc'[t] = DOMAIN EcLoc
          /\ \A u \in Callers : u # t => loc'[u] = loc[u]
          /\ loc'[t].after = "return" /\ loc'[t].posts = loc[t].posts
        BY <2>1, EcKnown DEF EcLoc
    <2>4. Goes(t, "wait.cancel") /\ LocalsAt(t, "wait.cancel")
        BY <1>1, <2>1, <2>3, JumpGoes DEF LocalsAt
    <2> QED
        BY <1>1, <2>2, <2>3, <2>4, EcQuiet DEF EcLabels, InWait
<1>3. CASE ~ (Data(t) # 0)
    <2>1. Jump(t, "wait.commit") /\ UNCHANGED <<mem, loc>>
        BY <1>3 DEF DequeueRechecks
    <2>2. Goes(t, "wait.commit") /\ LocalsAt(t, "wait.commit") /\ loc'[t].posts = loc[t].posts
        BY <1>1, <2>1, JumpGoes, EcStays
    <2> QED
        BY <1>1, <2>1, <2>2, EcQuiet DEF EcLabels, InWait
<1> QED
    BY <1>2, <1>3

(* The condition variable releases its mutex and takes it again. *)
LEMMA CvStepsKeep ==
    ASSUME EcInv, NEW t \in Callers, CvWaits(t) \/ CvRelocks(t)
    PROVE  EcInv'
<1>1. \/ label[t] = "cv.unlock" /\ Jump(t, "wait.commit")
      \/ label[t] = "cv.relock" /\ Jump(t, "idle")
    BY DEF CvWaits, CvRelocks, Reached
<1>2. UNCHANGED loc /\ todo[t] # <<>> /\ t # main /\ loc[t].posts = <<>>
    BY <1>1, EcCalling, EcKnown DEF CvWaits, CvRelocks
<1>3. \E x : mem' = [mem EXCEPT !.mtx = x]
    BY DEF CvWaits, CvRelocks
<1>4. /\ DOMAIN mem' = DOMAIN mem
      /\ mem'.waitset = mem.waitset /\ mem'.inset = mem.inset
      /\ mem'.spurious = mem.spurious /\ mem'.sema = mem.sema
    BY <1>3, EcKnown DEF EcMem
<1>5. PICK l \in {"wait.commit", "idle"} :
         Jump(t, l) /\ (l \in InWait <=> label[t] \in InWait) /\ label[t] # "wait.retire"
    BY <1>1 DEF InWait
<1>6. Goes(t, l) /\ LocalsAt(t, l) /\ loc'[t].posts = loc[t].posts
    BY <1>2, <1>5, JumpGoes, EcStays
<1> QED
    BY <1>2, <1>4, <1>5, <1>6, EcQuiet DEF EcLabels, InWait

-----------------------------------------------------------------------------
(* Steps of a thread that waits. *)

(* The other threads at a step of t that changes only what t is owed.      *)
LEMMA EcOwnStep ==
    ASSUME EcInv, NEW t \in Callers, NEW l \in EcLabels, Goes(t, l), UNCHANGED loc,
           label[t] # "notify.post", l \notin {"wait.pump", "notify.size", "notify.lock"},
           DOMAIN mem' = DOMAIN mem,
           mem'.waitset \in Seq(Callers), IsInjective(mem'.waitset),
           mem'.inset \in [Callers -> BOOLEAN], mem'.spurious \in [Callers -> BOOLEAN],
           mem'.sema \in [Callers -> Nat],
           \A u \in Callers : u # t => /\ mem'.inset[u] = mem.inset[u]
                                       /\ mem'.spurious[u] = mem.spurious[u]
                                       /\ mem'.sema[u] = mem.sema[u],
           \A u \in Callers : mem'.inset[u] <=> u \in Range(mem'.waitset),
           mem'.inset[t] => l \in InWait,
           l \in InWait => (mem'.spurious[t] <=> l = "wait.retire"),
           Account(t)'
    PROVE  EcInv'
<1>1. /\ label'[t] = l /\ label' \in [Callers -> EcLabels]
      /\ \A u \in Callers : u # t => label'[u] = label[u]
    BY DEF EcInv, EcTypes, Goes
<1>2. EcTypes'
    BY <1>1 DEF EcInv, EcTypes, Goes, Is
<1>3. WaitsetAgrees'
    BY <1>1 DEF EcInv, WaitsetAgrees
<1>4. ASSUME NEW u \in Callers
      PROVE  AtLabel(u)'
    <2>1. AtLabel(u)
        BY DEF EcInv
    <2>2. CASE u = t
        BY <1>1, <2>1, <2>2 DEF AtLabel, Goes
    <2>3. CASE u # t
        BY <1>1, <2>1, <2>3 DEF AtLabel, Goes
    <2> QED
        BY <2>2, <2>3
<1>5. ASSUME NEW u \in Callers
      PROVE  Account(u)'
    <2>1. CASE u = t
        BY <2>1
    <2>2. CASE u # t
        <3>1. Account(u)
            BY DEF EcInv
        <3> QED
            BY <1>1, <2>2, <3>1 DEF Account, Owed, Posts
    <2> QED
        BY <2>1, <2>2
<1> QED
    BY <1>2, <1>3, <1>4, <1>5 DEF EcInv

LEMMA Prefixed ==
    ASSUME NEW S, NEW ws \in Seq(S), IsInjective(ws), NEW t \in S, t \notin Range(ws)
    PROVE  LET longer == <<t>> \o ws
           IN  /\ longer \in Seq(S) /\ IsInjective(longer)
               /\ Range(longer) = Range(ws) \cup {t}
<1> DEFINE n == Len(ws)
           longer == <<t>> \o ws
<1>1. /\ longer \in Seq(S) /\ DOMAIN longer = 1 .. n + 1 /\ longer[1] = t
      /\ \A i \in 1 .. n : longer[i + 1] = ws[i]
      /\ n \in Nat /\ DOMAIN ws = 1 .. n
    OBVIOUS
<1> HIDE DEF longer, n
<1>2. \A i \in 1 .. n + 1 : i # 1 => i - 1 \in 1 .. n /\ longer[i] = ws[i - 1]
    BY <1>1
<1>3. \A i \in 1 .. n : i + 1 \in 1 .. n + 1 /\ longer[i + 1] = ws[i]
    BY <1>1
<1>4. IsInjective(longer)
    <2> SUFFICES ASSUME NEW i \in 1 .. n + 1, NEW j \in 1 .. n + 1, longer[i] = longer[j]
                 PROVE  i = j
        BY <1>1 DEF IsInjective
    <2>1. i # 1 => longer[i] \in Range(ws)
        BY <1>1, <1>2 DEF Range
    <2>2. j # 1 => longer[j] \in Range(ws)
        BY <1>1, <1>2 DEF Range
    <2>3. i = 1 <=> j = 1
        BY <1>1, <2>1, <2>2
    <2>4. CASE i # 1 /\ j # 1
        <3>1. i - 1 \in DOMAIN ws /\ j - 1 \in DOMAIN ws /\ ws[i - 1] = ws[j - 1]
            BY <1>1, <1>2, <2>4
        <3>2. i - 1 = j - 1
            BY ONLY <3>1, IsInjective(ws) DEF IsInjective
        <3> QED
            BY <1>1, <3>2
    <2> QED
        BY <2>3, <2>4
<1>5. Range(longer) = Range(ws) \cup {t}
    <2>1. Range(longer) \subseteq Range(ws) \cup {t}
        <3>1. ASSUME NEW i \in DOMAIN longer
              PROVE  longer[i] \in Range(ws) \cup {t}
            BY <1>1, <1>2, <3>1 DEF Range
        <3> QED
            BY ONLY <3>1 DEF Range
    <2>2. Range(ws) \subseteq Range(longer)
        BY <1>1, <1>3 DEF Range
    <2>3. t \in Range(longer)
        BY <1>1 DEF Range
    <2> QED
        BY <2>1, <2>2, <2>3
<1> QED
    BY <1>1, <1>4, <1>5 DEF longer

(* Who comes to a wait has been pumped, and is owed nothing. *)
LEMMA PrepareWaitKeeps ==
    ASSUME EcInv, NEW t \in Callers, PrepareWait(t)
    PROVE  EcInv'
<1> DEFINE l == loc[t].then
           sema == mem.sema
<1>1. /\ label[t] = "wait.pump" /\ Jump(t, l) /\ UNCHANGED loc
      /\ mem.spurious[t] => sema[t] > 0
      /\ mem' = [mem EXCEPT !.sema[t] = IF mem.spurious[t] THEN @ - 1 ELSE @,
                            !.spurious[t] = FALSE,
                            !.inset[t] = TRUE, !.seen[t] = mem.epoch,
                            !.waitset = <<t>> \o @]
    BY DEF PrepareWait, Reached
<1>2. l \in {"wait.commit", "cv.unlock", "dequeue.recheck"} /\ todo[t] # <<>> /\ t # main
    BY <1>1 DEF EcInv, AtLabel
<1>3. /\ mem.waitset \in Seq(Callers) /\ IsInjective(mem.waitset)
      /\ mem.inset \in [Callers -> BOOLEAN] /\ mem.spurious \in [Callers -> BOOLEAN]
      /\ sema \in [Callers -> Nat]
    BY DEF EcInv, EcTypes, WaitsetAgrees
<1>4. ~ mem.inset[t] /\ t \notin Range(mem.waitset)
    BY <1>1 DEF EcInv, WaitsetAgrees, InWait
<1>5. /\ DOMAIN mem' = DOMAIN mem
      /\ mem'.waitset = <<t>> \o mem.waitset
      /\ mem'.inset = [mem.inset EXCEPT ![t] = TRUE]
      /\ mem'.spurious = [mem.spurious EXCEPT ![t] = FALSE]
      /\ mem'.sema = [sema EXCEPT ![t] = IF mem.spurious[t] THEN @ - 1 ELSE @]
    BY <1>1, EcKnown DEF EcMem
<1>6. /\ mem'.waitset \in Seq(Callers) /\ IsInjective(mem'.waitset)
      /\ Range(mem'.waitset) = Range(mem.waitset) \cup {t}
    BY <1>3, <1>4, <1>5, Prefixed
<1>11. \A u \in Callers : mem'.inset[u] <=> u \in Range(mem'.waitset)
    BY <1>3, <1>5, <1>6 DEF EcInv, WaitsetAgrees
<1>12. Account(t)
    BY DEF EcInv
<1>13. Owed(t) <=> mem.spurious[t]
    BY <1>1, <1>4 DEF Owed, InWait
<1>14. sema[t] = IF mem.spurious[t] THEN 1 ELSE 0
    BY <1>1, <1>12, <1>13 DEF Account
<1>15. mem'.sema[t] = 0 /\ mem'.inset[t] /\ ~ mem'.spurious[t]
    BY <1>3, <1>5, <1>14
<1>16. \A u \in Callers : ~ Posts(u, t)
    BY <1>12, <1>13, <1>14 DEF Account
<1>17. Account(t)'
    BY <1>1, <1>15, <1>16 DEF Account, Owed, Posts
<1>18. mem'.sema \in [Callers -> Nat]
    BY <1>3, <1>5, <1>14
<1>19. Goes(t, l)
    BY <1>1, <1>2, JumpGoes
<1>20. \A u \in Callers : u # t => /\ mem'.inset[u] = mem.inset[u]
                                   /\ mem'.spurious[u] = mem.spurious[u]
                                   /\ mem'.sema[u] = mem.sema[u]
    BY <1>3, <1>5
<1>21. mem'.inset \in [Callers -> BOOLEAN] /\ mem'.spurious \in [Callers -> BOOLEAN]
    BY <1>3, <1>5
<1>22. l \in EcLabels /\ l \in InWait /\ l \notin {"wait.pump", "notify.size", "notify.lock"}
       /\ l # "wait.retire"
    BY <1>2 DEF EcLabels, InWait
<1>23. UNCHANGED loc /\ label[t] # "notify.post" /\ DOMAIN mem' = DOMAIN mem
    BY <1>1, <1>5
<1> HIDE DEF l
<1> QED
    BY <1>6, <1>11, <1>15, <1>17, <1>18, <1>19, <1>20, <1>21, <1>22, <1>23, EcOwnStep

(* Who sleeps takes the one post it is owed. *)
LEMMA SleepKeeps ==
    ASSUME EcInv, NEW t \in Callers, Sleep(t)
    PROVE  EcInv'
<1>1. /\ label[t] = "wait.sleep" /\ mem.sema[t] > 0 /\ UNCHANGED loc
      /\ mem' = [mem EXCEPT !.sema[t] = @ - 1]
      /\ Leave(t, loc[t].after)
    BY DEF Sleep, Reached
<1>2. PICK l \in {"idle", "dequeue.look", "cv.relock"} : Goes(t, l)
    BY <1>1, LeaveGoes
<1>3. /\ mem.waitset \in Seq(Callers) /\ IsInjective(mem.waitset)
      /\ mem.inset \in [Callers -> BOOLEAN] /\ mem.spurious \in [Callers -> BOOLEAN]
      /\ mem.sema \in [Callers -> Nat] /\ label \in [Callers -> EcLabels]
    BY DEF EcInv, EcTypes, WaitsetAgrees
<1>4. /\ DOMAIN mem' = DOMAIN mem
      /\ mem'.waitset = mem.waitset /\ mem'.inset = mem.inset /\ mem'.spurious = mem.spurious
      /\ mem'.sema = [mem.sema EXCEPT ![t] = @ - 1]
    BY <1>1, EcKnown DEF EcMem
<1>5. Account(t) /\ ~ mem.spurious[t]
    BY <1>1 DEF EcInv, AtLabel, InWait
<1>6. Owed(t) /\ mem.sema[t] = 1 /\ \A u \in Callers : ~ Posts(u, t)
    BY <1>1, <1>3, <1>5 DEF Account
<1>7. ~ mem.inset[t]
    BY <1>6 DEF Owed
<1>8. mem'.sema \in [Callers -> Nat] /\ mem'.sema[t] = 0
    BY <1>3, <1>4, <1>6
<1>9. l \in EcLabels /\ l \notin InWait /\ label'[t] = l
    BY <1>2, <1>3 DEF EcLabels, InWait, Goes
<1>10. Account(t)'
    BY <1>1, <1>4, <1>5, <1>6, <1>8, <1>9 DEF Account, Owed, Posts
<1>11. \A u \in Callers : mem'.inset[u] <=> u \in Range(mem'.waitset)
    BY <1>4 DEF EcInv, WaitsetAgrees
<1> QED
    BY <1>1, <1>2, <1>3, <1>4, <1>7, <1>8, <1>9, <1>10, <1>11, EcOwnStep

(* Whoever cancels its wait while it is out of the waitset owes itself a   *)
(* post: that is what spurious_ says.                                      *)
LEMMA CancelWaitKeeps ==
    ASSUME EcInv, NEW t \in Callers, CancelWait(t)
    PROVE  EcInv'
<1>1. /\ label[t] = "wait.cancel" /\ UNCHANGED loc
      /\ mem' = [mem EXCEPT !.spurious[t] = TRUE]
      /\ IF mem.inset[t] THEN Jump(t, "wait.retire") ELSE Leave(t, loc[t].after)
    BY DEF CancelWait, Reached
<1>2. PICK l \in {"wait.retire", "idle", "dequeue.look", "cv.relock"} :
         Goes(t, l) /\ (mem.inset[t] <=> l = "wait.retire")
    <2>1. CASE mem.inset[t]
        BY <1>1, <2>1, JumpGoes, EcCalling
    <2>2. CASE ~ mem.inset[t]
        BY <1>1, <2>2, LeaveGoes
    <2> QED
        BY <2>1, <2>2
<1>3. /\ mem.waitset \in Seq(Callers) /\ IsInjective(mem.waitset)
      /\ mem.inset \in [Callers -> BOOLEAN] /\ mem.spurious \in [Callers -> BOOLEAN]
      /\ mem.sema \in [Callers -> Nat] /\ label \in [Callers -> EcLabels]
    BY DEF EcInv, EcTypes, WaitsetAgrees
<1>4. /\ DOMAIN mem' = DOMAIN mem
      /\ mem'.waitset = mem.waitset /\ mem'.inset = mem.inset /\ mem'.sema = mem.sema
      /\ mem'.spurious = [mem.spurious EXCEPT ![t] = TRUE]
    BY <1>1, EcKnown DEF EcMem
<1>5. mem'.spurious \in [Callers -> BOOLEAN] /\ mem'.spurious[t]
    BY <1>3, <1>4
<1>6. Account(t)
    BY DEF EcInv
<1>7. Owed(t)' <=> Owed(t)
    BY <1>1, <1>4, <1>5 DEF Owed, InWait
<1>8. Account(t)'
    BY <1>1, <1>4, <1>6, <1>7 DEF Account, Posts
<1>9. l \in EcLabels /\ (l \in InWait <=> l = "wait.retire")
    BY DEF EcLabels, InWait
<1>10. \A u \in Callers : mem'.inset[u] <=> u \in Range(mem'.waitset)
    BY <1>4 DEF EcInv, WaitsetAgrees
<1>11. \A u \in Callers : u # t => mem'.spurious[u] = mem.spurious[u]
    BY <1>3, <1>4
<1> QED
    BY <1>1, <1>2, <1>3, <1>4, <1>5, <1>8, <1>9, <1>10, <1>11, EcOwnStep

(* Under the mutex nobody can take t out in between: it leaves by itself,  *)
(* or it is owed the post.                                                 *)
LEMMA RetireWaitKeeps ==
    ASSUME EcInv, NEW t \in Callers, RetireWait(t)
    PROVE  EcInv'
<1>1. /\ label[t] = "wait.retire" /\ UNCHANGED loc /\ Leave(t, loc[t].after)
      /\ mem' = IF mem.inset[t]
                THEN [mem EXCEPT !.inset[t] = FALSE, !.spurious[t] = FALSE,
                                 !.waitset = Those(@, Callers \ {t})]
                ELSE mem
    BY DEF RetireWait, Reached
<1>2. PICK l \in {"idle", "dequeue.look", "cv.relock"} : Goes(t, l)
    BY <1>1, LeaveGoes
<1>3. /\ mem.waitset \in Seq(Callers) /\ IsInjective(mem.waitset)
      /\ mem.inset \in [Callers -> BOOLEAN] /\ mem.spurious \in [Callers -> BOOLEAN]
      /\ mem.sema \in [Callers -> Nat] /\ label \in [Callers -> EcLabels]
    BY DEF EcInv, EcTypes, WaitsetAgrees
<1>4. l \in EcLabels /\ l \notin InWait /\ label'[t] = l
    BY <1>2, <1>3 DEF EcLabels, InWait, Goes
<1>5. Account(t) /\ mem.spurious[t]
    BY <1>1 DEF EcInv, AtLabel, InWait
<1>6. \A u \in Callers : mem.inset[u] <=> u \in Range(mem.waitset)
    BY DEF EcInv, WaitsetAgrees
<1>7. CASE ~ mem.inset[t]
    <2>1. mem' = mem
        BY <1>1, <1>7
    <2>2. Owed(t)' <=> Owed(t)
        BY <1>5, <1>7, <2>1 DEF Owed
    <2>3. Account(t)'
        BY <1>1, <1>5, <2>1, <2>2 DEF Account, Posts
    <2> QED
        BY <1>1, <1>2, <1>3, <1>4, <1>6, <1>7, <2>1, <2>3, EcOwnStep
<1>8. CASE mem.inset[t]
    <2> DEFINE ws == Those(mem.waitset, Callers \ {t})
    <2>1. /\ DOMAIN mem' = DOMAIN mem
          /\ mem'.waitset = ws /\ mem'.sema = mem.sema
          /\ mem'.inset = [mem.inset EXCEPT ![t] = FALSE]
          /\ mem'.spurious = [mem.spurious EXCEPT ![t] = FALSE]
        BY <1>1, <1>8, EcKnown DEF EcMem
    <2>2. ws \in Seq(Callers) /\ IsInjective(ws) /\ Range(ws) = Range(mem.waitset) \ {t}
        <3>1. Range(mem.waitset) \subseteq Callers
            BY <1>3 DEF Range
        <3> QED
            BY <1>3, <3>1, ThoseFacts
    <2> HIDE DEF ws
    <2>3. \A u \in Callers : mem'.inset[u] <=> u \in Range(mem'.waitset)
        BY <1>3, <1>6, <2>1, <2>2
    <2>4. ~ mem'.inset[t] /\ ~ mem'.spurious[t]
        BY <1>3, <2>1
    <2>5. mem.sema[t] = 0 /\ \A u \in Callers : ~ Posts(u, t)
        BY <1>5, <1>8 DEF Account, Owed
    <2>6. Account(t)'
        BY <1>1, <1>4, <2>1, <2>4, <2>5 DEF Account, Owed, Posts
    <2>7. \A u \in Callers : u # t => /\ mem'.inset[u] = mem.inset[u]
                                      /\ mem'.spurious[u] = mem.spurious[u]
        BY <1>3, <2>1
    <2>8. mem'.inset \in [Callers -> BOOLEAN] /\ mem'.spurious \in [Callers -> BOOLEAN]
        BY <1>3, <2>1
    <2> QED
        BY <1>1, <1>2, <1>3, <1>4, <2>1, <2>2, <2>3, <2>4, <2>6, <2>7, <2>8, EcOwnStep
<1> QED
    BY <1>7, <1>8

-----------------------------------------------------------------------------
(* Steps of a notifier, and of the main thread. *)

(* Who is taken out of the waitset was owed nothing, and is owed a post by *)
(* this notifier now.                                                      *)
LEMMA NotifyTakesKeeps ==
    ASSUME EcInv, NEW t \in Callers, NotifyTakes(t)
    PROVE  EcInv'
<1> DEFINE c == Chosen(t)
           taken == ToSet(c)
           ws == Those(mem.waitset, Callers \ taken)
<1>1. /\ label[t] = "notify.lock" /\ Jump(t, "notify.post")
      /\ loc' = [loc EXCEPT ![t].posts = c]
      /\ mem' = [mem EXCEPT !.epoch = @ + 1, !.waitset = ws,
                            !.inset = [n \in Callers |-> @[n] /\ n \notin taken]]
    BY DEF NotifyTakes, Reached
<1>2. /\ mem.waitset \in Seq(Callers) /\ IsInjective(mem.waitset)
      /\ mem.inset \in [Callers -> BOOLEAN] /\ mem.spurious \in [Callers -> BOOLEAN]
      /\ mem.sema \in [Callers -> Nat] /\ label \in [Callers -> EcLabels]
    BY DEF EcInv, EcTypes, WaitsetAgrees
<1>3. \A n \in Callers : /\ mem.inset[n] <=> n \in Range(mem.waitset)
                         /\ mem.inset[n] => label[n] \in InWait
    BY DEF EcInv, WaitsetAgrees
<1>4. loc[t].kind \in Kinds /\ todo[t] # <<>> /\ t # main /\ loc[t].posts = <<>>
    BY <1>1 DEF EcInv, AtLabel
<1>5. c \in Seq(Callers) /\ IsInjective(c) /\ Range(c) \subseteq Range(mem.waitset)
    BY <1>2, <1>4, ChosenFacts
<1>6. taken = Range(c)
    BY DEF ToSet, Range
<1>7. ws \in Seq(Callers) /\ IsInjective(ws) /\ Range(ws) = Range(mem.waitset) \ taken
    <2>1. Range(mem.waitset) \subseteq Callers
        BY <1>2 DEF Range
    <2> QED
        BY <1>2, <2>1, ThoseFacts
<1> HIDE DEF c, taken, ws
<1>8. /\ DOMAIN mem' = DOMAIN mem
      /\ mem'.waitset = ws /\ mem'.spurious = mem.spurious /\ mem'.sema = mem.sema
      /\ mem'.inset = [n \in Callers |-> mem.inset[n] /\ n \notin taken]
    BY <1>1, EcKnown DEF EcMem
<1>9. mem'.inset \in [Callers -> BOOLEAN]
    BY <1>2, <1>8
<1>10. Goes(t, "notify.post")
    BY <1>1, <1>4, JumpGoes
<1>11. /\ label'[t] = "notify.post" /\ label' \in [Callers -> EcLabels]
       /\ \A u \in Callers : u # t => label'[u] = label[u]
    BY <1>2, <1>10 DEF Goes, EcLabels
<1>12. /\ DOMAIN loc' = Callers /\ DOMAIN loc'[t] = DOMAIN EcLoc
       /\ \A u \in Callers : u # t => loc'[u] = loc[u]
       /\ loc'[t].after = loc[t].after /\ loc'[t].posts = c
    BY <1>1, EcKnown DEF EcLoc
<1>13. EcTypes'
    BY <1>2, <1>7, <1>8, <1>9, <1>10, <1>11, <1>12 DEF EcInv, EcTypes, Goes, Is
<1>14. \A n \in Callers : n \in taken => mem.inset[n] /\ n # t
    BY <1>1, <1>3, <1>5, <1>6 DEF InWait
<1>15. WaitsetAgrees'
    <2>1. \A n \in Callers : mem'.inset[n] <=> mem.inset[n] /\ n \notin taken
        BY <1>8
    <2>2. ~ mem.inset[t]
        BY <1>1, <1>3 DEF InWait
    <2> QED
        BY <1>3, <1>7, <1>8, <1>11, <2>1, <2>2 DEF WaitsetAgrees
<1>16. ASSUME NEW n \in Callers
       PROVE  AtLabel(n)'
    <2>1. AtLabel(n)
        BY DEF EcInv
    <2>2. CASE n = t
        BY <1>5, <1>10, <1>11, <1>12, <2>1, <2>2 DEF AtLabel, Goes, InWait
    <2>3. CASE n # t
        BY <1>8, <1>10, <1>11, <1>12, <2>1, <2>3 DEF AtLabel, Goes
    <2> QED
        BY <2>2, <2>3
<1>17. ASSUME NEW n \in Callers
       PROVE  Account(n)'
    <2>1. Account(n)
        BY DEF EcInv
    <2>2. \A u \in Callers : Posts(u, n)' <=> IF u = t THEN n \in taken ELSE Posts(u, n)
        BY <1>6, <1>12 DEF Posts
    <2>3. CASE n \in taken
        <3>1. mem.inset[n] /\ n # t /\ label[n] \in InWait
            BY <1>3, <1>14, <2>3
        <3>2. mem.sema[n] = 0 /\ \A u \in Callers : ~ Posts(u, n)
            BY <2>1, <3>1 DEF Account, Owed
        <3>3. ~ mem'.inset[n] /\ label'[n] = label[n]
            BY <1>8, <1>11, <2>3, <3>1
        <3>4. Owed(n)'
            BY <3>1, <3>3 DEF Owed
        <3>5. \A u \in Callers : Posts(u, n)' <=> u = t
            BY <2>2, <2>3, <3>2
        <3> QED
            BY <1>8, <3>2, <3>4, <3>5 DEF Account
    <2>4. CASE n \notin taken
        <3>1. mem'.inset[n] <=> mem.inset[n]
            BY <1>2, <1>8, <2>4
        <3>2. label'[n] \in InWait <=> label[n] \in InWait
            BY <1>1, <1>11 DEF InWait
        <3>3. Owed(n)' <=> Owed(n)
            BY <1>8, <3>1, <3>2 DEF Owed
        <3>4. ~ Posts(t, n)
            BY <1>4 DEF Posts, Range
        <3>5. \A u \in Callers : Posts(u, n)' <=> Posts(u, n)
            BY <2>2, <2>4, <3>4
        <3> QED
            BY <1>8, <2>1, <3>3, <3>5 DEF Account
    <2> QED
        BY <2>3, <2>4
<1> QED
    BY <1>13, <1>15, <1>16, <1>17 DEF EcInv

LEMMA TailFacts ==
    ASSUME NEW S, NEW q \in Seq(S), IsInjective(q), q # <<>>
    PROVE  /\ Tail(q) \in Seq(S) /\ IsInjective(Tail(q))
           /\ Head(q) \in S /\ Head(q) \in Range(q)
           /\ Range(Tail(q)) = Range(q) \ {Head(q)}
<1> DEFINE n == Len(q)
           r == Tail(q)
<1>1. /\ n \in Nat /\ n # 0 /\ DOMAIN q = 1 .. n /\ Head(q) = q[1] /\ q[1] \in S
      /\ r \in Seq(S) /\ DOMAIN r = 1 .. n - 1
      /\ \A i \in 1 .. n - 1 : r[i] = q[i + 1]
    OBVIOUS
<1> HIDE DEF n, r
<1>2. \A i \in 1 .. n - 1 : i + 1 \in 1 .. n /\ i + 1 # 1
    BY <1>1
<1>3. \A i \in 1 .. n : i # 1 => i - 1 \in 1 .. n - 1 /\ r[i - 1] = q[i]
    BY <1>1
<1>4. IsInjective(r)
    <2> SUFFICES ASSUME NEW i \in 1 .. n - 1, NEW j \in 1 .. n - 1, r[i] = r[j]
                 PROVE  i = j
        BY <1>1 DEF IsInjective
    <2>1. i + 1 \in DOMAIN q /\ j + 1 \in DOMAIN q /\ q[i + 1] = q[j + 1]
        BY <1>1, <1>2
    <2>2. i + 1 = j + 1
        BY ONLY <2>1, IsInjective(q) DEF IsInjective
    <2> QED
        BY <1>1, <2>2
<1>5. Range(r) \subseteq Range(q) \ {q[1]}
    <2>1. ASSUME NEW i \in DOMAIN r
          PROVE  r[i] \in Range(q) \ {q[1]}
        <3>1. r[i] = q[i + 1] /\ i + 1 \in DOMAIN q /\ 1 \in DOMAIN q /\ i + 1 # 1
            BY <1>1, <1>2, <2>1
        <3> QED
            BY ONLY <3>1, IsInjective(q) DEF IsInjective, Range
    <2> QED
        BY ONLY <2>1 DEF Range
<1>6. Range(q) \ {q[1]} \subseteq Range(r)
    <2>1. ASSUME NEW i \in DOMAIN q, q[i] # q[1]
          PROVE  q[i] \in Range(r)
        <3>1. i # 1
            BY <2>1
        <3>2. i - 1 \in DOMAIN r /\ r[i - 1] = q[i]
            BY <1>1, <1>3, <2>1, <3>1
        <3> QED
            BY ONLY <3>2 DEF Range
    <2> QED
        BY ONLY <2>1 DEF Range
<1>7. q[1] \in Range(q)
    BY <1>1 DEF Range
<1> QED
    BY <1>1, <1>4, <1>5, <1>6, <1>7 DEF r

(* The post that is made is the only one the thread is owed. *)
LEMMA NotifyPostsKeeps ==
    ASSUME EcInv, NEW t \in Callers, NotifyPosts(t)
    PROVE  EcInv'
<1> DEFINE q == loc[t].posts
           h == Head(q)
<1>1. /\ label[t] = "notify.post" /\ Jump(t, "notify.post") /\ q # <<>>
      /\ loc' = [loc EXCEPT ![t].posts = Tail(@)]
      /\ mem' = [mem EXCEPT !.sema[h] = @ + 1]
    BY DEF NotifyPosts, Reached
<1>2. q \in Seq(Callers) /\ IsInjective(q) /\ todo[t] # <<>> /\ t # main
    BY <1>1 DEF EcInv, AtLabel
<1>3. /\ Tail(q) \in Seq(Callers) /\ IsInjective(Tail(q))
      /\ h \in Callers /\ h \in Range(q) /\ Range(Tail(q)) = Range(q) \ {h}
    BY <1>1, <1>2, TailFacts
<1>4. /\ DOMAIN loc' = Callers /\ DOMAIN loc'[t] = DOMAIN EcLoc
      /\ \A u \in Callers : u # t => loc'[u] = loc[u]
      /\ loc'[t].after = loc[t].after /\ loc'[t].posts = Tail(q)
    BY <1>1, EcKnown DEF EcLoc
<1> HIDE DEF q, h
<1>5. /\ DOMAIN mem' = DOMAIN mem
      /\ mem'.waitset = mem.waitset /\ mem'.inset = mem.inset /\ mem'.spurious = mem.spurious
      /\ mem'.sema = [mem.sema EXCEPT ![h] = @ + 1]
    BY <1>1, EcKnown DEF EcMem
<1>6. Goes(t, "notify.post")
    BY <1>1, <1>2, JumpGoes
<1>7. label \in [Callers -> EcLabels] /\ mem.sema \in [Callers -> Nat]
    BY DEF EcInv, EcTypes
<1>8. label' = label
    BY <1>1, <1>6, <1>7 DEF Goes
<1>9. mem'.sema \in [Callers -> Nat]
    BY <1>3, <1>5, <1>7
<1>10. EcTypes'
    BY <1>4, <1>5, <1>6, <1>8, <1>9 DEF EcInv, EcTypes, Goes, Is
<1>11. WaitsetAgrees'
    BY <1>5, <1>8 DEF EcInv, WaitsetAgrees
<1>12. ASSUME NEW n \in Callers
       PROVE  AtLabel(n)'
    <2>1. AtLabel(n)
        BY DEF EcInv
    <2>2. CASE n = t
        BY <1>1, <1>3, <1>4, <1>6, <1>8, <2>1, <2>2 DEF AtLabel, Goes, InWait
    <2>3. CASE n # t
        BY <1>4, <1>5, <1>6, <1>8, <2>1, <2>3 DEF AtLabel, Goes
    <2> QED
        BY <2>2, <2>3
<1>13. ASSUME NEW n \in Callers
       PROVE  Account(n)'
    <2>1. Account(n) /\ Account(h)
        BY <1>3 DEF EcInv
    <2>2. \A u \in Callers : Posts(u, n)' <=> Posts(u, n) /\ ~ (u = t /\ n = h)
        BY <1>3, <1>4 DEF Posts, q
    <2>3. Owed(n)' <=> Owed(n)
        BY <1>5, <1>8 DEF Owed
    <2>4. CASE n = h
        <3>1. Posts(t, h)
            BY <1>3 DEF Posts, q
        <3>2. Owed(h) /\ mem.sema[h] = 0 /\ \A v \in Callers : Posts(v, h) <=> v = t
            BY <2>1, <3>1 DEF Account
        <3>3. mem'.sema[h] = 1
            BY <1>3, <1>5, <1>7, <3>2
        <3>4. \A u \in Callers : ~ Posts(u, n)'
            BY <2>2, <2>4, <3>2
        <3> QED
            BY <2>3, <2>4, <3>2, <3>3, <3>4 DEF Account
    <2>5. CASE n # h
        <3>1. mem'.sema[n] = mem.sema[n]
            BY <1>3, <1>5, <1>7, <2>5
        <3>2. \A u \in Callers : Posts(u, n)' <=> Posts(u, n)
            BY <2>2, <2>5
        <3> QED
            BY <2>1, <2>3, <3>1, <3>2 DEF Account
    <2> QED
        BY <2>4, <2>5
<1> QED
    BY <1>10, <1>11, <1>12, <1>13 DEF EcInv

(* A descriptor is destroyed when nobody is in a call any more: its last   *)
(* spurious post is waited for.                                            *)
LEMMA DestroyThreadKeeps ==
    ASSUME EcInv, NEW t \in Callers, DestroyThread(t)
    PROVE  EcInv'
<1> DEFINE d == Arg(t)
<1>1. /\ Calls(t, "destroy") /\ Return(t) /\ UNCHANGED loc
      /\ mem.spurious[d] => mem.sema[d] > 0
      /\ mem' = [mem EXCEPT !.sema[d] = IF mem.spurious[d] THEN @ - 1 ELSE @,
                            !.spurious[d] = FALSE]
    BY DEF DestroyThread
<1>2. label[t] = "idle" /\ todo[t] # <<>> /\ Head(todo[t])[1] = "destroy"
    BY <1>1 DEF Calls
<1>3. Head(todo[t]) \in EcCalls(t)
    <2>1. todo[t] \in Seq(EcCalls(t))
        BY DEF EcInv, AtLabel
    <2> QED
        BY <1>2, <2>1
<1>4. t = main /\ d \in Callers
    BY <1>2, <1>3 DEF EcCalls, Arg
<1>5. \A u \in Callers : label[u] = "idle"
    BY <1>1, <1>2, <1>4 DEF Calls, Returned
<1>6. Goes(t, "idle")
    BY <1>1, <1>2, ReturnGoes
<1>7. \A u \in Callers : label'[u] = "idle"
    BY <1>5, <1>6 DEF EcInv, EcTypes, Goes
<1> HIDE DEF d
<1>8. /\ DOMAIN mem' = DOMAIN mem
      /\ mem'.waitset = mem.waitset /\ mem'.inset = mem.inset
      /\ mem'.spurious = [mem.spurious EXCEPT ![d] = FALSE]
      /\ mem'.sema = [mem.sema EXCEPT ![d] = IF mem.spurious[d] THEN @ - 1 ELSE @]
    BY <1>1, EcKnown DEF EcMem
<1>9. mem.spurious \in [Callers -> BOOLEAN] /\ mem.sema \in [Callers -> Nat]
      /\ label \in [Callers -> EcLabels]
    BY DEF EcInv, EcTypes
<1>10. \A u \in Callers : ~ mem.inset[u]
    BY <1>5 DEF EcInv, WaitsetAgrees, InWait
<1>11. /\ \A u \in Callers : Owed(u) <=> mem.spurious[u]
       /\ \A u \in Callers : Owed(u)' <=> mem'.spurious[u]
    BY <1>5, <1>7, <1>8, <1>10 DEF Owed, InWait
<1>12. Account(d)
    BY <1>4 DEF EcInv
<1>13. /\ \A u \in Callers : ~ Posts(u, d)
       /\ mem.sema[d] = IF mem.spurious[d] THEN 1 ELSE 0
    BY <1>1, <1>4, <1>11, <1>12 DEF Account
<1>14. mem'.sema \in [Callers -> Nat] /\ mem'.sema[d] = 0 /\ ~ mem'.spurious[d]
       /\ mem'.spurious \in [Callers -> BOOLEAN]
    BY <1>4, <1>8, <1>9, <1>13
<1>15. label' \in [Callers -> EcLabels]
    BY <1>6, <1>9 DEF Goes, EcLabels
<1>16. EcTypes'
    BY <1>1, <1>6, <1>8, <1>14, <1>15 DEF EcInv, EcTypes, Goes, Is
<1>17. WaitsetAgrees'
    BY <1>8, <1>10 DEF EcInv, WaitsetAgrees
<1>18. ASSUME NEW u \in Callers
       PROVE  AtLabel(u)'
    <2>1. AtLabel(u)
        BY DEF EcInv
    <2>2. /\ label'[u] = "idle" /\ loc'[u] = loc[u] /\ loc[u].posts = <<>>
          /\ todo'[u] \in Seq(EcCalls(u))
        BY <1>1, <1>5, <1>6, <1>7, <2>1 DEF AtLabel, Goes
    <2> QED
        BY <2>1, <2>2 DEF AtLabel, InWait
<1>19. ASSUME NEW u \in Callers
       PROVE  Account(u)'
    <2>1. Account(u)
        BY DEF EcInv
    <2>2. \A v \in Callers : Posts(v, u)' <=> Posts(v, u)
        BY <1>1 DEF Posts
    <2>3. CASE u = d
        BY <1>4, <1>11, <1>13, <1>14, <2>2, <2>3 DEF Account
    <2>4. CASE u # d
        <3>1. mem'.sema[u] = mem.sema[u] /\ mem'.spurious[u] = mem.spurious[u]
            BY <1>8, <1>9, <2>4
        <3> QED
            BY <1>11, <2>1, <2>2, <3>1 DEF Account
    <2> QED
        BY <2>3, <2>4
<1> QED
    BY <1>16, <1>17, <1>18, <1>19 DEF EcInv

LEMMA EcInvariant == EcSpec => []EcInv
<1>1. EcInv /\ [EcNext]_sampleVars => EcInv'
    <2> SUFFICES ASSUME EcInv, [EcNext]_sampleVars
                 PROVE  EcInv'
        OBVIOUS
    <2>1. ASSUME NEW t \in Callers,
                 PrepareWait(t) \/ CommitWait(t) \/ Sleep(t) \/ CancelWait(t) \/ RetireWait(t)
          PROVE  EcInv'
        BY <2>1, PrepareWaitKeeps, CommitWaitKeeps, SleepKeeps, CancelWaitKeeps, RetireWaitKeeps
    <2>2. ASSUME NEW t \in Callers,
                 \/ NotifyNobody(t) \/ NotifySees(t) \/ NotifyTakes(t) \/ NotifyPosts(t)
                 \/ NotifyEnds(t)
          PROVE  EcInv'
        BY <2>2, NotifyLeaves, NotifySeesKeeps, NotifyTakesKeeps, NotifyPostsKeeps
    <2>3. ASSUME NEW t \in Callers, DequeueWaits(t) \/ WaitWhilePoolIsEmpty(t)
          PROVE  EcInv'
        <3>1. CASE DequeueWaits(t)
            BY <3>1, PreparesKeep DEF DequeueWaits, Reached
        <3>2. CASE WaitWhilePoolIsEmpty(t)
            BY <3>2, PreparesKeep DEF WaitWhilePoolIsEmpty
        <3> QED
            BY <2>3, <3>1, <3>2
    <2>4. ASSUME NEW t \in Callers,
                 \/ Enqueue(t) \/ EnqueueStores(t) \/ Dequeue(t) \/ DequeueTakes(t)
                 \/ DequeueRechecks(t) \/ DestroyThread(t)
          PROVE  EcInv'
        BY <2>4, PlacesKeep, EnqueueStoresKeeps, CallsEnd, DequeueRechecksKeeps,
           DestroyThreadKeeps
    <2>5. ASSUME NEW t \in Callers,
                 \/ CvLock(t) \/ CvUnlock(t) \/ Advance(t) \/ Await(t) \/ CvWaits(t)
                 \/ CvRelocks(t) \/ NotifyPool(t)
          PROVE  EcInv'
        BY <2>5, CallsEnd, AdvanceKeeps, AwaitKeeps, CvStepsKeep, NotifyPoolKeeps
    <2>6. CASE UNCHANGED sampleVars
        BY <2>6 DEF sampleVars, EcInv, EcTypes, Is, WaitsetAgrees, AtLabel, Account, Owed, Posts
    <2> QED
        BY <2>1, <2>2, <2>3, <2>4, <2>5, <2>6 DEF EcNext, EcStep
<1> QED
    BY <1>1, EcStart, PTL DEF EcSpec

(* Whatever the threads of an eventcount do: who is taken out of the       *)
(* waitset is posted once, and a thread that left by itself never.         *)
THEOREM EventcountPostsOnce ==
    EcSpec => []PostsAreAccounted
<1>1. EcInv => PostsAreAccounted
    <2> SUFFICES ASSUME EcInv, NEW t \in Callers
                 PROVE  LET coming == mem.sema[t] +
                                Cardinality({u \in Callers : t \in ToSet(loc[u].posts)})
                        IN  coming = IF Owed(t) THEN 1 ELSE 0
        BY Zenon DEF PostsAreAccounted, Owed, InWait
    <2> DEFINE posters == {u \in Callers : t \in ToSet(loc[u].posts)}
    <2>1. Account(t) /\ mem.sema[t] \in Nat
        BY DEF EcInv, EcTypes
    <2>2. \A u \in Callers : u \in posters <=> Posts(u, t)
        BY DEF Posts, ToSet, Range
    <2>3. CASE \A u \in Callers : ~ Posts(u, t)
        <3>1. posters = {}
            BY <2>2, <2>3
        <3> HIDE DEF posters
        <3>2. Cardinality(posters) = 0
            BY <3>1, FS_EmptySet
        <3>3. mem.sema[t] = IF Owed(t) THEN 1 ELSE 0
            BY <2>1, <2>3 DEF Account
        <3> QED
            BY <2>1, <3>2, <3>3 DEF posters
    <2>4. CASE ~ (\A u \in Callers : ~ Posts(u, t))
        <3>1. Owed(t) /\ mem.sema[t] = 0
            BY <2>1, <2>4 DEF Account
        <3>2. PICK u \in Callers : \A v \in Callers : Posts(v, t) <=> v = u
            BY <2>1, <2>4 DEF Account
        <3>3. posters = {u}
            BY <2>2, <3>2
        <3> HIDE DEF posters
        <3>4. Cardinality(posters) = 1
            BY <3>3, FS_Singleton
        <3> QED
            BY <3>1, <3>4 DEF posters
    <2> QED
        BY <2>3, <2>4
<1> QED
    BY <1>1, EcInvariant, PTL

(* The tests of the eventcounts are such clients.                          *)
THEOREM EventcountTestsAreClients ==
    1 .. 4 \subseteq Callers =>
        (QueueTest \/ CondvarTest \/ PlainClients \/ PoolClients => EcInit)
<1> SUFFICES ASSUME 1 .. 4 \subseteq Callers,
                    QueueTest \/ CondvarTest \/ PlainClients \/ PoolClients
             PROVE  EcInit
    OBVIOUS
<1>1. ASSUME NEW name \in {"eventcount", "pool"}, NEW variant \in {"tbb", "plain"}, NEW calls,
             EcRun(name, variant, calls), \A t \in 1 .. 4 : calls[t] \in Seq(EcCalls(t))
      PROVE  EcInit
    <2> DEFINE destroys == IF name = "pool" THEN <<>> ELSE [i \in 1 .. 4 |-> <<"destroy", i>>]
               c == [t \in 0 .. 4 |-> IF t # main THEN calls[t] ELSE destroys]
    <2>1. Begin(name, variant, EcMem(1 .. 4), c, EcLoc)
        BY <1>1 DEF EcRun
    <2>2. destroys \in Seq(EcCalls(main))
        <3>1. \A i \in 1 .. 4 : <<"destroy", i>> \in EcCalls(main)
            BY DEF EcCalls
        <3> QED
            BY <3>1
    <2> HIDE DEF destroys
    <2>3. \A t \in DOMAIN c : c[t] \in Seq(EcCalls(t))
        BY <1>1, <2>2 DEF main
    <2> HIDE DEF c
    <2>4. DOMAIN todo = Callers
          /\ \A t \in Callers : todo[t] = IF t \in DOMAIN c THEN c[t] ELSE <<>>
        BY <2>1 DEF Begin
    <2>5. \A t \in Callers : todo[t] \in Seq(EcCalls(t))
        <3>1. \A t \in Callers : <<>> \in Seq(EcCalls(t))
            OBVIOUS
        <3> QED
            BY <2>3, <2>4, <3>1
    <2>6. Begun(name, variant, EcMem(1 .. 4), EcLoc) /\ 1 .. 4 \in SUBSET Nat
        BY <2>1 DEF Begin
    <2> QED
        BY <2>4, <2>5, <2>6 DEF EcInit
<1> DEFINE Calls4(S) == {"enqueue", "dequeue", "lock", "unlock", "advance", "await", "pool", "one"}
                           \X {0, 1, 2, 3} \subseteq S
<1>2. ASSUME NEW t \in 1 .. 4
      PROVE  /\ Calls4(EcCalls(t)) /\ <<"prefer", 2>> \in EcCalls(t)
             /\ <<"list", <<2, {2}>>>> \in EcCalls(t) /\ <<"list", <<1, {2, 3}>>>> \in EcCalls(t)
    BY <1>2 DEF EcCalls, main
<1> DEFINE enqueues == <<<<"enqueue", 1>>, <<"enqueue", 2>>>>
           dequeues == <<<<"dequeue", 0>>, <<"dequeue", 0>>>>
           awaits == <<<<"lock", 0>>, <<"await", 2>>, <<"unlock", 0>>>>
           first == <<<<"lock", 0>>, <<"advance", 0>>, <<"await", 2>>, <<"unlock", 0>>>>
           second == <<<<"lock", 0>>, <<"await", 1>>, <<"advance", 0>>, <<"unlock", 0>>>>
<1>3. ASSUME NEW S, Calls4(S)
      PROVE  /\ enqueues \in Seq(S) /\ <<<<"enqueue", 3>>>> \in Seq(S)
             /\ dequeues \in Seq(S) /\ <<<<"dequeue", 0>>>> \in Seq(S)
             /\ awaits \in Seq(S) /\ first \in Seq(S) /\ second \in Seq(S)
             /\ <<<<"pool", 0>>>> \in Seq(S) /\ <<>> \in Seq(S)
    <2>1. /\ <<"enqueue", 1>> \in S /\ <<"enqueue", 2>> \in S /\ <<"enqueue", 3>> \in S
          /\ <<"dequeue", 0>> \in S /\ <<"lock", 0>> \in S /\ <<"unlock", 0>> \in S
          /\ <<"await", 1>> \in S /\ <<"await", 2>> \in S /\ <<"advance", 0>> \in S
          /\ <<"pool", 0>> \in S
        BY <1>3
    <2> QED
        BY <2>1
<1> HIDE DEF Calls4, enqueues, dequeues, awaits, first, second
<1>4. ASSUME NEW t \in 1 .. 4
      PROVE  LET S == EcCalls(t)
             IN  /\ enqueues \in Seq(S) /\ <<<<"enqueue", 3>>>> \in Seq(S)
                 /\ dequeues \in Seq(S) /\ <<<<"dequeue", 0>>>> \in Seq(S)
                 /\ awaits \in Seq(S) /\ first \in Seq(S) /\ second \in Seq(S)
                 /\ <<<<"pool", 0>>>> \in Seq(S) /\ <<>> \in Seq(S)
    BY <1>2, <1>3
<1>5. ASSUME NEW c1, NEW c2, NEW c3, NEW c4,
              c1 \in Seq(EcCalls(1)), c2 \in Seq(EcCalls(2)),
              c3 \in Seq(EcCalls(3)), c4 \in Seq(EcCalls(4))
       PROVE  \A t \in 1 .. 4 : <<c1, c2, c3, c4>>[t] \in Seq(EcCalls(t))
    <2> SUFFICES ASSUME NEW t \in 1 .. 4
                 PROVE  <<c1, c2, c3, c4>>[t] \in Seq(EcCalls(t))
        OBVIOUS
    <2>1. t = 1 \/ t = 2 \/ t = 3 \/ t = 4
        OBVIOUS
    <2> QED
        BY <1>5, <2>1
<1>6. 1 \in 1 .. 4 /\ 2 \in 1 .. 4 /\ 3 \in 1 .. 4 /\ 4 \in 1 .. 4
    OBVIOUS
<1>7. /\ enqueues \in Seq(EcCalls(1)) /\ first \in Seq(EcCalls(1))
       /\ <<<<"enqueue", 3>>>> \in Seq(EcCalls(2)) /\ second \in Seq(EcCalls(2))
       /\ <<>> \in Seq(EcCalls(2)) /\ <<<<"pool", 0>>>> \in Seq(EcCalls(2))
       /\ dequeues \in Seq(EcCalls(3)) /\ awaits \in Seq(EcCalls(3))
       /\ <<<<"dequeue", 0>>>> \in Seq(EcCalls(3)) /\ <<<<"pool", 0>>>> \in Seq(EcCalls(3))
       /\ <<<<"dequeue", 0>>>> \in Seq(EcCalls(4)) /\ <<>> \in Seq(EcCalls(4))
       /\ <<<<"pool", 0>>>> \in Seq(EcCalls(4))
    BY <1>4, <1>6, Zenon
<1>8. CASE QueueTest
    <2> DEFINE calls == <<enqueues, <<<<"enqueue", 3>>>>, dequeues, <<<<"dequeue", 0>>>>>>
    <2>1. EcRun("eventcount", "tbb", calls)
        BY <1>8 DEF QueueTest, enqueues, dequeues
    <2>2. \A t \in 1 .. 4 : calls[t] \in Seq(EcCalls(t))
        BY <1>5, <1>7, Zenon
    <2> HIDE DEF calls
    <2> QED
        BY <1>1, <2>1, <2>2
<1>9. \A t \in 1 .. 4 : CondvarCalls[t] \in Seq(EcCalls(t))
    <2>1. CondvarCalls = <<first, second, awaits, <<>>>>
        BY DEF CondvarCalls, first, second, awaits
    <2> QED
        BY <1>5, <1>7, <2>1, Zenon
<1>10. CASE CondvarTest \/ EcRun("eventcount", "plain", CondvarCalls)
    BY <1>1, <1>9, <1>10 DEF CondvarTest
<1>11. CASE PlainClients /\ ~EcRun("eventcount", "plain", CondvarCalls)
    <2> DEFINE calls == <<enqueues, <<>>, <<<<"dequeue", 0>>>>, <<<<"dequeue", 0>>>>>>
    <2>1. EcRun("eventcount", "plain", calls)
        BY <1>11 DEF PlainClients, enqueues
    <2>2. \A t \in 1 .. 4 : calls[t] \in Seq(EcCalls(t))
        BY <1>5, <1>7, Zenon
    <2> HIDE DEF calls
    <2> QED
        BY <1>1, <2>1, <2>2
<1>12. CASE PoolClients
    <2>1. PICK v \in {"tbb", "plain"},
               call \in {<<"one", 0>>, <<"prefer", 2>>, <<"list", <<2, {2}>>>>,
                         <<"list", <<1, {2, 3}>>>>} :
              EcRun("pool", v, <<<<call>>, <<<<"pool", 0>>>>, <<<<"pool", 0>>>>, <<<<"pool", 0>>>>>>)
        BY <1>12 DEF PoolClients
    <2> DEFINE calls == <<<<call>>, <<<<"pool", 0>>>>, <<<<"pool", 0>>>>, <<<<"pool", 0>>>>>>
    <2>2. call \in EcCalls(1)
        <3>1. 1 \in 1 .. 4 /\ <<"one", 0>> \in {"enqueue", "dequeue", "lock", "unlock",
                                  "advance", "await", "pool", "one"} \X {0, 1, 2, 3}
            OBVIOUS
        <3>2. <<"one", 0>> \in EcCalls(1)
            BY <1>2, <3>1 DEF Calls4
        <3> QED
            BY <1>2, <2>1, <3>1, <3>2, Zenon
    <2>3. \A t \in 1 .. 4 : calls[t] \in Seq(EcCalls(t))
        <3>1. <<call>> \in Seq(EcCalls(1))
            BY <2>2
        <3> QED
            BY <1>5, <1>7, <3>1, Zenon
    <2> HIDE DEF calls
    <2>4. EcRun("pool", v, calls)
        BY <2>1 DEF calls
    <2> QED
        BY <1>1, <2>3, <2>4
<1> QED
    BY <1>8, <1>10, <1>11, <1>12

-----------------------------------------------------------------------------
(* The lock-free stacks. *)

StackLabels == {"idle", "push.load", "push.cas", "pop.next", "pop.cas"}

Pushing(t) == label[t] \in {"push.load", "push.cas"}

Popping(t) == label[t] \in {"pop.next", "pop.cas"} /\ loc[t].node # 0

Counting == sample.variant = "counted"

StackMemory ==
    [head : Nodes \cup {0, Wild}, next : [Nodes -> Nodes \cup {0}],
     alive : SUBSET Nodes, reborn : [Nodes -> Nat], abs : Seq(Nodes),
     spare : Nodes \cup {0}, aba : BOOLEAN, broken : BOOLEAN]

StackLocals == [node : Nodes \cup {0}, next : Nodes \cup {0, Wild}, born : Nat]

StackTypes ==
    /\ Is("stack") /\ sample.variant \in {"manual", "counted"}
    /\ mem \in StackMemory
    /\ mem.head = Wild => mem.broken
    /\ label \in [Callers -> StackLabels]
    /\ loc \in [Callers -> StackLocals]
    /\ \A t \in Callers : Pushing(t) \/ label[t] = "pop.cas" => loc[t].node \in Nodes
    /\ DOMAIN todo = Callers
    /\ \A t \in Callers : /\ todo[t] \in Seq(StackCalls(t, sample.variant))
                          /\ label[t] # "idle" => todo[t] # <<>>

(* The nodes linked from the head are alive, and none is there twice. *)
StackIsLinked ==
    /\ Linked(mem.head, mem.next, mem.abs) /\ IsInjective(mem.abs)
    /\ Range(mem.abs) \subseteq mem.alive
    /\ ~mem.broken

(* A node that is being pushed is alive and is its thread's alone. *)
PushersOwn ==
    \A t \in Callers : Pushing(t) =>
        /\ loc[t].node \in mem.alive \ Range(mem.abs)
        /\ \A u \in Callers \ {t} : Pushing(u) => loc[u].node # loc[t].node

(* A thread that pops has seen its node in the stack.  As long as the node *)
(* is the one it has seen, it is not pushed again and what it refers to    *)
(* stays as it was.                                                        *)
PoppersSaw ==
    \A t \in Callers : Popping(t) =>
        /\ loc[t].born <= mem.reborn[loc[t].node]
        /\ loc[t].born = mem.reborn[loc[t].node] =>
              /\ \A u \in Callers : Pushing(u) => loc[u].node # loc[t].node
              /\ label[t] = "pop.cas" /\ loc[t].node \in mem.alive =>
                    loc[t].next = mem.next[loc[t].node]

(* What a counted reference refers to is alive, and is what it was when    *)
(* the reference was taken.                                                *)
CountsHold ==
    /\ \A n \in mem.alive : mem.next[n] \in mem.alive \cup {0}
    /\ \A t \in Callers :
          /\ {loc[t].node, loc[t].next} \subseteq mem.alive \cup {0}
          /\ Popping(t) => loc[t].born = mem.reborn[loc[t].node]

StackInv ==
    /\ StackTypes
    /\ ~mem.aba => StackIsLinked /\ PushersOwn /\ PoppersSaw
    /\ Counting => ~mem.aba /\ CountsHold

(* What a set of roots keeps alive holds them and is closed. *)
LEMMA ReachedIsClosed ==
    ASSUME NEW next \in [Nodes -> Nodes \cup {0}], NEW roots \in SUBSET Nodes
    PROVE  LET A == ReachedFrom(next, roots)
           IN  A \subseteq Nodes /\ roots \subseteq A /\ \A n \in A : next[n] \in A \cup {0}
<1> DEFINE A == ReachedFrom(next, roots)
           Closed(S) == roots \subseteq S /\ {next[k] : k \in S} \subseteq S \cup {0}
<1>1. \A n \in Nodes : n \in A <=> \A S \in SUBSET Nodes : Closed(S) => n \in S
    BY DEF ReachedFrom
<1>2. A \subseteq Nodes
    BY DEF ReachedFrom
<1>3. roots \subseteq A
    BY <1>1
<1>4. ASSUME NEW n \in A, next[n] # 0
      PROVE  next[n] \in A
    <2>1. next[n] \in Nodes
        BY <1>2, <1>4
    <2>2. ASSUME NEW S \in SUBSET Nodes, Closed(S)
          PROVE  next[n] \in S
        <3>1. n \in S
            BY <1>1, <1>2, <2>2
        <3> QED
            BY <1>4, <2>2, <3>1
    <2> HIDE DEF A, Closed
    <2> QED
        BY <1>1, <2>1, <2>2
<1> QED
    BY <1>2, <1>3, <1>4

(* What is linked from a node of a closed set is in that set. *)
LEMMA ChainIsInside ==
    ASSUME NEW s \in Seq(Nodes), NEW head, NEW next, NEW A,
           Linked(head, next, s), head \in A \cup {0}, \A n \in A : next[n] \in A \cup {0}
    PROVE  Range(s) \subseteq A
<1> DEFINE G == {i \in Nat : i = 0 \/ (i \in DOMAIN s => s[i] \in A)}
<1>1. ASSUME NEW i \in 1 .. Len(s), i - 1 \in G
      PROVE  i \in G
    <2>1. s[i] \in Nodes /\ s[i] # 0 /\ Append(s, 0)[i] = s[i]
        BY StackAssumption
    <2>2. CASE i = 1
        BY <2>1, <2>2 DEF Linked
    <2>3. CASE i # 1
        <3>1. i - 1 \in DOMAIN s /\ (i - 1) + 1 = i
            BY <2>3
        <3>2. s[i - 1] \in A
            BY <1>1, <2>3, <3>1
        <3>3. next[s[i - 1]] = s[i]
            BY <2>1, <3>1 DEF Linked
        <3> QED
            BY <2>1, <3>2, <3>3
    <2> QED
        BY <2>2, <2>3
<1>2. ASSUME NEW n \in 1 .. Len(s)
      PROVE  s[n] \in A
    <2>1. \A i \in 1 .. n : i - 1 \in G => i \in G
        BY <1>1
    <2>2. 0 \in G
        OBVIOUS
    <2> HIDE DEF G
    <2>3. n \in G
        BY <2>1, <2>2, Climb
    <2> QED
        BY <2>3 DEF G
<1> QED
    BY <1>2 DEF Range

(* Settle leaves the counted nodes that something refers to. *)
LEMMA SettleFacts ==
    ASSUME NEW m \in StackMemory, NEW l \in [Callers -> StackLocals], Settle(m, l)
    PROVE  /\ loc' = l /\ mem' \in StackMemory
           /\ mem'.head = m.head /\ mem'.next = m.next /\ mem'.reborn = m.reborn
           /\ mem'.abs = m.abs /\ mem'.aba = m.aba /\ mem'.broken = m.broken
           /\ ~Counting => mem'.alive = m.alive
           /\ Counting /\ m.head # Wild /\ (\A u \in Callers : l[u].next # Wild) =>
                 /\ m.head \in mem'.alive \cup {0}
                 /\ \A u \in Callers : {l[u].node, l[u].next} \subseteq mem'.alive \cup {0}
                 /\ \A n \in mem'.alive : m.next[n] \in mem'.alive \cup {0}
<1>1. CASE ~Counting
    BY <1>1 DEF Settle, Counting
<1>2. CASE Counting
    <2> DEFINE roots == ({m.head} \cup {l[t].node : t \in Callers}
                           \cup {l[t].next : t \in Callers}) \ {0}
               A == ReachedFrom(m.next, roots)
    <2>1. mem' = [m EXCEPT !.alive = A] /\ loc' = l
        BY <1>2 DEF Settle, Counting, Counted
    <2>2. A \subseteq Nodes
        BY DEF ReachedFrom
    <2>3. m.next \in [Nodes -> Nodes \cup {0}]
        BY DEF StackMemory
    <2>4. ASSUME m.head # Wild, \A u \in Callers : l[u].next # Wild
          PROVE  roots \subseteq Nodes
        <3>1. m.head \in Nodes \cup {0}
            BY <2>4 DEF StackMemory
        <3>2. \A u \in Callers : l[u].node \in Nodes \cup {0} /\ l[u].next \in Nodes \cup {0}
            BY <2>4 DEF StackLocals
        <3> QED
            BY <3>1, <3>2
    <2>5. ASSUME m.head # Wild, \A u \in Callers : l[u].next # Wild
          PROVE  roots \subseteq A /\ \A n \in A : m.next[n] \in A \cup {0}
        <3> HIDE DEF roots
        <3> QED
            BY <2>3, <2>4, <2>5, ReachedIsClosed
    <2>6. {m.head} \subseteq roots \cup {0}
          /\ \A u \in Callers : {l[u].node, l[u].next} \subseteq roots \cup {0}
        OBVIOUS
    <2> HIDE DEF roots, A
    <2>7. mem'.alive = A /\ mem' \in StackMemory
        BY <2>1, <2>2 DEF StackMemory
    <2>8. /\ mem'.head = m.head /\ mem'.next = m.next /\ mem'.reborn = m.reborn
          /\ mem'.abs = m.abs /\ mem'.aba = m.aba /\ mem'.broken = m.broken
        BY <2>1 DEF StackMemory
    <2> QED
        BY <1>2, <2>1, <2>5, <2>6, <2>7, <2>8
<1> QED
    BY <1>1, <1>2

(* What is linked before and after a push and a pop. *)
LEMMA LinkedHead ==
    ASSUME NEW s \in Seq(Nodes), NEW head, NEW next, Linked(head, next, s)
    PROVE  /\ s = <<>> => head = 0
           /\ s # <<>> => head = Head(s) /\ head \in Nodes /\ head \in Range(s)
           /\ head \in Range(s) \cup {0}
<1>1. CASE s = <<>>
    BY <1>1 DEF Linked
<1>2. CASE s # <<>>
    <2>1. 1 \in DOMAIN s /\ Append(s, 0)[1] = s[1] /\ Head(s) = s[1] /\ s[1] \in Nodes
        BY <1>2
    <2> QED
        BY <1>2, <2>1 DEF Linked, Range
<1> QED
    BY <1>1, <1>2

LEMMA LinkPushed ==
    ASSUME NEW s \in Seq(Nodes), NEW next, NEW n \in Nodes, Linked(next[n], next, s)
    PROVE  Linked(n, next, <<n>> \o s)
<1> DEFINE r == <<n>> \o s
<1>1. /\ DOMAIN r = 1 .. Len(s) + 1 /\ Append(r, 0)[1] = n /\ r[1] = n
      /\ \A i \in 1 .. Len(s) : r[i + 1] = s[i]
      /\ \A i \in 1 .. Len(s) + 1 : Append(r, 0)[i + 1] = Append(s, 0)[i]
      /\ Len(s) \in Nat /\ DOMAIN s = 1 .. Len(s)
    OBVIOUS
<1> HIDE DEF r
<1> SUFFICES ASSUME NEW i \in DOMAIN r
             PROVE  next[r[i]] = Append(r, 0)[i + 1]
    BY <1>1 DEF Linked
<1>2. CASE i = 1
    <2>1. Append(r, 0)[2] = Append(s, 0)[1]
        BY <1>1
    <2> QED
        BY <1>1, <1>2, <2>1 DEF Linked
<1>3. CASE i # 1
    <2>1. i - 1 \in DOMAIN s /\ (i - 1) + 1 = i
        BY <1>1, <1>3
    <2>2. r[i] = s[i - 1] /\ Append(r, 0)[i + 1] = Append(s, 0)[i]
        BY <1>1, <2>1
    <2>3. next[s[i - 1]] = Append(s, 0)[(i - 1) + 1]
        BY <2>1 DEF Linked
    <2> QED
        BY <2>1, <2>2, <2>3
<1> QED
    BY <1>2, <1>3

LEMMA LinkPopped ==
    ASSUME NEW s \in Seq(Nodes), NEW next, NEW n, s # <<>>, Linked(n, next, s)
    PROVE  Linked(next[n], next, Tail(s))
<1> DEFINE r == Tail(s)
<1>1. /\ DOMAIN r = 1 .. Len(s) - 1 /\ Len(s) \in Nat /\ DOMAIN s = 1 .. Len(s) /\ 1 \in DOMAIN s
      /\ \A i \in 1 .. Len(s) - 1 : r[i] = s[i + 1]
      /\ \A i \in 1 .. Len(s) : Append(r, 0)[i] = Append(s, 0)[i + 1]
      /\ n = s[1]
    BY DEF Linked
<1> HIDE DEF r
<1>2. next[n] = Append(r, 0)[1]
    BY <1>1 DEF Linked
<1>3. ASSUME NEW i \in DOMAIN r
      PROVE  next[r[i]] = Append(r, 0)[i + 1]
    <2>1. i + 1 \in DOMAIN s
        BY <1>1
    <2>2. next[s[i + 1]] = Append(s, 0)[(i + 1) + 1]
        BY <2>1 DEF Linked
    <2> QED
        BY <1>1, <2>1, <2>2
<1> QED
    BY <1>2, <1>3 DEF Linked, r

(* Nodes that are not linked may refer to anything. *)
LEMMA LinkKept ==
    ASSUME NEW s, NEW head, NEW next, Linked(head, next, s),
           NEW new, \A n \in Range(s) : new[n] = next[n]
    PROVE  Linked(head, new, s)
<1> SUFFICES ASSUME NEW i \in DOMAIN s
             PROVE  new[s[i]] = Append(s, 0)[i + 1]
    BY DEF Linked
<1>1. s[i] \in Range(s)
    BY DEF Range
<1> QED
    BY <1>1 DEF Linked

(* What a step of one thread leaves to the others. *)
LEMMA CallsStay ==
    ASSUME StackInv, NEW t \in Callers, todo[t] # <<>>,
           (\E l \in StackLabels : Jump(t, l)) \/ Return(t)
    PROVE  /\ sample' = sample /\ DOMAIN todo' = Callers
           /\ \A u \in Callers : /\ todo'[u] \in Seq(StackCalls(u, sample'.variant))
                                 /\ label'[u] # "idle" => todo'[u] # <<>>
           /\ label' \in [Callers -> StackLabels]
           /\ \A u \in Callers \ {t} : label'[u] = label[u]
<1>1. CASE Return(t)
    <2>1. /\ label' = [label EXCEPT ![t] = "idle"] /\ label \in [Callers -> StackLabels]
          /\ todo' = [todo EXCEPT ![t] = Tail(@)] /\ sample' = sample /\ DOMAIN todo = Callers
          /\ \A u \in Callers : /\ todo[u] \in Seq(StackCalls(u, sample.variant))
                                /\ label[u] # "idle" => todo[u] # <<>>
        BY <1>1 DEF StackInv, StackTypes, Return
    <2>2. Tail(todo[t]) \in Seq(StackCalls(t, sample.variant))
        BY <1>1, <2>1
    <2>3. \A u \in Callers : /\ todo'[u] \in Seq(StackCalls(u, sample'.variant))
                             /\ label'[u] # "idle" => todo'[u] # <<>>
        BY <2>1, <2>2
    <2>4. label' \in [Callers -> StackLabels]
        BY <2>1 DEF StackLabels
    <2> QED
        BY <2>1, <2>3, <2>4
<1>2. CASE \E l \in StackLabels : Jump(t, l)
    BY <1>2 DEF StackInv, StackTypes, Jump
<1> QED
    BY <1>1, <1>2

LEMMA StackPushKeeps ==
    ASSUME StackInv, ~mem.broken, NEW t \in Callers, Push(t)
    PROVE  StackInv'
<1>1. PICK n \in Nodes \ mem.alive :
          /\ mem' = Allocated(n)
          /\ loc' = [loc EXCEPT ![t] = [StackLoc EXCEPT !.node = n]]
    BY DEF Push
<1>2. /\ Jump(t, "push.load") /\ label[t] = "idle" /\ label'[t] = "push.load"
      /\ todo[t] # <<>>
    BY DEF Push, Jump, Calls, StackInv, StackTypes
<1>3. /\ sample' = sample /\ DOMAIN todo' = Callers
      /\ \A u \in Callers : /\ todo'[u] \in Seq(StackCalls(u, sample'.variant))
                            /\ label'[u] # "idle" => todo'[u] # <<>>
      /\ label' \in [Callers -> StackLabels]
      /\ \A u \in Callers \ {t} : label'[u] = label[u]
    <2>1. "push.load" \in StackLabels
        BY DEF StackLabels
    <2> QED
        BY <1>2, <2>1, CallsStay
<1>4. /\ mem'.head = mem.head /\ mem'.abs = mem.abs /\ mem'.aba = mem.aba
      /\ mem'.broken = mem.broken /\ mem'.alive = mem.alive \cup {n}
      /\ mem'.next = [mem.next EXCEPT ![n] = 0]
      /\ mem'.reborn = [mem.reborn EXCEPT ![n] = @ + 1] /\ mem' \in StackMemory
    <2>1. mem \in StackMemory
        BY DEF StackInv, StackTypes
    <2> DEFINE alive == mem.alive \cup {n}
               reborn == [mem.reborn EXCEPT ![n] = @ + 1]
               next == [mem.next EXCEPT ![n] = 0]
    <2>2. alive \in SUBSET Nodes /\ reborn \in [Nodes -> Nat] /\ next \in [Nodes -> Nodes \cup {0}]
        BY <2>1 DEF StackMemory
    <2>3. mem' = [mem EXCEPT !.alive = alive, !.reborn = reborn, !.next = next]
        BY <1>1 DEF Allocated
    <2>4. /\ mem'.alive = alive /\ mem'.reborn = reborn /\ mem'.next = next
        <3> HIDE DEF alive, reborn, next
        <3> QED
            BY <2>1, <2>3 DEF StackMemory
    <2>5. /\ mem'.head = mem.head /\ mem'.abs = mem.abs /\ mem'.aba = mem.aba
          /\ mem'.broken = mem.broken /\ mem' \in StackMemory
        <3> HIDE DEF alive, reborn, next
        <3> QED
            BY <2>1, <2>2, <2>3 DEF StackMemory
    <2> QED
        BY <2>4, <2>5
<1>5. /\ loc'[t].node = n /\ loc'[t].next = 0 /\ \A u \in Callers \ {t} : loc'[u] = loc[u]
      /\ loc' \in [Callers -> StackLocals]
    BY <1>1 DEF StackInv, StackTypes, StackLocals, StackLoc
<1>6. /\ \A u \in Callers : Popping(u)' => u # t /\ Popping(u)
      /\ \A u \in Callers : Pushing(u)' => u = t \/ Pushing(u)
    BY <1>2, <1>3, <1>5 DEF Popping, Pushing
<1>7. StackTypes'
    BY <1>2, <1>3, <1>4, <1>5 DEF StackInv, StackTypes, Is, Pushing
<1>8. ASSUME ~mem.aba
      PROVE  (StackIsLinked /\ PushersOwn /\ PoppersSaw)'
    <2>1. StackIsLinked /\ PushersOwn /\ PoppersSaw /\ mem.abs \in Seq(Nodes)
        BY <1>8 DEF StackInv, StackTypes, StackMemory
    <2>2. StackIsLinked'
        <3>1. \A k \in Range(mem.abs) : mem'.next[k] = mem.next[k]
            BY <1>4, <2>1 DEF StackIsLinked, StackInv, StackTypes, StackMemory
        <3>2. Linked(mem.head, mem'.next, mem.abs)
            BY <2>1, <3>1, LinkKept DEF StackIsLinked
        <3> QED
            BY <1>4, <2>1, <3>2 DEF StackIsLinked
    <2>3. PushersOwn'
        BY <1>2, <1>4, <1>5, <1>6, <2>1 DEF PushersOwn, StackIsLinked
    <2>4. PoppersSaw'
        <3> SUFFICES ASSUME NEW u \in Callers, Popping(u)'
                     PROVE  /\ loc'[u].born <= mem'.reborn[loc'[u].node]
                            /\ loc'[u].born = mem'.reborn[loc'[u].node] =>
                                /\ \A v \in Callers : Pushing(v)' => loc'[v].node # loc'[u].node
                                /\ label'[u] = "pop.cas" /\ loc'[u].node \in mem'.alive =>
                                      loc'[u].next = mem'.next[loc'[u].node]
            BY DEF PoppersSaw
        <3>1. u # t /\ Popping(u) /\ loc'[u] = loc[u] /\ label'[u] = label[u]
            BY <1>3, <1>5, <1>6
        <3>2. loc[u].node \in Nodes /\ loc[u].born \in Nat /\ mem.reborn \in [Nodes -> Nat]
              /\ mem.next \in [Nodes -> Nodes \cup {0}]
            BY <3>1 DEF StackInv, StackTypes, StackLocals, StackMemory, Popping
        <3>3. CASE loc[u].node = n
            BY <1>4, <2>1, <3>1, <3>2, <3>3 DEF PoppersSaw
        <3>4. CASE loc[u].node # n
            <4>1. /\ mem'.reborn[loc[u].node] = mem.reborn[loc[u].node]
                  /\ mem'.next[loc[u].node] = mem.next[loc[u].node]
                  /\ loc[u].node \in mem'.alive => loc[u].node \in mem.alive
                BY <1>4, <3>2, <3>4
            <4>2. \A v \in Callers : Pushing(v)' => loc'[v].node # loc[u].node
                      \/ (v # t /\ Pushing(v) /\ loc'[v] = loc[v])
                BY <1>5, <1>6, <3>4
            <4> QED
                BY <2>1, <3>1, <4>1, <4>2 DEF PoppersSaw
        <3> QED
            BY <3>3, <3>4
    <2> QED
        BY <2>2, <2>3, <2>4
<1>9. ASSUME Counting
      PROVE  ~mem.aba /\ CountsHold'
    <2>1. ~mem.aba /\ CountsHold /\ mem.next \in [Nodes -> Nodes \cup {0}]
          /\ mem.alive \subseteq Nodes /\ mem.reborn \in [Nodes -> Nat]
        BY <1>9 DEF StackInv, StackTypes, StackMemory
    <2>2. \A k \in mem'.alive : mem'.next[k] \in mem'.alive \cup {0}
        BY <1>4, <2>1 DEF CountsHold
    <2>3. ASSUME NEW u \in Callers, Popping(u)'
          PROVE  loc'[u].born = mem'.reborn[loc'[u].node]
        <3>1. u # t /\ Popping(u) /\ loc'[u] = loc[u] /\ loc[u].node \in mem.alive
            BY <1>5, <1>6, <2>1, <2>3 DEF CountsHold, Popping
        <3> QED
            BY <1>4, <2>1, <3>1 DEF CountsHold
    <2>4. \A u \in Callers : {loc'[u].node, loc'[u].next} \subseteq mem'.alive \cup {0}
        BY <1>4, <1>5, <2>1 DEF CountsHold
    <2> QED
        BY <2>1, <2>2, <2>3, <2>4 DEF CountsHold
<1> QED
    BY <1>3, <1>4, <1>7, <1>8, <1>9 DEF StackInv, Counting

(* What counting the references again keeps alive. *)
CountsAgree ==
    /\ mem'.head \in mem'.alive \cup {0}
    /\ \A u \in Callers : {loc'[u].node, loc'[u].next} \subseteq mem'.alive \cup {0}
    /\ \A n \in mem'.alive : mem'.next[n] \in mem'.alive \cup {0}

AliveAgrees ==
    /\ ~Counting => mem'.alive = mem.alive
    /\ Counting => CountsAgree

StepOf(t) ==
    /\ sample' = sample /\ DOMAIN todo' = Callers
    /\ \A u \in Callers : /\ todo'[u] \in Seq(StackCalls(u, sample'.variant))
                          /\ label'[u] # "idle" => todo'[u] # <<>>
    /\ label' \in [Callers -> StackLabels]
    /\ \A u \in Callers \ {t} : label'[u] = label[u]
    /\ mem' \in StackMemory /\ loc' \in [Callers -> StackLocals]
    /\ \A u \in Callers \ {t} : loc'[u] = loc[u]

(* The node that is pushed is linked to the head that was found. *)
LEMMA RewireKeeps ==
    ASSUME StackInv, ~mem.broken, NEW t \in Callers, Pushing(t), label'[t] = "push.cas",
           StepOf(t), AliveAgrees, loc'[t] = loc[t],
           mem'.next = [mem.next EXCEPT ![loc[t].node] = mem.head],
           mem'.head = mem.head, mem'.reborn = mem.reborn, mem'.abs = mem.abs,
           mem'.aba = mem.aba, mem'.broken = mem.broken
    PROVE  StackInv'
<1> DEFINE n == loc[t].node
<1>1. /\ n \in Nodes /\ mem.next \in [Nodes -> Nodes \cup {0}] /\ mem.abs \in Seq(Nodes)
      /\ mem.alive \subseteq Nodes
    BY DEF StackInv, StackTypes, StackMemory
<1>2. \A u \in Callers : loc'[u] = loc[u] /\ (label'[u] = label[u] \/ u = t)
    BY DEF StepOf
<1>3. /\ \A u \in Callers : Popping(u)' => u # t /\ Popping(u) /\ label'[u] = label[u]
      /\ \A u \in Callers : Pushing(u)' <=> Pushing(u)
    BY <1>2 DEF Popping, Pushing
<1>4. StackTypes'
    BY <1>1, <1>2, <1>3 DEF StackInv, StackTypes, Is, StepOf, Pushing
<1>5. ASSUME ~mem.aba
      PROVE  (StackIsLinked /\ PushersOwn /\ PoppersSaw)'
    <2>1. /\ StackIsLinked /\ PushersOwn /\ PoppersSaw
          /\ Counting => CountsHold
        BY <1>5 DEF StackInv
    <2>2. n \notin Range(mem.abs)
        BY <2>1 DEF PushersOwn
    <2>3. Linked(mem'.head, mem'.next, mem'.abs)
        <3>1. \A k \in Range(mem.abs) : mem'.next[k] = mem.next[k]
            BY <1>1, <2>1, <2>2 DEF StackIsLinked
        <3> QED
            BY <2>1, <3>1, LinkKept DEF StackIsLinked
    <2>4. StackIsLinked'
        <3>1. Range(mem'.abs) \subseteq mem'.alive
            <4>1. CASE Counting
                <5>1. /\ mem'.abs \in Seq(Nodes) /\ mem'.head \in mem'.alive \cup {0}
                      /\ \A k \in mem'.alive : mem'.next[k] \in mem'.alive \cup {0}
                    BY <1>1, <4>1 DEF AliveAgrees, CountsAgree
                <5> QED
                    BY ONLY <2>3, <5>1, ChainIsInside
            <4>2. CASE ~Counting
                BY <2>1, <4>2 DEF AliveAgrees, CountsAgree, StackIsLinked
            <4> QED
                BY <4>1, <4>2
        <3> QED
            BY <2>1, <2>3, <3>1 DEF StackIsLinked
    <2>5. PushersOwn'
        <3>1. \A u \in Callers : Pushing(u) => loc[u].node \in mem'.alive
            <4>1. \A u \in Callers : Pushing(u) => loc[u].node \in Nodes /\ loc[u].node # 0
                BY StackAssumption DEF StackInv, StackTypes
            <4> QED
                BY <1>2, <2>1, <4>1 DEF AliveAgrees, CountsAgree, PushersOwn
        <3> QED
            BY <1>2, <1>3, <2>1, <3>1 DEF PushersOwn
    <2>6. PoppersSaw'
        <3> SUFFICES ASSUME NEW u \in Callers, Popping(u)'
                     PROVE  /\ loc'[u].born <= mem'.reborn[loc'[u].node]
                            /\ loc'[u].born = mem'.reborn[loc'[u].node] =>
                                /\ \A v \in Callers : Pushing(v)' => loc'[v].node # loc'[u].node
                                /\ label'[u] = "pop.cas" /\ loc'[u].node \in mem'.alive =>
                                      loc'[u].next = mem'.next[loc'[u].node]
            BY DEF PoppersSaw
        <3>1. u # t /\ Popping(u) /\ loc'[u] = loc[u] /\ label'[u] = label[u]
            BY <1>2, <1>3
        <3>2. loc[u].node \in Nodes
            BY <3>1 DEF StackInv, StackTypes, StackLocals, Popping
        <3>3. loc[u].born = mem.reborn[loc[u].node] => mem'.next[loc[u].node] = mem.next[loc[u].node]
            BY <1>1, <2>1, <3>1, <3>2 DEF PoppersSaw
        <3>4. loc[u].node \in mem'.alive => loc[u].node \in mem.alive
            BY <2>1, <3>2, StackAssumption DEF AliveAgrees, CountsAgree, CountsHold
        <3> QED
            BY <1>2, <1>3, <2>1, <3>1, <3>3, <3>4 DEF PoppersSaw
    <2> QED
        BY <2>4, <2>5, <2>6
<1>6. ASSUME Counting
      PROVE  ~mem.aba /\ CountsHold'
    <2>1. ~mem.aba /\ CountsHold
        BY <1>6 DEF StackInv
    <2> QED
        BY <1>2, <1>3, <1>6, <2>1 DEF CountsHold, AliveAgrees, CountsAgree
<1> QED
    BY <1>4, <1>5, <1>6 DEF StackInv, Counting, StepOf

LEMMA HeadIsAlive ==
    ASSUME StackInv, ~mem.broken
    PROVE  /\ mem.head \in Nodes \cup {0}
           /\ Counting => \A u \in Callers : loc[u].next # Wild
           /\ ~mem.aba =>
                 /\ mem.head \in Range(mem.abs) \cup {0}
                 /\ mem.head \in mem.alive \cup {0}
                 /\ mem.head # 0 => mem.abs # <<>> /\ mem.head = Head(mem.abs)
<1>1. mem.head \in Nodes \cup {0} /\ mem.abs \in Seq(Nodes) /\ mem.alive \subseteq Nodes
    BY DEF StackInv, StackTypes, StackMemory
<1>2. Counting => \A u \in Callers : loc[u].next # Wild
    BY <1>1, StackAssumption DEF StackInv, CountsHold
<1>3. ASSUME ~mem.aba
      PROVE  /\ mem.head \in Range(mem.abs) \cup {0}
             /\ mem.head \in mem.alive \cup {0}
             /\ mem.head # 0 => mem.abs # <<>> /\ mem.head = Head(mem.abs)
    <2>1. Linked(mem.head, mem.next, mem.abs) /\ Range(mem.abs) \subseteq mem.alive
        BY <1>3 DEF StackInv, StackIsLinked
    <2> QED
        BY <1>1, <2>1, LinkedHead
<1> QED
    BY <1>1, <1>2, <1>3

LEMMA PushLoadKeeps ==
    ASSUME StackInv, ~mem.broken, NEW t \in Callers, PushLoad(t)
    PROVE  StackInv'
<1> DEFINE n == loc[t].node
           next == [mem.next EXCEPT ![n] = mem.head]
<1>1. /\ mem' = [mem EXCEPT !.next = next] /\ loc' = loc
      /\ Jump(t, "push.cas") /\ label'[t] = "push.cas" /\ Pushing(t)
    BY DEF PushLoad, Jump, Reached, Pushing, StackInv, StackTypes
<1>2. mem.head \in Nodes \cup {0}
    BY HeadIsAlive
<1>3. mem \in StackMemory /\ loc \in [Callers -> StackLocals] /\ n \in Nodes
    BY <1>1 DEF StackInv, StackTypes
<1>4. next \in [Nodes -> Nodes \cup {0}]
    BY <1>2, <1>3 DEF StackMemory
<1>5. /\ mem'.next = next /\ mem'.head = mem.head /\ mem'.reborn = mem.reborn
      /\ mem'.abs = mem.abs /\ mem'.aba = mem.aba /\ mem'.broken = mem.broken
      /\ mem'.alive = mem.alive /\ mem' \in StackMemory
    <2> HIDE DEF next
    <2> QED
        BY <1>1, <1>3, <1>4 DEF StackMemory
<1>6. StepOf(t)
    <2>1. "push.cas" \in StackLabels /\ todo[t] # <<>>
        BY <1>1 DEF StackLabels, StackInv, StackTypes, Pushing
    <2> QED
        BY <1>1, <1>3, <1>5, <2>1, CallsStay DEF StepOf
<1>7. AliveAgrees
    <2>1. ASSUME Counting
          PROVE  /\ mem.head \in mem.alive \cup {0} /\ CountsHold
                 /\ \A k \in mem.alive : next[k] \in mem.alive \cup {0}
        <3>1. mem.head \in mem.alive \cup {0} /\ CountsHold
            BY <2>1, HeadIsAlive DEF StackInv
        <3> QED
            BY <1>3, <3>1 DEF CountsHold, StackMemory
    <2> HIDE DEF next
    <2> QED
        BY <1>1, <1>5, <2>1 DEF AliveAgrees, CountsAgree, CountsHold
<1> QED
    BY <1>1, <1>5, <1>6, <1>7, RewireKeeps

LEMMA PushFailsKeeps ==
    ASSUME StackInv, ~mem.broken, NEW t \in Callers, PushFails(t)
    PROVE  StackInv'
<1> DEFINE n == loc[t].node
           next == [mem.next EXCEPT ![n] = mem.head]
           m == [mem EXCEPT !.next = next]
<1>1. /\ Settle(m, loc) /\ Jump(t, "push.cas")
      /\ label'[t] = "push.cas" /\ Pushing(t)
    BY DEF PushFails, Jump, Reached, Pushing, StackInv, StackTypes
<1>2. mem.head \in Nodes \cup {0} /\ (Counting => \A u \in Callers : loc[u].next # Wild)
    BY HeadIsAlive
<1>3. mem \in StackMemory /\ loc \in [Callers -> StackLocals] /\ n \in Nodes
    BY <1>1 DEF StackInv, StackTypes
<1>4. next \in [Nodes -> Nodes \cup {0}]
    BY <1>2, <1>3 DEF StackMemory
<1>5. /\ m.next = next /\ m.head = mem.head /\ m.reborn = mem.reborn
      /\ m.abs = mem.abs /\ m.aba = mem.aba /\ m.broken = mem.broken
      /\ m.alive = mem.alive /\ m \in StackMemory
    <2> HIDE DEF next
    <2> QED
        BY <1>3, <1>4 DEF StackMemory
<1> HIDE DEF m, next
<1>6. /\ loc' = loc /\ mem' \in StackMemory
      /\ mem'.head = m.head /\ mem'.next = m.next /\ mem'.reborn = m.reborn
      /\ mem'.abs = m.abs /\ mem'.aba = m.aba /\ mem'.broken = m.broken
      /\ ~Counting => mem'.alive = m.alive
      /\ Counting /\ m.head # Wild /\ (\A u \in Callers : loc[u].next # Wild) =>
            /\ m.head \in mem'.alive \cup {0}
            /\ \A u \in Callers : {loc[u].node, loc[u].next} \subseteq mem'.alive \cup {0}
            /\ \A k \in mem'.alive : m.next[k] \in mem'.alive \cup {0}
    BY <1>1, <1>3, <1>5, SettleFacts
<1>7. StepOf(t)
    <2>1. "push.cas" \in StackLabels /\ todo[t] # <<>>
        BY <1>1 DEF StackLabels, StackInv, StackTypes, Pushing
    <2> QED
        BY <1>1, <1>3, <1>6, <2>1, CallsStay DEF StepOf
<1>8. AliveAgrees
    BY <1>2, <1>5, <1>6, StackAssumption DEF AliveAgrees, CountsAgree
<1>9. mem'.next = [mem.next EXCEPT ![loc[t].node] = mem.head]
    BY <1>5, <1>6 DEF next
<1> QED
    BY <1>1, <1>5, <1>6, <1>7, <1>8, <1>9, RewireKeeps

(* The memory and the locals after a Settle. *)
LEMMA SettlesWell ==
    ASSUME StackInv, ~mem.broken, NEW t \in Callers,
           NEW m \in StackMemory, NEW l \in StackLocals,
           Settle(m, [loc EXCEPT ![t] = l]),
           Counting => m.head # Wild /\ l.next # Wild
    PROVE  /\ mem' \in StackMemory /\ loc' \in [Callers -> StackLocals]
           /\ loc' = [loc EXCEPT ![t] = l]
           /\ loc'[t] = l /\ \A u \in Callers \ {t} : loc'[u] = loc[u]
           /\ mem'.head = m.head /\ mem'.next = m.next /\ mem'.reborn = m.reborn
           /\ mem'.abs = m.abs /\ mem'.aba = m.aba /\ mem'.broken = m.broken
           /\ ~Counting => mem'.alive = m.alive
           /\ Counting => CountsAgree
<1> DEFINE locals == [loc EXCEPT ![t] = l]
<1>1. loc \in [Callers -> StackLocals] /\ (Counting => \A u \in Callers : loc[u].next # Wild)
    BY HeadIsAlive DEF StackInv, StackTypes
<1>2. /\ locals \in [Callers -> StackLocals]
      /\ locals[t] = l /\ \A u \in Callers \ {t} : locals[u] = loc[u]
    BY <1>1
<1> HIDE DEF locals
<1>3. Counting => m.head # Wild /\ \A u \in Callers : locals[u].next # Wild
    BY <1>1, <1>2
<1>4. Settle(m, locals)
    BY DEF locals
<1>5. /\ loc' = locals /\ mem' \in StackMemory
      /\ mem'.head = m.head /\ mem'.next = m.next /\ mem'.reborn = m.reborn
      /\ mem'.abs = m.abs /\ mem'.aba = m.aba /\ mem'.broken = m.broken
      /\ ~Counting => mem'.alive = m.alive
      /\ Counting /\ m.head # Wild /\ (\A u \in Callers : locals[u].next # Wild) =>
            /\ m.head \in mem'.alive \cup {0}
            /\ \A u \in Callers : {locals[u].node, locals[u].next} \subseteq mem'.alive \cup {0}
            /\ \A k \in mem'.alive : m.next[k] \in mem'.alive \cup {0}
    BY <1>2, <1>4, SettleFacts
<1>6. ASSUME Counting
      PROVE  CountsAgree
    <2>1. /\ m.head \in mem'.alive \cup {0}
          /\ \A u \in Callers : {locals[u].node, locals[u].next} \subseteq mem'.alive \cup {0}
          /\ \A k \in mem'.alive : m.next[k] \in mem'.alive \cup {0}
        BY <1>3, <1>5, <1>6
    <2> QED
        BY <1>5, <2>1 DEF CountsAgree
<1> QED
    BY <1>2, <1>5, <1>6 DEF locals

LEMMA PushSwapsKeeps ==
    ASSUME StackInv, ~mem.broken, NEW t \in Callers, PushSwaps(t)
    PROVE  StackInv'
<1> DEFINE n == loc[t].node
           m == [mem EXCEPT !.head = n, !.abs = <<n>> \o @]
<1>1. /\ Settle(m, [loc EXCEPT ![t] = StackLoc]) /\ Return(t)
      /\ label[t] = "push.cas" /\ label'[t] = "idle" /\ Pushing(t) /\ mem.head = mem.next[n]
    BY DEF PushSwaps, Return, Reached, Pushing, StackInv, StackTypes
<1>2. mem \in StackMemory /\ n \in Nodes /\ StackLoc \in StackLocals
    BY <1>1 DEF StackInv, StackTypes, StackLoc, StackLocals
<1>3. /\ m.next = mem.next /\ m.head = n /\ m.reborn = mem.reborn
      /\ m.abs = <<n>> \o mem.abs /\ m.aba = mem.aba /\ m.broken = mem.broken
      /\ m.alive = mem.alive /\ m \in StackMemory
    <2> DEFINE abs == <<n>> \o mem.abs
    <2>1. abs \in Seq(Nodes)
        BY <1>2 DEF StackMemory
    <2> HIDE DEF abs
    <2>2. m = [mem EXCEPT !.head = n, !.abs = abs]
        BY DEF abs
    <2> HIDE DEF m
    <2>3. /\ m.next = mem.next /\ m.head = n /\ m.reborn = mem.reborn
          /\ m.abs = abs /\ m.aba = mem.aba /\ m.broken = mem.broken
          /\ m.alive = mem.alive /\ m \in StackMemory
        BY <1>2, <2>1, <2>2 DEF StackMemory
    <2> QED
        BY <2>3 DEF abs
<1> HIDE DEF m
<1>4. /\ mem' \in StackMemory /\ loc' \in [Callers -> StackLocals]
      /\ loc'[t] = StackLoc /\ \A u \in Callers \ {t} : loc'[u] = loc[u]
      /\ mem'.head = m.head /\ mem'.next = m.next /\ mem'.reborn = m.reborn
      /\ mem'.abs = m.abs /\ mem'.aba = m.aba /\ mem'.broken = m.broken
      /\ ~Counting => mem'.alive = m.alive
      /\ Counting => CountsAgree
    BY <1>1, <1>2, <1>3, StackAssumption, SettlesWell DEF StackLoc
<1>5. StepOf(t)
    <2>1. todo[t] # <<>>
        BY <1>1 DEF StackInv, StackTypes
    <2> QED
        BY <1>1, <1>4, <2>1, CallsStay DEF StepOf
<1>6. /\ \A u \in Callers \ {t} : loc'[u] = loc[u] /\ label'[u] = label[u]
      /\ \A u \in Callers : Pushing(u)' => u # t /\ Pushing(u)
      /\ \A u \in Callers : Popping(u)' => u # t /\ Popping(u)
    BY <1>1, <1>5 DEF StepOf, Pushing, Popping
<1>7. /\ mem'.head = n /\ mem'.next = mem.next /\ mem'.reborn = mem.reborn
      /\ mem'.abs = <<n>> \o mem.abs /\ mem'.aba = mem.aba /\ ~mem'.broken
      /\ ~Counting => mem'.alive = mem.alive
    BY <1>3, <1>4
<1>8. StackTypes'
    BY <1>1, <1>2, <1>5, <1>6, <1>7, StackAssumption DEF StackInv, StackTypes, Is, StepOf, Pushing
<1>9. ASSUME ~mem.aba
      PROVE  (StackIsLinked /\ PushersOwn /\ PoppersSaw)'
    <2>1. /\ StackIsLinked /\ PushersOwn /\ PoppersSaw
          /\ Counting => CountsHold
          /\ mem.abs \in Seq(Nodes)
        BY <1>2, <1>9 DEF StackInv, StackMemory
    <2>2. n \notin Range(mem.abs) /\ n \in mem.alive
        BY <1>1, <2>1 DEF PushersOwn
    <2>3. /\ mem'.abs \in Seq(Nodes) /\ IsInjective(mem'.abs)
          /\ Range(mem'.abs) = Range(mem.abs) \cup {n}
        BY <1>2, <1>7, <2>1, <2>2, Prefixed DEF StackIsLinked
    <2>4. Linked(mem'.head, mem'.next, mem'.abs)
        BY <1>1, <1>2, <1>7, <2>1, LinkPushed DEF StackIsLinked
    <2>5. Range(mem'.abs) \subseteq mem'.alive
        <3>1. CASE Counting
            <4>1. /\ mem'.head \in mem'.alive \cup {0}
                  /\ \A k \in mem'.alive : mem'.next[k] \in mem'.alive \cup {0}
                BY <1>4, <3>1 DEF CountsAgree
            <4> QED
                BY ONLY <2>3, <2>4, <4>1, ChainIsInside
        <3>2. CASE ~Counting
            BY <1>7, <2>1, <2>2, <2>3, <3>2 DEF StackIsLinked
        <3> QED
            BY <3>1, <3>2
    <2>6. StackIsLinked'
        BY <1>7, <2>3, <2>4, <2>5 DEF StackIsLinked
    <2>7. PushersOwn'
        <3> SUFFICES ASSUME NEW u \in Callers, Pushing(u)'
                     PROVE  /\ loc'[u].node \in mem'.alive \ Range(mem'.abs)
                            /\ \A v \in Callers \ {u} : Pushing(v)' => loc'[v].node # loc'[u].node
            BY DEF PushersOwn
        <3>1. u # t /\ Pushing(u) /\ loc'[u] = loc[u]
            BY <1>6
        <3>2. loc[u].node \in mem'.alive
            <4>1. loc[u].node \in Nodes /\ loc[u].node # 0
                BY <3>1, StackAssumption DEF StackInv, StackTypes
            <4> QED
                BY <1>4, <1>7, <2>1, <3>1, <4>1 DEF CountsAgree, PushersOwn
        <3>3. loc[u].node # n /\ loc[u].node \notin Range(mem.abs)
            BY <1>1, <2>1, <3>1 DEF PushersOwn
        <3> QED
            BY <1>6, <2>1, <2>3, <3>1, <3>2, <3>3 DEF PushersOwn
    <2>8. PoppersSaw'
        <3> SUFFICES ASSUME NEW u \in Callers, Popping(u)'
                     PROVE  /\ loc'[u].born <= mem'.reborn[loc'[u].node]
                            /\ loc'[u].born = mem'.reborn[loc'[u].node] =>
                                /\ \A v \in Callers : Pushing(v)' => loc'[v].node # loc'[u].node
                                /\ label'[u] = "pop.cas" /\ loc'[u].node \in mem'.alive =>
                                      loc'[u].next = mem'.next[loc'[u].node]
            BY DEF PoppersSaw
        <3>1. u # t /\ Popping(u) /\ loc'[u] = loc[u] /\ label'[u] = label[u]
            BY <1>6
        <3>2. loc[u].node \in Nodes
            BY <3>1 DEF StackInv, StackTypes, StackLocals, Popping
        <3>3. loc[u].node \in mem'.alive => loc[u].node \in mem.alive
            BY <1>7, <2>1, <3>2, StackAssumption DEF CountsHold
        <3> QED
            BY <1>6, <1>7, <2>1, <3>1, <3>3 DEF PoppersSaw
    <2> QED
        BY <2>6, <2>7, <2>8
<1>10. ASSUME Counting
       PROVE  ~mem.aba /\ CountsHold'
    <2>1. ~mem.aba /\ CountsHold
        BY <1>10 DEF StackInv
    <2> QED
        BY <1>4, <1>6, <1>7, <1>10, <2>1 DEF CountsHold, CountsAgree
<1> QED
    BY <1>5, <1>7, <1>8, <1>9, <1>10 DEF StackInv, Counting, StepOf

LEMMA PopSwapsKeeps ==
    ASSUME StackInv, ~mem.broken, NEW t \in Callers, PopSwaps(t)
    PROVE  StackInv'
<1> DEFINE n == loc[t].node
           aba == n \notin mem.alive \/ loc[t].born # mem.reborn[n]
           abs == IF mem.abs = <<>> THEN mem.abs ELSE Tail(mem.abs)
           broken == mem.broken \/ n \notin mem.alive \/ loc[t].next = Wild
           alive == IF Counting THEN mem.alive ELSE mem.alive \ {n}
           m == [mem EXCEPT !.head = loc[t].next, !.abs = abs,
                            !.aba = @ \/ aba, !.broken = broken, !.alive = alive]
<1>1. /\ Settle(m, [loc EXCEPT ![t] = StackLoc]) /\ (Jump(t, "idle") \/ Return(t))
      /\ label[t] = "pop.cas" /\ label'[t] = "idle" /\ mem.head = n
    BY DEF PopSwaps, Return, Jump, Reached, Counting, StackInv, StackTypes
<1>2. /\ mem \in StackMemory /\ loc[t] \in StackLocals /\ n \in Nodes /\ n # 0
      /\ StackLoc \in StackLocals /\ Popping(t)
    BY <1>1, StackAssumption DEF StackInv, StackTypes, StackLoc, StackLocals, Popping
<1>3. /\ m.next = mem.next /\ m.head = loc[t].next /\ m.reborn = mem.reborn
      /\ m.abs = abs /\ m.aba = (mem.aba \/ aba) /\ m.broken = broken
      /\ m.alive = alive /\ m \in StackMemory
    <2>1. abs \in Seq(Nodes) /\ alive \in SUBSET Nodes /\ loc[t].next \in Nodes \cup {0, Wild}
          /\ aba \in BOOLEAN /\ broken \in BOOLEAN /\ mem.aba \in BOOLEAN
        BY <1>2 DEF StackMemory, StackLocals
    <2> HIDE DEF abs, aba, broken, alive
    <2> QED
        BY <1>2, <2>1 DEF StackMemory
<1> HIDE DEF m
<1>4. Counting => loc[t].next # Wild
    BY HeadIsAlive
<1>5. /\ mem' \in StackMemory /\ loc' \in [Callers -> StackLocals]
      /\ loc'[t] = StackLoc /\ \A u \in Callers \ {t} : loc'[u] = loc[u]
      /\ mem'.head = m.head /\ mem'.next = m.next /\ mem'.reborn = m.reborn
      /\ mem'.abs = m.abs /\ mem'.aba = m.aba /\ mem'.broken = m.broken
      /\ ~Counting => mem'.alive = m.alive
      /\ Counting => CountsAgree
    BY <1>1, <1>2, <1>3, <1>4, StackAssumption, SettlesWell DEF StackLoc
<1>6. StepOf(t)
    <2>1. "idle" \in StackLabels /\ todo[t] # <<>>
        BY <1>1 DEF StackLabels, StackInv, StackTypes
    <2> QED
        BY <1>1, <1>5, <2>1, CallsStay DEF StepOf
<1>7. /\ \A u \in Callers \ {t} : loc'[u] = loc[u] /\ label'[u] = label[u]
      /\ \A u \in Callers : Pushing(u)' => u # t /\ Pushing(u)
      /\ \A u \in Callers : Popping(u)' => u # t /\ Popping(u)
    BY <1>1, <1>6 DEF StepOf, Pushing, Popping
<1>8. StackTypes'
    <2>1. mem'.head = Wild => mem'.broken
        BY <1>3, <1>5
    <2>2. \A u \in Callers : Pushing(u)' \/ label'[u] = "pop.cas" => loc'[u].node \in Nodes
        BY <1>1, <1>7 DEF StackInv, StackTypes
    <2> QED
        BY <1>5, <1>6, <2>1, <2>2 DEF StackInv, StackTypes, Is, StepOf
<1>9. Counting => ~mem.aba /\ ~aba
    BY <1>2, StackAssumption DEF StackInv, CountsHold
<1>10. ASSUME ~mem'.aba
       PROVE  (StackIsLinked /\ PushersOwn /\ PoppersSaw)'
    <2>1. ~mem.aba /\ ~aba
        BY <1>3, <1>5, <1>10
    <2>2. /\ StackIsLinked /\ PushersOwn /\ PoppersSaw
          /\ Counting => CountsHold
          /\ mem.abs \in Seq(Nodes)
        BY <1>2, <2>1 DEF StackInv, StackMemory
    <2>3. mem.abs # <<>> /\ n = Head(mem.abs) /\ n \in Range(mem.abs)
        BY <1>1, <1>2, <2>1, HeadIsAlive
    <2>4. loc[t].next = mem.next[n] /\ loc[t].next # Wild
        <3>1. loc[t].next = mem.next[n]
            BY <1>1, <1>2, <2>1, <2>2 DEF PoppersSaw
        <3> QED
            BY <1>2, <3>1, StackAssumption DEF StackMemory
    <2>5. /\ mem'.head = mem.next[n] /\ mem'.next = mem.next /\ mem'.reborn = mem.reborn
          /\ mem'.abs = Tail(mem.abs) /\ ~mem'.broken
          /\ ~Counting => mem'.alive = mem.alive \ {n}
        BY <1>3, <1>5, <2>1, <2>3, <2>4
    <2>6. /\ mem'.abs \in Seq(Nodes) /\ IsInjective(mem'.abs)
          /\ Range(mem'.abs) = Range(mem.abs) \ {n}
        BY <2>2, <2>3, <2>5, TailFacts DEF StackIsLinked
    <2>7. Linked(mem'.head, mem'.next, mem'.abs)
        BY <1>1, <2>2, <2>3, <2>5, LinkPopped DEF StackIsLinked
    <2>8. Range(mem'.abs) \subseteq mem'.alive
        <3>1. CASE Counting
            <4>1. /\ mem'.head \in mem'.alive \cup {0}
                  /\ \A k \in mem'.alive : mem'.next[k] \in mem'.alive \cup {0}
                BY <1>5, <3>1 DEF CountsAgree
            <4> QED
                BY ONLY <2>6, <2>7, <4>1, ChainIsInside
        <3>2. CASE ~Counting
            BY <2>2, <2>5, <2>6, <3>2 DEF StackIsLinked
        <3> QED
            BY <3>1, <3>2
    <2>9. StackIsLinked'
        BY <2>5, <2>6, <2>7, <2>8 DEF StackIsLinked
    <2>10. PushersOwn'
        <3> SUFFICES ASSUME NEW u \in Callers, Pushing(u)'
                     PROVE  /\ loc'[u].node \in mem'.alive \ Range(mem'.abs)
                            /\ \A v \in Callers \ {u} : Pushing(v)' => loc'[v].node # loc'[u].node
            BY DEF PushersOwn
        <3>1. u # t /\ Pushing(u) /\ loc'[u] = loc[u]
            BY <1>7
        <3>2. loc[u].node # n /\ loc[u].node \notin Range(mem.abs) /\ loc[u].node \in mem.alive
            BY <2>2, <2>3, <3>1 DEF PushersOwn
        <3>3. loc[u].node \in mem'.alive
            <4>1. loc[u].node \in Nodes /\ loc[u].node # 0
                BY <3>1, StackAssumption DEF StackInv, StackTypes
            <4> QED
                BY <1>5, <2>5, <3>1, <3>2, <4>1 DEF CountsAgree
        <3> QED
            BY <1>7, <2>2, <2>6, <3>1, <3>2, <3>3 DEF PushersOwn
    <2>11. PoppersSaw'
        <3> SUFFICES ASSUME NEW u \in Callers, Popping(u)'
                     PROVE  /\ loc'[u].born <= mem'.reborn[loc'[u].node]
                            /\ loc'[u].born = mem'.reborn[loc'[u].node] =>
                                /\ \A v \in Callers : Pushing(v)' => loc'[v].node # loc'[u].node
                                /\ label'[u] = "pop.cas" /\ loc'[u].node \in mem'.alive =>
                                      loc'[u].next = mem'.next[loc'[u].node]
            BY DEF PoppersSaw
        <3>1. u # t /\ Popping(u) /\ loc'[u] = loc[u] /\ label'[u] = label[u]
            BY <1>7
        <3>2. loc[u].node \in Nodes
            BY <3>1 DEF StackInv, StackTypes, StackLocals, Popping
        <3>3. loc[u].node \in mem'.alive => loc[u].node \in mem.alive
            BY <2>2, <2>5, <3>2, StackAssumption DEF CountsHold
        <3> QED
            BY <1>7, <2>2, <2>5, <3>1, <3>3 DEF PoppersSaw
    <2> QED
        BY <2>9, <2>10, <2>11
<1>11. ASSUME Counting
       PROVE  ~mem'.aba /\ CountsHold'
    <2>1. ~mem.aba /\ CountsHold
        BY <1>11 DEF StackInv
    <2>2. ~mem'.aba
        BY <1>3, <1>5, <1>9, <1>11
    <2>3. \A u \in Callers : Popping(u)' => loc'[u].born = mem'.reborn[loc'[u].node]
        BY <1>3, <1>5, <1>7, <2>1 DEF CountsHold
    <2> QED
        BY <1>5, <1>11, <2>2, <2>3 DEF CountsHold, CountsAgree
<1> QED
    BY <1>6, <1>8, <1>10, <1>11 DEF StackInv, Counting, StepOf

(* A thread that pops loads the head, or leaves without a node. *)
LEMMA HeadIsSeen ==
    ASSUME StackInv, ~mem.broken, NEW t \in Callers, StepOf(t), AliveAgrees,
           \/ label'[t] = "pop.next" /\ loc'[t] = HeldNode(mem.head)
           \/ label'[t] = "idle" /\ loc'[t] = loc[t],
           mem'.next = mem.next, mem'.head = mem.head, mem'.reborn = mem.reborn,
           mem'.abs = mem.abs, mem'.aba = mem.aba, mem'.broken = mem.broken
    PROVE  StackInv'
<1>1. /\ mem.next \in [Nodes -> Nodes \cup {0}] /\ mem.abs \in Seq(Nodes)
      /\ mem.alive \subseteq Nodes /\ mem.reborn \in [Nodes -> Nat]
      /\ mem.head \in Nodes \cup {0}
    BY HeadIsAlive DEF StackInv, StackTypes, StackMemory
<1>2. /\ \A u \in Callers \ {t} : loc'[u] = loc[u] /\ label'[u] = label[u]
      /\ \A u \in Callers : Pushing(u)' => u # t /\ Pushing(u)
      /\ \A u \in Callers \ {t} : Popping(u)' => Popping(u)
    BY DEF StepOf, Pushing, Popping
<1>3. Popping(t)' => /\ loc'[t].node = mem.head /\ mem.head \in Nodes
                     /\ loc'[t].born = mem.reborn[mem.head] /\ label'[t] # "pop.cas"
    BY <1>1 DEF Popping, HeldNode
<1>4. StackTypes'
    <2>1. \A u \in Callers : Pushing(u)' \/ label'[u] = "pop.cas" => loc'[u].node \in Nodes
        BY <1>2 DEF StackInv, StackTypes
    <2> QED
        BY <2>1 DEF StackInv, StackTypes, Is, StepOf
<1>5. ASSUME ~mem.aba
      PROVE  (StackIsLinked /\ PushersOwn /\ PoppersSaw)'
    <2>1. /\ StackIsLinked /\ PushersOwn /\ PoppersSaw
          /\ Counting => CountsHold
        BY <1>5 DEF StackInv
    <2>2. Linked(mem'.head, mem'.next, mem'.abs)
        BY <2>1 DEF StackIsLinked
    <2>3. StackIsLinked'
        <3>1. Range(mem'.abs) \subseteq mem'.alive
            <4>1. CASE Counting
                <5>1. /\ mem'.abs \in Seq(Nodes) /\ mem'.head \in mem'.alive \cup {0}
                      /\ \A k \in mem'.alive : mem'.next[k] \in mem'.alive \cup {0}
                    BY <1>1, <4>1 DEF AliveAgrees, CountsAgree
                <5> QED
                    BY ONLY <2>2, <5>1, ChainIsInside
            <4>2. CASE ~Counting
                BY <2>1, <4>2 DEF AliveAgrees, StackIsLinked
            <4> QED
                BY <4>1, <4>2
        <3> QED
            BY <2>1, <2>2, <3>1 DEF StackIsLinked
    <2>4. PushersOwn'
        <3> SUFFICES ASSUME NEW u \in Callers, Pushing(u)'
                     PROVE  /\ loc'[u].node \in mem'.alive \ Range(mem'.abs)
                            /\ \A v \in Callers \ {u} : Pushing(v)' => loc'[v].node # loc'[u].node
            BY DEF PushersOwn
        <3>1. u # t /\ Pushing(u) /\ loc'[u] = loc[u]
            BY <1>2
        <3>2. loc[u].node \in mem'.alive
            <4>1. loc[u].node \in Nodes /\ loc[u].node # 0
                BY <3>1, StackAssumption DEF StackInv, StackTypes
            <4> QED
                BY <2>1, <3>1, <4>1 DEF AliveAgrees, CountsAgree, PushersOwn
        <3> QED
            BY <1>2, <2>1, <3>1, <3>2 DEF PushersOwn
    <2>5. PoppersSaw'
        <3> SUFFICES ASSUME NEW u \in Callers, Popping(u)'
                     PROVE  /\ loc'[u].born <= mem'.reborn[loc'[u].node]
                            /\ loc'[u].born = mem'.reborn[loc'[u].node] =>
                                /\ \A v \in Callers : Pushing(v)' => loc'[v].node # loc'[u].node
                                /\ label'[u] = "pop.cas" /\ loc'[u].node \in mem'.alive =>
                                      loc'[u].next = mem'.next[loc'[u].node]
            BY DEF PoppersSaw
        <3>1. CASE u = t
            <4>1. mem.head \in Range(mem.abs)
                BY <1>3, <1>5, <3>1, HeadIsAlive, StackAssumption
            <4>2. \A v \in Callers : Pushing(v)' => loc'[v].node # mem.head
                BY <1>2, <2>1, <4>1 DEF PushersOwn
            <4> QED
                BY <1>1, <1>3, <3>1, <4>2
        <3>2. CASE u # t
            <4>1. Popping(u) /\ loc'[u] = loc[u] /\ label'[u] = label[u]
                BY <1>2, <3>2
            <4>2. loc[u].node \in Nodes
                BY <4>1 DEF StackInv, StackTypes, StackLocals, Popping
            <4>3. loc[u].node \in mem'.alive => loc[u].node \in mem.alive
                BY <2>1, <4>2, StackAssumption DEF AliveAgrees, CountsHold
            <4> QED
                BY <1>2, <2>1, <4>1, <4>3 DEF PoppersSaw
        <3> QED
            BY <3>1, <3>2
    <2> QED
        BY <2>3, <2>4, <2>5
<1>6. ASSUME Counting
      PROVE  ~mem.aba /\ CountsHold'
    <2>1. ~mem.aba /\ CountsHold
        BY <1>6 DEF StackInv
    <2>2. \A u \in Callers : Popping(u)' => loc'[u].born = mem'.reborn[loc'[u].node]
        BY <1>2, <1>3, <2>1 DEF CountsHold
    <2> QED
        BY <1>6, <2>1, <2>2 DEF CountsHold, AliveAgrees, CountsAgree
<1> QED
    BY <1>4, <1>5, <1>6 DEF StackInv, Counting, StepOf

(* A step that leaves the memory alone leaves it as counted. *)
LEMMA SameIsCounted ==
    ASSUME StackInv, ~mem.broken, mem' = mem, NEW t \in Callers,
           \A u \in Callers \ {t} : loc'[u] = loc[u],
           Counting => {loc'[t].node, loc'[t].next} \subseteq mem.alive \cup {0}
    PROVE  AliveAgrees
<1>1. Counting => mem.head \in mem.alive \cup {0} /\ CountsHold
    BY HeadIsAlive DEF StackInv
<1> QED
    BY <1>1 DEF AliveAgrees, CountsAgree, CountsHold

LEMMA HeldFacts ==
    ASSUME StackInv, ~mem.broken
    PROVE  /\ HeldNode(mem.head) \in StackLocals
           /\ HeldNode(mem.head).node = mem.head /\ HeldNode(mem.head).next = 0
<1>1. mem.head \in Nodes \cup {0} /\ mem.reborn \in [Nodes -> Nat]
    BY HeadIsAlive DEF StackInv, StackTypes, StackMemory
<1> QED
    BY <1>1 DEF HeldNode, StackLocals

LEMMA PopKeeps ==
    ASSUME StackInv, ~mem.broken, NEW t \in Callers, Pop(t)
    PROVE  StackInv'
<1>1. /\ loc' = [loc EXCEPT ![t] = HeldNode(mem.head)] /\ mem' = mem
      /\ Jump(t, "pop.next") /\ label'[t] = "pop.next" /\ todo[t] # <<>>
    BY DEF Pop, Jump, Calls, StackInv, StackTypes
<1>2. /\ loc' \in [Callers -> StackLocals] /\ loc'[t] = HeldNode(mem.head)
      /\ \A u \in Callers \ {t} : loc'[u] = loc[u]
    BY <1>1, HeldFacts DEF StackInv, StackTypes
<1>3. StepOf(t)
    <2>1. "pop.next" \in StackLabels
        BY DEF StackLabels
    <2>2. mem' \in StackMemory
        BY <1>1 DEF StackInv, StackTypes
    <2> QED
        BY <1>1, <1>2, <2>1, <2>2, CallsStay DEF StepOf
<1>4. Counting => {loc'[t].node, loc'[t].next} \subseteq mem.alive \cup {0}
    BY <1>2, HeldFacts, HeadIsAlive DEF StackInv
<1>5. AliveAgrees
    BY <1>1, <1>2, <1>4, SameIsCounted
<1> QED
    BY <1>1, <1>2, <1>3, <1>5, HeadIsSeen

LEMMA PopFailsKeeps ==
    ASSUME StackInv, ~mem.broken, NEW t \in Callers, PopFails(t)
    PROVE  StackInv'
<1>1. /\ Settle(mem, [loc EXCEPT ![t] = HeldNode(mem.head)])
      /\ Jump(t, "pop.next") /\ label'[t] = "pop.next" /\ todo[t] # <<>>
    BY DEF PopFails, Jump, Reached, StackInv, StackTypes
<1>2. mem \in StackMemory /\ (Counting => mem.head # Wild /\ HeldNode(mem.head).next # Wild)
    BY HeadIsAlive, HeldFacts, StackAssumption DEF StackInv, StackTypes
<1>3. /\ mem' \in StackMemory /\ loc' \in [Callers -> StackLocals]
      /\ loc'[t] = HeldNode(mem.head) /\ \A u \in Callers \ {t} : loc'[u] = loc[u]
      /\ mem'.head = mem.head /\ mem'.next = mem.next /\ mem'.reborn = mem.reborn
      /\ mem'.abs = mem.abs /\ mem'.aba = mem.aba /\ mem'.broken = mem.broken
      /\ ~Counting => mem'.alive = mem.alive
      /\ Counting => CountsAgree
    BY <1>1, <1>2, HeldFacts, SettlesWell
<1>4. StepOf(t)
    <2>1. "pop.next" \in StackLabels
        BY DEF StackLabels
    <2> QED
        BY <1>1, <1>3, <2>1, CallsStay DEF StepOf
<1>5. AliveAgrees
    BY <1>3 DEF AliveAgrees
<1> QED
    BY <1>1, <1>3, <1>4, <1>5, HeadIsSeen

LEMMA PopEmptyKeeps ==
    ASSUME StackInv, ~mem.broken, NEW t \in Callers, PopEmpty(t)
    PROVE  StackInv'
<1>1. /\ loc' = loc /\ mem' = mem /\ Return(t) /\ label'[t] = "idle" /\ todo[t] # <<>>
    BY DEF PopEmpty, Return, Calls, Reached, StackInv, StackTypes
<1>2. StepOf(t)
    <2>1. mem' \in StackMemory /\ loc' \in [Callers -> StackLocals]
        BY <1>1 DEF StackInv, StackTypes
    <2> QED
        BY <1>1, <2>1, CallsStay DEF StepOf
<1>3. AliveAgrees
    <2>1. Counting => {loc'[t].node, loc'[t].next} \subseteq mem.alive \cup {0}
        BY <1>1 DEF StackInv, CountsHold
    <2> QED
        BY <1>1, <2>1, SameIsCounted
<1> QED
    BY <1>1, <1>2, <1>3, HeadIsSeen

LEMMA PopNextKeeps ==
    ASSUME StackInv, ~mem.broken, NEW t \in Callers, PopNext(t)
    PROVE  StackInv'
<1> DEFINE n == loc[t].node
<1>1. PICK x \in {mem.next[n]} \cup (IF n \in mem.alive THEN {} ELSE {Wild}) :
          loc' = [loc EXCEPT ![t].next = x]
    BY DEF PopNext
<1>2. /\ mem' = mem /\ n \in Nodes /\ label[t] = "pop.next" /\ n # 0
      /\ Jump(t, "pop.cas") /\ label'[t] = "pop.cas" /\ todo[t] # <<>>
    BY StackAssumption DEF PopNext, Jump, Reached, StackInv, StackTypes
<1>3. /\ mem.next \in [Nodes -> Nodes \cup {0}] /\ mem.alive \subseteq Nodes
      /\ mem \in StackMemory /\ loc \in [Callers -> StackLocals]
    BY DEF StackInv, StackTypes, StackMemory
<1>4. /\ loc' \in [Callers -> StackLocals] /\ \A u \in Callers \ {t} : loc'[u] = loc[u]
      /\ loc'[t].node = n /\ loc'[t].born = loc[t].born /\ loc'[t].next = x
    <2>1. x \in Nodes \cup {0, Wild}
        BY <1>2, <1>3
    <2> DEFINE l == [loc[t] EXCEPT !.next = x]
    <2>2. l \in StackLocals /\ l.node = n /\ l.born = loc[t].born /\ l.next = x
        BY <1>3, <2>1 DEF StackLocals
    <2>3. loc' = [loc EXCEPT ![t] = l]
        BY <1>1
    <2> HIDE DEF l
    <2> QED
        BY <1>3, <2>2, <2>3
<1>5. StepOf(t)
    <2>1. "pop.cas" \in StackLabels
        BY DEF StackLabels
    <2> QED
        BY <1>2, <1>3, <1>4, <2>1, CallsStay DEF StepOf
<1>6. /\ \A u \in Callers \ {t} : loc'[u] = loc[u] /\ label'[u] = label[u]
      /\ \A u \in Callers : Pushing(u)' => u # t /\ Pushing(u)
      /\ \A u \in Callers : Popping(u)' => Popping(u)
      /\ \A u \in Callers : loc'[u].node = loc[u].node /\ loc'[u].born = loc[u].born
    BY <1>2, <1>4, <1>5 DEF StepOf, Pushing, Popping
<1>7. StackTypes'
    <2>1. \A u \in Callers : Pushing(u)' \/ label'[u] = "pop.cas" => loc'[u].node \in Nodes
        BY <1>2, <1>6 DEF StackInv, StackTypes
    <2> QED
        BY <1>2, <1>5, <2>1 DEF StackInv, StackTypes, Is, StepOf
<1>8. ASSUME ~mem.aba
      PROVE  (StackIsLinked /\ PushersOwn /\ PoppersSaw)'
    <2>1. StackIsLinked /\ PushersOwn /\ PoppersSaw
        BY <1>8 DEF StackInv
    <2>2. StackIsLinked'
        BY <1>2, <2>1 DEF StackIsLinked
    <2>3. PushersOwn'
        BY <1>2, <1>6, <2>1 DEF PushersOwn
    <2>4. PoppersSaw'
        BY <1>1, <1>2, <1>4, <1>6, <2>1 DEF PoppersSaw
    <2> QED
        BY <2>2, <2>3, <2>4
<1>9. ASSUME Counting
      PROVE  ~mem.aba /\ CountsHold'
    <2>1. ~mem.aba /\ CountsHold
        BY <1>9 DEF StackInv
    <2>2. n \in mem.alive
        BY <1>2, <2>1 DEF CountsHold
    <2>3. x \in mem.alive \cup {0}
        BY <1>1, <2>1, <2>2 DEF CountsHold
    <2> QED
        BY <1>2, <1>4, <1>6, <2>1, <2>2, <2>3 DEF CountsHold
<1> QED
    BY <1>2, <1>5, <1>7, <1>8, <1>9 DEF StackInv, Counting, StepOf

(* Only nodes that are not counted are allocated for something else. *)
LEMMA NewNodeKeeps ==
    ASSUME StackInv, ~mem.broken, NEW t \in Callers, NewNode(t)
    PROVE  StackInv'
<1>1. PICK n \in Nodes \ mem.alive :
          mem' = [Allocated(n) EXCEPT !.spare = n]
    BY DEF NewNode
<1>2. /\ Return(t) /\ label[t] = "idle" /\ label'[t] = "idle" /\ loc' = loc
      /\ todo[t] # <<>> /\ Head(todo[t])[1] = "new"
    BY DEF NewNode, Return, Calls, StackInv, StackTypes
<1>3. ~Counting
    <2>1. Head(todo[t]) \in StackCalls(t, sample.variant)
        BY <1>2 DEF StackInv, StackTypes
    <2> QED
        BY <1>2, <2>1 DEF StackCalls, Counting
<1>4. /\ mem'.head = mem.head /\ mem'.abs = mem.abs /\ mem'.aba = mem.aba
      /\ mem'.broken = mem.broken /\ mem'.alive = mem.alive \cup {n}
      /\ mem'.next = [mem.next EXCEPT ![n] = 0]
      /\ mem'.reborn = [mem.reborn EXCEPT ![n] = @ + 1] /\ mem' \in StackMemory
    <2>1. mem \in StackMemory
        BY DEF StackInv, StackTypes
    <2> DEFINE alive == mem.alive \cup {n}
               reborn == [mem.reborn EXCEPT ![n] = @ + 1]
               next == [mem.next EXCEPT ![n] = 0]
    <2>2. alive \in SUBSET Nodes /\ reborn \in [Nodes -> Nat] /\ next \in [Nodes -> Nodes \cup {0}]
        BY <2>1 DEF StackMemory
    <2> DEFINE new == Allocated(n)
    <2>3. new = [mem EXCEPT !.alive = alive, !.reborn = reborn, !.next = next]
          /\ mem' = [new EXCEPT !.spare = n]
        BY <1>1 DEF Allocated
    <2>4. /\ new.alive = alive /\ new.reborn = reborn /\ new.next = next
          /\ new.head = mem.head /\ new.abs = mem.abs /\ new.aba = mem.aba
          /\ new.broken = mem.broken /\ new \in StackMemory
        <3> HIDE DEF alive, reborn, next, new
        <3> QED
            BY <2>1, <2>2, <2>3 DEF StackMemory
    <2>5. /\ mem'.alive = alive /\ mem'.reborn = reborn /\ mem'.next = next
          /\ mem'.head = mem.head /\ mem'.abs = mem.abs /\ mem'.aba = mem.aba
          /\ mem'.broken = mem.broken /\ mem' \in StackMemory
        <3> HIDE DEF alive, reborn, next, new
        <3> QED
            BY <2>3, <2>4 DEF StackMemory
    <2> QED
        BY <2>4, <2>5
<1>5. StepOf(t)
    <2>1. loc' \in [Callers -> StackLocals]
        BY <1>2 DEF StackInv, StackTypes
    <2> QED
        BY <1>2, <1>4, <2>1, CallsStay DEF StepOf
<1>6. /\ \A u \in Callers : Popping(u)' => u # t /\ Popping(u)
      /\ \A u \in Callers : Pushing(u)' => u # t /\ Pushing(u)
      /\ \A u \in Callers \ {t} : label'[u] = label[u]
    BY <1>2, <1>5 DEF StepOf, Popping, Pushing
<1>7. StackTypes'
    <2>1. \A u \in Callers : Pushing(u)' \/ label'[u] = "pop.cas" => loc'[u].node \in Nodes
        BY <1>2, <1>6 DEF StackInv, StackTypes
    <2> QED
        BY <1>4, <1>5, <2>1 DEF StackInv, StackTypes, Is, StepOf
<1>8. ASSUME ~mem.aba
      PROVE  (StackIsLinked /\ PushersOwn /\ PoppersSaw)'
    <2>1. StackIsLinked /\ PushersOwn /\ PoppersSaw
        BY <1>8 DEF StackInv
    <2>2. StackIsLinked'
        <3>1. mem.abs \in Seq(Nodes) /\ \A k \in Range(mem.abs) : mem'.next[k] = mem.next[k]
            BY <1>4, <2>1 DEF StackIsLinked, StackInv, StackTypes, StackMemory
        <3>2. Linked(mem.head, mem'.next, mem.abs)
            BY <2>1, <3>1, LinkKept DEF StackIsLinked
        <3> QED
            BY <1>4, <2>1, <3>2 DEF StackIsLinked
    <2>3. PushersOwn'
        BY <1>2, <1>4, <1>6, <2>1 DEF PushersOwn
    <2>4. PoppersSaw'
        <3> SUFFICES ASSUME NEW u \in Callers, Popping(u)'
                     PROVE  /\ loc[u].born <= mem'.reborn[loc[u].node]
                            /\ loc[u].born = mem'.reborn[loc[u].node] =>
                                /\ \A v \in Callers : Pushing(v)' => loc[v].node # loc[u].node
                                /\ label'[u] = "pop.cas" /\ loc[u].node \in mem'.alive =>
                                      loc[u].next = mem'.next[loc[u].node]
            BY <1>2 DEF PoppersSaw
        <3>1. u # t /\ Popping(u) /\ label'[u] = label[u]
            BY <1>6
        <3>2. loc[u].node \in Nodes /\ loc[u].born \in Nat /\ mem.reborn \in [Nodes -> Nat]
            BY <3>1 DEF StackInv, StackTypes, StackLocals, StackMemory, Popping
        <3>3. CASE loc[u].node = n
            BY <1>4, <2>1, <3>1, <3>2, <3>3 DEF PoppersSaw
        <3>4. CASE loc[u].node # n
            <4>1. /\ mem'.reborn[loc[u].node] = mem.reborn[loc[u].node]
                  /\ loc[u].node \in mem'.alive => loc[u].node \in mem.alive
                  /\ mem'.next[loc[u].node] = mem.next[loc[u].node]
                BY <1>4, <3>2, <3>4 DEF StackInv, StackTypes, StackMemory
            <4> QED
                BY <1>4, <1>6, <2>1, <3>1, <4>1 DEF PoppersSaw
        <3> QED
            BY <3>3, <3>4
    <2> QED
        BY <2>2, <2>3, <2>4
<1> QED
    BY <1>3, <1>4, <1>5, <1>7, <1>8 DEF StackInv, Counting, StepOf

LEMMA StackStart == StackInit => StackInv
<1> SUFFICES ASSUME StackInit
             PROVE  StackInv
    OBVIOUS
<1>1. PICK variant \in {"manual", "counted"}, n \in Nat :
          /\ 1 .. n \subseteq Nodes
          /\ Begun("stack", variant, StackMem(n), StackLoc)
    BY DEF StackInit
<1>2. /\ sample = [name |-> "stack", variant |-> variant] /\ mem = StackMem(n)
      /\ label = [t \in Callers |-> "idle"] /\ loc = [t \in Callers |-> StackLoc]
    BY <1>1 DEF Begun
<1> DEFINE abs == [i \in 1 .. n |-> n + 1 - i]
           next == [k \in Nodes |-> IF k \in 1 .. n THEN k - 1 ELSE 0]
           reborn == [k \in Nodes |-> 0]
<1>3. /\ abs \in Seq(Nodes) /\ Len(abs) = n /\ DOMAIN abs = 1 .. n
      /\ \A i \in 1 .. n : abs[i] = n + 1 - i
    <2>1. \A i \in 1 .. n : n + 1 - i \in 1 .. n
        OBVIOUS
    <2> QED
        BY <1>1, <2>1
<1>4. next \in [Nodes -> Nodes \cup {0}] /\ reborn \in [Nodes -> Nat]
    <2>1. \A k \in 1 .. n : k - 1 \in 1 .. n \cup {0}
        OBVIOUS
    <2> QED
        BY <1>1, <2>1
<1>5. Linked(n, next, abs)
    <2>1. /\ \A i \in 1 .. n : Append(abs, 0)[i] = n + 1 - i
          /\ Append(abs, 0)[n + 1] = 0
        BY <1>3
    <2>2. Append(abs, 0)[1] = n
        <3>1. CASE n = 0
            BY <2>1, <3>1
        <3>2. CASE n # 0
            BY <2>1, <3>2
        <3> QED
            BY <3>1, <3>2
    <2>3. ASSUME NEW i \in 1 .. n
          PROVE  next[abs[i]] = Append(abs, 0)[i + 1]
        <3>1. abs[i] = n + 1 - i /\ n + 1 - i \in 1 .. n
            BY <1>3
        <3>2. next[abs[i]] = n - i
            BY <1>1, <3>1
        <3>3. CASE i = n
            BY <2>1, <3>2, <3>3
        <3>4. CASE i # n
            <4>1. i + 1 \in 1 .. n
                BY <3>4
            <4> QED
                BY <2>1, <3>2, <4>1
        <3> QED
            BY <3>3, <3>4
    <2> HIDE DEF abs, next
    <2> QED
        BY <1>3, <2>2, <2>3 DEF Linked
<1>6. IsInjective(abs) /\ Range(abs) \subseteq 1 .. n
    <2>1. \A i, j \in 1 .. n : abs[i] = abs[j] => i = j
        BY <1>3
    <2>2. \A i \in 1 .. n : abs[i] \in 1 .. n
        BY <1>3
    <2> HIDE DEF abs
    <2> QED
        BY <1>3, <2>1, <2>2 DEF IsInjective, Range
<1>7. /\ mem.head = n /\ mem.next = next /\ mem.alive = 1 .. n /\ mem.reborn = reborn
      /\ mem.abs = abs /\ mem.spare = 0 /\ mem.aba = FALSE /\ mem.broken = FALSE
    BY <1>2 DEF StackMem
<1>8. mem \in StackMemory
    <2>1. n \in Nodes \cup {0}
        BY <1>1
    <2>2. mem = [head |-> n, next |-> next, alive |-> 1 .. n, reborn |-> reborn, abs |-> abs,
                 spare |-> 0, aba |-> FALSE, broken |-> FALSE]
        BY <1>2 DEF StackMem
    <2> HIDE DEF abs, next, reborn
    <2> QED
        BY <1>1, <1>3, <1>4, <2>1, <2>2 DEF StackMemory
<1>9. \A t \in Callers : /\ label[t] = "idle" /\ loc[t] = StackLoc
                         /\ ~Pushing(t) /\ ~Popping(t)
    BY <1>2 DEF Pushing, Popping
<1>10. StackTypes
    <2>1. \A t \in Callers : todo[t] \in Seq(StackCalls(t, sample.variant))
        BY DEF StackInit
    <2>2. n # Wild
        BY <1>1, StackAssumption
    <2>3. loc \in [Callers -> StackLocals]
        BY <1>2 DEF StackLocals, StackLoc
    <2>4. label \in [Callers -> StackLabels]
        BY <1>2 DEF StackLabels
    <2> QED
        BY <1>2, <1>7, <1>8, <1>9, <2>1, <2>2, <2>3, <2>4 DEF StackTypes, Is, StackInit
<1>11. StackIsLinked /\ PushersOwn /\ PoppersSaw
    <2> HIDE DEF abs, next, reborn
    <2> QED
        BY <1>5, <1>6, <1>7, <1>9 DEF StackIsLinked, PushersOwn, PoppersSaw
<1>12. CountsHold
    <2>1. \A k \in 1 .. n : next[k] \in 1 .. n \cup {0}
        BY <1>1
    <2> HIDE DEF next
    <2> QED
        BY <1>7, <1>9, <2>1 DEF CountsHold, StackLoc
<1> QED
    BY <1>7, <1>10, <1>11, <1>12 DEF StackInv

LEMMA StackInvariant == StackSpec => []StackInv
<1>1. StackInv /\ [StackNext]_sampleVars => StackInv'
    <2> SUFFICES ASSUME StackInv, [StackNext]_sampleVars
                 PROVE  StackInv'
        OBVIOUS
    <2>1. ASSUME ~mem.broken, NEW t \in Callers,
                 NewNode(t) \/ Push(t) \/ PushLoad(t) \/ PushSwaps(t) \/ PushFails(t)
          PROVE  StackInv'
        BY <2>1, NewNodeKeeps, StackPushKeeps, PushLoadKeeps, PushSwapsKeeps, PushFailsKeeps
    <2>2. ASSUME ~mem.broken, NEW t \in Callers,
                 Pop(t) \/ PopEmpty(t) \/ PopNext(t) \/ PopSwaps(t) \/ PopFails(t)
          PROVE  StackInv'
        BY <2>2, PopKeeps, PopEmptyKeeps, PopNextKeeps, PopSwapsKeeps, PopFailsKeeps
    <2>3. CASE UNCHANGED sampleVars
        BY <2>3 DEF sampleVars, StackInv, StackTypes, Is, StackIsLinked, PushersOwn, PoppersSaw,
               CountsHold, Counting, Pushing, Popping
    <2> QED
        BY <2>1, <2>2, <2>3 DEF StackNext
<1> QED
    BY <1>1, StackStart, PTL DEF StackSpec

(* Any threads pushing and popping: until an exchange takes an address for *)
(* the node that lived there before, the stack is what the calls built and *)
(* none of its nodes is freed.  With counted references none ever does, and*)
(* no thread holds a freed node.                                           *)
THEOREM StackStaysIntact ==
    StackSpec => []StackIsIntact
<1>1. StackInv => StackIsIntact
    <2> SUFFICES ASSUME StackInv
                 PROVE  StackIsIntact
        OBVIOUS
    <2>1. ASSUME ~mem.aba
          PROVE  /\ Linked(mem.head, mem.next, mem.abs) /\ ~mem.broken
                 /\ \A i \in DOMAIN mem.abs : mem.abs[i] \in mem.alive
        BY <2>1 DEF StackInv, StackIsLinked, Range
    <2>2. ASSUME Counting
          PROVE  /\ ~mem.aba
                 /\ \A t \in Callers : {loc[t].node, loc[t].next} \subseteq mem.alive \cup {0}
        BY <2>2 DEF StackInv, CountsHold
    <2> QED
        BY <2>1, <2>2 DEF StackIsIntact, Counting
<1> QED
    BY <1>1, StackInvariant, PTL

(* The programs of src/code/aba and the test of stack.cpp are such clients:*)
(* what is proved of them is what TLC checks of the programs.              *)
THEOREM StackTestsAreClients ==
    1 .. 3 \subseteq Nodes => (AbaMain \/ DetectMain \/ FixedMain \/ StackTest => StackInit)
<1> SUFFICES ASSUME 1 .. 3 \subseteq Nodes, AbaMain \/ DetectMain \/ FixedMain \/ StackTest
             PROVE  StackInit
    OBVIOUS
<1>1. ASSUME NEW variant \in {"manual", "counted"}, NEW n \in {0, 3}, NEW c,
             Begin("stack", variant, StackMem(n), c, StackLoc),
             \A t \in DOMAIN c : c[t] \in Seq(StackCalls(t, variant))
      PROVE  StackInit
    <2>1. DOMAIN todo = Callers
          /\ \A t \in Callers : todo[t] = IF t \in DOMAIN c THEN c[t] ELSE <<>>
        BY <1>1 DEF Begin
    <2>2. sample.variant = variant /\ Begun("stack", variant, StackMem(n), StackLoc)
        BY <1>1 DEF Begin, Begun
    <2>3. \A t \in Callers : todo[t] \in Seq(StackCalls(t, sample.variant))
        <3>1. \A t \in Callers : <<>> \in Seq(StackCalls(t, variant))
            OBVIOUS
        <3> QED
            BY <1>1, <2>1, <2>2, <3>1
    <2>4. n \in Nat /\ 1 .. n \subseteq Nodes
        OBVIOUS
    <2> QED
        BY <2>1, <2>2, <2>3, <2>4 DEF StackInit
<1>2. /\ \A t, v : <<"pop", 0>> \in StackCalls(t, v) /\ <<"push", 0>> \in StackCalls(t, v)
      /\ \A t : <<"new", 0>> \in StackCalls(t, "manual")
      /\ \A v : <<"drain", 0>> \in StackCalls(main, v)
    BY DEF StackCalls
<1> DEFINE pops == <<<<"pop", 0>>>>
           drains == <<<<"drain", 0>>>>
           pushes == <<<<"pop", 0>>, <<"pop", 0>>, <<"push", 0>>>>
           detects == <<<<"pop", 0>>, <<"pop", 0>>, <<"new", 0>>, <<"push", 0>>>>
           both == <<<<"push", 0>>, <<"pop", 0>>>>
<1>3. /\ \A t, v : /\ pops \in Seq(StackCalls(t, v)) /\ pushes \in Seq(StackCalls(t, v))
                   /\ both \in Seq(StackCalls(t, v))
      /\ \A t : detects \in Seq(StackCalls(t, "manual"))
      /\ \A v : drains \in Seq(StackCalls(main, v))
    <2> HIDE DEF pops, drains, pushes, detects, both
    <2>1. \A S : <<"pop", 0>> \in S => pops \in Seq(S)
        BY DEF pops
    <2>2. \A S : <<"drain", 0>> \in S => drains \in Seq(S)
        BY DEF drains
    <2>3. \A S : <<"pop", 0>> \in S /\ <<"push", 0>> \in S => pushes \in Seq(S) /\ both \in Seq(S)
        BY DEF pushes, both
    <2>4. \A S : <<"pop", 0>> \in S /\ <<"push", 0>> \in S /\ <<"new", 0>> \in S => detects \in Seq(S)
        BY DEF detects
    <2> QED
        BY <1>2, <2>1, <2>2, <2>3, <2>4
<1>4. ASSUME NEW first, NEW second, NEW last
      PROVE  LET c == Turns(first, second, last)
             IN  /\ DOMAIN c = {main, 1, 2}
                 /\ c[1] = first /\ c[2] = second /\ c[main] = last
    BY DEF main, Turns
<1>5. CASE AbaMain \/ FixedMain
    <2> DEFINE c == Turns(pops, pushes, drains)
    <2>1. \/ Begin("stack", "manual", StackMem(3), c, StackLoc)
          \/ Begin("stack", "counted", StackMem(3), c, StackLoc)
        BY <1>5 DEF AbaMain, FixedMain
    <2>2. \A v : \A t \in DOMAIN c : c[t] \in Seq(StackCalls(t, v))
        <3> HIDE DEF pops, drains, pushes, detects, both
        <3>1. DOMAIN c = {main, 1, 2}
            BY <1>4
        <3> QED
            BY <1>3, <1>4, <3>1
    <2> HIDE DEF c
    <2> QED
        BY <1>1, <2>1, <2>2
<1>6. CASE DetectMain
    <2> DEFINE c == Turns(pops, detects, pops)
    <2>1. Begin("stack", "manual", StackMem(3), c, StackLoc)
        BY <1>6 DEF DetectMain
    <2>2. \A t \in DOMAIN c : c[t] \in Seq(StackCalls(t, "manual"))
        <3> HIDE DEF pops, drains, pushes, detects, both
        <3>1. DOMAIN c = {main, 1, 2}
            BY <1>4
        <3> QED
            BY <1>3, <1>4, <3>1
    <2> HIDE DEF c
    <2> QED
        BY <1>1, <2>1, <2>2
<1>7. CASE StackTest
    <2> DEFINE c == [t \in 1 .. TestThreads |-> both]
    <2>1. Begin("stack", "manual", StackMem(0), c, StackLoc)
        BY <1>7 DEF StackTest
    <2>2. \A t \in DOMAIN c : c[t] \in Seq(StackCalls(t, "manual"))
        BY <1>3
    <2> HIDE DEF c
    <2> QED
        BY <1>1, <2>1, <2>2
<1> QED
    BY <1>5, <1>6, <1>7

=============================================================================
