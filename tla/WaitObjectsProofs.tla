------------------------- MODULE WaitObjectsProofs -------------------------
(***************************************************************************)
(* Proofs about WaitObjects, for any sets of threads and objects, any kinds *)
(* of objects and any counts: no wake-up is lost but for the two cases that *)
(* NoLostWakeup names, who passes a wait is after the signals it took, and *)
(* the checks of the calls fail only for the reason VerifiesFailOnlyIf     *)
(* names.                                                                  *)
(***************************************************************************)
EXTENDS WaitObjects, SequenceTheorems, NaturalsInduction, WellFoundedInduction, TLAPS

-----------------------------------------------------------------------------
(* The invariant, of the tables S. *)

TableSet ==
    [count : [Objects -> 0 .. MaxCount], owner : [Objects -> Threads \cup {Nobody}],
     ws : [Objects -> Seq(Threads)], want : [Threads -> Single \cup Multiple \cup {Nothing}],
     phase : [Threads -> {"absent", "created", "running", "parked", "woken", "ended"}],
     unseen : [Threads -> SUBSET Objects], syncUnseen : [Objects -> SUBSET Objects],
     astray : SUBSET Objects, took : [Threads -> SUBSET Objects],
     result : {"none", "verify_failed", "thread_signal", "unlocking_mutex_wo_ownership"}]

Waits(S, t, o) == S.phase[t] = "parked" /\ o \in Range(S.want[t].objects)

(* The parked threads are once in each of the waitsets they wait in, and   *)
(* who was woken without having been served waits for one object.          *)
Placed(S) ==
    /\ \A o \in Objects : /\ IsInjective(S.ws[o])
                          /\ \A t \in Threads : t \in Range(S.ws[o]) <=> Waits(S, t, o)
                          /\ kind[o] \in Events => S.count[o] \in {0, 1}
    /\ \A t \in Threads :
          /\ S.phase[t] \in {"parked", "woken"} => S.want[t] \in Single \cup Multiple
          /\ S.phase[t] = "woken" => ~ DoSwitch(S.want[t])

(* A plea of a waiter is a set of objects that would end its wait: all of  *)
(* them together, or each of them alone.                                   *)
Pleas(w) == IF w.all THEN {Range(w.objects)} ELSE {{o} : o \in Range(w.objects)}

Met(S, P) == \A p \in P : IsSignaled(S, p)

(* OnTheWay, in the tables S. *)
OnItsWay(S, o) ==
    /\ kind[o] = "mutex" /\ S.owner[o] = Nobody
    /\ \E u \in Threads : S.phase[u] = "woken" /\ Head(S.want[u].objects) = o

Excused(S, o) == OnItsWay(S, o) \/ o \in S.astray

Heard(S, P) == Met(S, P) => \E p \in P : Excused(S, p)

(* The pleas for o, and those for other objects only, are heard. *)
HeardFor(S, o) ==
    \A t \in Threads : S.phase[t] = "parked" =>
        \A P \in Pleas(S.want[t]) : o \in P => Heard(S, P)
HeardBut(S, o) ==
    \A t \in Threads : S.phase[t] = "parked" =>
        \A P \in Pleas(S.want[t]) : o \notin P => Heard(S, P)
AllHeard(S) ==
    \A t \in Threads : S.phase[t] = "parked" => \A P \in Pleas(S.want[t]) : Heard(S, P)

Good(S) == S \in TableSet /\ (Going(S) => Placed(S) /\ AllHeard(S))

WaitInv ==
    kind \in Kinds /\ took \in [Threads -> SUBSET Objects] /\ Good(Tables)

-----------------------------------------------------------------------------
(* Induction over an initial segment of the naturals. *)

(* What holds of 0 and is handed on holds up to n. *)
LEMMA Climb ==
    ASSUME NEW n \in Nat, NEW G, 0 \in G, \A i \in 1 .. n : i - 1 \in G => i \in G
    PROVE  \A i \in 0 .. n : i \in G
<1> SUFFICES ASSUME NEW k \in 0 .. n, k \notin G
             PROVE  FALSE
    OBVIOUS
<1> DEFINE D == {i \in Nat : i <= n /\ i \notin G}
<1>1. D \subseteq Nat /\ D # {}
    <2>1. k \in D
        OBVIOUS
    <2> QED
        BY <2>1
<1> HIDE DEF D
<1>2. PICK m \in D : \A i \in D : ~ (<<i, m>> \in OpToRel(<, Nat))
    BY <1>1, NatLessThanWellFounded, WFMin, Zenon
<1>3. \A i \in D : ~ (i < m)
    BY <1>1, <1>2 DEF OpToRel
<1>4. m \in Nat /\ m <= n /\ m \notin G /\ m # 0
    BY DEF D
<1>5. m - 1 \in Nat /\ m - 1 <= n /\ m - 1 < m /\ m \in 1 .. n
    BY <1>4
<1>6. m - 1 \in G
    BY <1>3, <1>5 DEF D
<1> QED
    BY <1>4, <1>5, <1>6

-----------------------------------------------------------------------------
(* Waits and waitsets. *)

(* A wait is for one object or for a pair of different ones. *)
LEMMA WantFacts ==
    ASSUME NEW w \in Single \cup Multiple
    PROVE  \/ \E o \in Objects :
                /\ w = [objects |-> <<o>>, all |-> FALSE, multiple |-> FALSE]
                /\ w.objects = <<o>> /\ ~ w.all /\ ~ w.multiple
                /\ DOMAIN w.objects = {1} /\ w.objects[1] = o /\ Range(w.objects) = {o}
           \/ \E o, p \in Objects :
                /\ o # p /\ w.objects = <<o, p>> /\ w.all \in BOOLEAN /\ w.multiple
                /\ DOMAIN w.objects = {1, 2} /\ w.objects[1] = o /\ w.objects[2] = p
                /\ Range(w.objects) = {o, p}
<1>1. CASE w \in Single
    <2>1. PICK o \in Objects : w = [objects |-> <<o>>, all |-> FALSE, multiple |-> FALSE]
        BY <1>1 DEF Single, Want
    <2>2. w.objects = <<o>> /\ ~ w.all /\ ~ w.multiple
        BY <2>1
    <2>3. DOMAIN <<o>> = {1} /\ <<o>>[1] = o
        OBVIOUS
    <2>4. Range(w.objects) = {o}
        BY <2>2, <2>3 DEF Range
    <2> QED
        BY <2>1, <2>2, <2>3, <2>4
<1>2. CASE w \in Multiple
    <2>1. PICK q \in {q \in Objects \X Objects : q[1] # q[2]}, all \in BOOLEAN :
              w = [objects |-> <<q[1], q[2]>>, all |-> all, multiple |-> TRUE]
        BY <1>2 DEF Multiple, Want
    <2>2. PICK o, p \in Objects : o # p /\ o = q[1] /\ p = q[2]
        OBVIOUS
    <2>3. w.objects = <<o, p>> /\ w.all \in BOOLEAN /\ w.multiple
        BY <2>1, <2>2
    <2>4. DOMAIN <<o, p>> = {1, 2} /\ <<o, p>>[1] = o /\ <<o, p>>[2] = p
        OBVIOUS
    <2>5. Range(w.objects) = {o, p}
        BY <2>3, <2>4 DEF Range
    <2> QED
        BY <2>2, <2>3, <2>4, <2>5
<1> QED
    BY <1>1, <1>2

(* A thread that is once in a waitset leaves it, and the others stay. *)
LEMMA Removing ==
    ASSUME NEW s \in Seq(Threads), NEW t \in Threads, IsInjective(s)
    PROVE  /\ RemoveFirst(s, t) \in Seq(Threads)
           /\ IsInjective(RemoveFirst(s, t))
           /\ Range(RemoveFirst(s, t)) = Range(s) \ {t}
<1>1. CASE t \notin Range(s)
    <2>1. ~ \E i \in 1 .. Len(s) : s[i] = t
        BY <1>1 DEF Range
    <2> QED
        BY <1>1, <2>1 DEF RemoveFirst
<1>2. CASE t \in Range(s)
    <2>1. PICK k \in 1 .. Len(s) : s[k] = t
        BY <1>2 DEF Range
    <2>2. \A i \in 1 .. Len(s) : s[i] = t <=> i = k
        BY <2>1 DEF IsInjective
    <2>3. SelectInSeq(s, LAMBDA v : v = t) = k
        <3>1. {i \in 1 .. Len(s) : s[i] = t} = {k}
            BY <2>2
        <3>2. Min({k}) = k
            BY DEF Min
        <3> QED
            BY <3>1, <3>2 DEF SelectInSeq
    <2> DEFINE x == SubSeq(s, 1, k - 1)
               y == SubSeq(s, k + 1, Len(s))
               r == x \o y
    <2>4. RemoveFirst(s, t) = r
        BY <2>1, <2>3 DEF RemoveFirst, RemoveAt
    <2>a. Len(s) \in Nat /\ k \in Nat /\ 1 <= k /\ k <= Len(s) /\ DOMAIN s = 1 .. Len(s)
        OBVIOUS
    <2>b. /\ x \in Seq(Threads) /\ Len(x) = k - 1
          /\ \A i \in 1 .. k - 1 : x[i] = s[i]
        <3>1. 1 .. k - 1 \subseteq 1 .. Len(s)
            BY <2>a
        <3>2. x \in Seq(Threads) /\ Len(x) = IF 1 <= k - 1 THEN (k - 1) - 1 + 1 ELSE 0
            BY <2>a, SubSeqProperties
        <3>3. \A i \in 1 .. (k - 1) - 1 + 1 : x[i] = s[1 + i - 1]
            BY <2>a, SubSeqProperties
        <3> QED
            BY <2>a, <3>2, <3>3
    <2>c. /\ y \in Seq(Threads) /\ Len(y) = Len(s) - k
          /\ \A i \in 1 .. Len(s) - k : y[i] = s[k + i]
        <3>2. y \in Seq(Threads) /\ Len(y) = IF k + 1 <= Len(s) THEN Len(s) - (k + 1) + 1 ELSE 0
            BY <2>a, SubSeqProperties
        <3>3. \A i \in 1 .. Len(s) - (k + 1) + 1 : y[i] = s[(k + 1) + i - 1]
            BY <2>a, SubSeqProperties
        <3>4. Len(y) = Len(s) - k
            <4>1. CASE k + 1 <= Len(s)
                BY <2>a, <3>2, <4>1
            <4>2. CASE ~ (k + 1 <= Len(s))
                <5>1. Len(s) - k = 0
                    <6>1. \A m, n \in Nat : m <= n /\ ~ (m + 1 <= n) => n - m = 0
                        OBVIOUS
                    <6>2. Len(s) \in Nat /\ k \in Nat /\ k <= Len(s)
                        BY <2>a, Zenon
                    <6> QED
                        BY ONLY <4>2, <6>1, <6>2
                <5> QED
                    BY <3>2, <4>2, <5>1
            <4> QED
                BY <4>1, <4>2
        <3>5. ASSUME NEW i \in 1 .. Len(s) - k
              PROVE  y[i] = s[k + i]
            <4>1. (k + 1) + i - 1 = k + i /\ i \in 1 .. Len(s) - (k + 1) + 1
                BY <2>a
            <4> QED
                BY <3>3, <4>1
        <3> QED
            BY <3>2, <3>4, <3>5
    <2> HIDE DEF x, y
    <2>5. /\ r \in Seq(Threads) /\ Len(s) \in Nat /\ k \in Nat /\ Len(r) = Len(s) - 1
          /\ DOMAIN r = 1 .. Len(s) - 1 /\ DOMAIN s = 1 .. Len(s)
        <3>1. r \in Seq(Threads) /\ Len(r) = Len(x) + Len(y)
            BY <2>b, <2>c, ConcatProperties
        <3>2. Len(r) = Len(s) - 1
            BY <2>a, <2>b, <2>c, <3>1
        <3> HIDE DEF r
        <3>3. DOMAIN r = 1 .. Len(r)
            BY <3>1
        <3> QED
            BY <2>a, <3>1, <3>2, <3>3, Zenon
    <2>6. \A i \in 1 .. Len(s) - 1 : r[i] = IF i < k THEN s[i] ELSE s[i + 1]
        <3> SUFFICES ASSUME NEW i \in 1 .. Len(s) - 1
                     PROVE  r[i] = IF i < k THEN s[i] ELSE s[i + 1]
            OBVIOUS
        <3>1. r[i] = IF i <= Len(x) THEN x[i] ELSE y[i - Len(x)]
            BY <2>a, <2>b, <2>c, ConcatProperties
        <3>2. CASE i < k
            BY <2>a, <2>b, <3>1, <3>2
        <3>3. CASE ~ (i < k)
            <4>1. i - (k - 1) \in 1 .. Len(s) - k /\ k + (i - (k - 1)) = i + 1
                BY <2>a, <3>3
            <4>2. r[i] = y[i - (k - 1)]
                BY <2>a, <2>b, <3>1, <3>3
            <4> QED
                BY <2>c, <3>3, <4>1, <4>2
        <3> QED
            BY <3>2, <3>3
    <2> HIDE DEF r
    <2> DEFINE at(i) == IF i < k THEN i ELSE i + 1
    <2>7. \A i \in DOMAIN r : at(i) \in 1 .. Len(s) /\ at(i) # k /\ r[i] = s[at(i)]
        BY <2>5, <2>6
    <2>8. IsInjective(r)
        <3> SUFFICES ASSUME NEW i \in DOMAIN r, NEW j \in DOMAIN r, r[i] = r[j]
                     PROVE  i = j
            BY DEF IsInjective
        <3>1. at(i) = at(j)
            BY <2>5, <2>7 DEF IsInjective
        <3> QED
            BY <2>5, <3>1
    <2>9. Range(r) \subseteq Range(s) \ {t}
        BY <2>2, <2>5, <2>7 DEF Range
    <2>10. ASSUME NEW u \in Range(s) \ {t}
           PROVE  u \in Range(r)
        <3>1. PICK j \in 1 .. Len(s) : s[j] = u
            BY <2>5 DEF Range
        <3>2. j # k
            BY <2>1, <3>1
        <3>3. CASE j < k
            <4>1. j \in DOMAIN r /\ r[j] = u
                BY <2>5, <2>6, <3>1, <3>3
            <4> QED
                BY <4>1 DEF Range
        <3>4. CASE j > k
            <4>1. j - 1 \in DOMAIN r /\ r[j - 1] = s[(j - 1) + 1] /\ (j - 1) + 1 = j
                BY <2>5, <2>6, <3>1, <3>4
            <4> QED
                BY <3>1, <4>1 DEF Range
        <3> QED
            BY <2>5, <3>2, <3>3, <3>4
    <2> QED
        BY <2>4, <2>5, <2>8, <2>9, <2>10
<1> QED
    BY <1>1, <1>2

-----------------------------------------------------------------------------
(* Taking objects. *)

(* All that the invariant looks at is as it was. *)
Same(S, R) ==
    /\ R.count = S.count /\ R.owner = S.owner /\ R.ws = S.ws /\ R.want = S.want
    /\ R.phase = S.phase /\ R.astray = S.astray /\ R.took = S.took
    /\ R.result = S.result

(* sync_ only orders. *)
LEMMA Syncing ==
    ASSUME NEW S \in TableSet, NEW t \in Threads, NEW o \in Objects
    PROVE  /\ Acquire(S, t, o) \in TableSet /\ Same(S, Acquire(S, t, o))
           /\ Release(S, t, o) \in TableSet /\ Same(S, Release(S, t, o))
           /\ AcqRel(S, t, o) \in TableSet /\ Same(S, AcqRel(S, t, o))
           /\ Signal(S, t, o) \in TableSet /\ Same(S, Signal(S, t, o))
<1>1. ASSUME NEW R \in TableSet
      PROVE  /\ Acquire(R, t, o) \in TableSet /\ Same(R, Acquire(R, t, o))
             /\ Release(R, t, o) \in TableSet /\ Same(R, Release(R, t, o))
             /\ NewSignal(R, t, o) \in TableSet /\ Same(R, NewSignal(R, t, o))
    <2>1. Acquire(R, t, o) \in TableSet /\ Same(R, Acquire(R, t, o))
        BY DEF TableSet, Acquire, Same
    <2>2. Release(R, t, o) \in TableSet /\ Same(R, Release(R, t, o))
        BY DEF TableSet, Release, Same
    <2>3. NewSignal(R, t, o) \in TableSet /\ Same(R, NewSignal(R, t, o))
        <3> DEFINE U == [u \in Threads |-> IF u = t THEN R.unseen[u] \ {o}
                                           ELSE R.unseen[u] \cup {o}]
                   V == [p \in Objects |-> R.syncUnseen[p] \cup {o}]
        <3>1. U \in [Threads -> SUBSET Objects] /\ V \in [Objects -> SUBSET Objects]
            BY DEF TableSet
        <3>2. NewSignal(R, t, o) = [R EXCEPT !.unseen = U, !.syncUnseen = V]
            BY DEF NewSignal
        <3> HIDE DEF U, V
        <3>3. [R EXCEPT !.unseen = U, !.syncUnseen = V] \in TableSet
            BY <3>1 DEF TableSet
        <3>4. Same(R, [R EXCEPT !.unseen = U, !.syncUnseen = V])
            BY DEF TableSet, Same
        <3> QED
            BY <3>2, <3>3, <3>4
    <2> QED
        BY <2>1, <2>2, <2>3
<1> QED
    BY <1>1 DEF AcqRel, Signal, Same

(* What t takes when it takes o. *)
TakesOne(S, R, t, o) ==
    /\ R \in TableSet
    /\ R.ws = S.ws /\ R.want = S.want /\ R.phase = S.phase
    /\ R.astray = S.astray /\ R.took = S.took /\ R.result = S.result
    /\ \A p \in Objects \ {o} : R.count[p] = S.count[p] /\ R.owner[p] = S.owner[p]
    /\ kind[o] = "mutex" => R.owner[o] = t /\ R.count[o] = S.count[o]
    /\ kind[o] \in Semaphores \cup {"auto"} =>
           R.count[o] = S.count[o] - 1 /\ R.owner[o] = S.owner[o]
    /\ kind[o] \notin Semaphores \cup {"auto", "mutex"} =>
           R.count[o] = S.count[o] /\ R.owner[o] = S.owner[o]

(* What one acquisition of an object that is signaled leaves behind. *)
LEMMA Taking ==
    ASSUME NEW S \in TableSet, NEW t \in Threads, NEW o \in Objects, IsSignaled(S, o)
    PROVE  TakesOne(S, Take(S, t, o), t, o)
<1>1. CASE kind[o] = "mutex"
    <2> DEFINE R == [S EXCEPT !.owner[o] = t]
    <2>1. R \in TableSet
        BY DEF TableSet
    <2>2. Take(S, t, o) = Acquire(R, t, o)
        <3>1. kind[o] \notin Semaphores \cup {"auto"}
            BY <1>1 DEF Semaphores
        <3> QED
            BY <1>1, <3>1 DEF Take
    <2>3. Acquire(R, t, o) \in TableSet /\ Same(R, Acquire(R, t, o))
        BY <2>1, Syncing
    <2>4. /\ R.ws = S.ws /\ R.want = S.want /\ R.phase = S.phase /\ R.count = S.count
          /\ R.astray = S.astray /\ R.took = S.took /\ R.result = S.result
          /\ R.owner[o] = t /\ \A p \in Objects \ {o} : R.owner[p] = S.owner[p]
        BY DEF TableSet
    <2> HIDE DEF R
    <2> QED
        BY <1>1, <2>2, <2>3, <2>4 DEF TakesOne, Same, Semaphores
<1>2. CASE kind[o] \in Semaphores \cup {"auto"}
    <2> DEFINE R == [S EXCEPT !.count[o] = @ - 1]
    <2>1. kind[o] # "mutex"
        BY <1>2 DEF Semaphores
    <2>2. S.count[o] - 1 \in 0 .. MaxCount
        <3>1. S.count[o] \in 0 .. MaxCount
            BY DEF TableSet
        <3> QED
            BY <2>1, <3>1, WaitObjectsAssumption DEF IsSignaled
    <2>3. R \in TableSet
        BY <2>2 DEF TableSet
    <2>4. Take(S, t, o) = AcqRel(R, t, o)
        BY <1>2, <2>1 DEF Take
    <2>5. AcqRel(R, t, o) \in TableSet /\ Same(R, AcqRel(R, t, o))
        BY <2>3, Syncing
    <2>6. /\ R.ws = S.ws /\ R.want = S.want /\ R.phase = S.phase /\ R.owner = S.owner
          /\ R.astray = S.astray /\ R.took = S.took /\ R.result = S.result
          /\ R.count[o] = S.count[o] - 1
          /\ \A p \in Objects \ {o} : R.count[p] = S.count[p]
        BY DEF TableSet
    <2> HIDE DEF R
    <2> QED
        BY <1>2, <2>1, <2>4, <2>5, <2>6 DEF TakesOne, Same
<1>3. CASE kind[o] \notin Semaphores \cup {"auto", "mutex"}
    <2>1. Take(S, t, o) = Acquire(S, t, o)
        BY <1>3 DEF Take
    <2>2. Acquire(S, t, o) \in TableSet /\ Same(S, Acquire(S, t, o))
        BY Syncing
    <2>3. kind[o] # "mutex" /\ kind[o] \notin Semaphores \cup {"auto"}
        BY <1>3
    <2> QED
        BY <2>1, <2>2, <2>3 DEF TakesOne, Same
<1> QED
    BY <1>1, <1>2, <1>3

(* The first object that is signaled. *)
LEMMA FirstIs ==
    ASSUME NEW w \in Single \cup Multiple, NEW S, Signaled(S, w) # {}
    PROVE  First(S, w) \in Range(w.objects) /\ IsSignaled(S, First(S, w))
<1>1. Signaled(S, w) \subseteq {1, 2}
    BY WantFacts DEF Signaled
<1>2. PICK i \in Signaled(S, w) : \A j \in Signaled(S, w) : i <= j
    <2>1. CASE 1 \in Signaled(S, w)
        BY <1>1, <2>1
    <2>2. CASE 1 \notin Signaled(S, w)
        BY <1>1, <2>2
    <2> QED
        BY <2>1, <2>2
<1>3. Min(Signaled(S, w)) \in Signaled(S, w)
    BY <1>2 DEF Min
<1> QED
    BY <1>3 DEF First, Signaled, Range

(* A pair is taken one after the other. *)
LEMMA TakingPair ==
    ASSUME NEW S, NEW t, NEW o, NEW p
    PROVE  TakeAll(S, t, <<o, p>>) = Take(Take(S, t, o), t, p)
<1> DEFINE objects == <<o, p>>
           Of(g) == [i \in 0 .. Len(objects) |->
                       IF i = 0 THEN S ELSE Take(g[i - 1], t, objects[i])]
           h == [i \in 0 .. 2 |-> IF i = 0 THEN S
                                  ELSE IF i = 1 THEN Take(S, t, o)
                                  ELSE Take(Take(S, t, o), t, p)]
           taken == CHOOSE g : g = Of(g)
<1>1. Len(objects) = 2 /\ objects[1] = o /\ objects[2] = p
    OBVIOUS
<1> HIDE DEF objects
<1>2. h = Of(h)
    <2>1. ASSUME NEW i \in 0 .. 2
          PROVE  h[i] = IF i = 0 THEN S ELSE Take(h[i - 1], t, objects[i])
        <3>1. CASE i = 0
            BY <3>1
        <3>2. CASE i = 1
            BY <1>1, <3>2
        <3>3. CASE i = 2
            <4>1. h[2] = Take(Take(S, t, o), t, p) /\ h[1] = Take(S, t, o)
                OBVIOUS
            <4> HIDE DEF h
            <4> QED
                BY <1>1, <3>3, <4>1
        <3> QED
            BY <3>1, <3>2, <3>3
    <2>2. h = [i \in 0 .. 2 |-> h[i]]
        OBVIOUS
    <2> HIDE DEF h
    <2> QED
        BY <1>1, <2>1, <2>2
<1> HIDE DEF h
<1>3. taken = Of(taken)
    BY <1>2
<1> HIDE DEF taken
<1>4. /\ taken[0] = S
      /\ taken[1] = Take(taken[0], t, objects[1])
      /\ taken[2] = Take(taken[1], t, objects[2])
    <2>1. \A i \in 0 .. 2 : taken[i] = IF i = 0 THEN S ELSE Take(taken[i - 1], t, objects[i])
        BY <1>1, <1>3
    <2>2. taken[0] = S
        BY <2>1
    <2>3. taken[1] = Take(taken[1 - 1], t, objects[1])
        BY <2>1
    <2>4. taken[2] = Take(taken[2 - 1], t, objects[2])
        BY <2>1
    <2>5. 1 - 1 = 0 /\ 2 - 1 = 1
        OBVIOUS
    <2> QED
        BY <2>2, <2>3, <2>4, <2>5
<1>5. TakeAll(S, t, objects) = taken[2]
    BY <1>1 DEF TakeAll, taken
<1> QED
    BY <1>1, <1>4, <1>5 DEF objects

(* R has less than S to offer, and is the same for the threads.            *)
Lessens(S, R) ==
    /\ R \in TableSet
    /\ R.ws = S.ws /\ R.want = S.want /\ R.phase = S.phase
    /\ R.astray = S.astray /\ R.result = S.result
    /\ \A p \in Objects : /\ IsSignaled(R, p) => IsSignaled(S, p)
                          /\ R.count[p] <= S.count[p]

(* o has been taken. *)
Took(S, R, o) ==
    /\ kind[o] = "mutex" => R.owner[o] # Nobody
    /\ kind[o] \in Semaphores \cup {"auto"} => R.count[o] = S.count[o] - 1

(* Who takes one of an object leaves less of it. *)
LEMMA TakesLessen ==
    ASSUME NEW S \in TableSet, NEW t \in Threads, NEW o \in Objects, NEW R,
           IsSignaled(S, o), TakesOne(S, R, t, o)
    PROVE  Lessens(S, R) /\ Took(S, R, o)
<1>1. S.count \in [Objects -> 0 .. MaxCount] /\ R.count \in [Objects -> 0 .. MaxCount]
    BY DEF TakesOne, TableSet
<1>2. MaxCount \in Nat /\ Nobody \notin Threads
    BY WaitObjectsAssumption
<1>3. ASSUME NEW p \in Objects
      PROVE  (IsSignaled(R, p) => IsSignaled(S, p)) /\ R.count[p] <= S.count[p]
    <2>1. S.count[p] \in Int /\ R.count[p] \in Int
        BY <1>1, <1>2
    <2>2. R.count[p] = S.count[p] \/ R.count[p] = S.count[p] - 1
        BY DEF TakesOne
    <2>3. kind[p] = "mutex" /\ R.owner[p] = Nobody => S.owner[p] = Nobody
        BY <1>2 DEF TakesOne
    <2>4. R.count[p] > 0 => S.count[p] > 0
        BY <2>1, <2>2
    <2>5. R.count[p] <= S.count[p]
        BY <2>1, <2>2
    <2> QED
        BY <2>3, <2>4, <2>5 DEF IsSignaled
<1>4. Took(S, R, o)
    BY <1>2 DEF TakesOne, Took
<1> QED
    BY <1>3, <1>4 DEF TakesOne, Lessens

(* To note what was taken changes nothing else. *)
LEMMA Noting ==
    ASSUME NEW S \in TableSet, NEW t \in Threads, NEW X \in SUBSET Objects
    PROVE  LET R == [S EXCEPT !.took[t] = X]
           IN  /\ R \in TableSet
               /\ R.count = S.count /\ R.owner = S.owner /\ R.ws = S.ws
               /\ R.want = S.want /\ R.phase = S.phase /\ R.unseen = S.unseen
               /\ R.syncUnseen = S.syncUnseen /\ R.astray = S.astray
               /\ R.result = S.result
               /\ R.took[t] = X /\ \A u \in Threads \ {t} : R.took[u] = S.took[u]
<1> DEFINE R == [S EXCEPT !.took[t] = X]
<1>1. R \in TableSet
    BY DEF TableSet
<1> QED
    BY <1>1 DEF TableSet

(* What a wait that is satisfied takes, and where it is noted. *)
LEMMA Noted ==
    ASSUME NEW S, NEW t, NEW w \in Single \cup Multiple, Satisfied(S, w)
    PROVE  \E X \in Asks(w) :
              /\ X \in SUBSET Objects
              /\ X = (IF w.all THEN Range(w.objects) ELSE {First(S, w)})
              /\ TakeWanted(S, t, w) =
                    [(IF w.all THEN TakeAll(S, t, w.objects)
                      ELSE Take(S, t, First(S, w))) EXCEPT !.took[t] = X]
<1>1. Range(w.objects) \subseteq Objects
    BY WantFacts
<1>2. CASE w.all
    BY <1>1, <1>2 DEF Asks, TakeWanted
<1>3. CASE ~ w.all
    <2>1. First(S, w) \in Range(w.objects)
        BY <1>3, FirstIs DEF Satisfied
    <2> QED
        BY <1>1, <1>3, <2>1 DEF Asks, TakeWanted
<1> QED
    BY <1>2, <1>3

(* Who finds what it waits for takes it. *)
LEMMA TakingWanted ==
    ASSUME NEW S \in TableSet, NEW t \in Threads, NEW w \in Single \cup Multiple,
           Satisfied(S, w)
    PROVE  /\ Lessens(S, TakeWanted(S, t, w))
           /\ \A o \in (IF w.all THEN Range(w.objects) ELSE {First(S, w)}) :
                  o \in Objects /\ Took(S, TakeWanted(S, t, w), o)
<1>0. PICK X \in SUBSET Objects :
         TakeWanted(S, t, w) = [(IF w.all THEN TakeAll(S, t, w.objects)
                                 ELSE Take(S, t, First(S, w))) EXCEPT !.took[t] = X]
    BY Noted
<1>a. ASSUME NEW T, Lessens(S, T), NEW o \in Objects, Took(S, T, o)
      PROVE  /\ Lessens(S, [T EXCEPT !.took[t] = X])
             /\ Took(S, [T EXCEPT !.took[t] = X], o)
    <2> DEFINE R == [T EXCEPT !.took[t] = X]
    <2>1. /\ R \in TableSet /\ R.count = T.count /\ R.owner = T.owner /\ R.ws = T.ws
          /\ R.want = T.want /\ R.phase = T.phase /\ R.astray = T.astray
          /\ R.result = T.result
        BY <1>a, Noting DEF Lessens
    <2> HIDE DEF R
    <2>2. Lessens(S, R) /\ Took(S, R, o)
        BY <1>a, <2>1 DEF Lessens, Took, IsSignaled
    <2> QED
        BY <2>2 DEF R
<1>1. CASE ~ w.all
    <2>1. Signaled(S, w) # {}
        BY <1>1 DEF Satisfied
    <2>2. First(S, w) \in Objects /\ IsSignaled(S, First(S, w))
        <3>1. First(S, w) \in Range(w.objects) /\ IsSignaled(S, First(S, w))
            BY <2>1, FirstIs
        <3>2. Range(w.objects) \subseteq Objects
            BY WantFacts
        <3> QED
            BY <3>1, <3>2
    <2>3. TakesOne(S, Take(S, t, First(S, w)), t, First(S, w))
        BY <2>2, Taking
    <2>4. /\ Lessens(S, Take(S, t, First(S, w)))
          /\ Took(S, Take(S, t, First(S, w)), First(S, w))
        BY <2>2, <2>3, TakesLessen
    <2>5. Lessens(S, TakeWanted(S, t, w)) /\ Took(S, TakeWanted(S, t, w), First(S, w))
        BY <1>0, <1>1, <1>a, <2>2, <2>4
    <2> QED
        BY <1>1, <2>2, <2>5
<1>2. CASE w.all
    <2>1. PICK o, p \in Objects : o # p /\ w.objects = <<o, p>> /\ Range(w.objects) = {o, p}
                                  /\ DOMAIN w.objects = {1, 2}
        BY <1>2, WantFacts
    <2>2. IsSignaled(S, o) /\ IsSignaled(S, p)
        <3>1. 1 \in Signaled(S, w) /\ 2 \in Signaled(S, w)
            BY <1>2, <2>1 DEF Satisfied
        <3>2. w.objects[1] = o /\ w.objects[2] = p
            BY <2>1
        <3> QED
            BY <3>1, <3>2 DEF Signaled
    <2> DEFINE Q == Take(S, t, o)
               R == Take(Q, t, p)
    <2>3. TakeWanted(S, t, w) = [R EXCEPT !.took[t] = X]
        BY <1>0, <1>2, <2>1, TakingPair
    <2>4. TakesOne(S, Q, t, o)
        BY <2>2, Taking
    <2>5. Lessens(S, Q) /\ Took(S, Q, o)
        BY <2>2, <2>4, TakesLessen
    <2> HIDE DEF Q
    <2>6. Q \in TableSet /\ IsSignaled(Q, p)
        BY <2>1, <2>2, <2>4 DEF TakesOne, IsSignaled
    <2>7. TakesOne(Q, R, t, p)
        BY <2>6, Taking
    <2> HIDE DEF R
    <2>8. Lessens(Q, R) /\ Took(Q, R, p)
        BY <2>6, <2>7, TakesLessen
    <2>9. Took(S, R, o) /\ Took(S, R, p)
        BY <2>1, <2>4, <2>5, <2>7, <2>8 DEF TakesOne, Took
    <2>10. Lessens(S, R)
        <3>1. ASSUME NEW q \in Objects PROVE R.count[q] <= S.count[q]
            <4>1. R.count[q] \in Int /\ S.count[q] \in Int /\ Q.count[q] \in Int
                BY <2>5, <2>8, WaitObjectsAssumption DEF Lessens, TableSet
            <4>2. R.count[q] <= Q.count[q] /\ Q.count[q] <= S.count[q]
                BY <2>5, <2>8 DEF Lessens
            <4> QED
                BY <4>1, <4>2
        <3> QED
            BY <2>5, <2>8, <3>1 DEF Lessens
    <2> QED
        BY <1>2, <1>a, <2>1, <2>3, <2>9, <2>10
<1> QED
    BY <1>1, <1>2

-----------------------------------------------------------------------------
(* What is seen of the signals. *)

(* sync_ of an object is after its latest signal, and so is whoever took   *)
(* the object in this step.                                                *)
SyncOwn(S) ==
    /\ \A o \in Objects : o \notin S.syncUnseen[o]
    /\ \A u \in Threads : S.took[u] \cap S.unseen[u] = {}

(* No wait has taken anything in this step. *)
NoneTook(S) == S.took = NothingTaken

(* In R no less is seen than in S, and what was taken since is seen. *)
Later(S, R) ==
    /\ \A u \in Threads : R.unseen[u] \subseteq S.unseen[u]
    /\ \A o \in Objects : R.syncUnseen[o] \subseteq S.syncUnseen[o]
    /\ \A u \in Threads : R.took[u] = S.took[u] \/ R.took[u] \cap R.unseen[u] = {}

(* u, which waited for w, has taken what it asked for. *)
After(R, u, w) == R.took[u] \in Asks(w)

(* One step that only orders, after another. *)
LEMMA LaterTrans ==
    ASSUME NEW S, NEW Q, NEW R, Later(S, Q), Later(Q, R)
    PROVE  Later(S, R) /\ (SyncOwn(S) => SyncOwn(R))
BY DEF Later, SyncOwn

(* sync_ of o orders who acquires it after the latest signal of o, and a   *)
(* new signal is released to it.                                           *)
LEMMA SyncOrders ==
    ASSUME NEW S \in TableSet, SyncOwn(S), NEW t \in Threads, NEW o \in Objects
    PROVE  /\ Later(S, Acquire(S, t, o)) /\ o \notin Acquire(S, t, o).unseen[t]
           /\ Later(S, Release(S, t, o))
           /\ Later(S, AcqRel(S, t, o)) /\ o \notin AcqRel(S, t, o).unseen[t]
           /\ Acquire(S, t, o).took = S.took /\ AcqRel(S, t, o).took = S.took
           /\ NoneTook(S) => SyncOwn(Signal(S, t, o))
<1>1. Later(S, Acquire(S, t, o)) /\ o \notin Acquire(S, t, o).unseen[t]
    BY DEF TableSet, Acquire, Later, SyncOwn
<1>2. ASSUME NEW R \in TableSet
      PROVE  /\ Later(R, Release(R, t, o)) /\ Release(R, t, o).unseen = R.unseen
    BY DEF TableSet, Release, Later
<1>3. Later(S, AcqRel(S, t, o)) /\ o \notin AcqRel(S, t, o).unseen[t]
    <2> DEFINE Q == Acquire(S, t, o)
    <2>1. Q \in TableSet
        BY Syncing
    <2>2. Later(Q, Release(Q, t, o)) /\ Release(Q, t, o).unseen = Q.unseen
        BY <1>2, <2>1
    <2>3. Later(S, Q) /\ o \notin Q.unseen[t]
        BY <1>1
    <2>4. AcqRel(S, t, o) = Release(Q, t, o)
        BY DEF AcqRel
    <2> HIDE DEF Q
    <2> QED
        BY <2>2, <2>3, <2>4, LaterTrans
<1>4. ASSUME NoneTook(S)
      PROVE  SyncOwn(Signal(S, t, o))
    <2> DEFINE U == [u \in Threads |-> IF u = t THEN S.unseen[u] \ {o}
                                       ELSE S.unseen[u] \cup {o}]
               V == [p \in Objects |-> S.syncUnseen[p] \cup {o}]
               N == NewSignal(S, t, o)
    <2>1. N = [S EXCEPT !.unseen = U, !.syncUnseen = V]
        BY DEF NewSignal
    <2>2. o \notin U[t] /\ \A p \in Objects : V[p] = S.syncUnseen[p] \cup {o}
        OBVIOUS
    <2> HIDE DEF U, V, N
    <2>3. N.unseen = U /\ N.syncUnseen = V
        BY <2>1 DEF TableSet
    <2>4. Signal(S, t, o) = [N EXCEPT !.syncUnseen = [p \in Objects |->
                                IF p = o THEN V[o] \cap U[t] ELSE V[p]]]
        BY <2>3 DEF Signal, Release, N
    <2>5. Signal(S, t, o).syncUnseen = [p \in Objects |->
                                IF p = o THEN V[o] \cap U[t] ELSE V[p]]
        BY <2>1, <2>4 DEF TableSet
    <2>6. Signal(S, t, o) \in TableSet /\ Signal(S, t, o).took = S.took
        BY Syncing DEF Same
    <2>7. \A u \in Threads : S.took[u] = {}
        BY <1>4 DEF NoneTook, NothingTaken
    <2> QED
        BY <2>2, <2>5, <2>6, <2>7 DEF SyncOwn
<1>5. Acquire(S, t, o).took = S.took /\ AcqRel(S, t, o).took = S.took
    BY Syncing DEF Same
<1> QED
    BY <1>1, <1>2, <1>3, <1>4, <1>5

(* What one take changes of one object. *)
LEMMA TakingOrders ==
    ASSUME NEW S \in TableSet, SyncOwn(S), NEW t \in Threads, NEW o \in Objects,
           IsSignaled(S, o)
    PROVE  Later(S, Take(S, t, o)) /\ o \notin Take(S, t, o).unseen[t]
<1>1. CASE kind[o] = "mutex"
    <2> DEFINE R == [S EXCEPT !.owner[o] = t]
    <2>1. R \in TableSet /\ R.unseen = S.unseen /\ R.syncUnseen = S.syncUnseen
          /\ R.took = S.took
        BY DEF TableSet
    <2>2. Take(S, t, o) = Acquire(R, t, o)
        BY <1>1 DEF Take, Semaphores
    <2> HIDE DEF R
    <2>3. SyncOwn(R) /\ Later(S, R)
        BY <2>1 DEF SyncOwn, Later
    <2> QED
        BY <2>1, <2>2, <2>3, SyncOrders, LaterTrans
<1>2. CASE kind[o] \in Semaphores \cup {"auto"}
    <2> DEFINE R == [S EXCEPT !.count[o] = @ - 1]
    <2>1. kind[o] # "mutex"
        BY <1>2 DEF Semaphores
    <2>2. S.count[o] - 1 \in 0 .. MaxCount
        <3>1. S.count[o] \in 0 .. MaxCount
            BY DEF TableSet
        <3> QED
            BY <1>2, <2>1, <3>1, WaitObjectsAssumption DEF IsSignaled
    <2>3. R \in TableSet /\ R.unseen = S.unseen /\ R.syncUnseen = S.syncUnseen
          /\ R.took = S.took
        BY <2>2 DEF TableSet
    <2>4. Take(S, t, o) = AcqRel(R, t, o)
        BY <1>2, <2>1 DEF Take
    <2> HIDE DEF R
    <2>5. SyncOwn(R) /\ Later(S, R)
        BY <2>3 DEF SyncOwn, Later
    <2> QED
        BY <2>3, <2>4, <2>5, SyncOrders, LaterTrans
<1>3. CASE kind[o] \notin Semaphores \cup {"auto", "mutex"}
    <2>1. Take(S, t, o) = Acquire(S, t, o)
        BY <1>3 DEF Take
    <2> QED
        BY <2>1, SyncOrders
<1> QED
    BY <1>1, <1>2, <1>3

(* A wait that takes what it waits for takes one of each object at most,   *)
(* and is after their latest signals.                                      *)
LEMMA TakingBounds ==
    ASSUME NEW S \in TableSet, NEW t \in Threads, NEW w \in Single \cup Multiple,
           Satisfied(S, w)
    PROVE  LET R == TakeWanted(S, t, w)
           IN  /\ \A o \in Objects :
                     /\ R.count[o] >= S.count[o] - 1
                     /\ kind[o] \notin Semaphores \cup {"auto"} => R.count[o] = S.count[o]
               /\ \A u \in Threads \ {t} : R.took[u] = S.took[u]
               /\ SyncOwn(S) => Later(S, R) /\ After(R, t, w)
<1>w. PICK X \in Asks(w) :
         /\ X \in SUBSET Objects
         /\ X = (IF w.all THEN Range(w.objects) ELSE {First(S, w)})
         /\ TakeWanted(S, t, w) = [(IF w.all THEN TakeAll(S, t, w.objects)
                                    ELSE Take(S, t, First(S, w))) EXCEPT !.took[t] = X]
    BY Noted
<1>n. ASSUME NEW T \in TableSet, T.took = S.took, TakeWanted(S, t, w) = [T EXCEPT !.took[t] = X],
             \A o \in Objects :
                /\ T.count[o] >= S.count[o] - 1
                /\ kind[o] \notin Semaphores \cup {"auto"} => T.count[o] = S.count[o],
             SyncOwn(S) => Later(S, T) /\ \A o \in X : o \notin T.unseen[t]
      PROVE  LET R == TakeWanted(S, t, w)
             IN  /\ \A o \in Objects :
                       /\ R.count[o] >= S.count[o] - 1
                       /\ kind[o] \notin Semaphores \cup {"auto"} => R.count[o] = S.count[o]
                 /\ \A u \in Threads \ {t} : R.took[u] = S.took[u]
                 /\ SyncOwn(S) => Later(S, R) /\ After(R, t, w)
    <2> DEFINE R == [T EXCEPT !.took[t] = X]
    <2>0. T \in TableSet /\ X \in SUBSET Objects /\ T.took = S.took
        BY <1>n, <1>w
    <2>1. /\ R.count = T.count /\ R.unseen = T.unseen /\ R.syncUnseen = T.syncUnseen
          /\ R.took[t] = X /\ \A u \in Threads \ {t} : R.took[u] = S.took[u]
        BY <2>0 DEF TableSet
    <2> HIDE DEF R
    <2>2. TakeWanted(S, t, w) = R
        BY <1>n DEF R
    <2>3. After(R, t, w)
        BY <2>1 DEF After
    <2>4. SyncOwn(S) => Later(S, R)
        BY <1>n, <2>1 DEF Later
    <2> QED
        BY <1>n, <2>1, <2>2, <2>3, <2>4
<1>0. \A Q \in TableSet : \A o \in Objects : Q.count[o] \in Int
    BY WaitObjectsAssumption DEF TableSet
<1>a. ASSUME NEW Q \in TableSet, NEW T, NEW o \in Objects, TakesOne(Q, T, t, o), NEW p \in Objects
      PROVE  /\ T.count[p] >= Q.count[p] - 1
             /\ p # o => T.count[p] = Q.count[p]
             /\ kind[p] \notin Semaphores \cup {"auto"} => T.count[p] = Q.count[p]
    <2>1. T.count[p] = Q.count[p] \/ T.count[p] = Q.count[p] - 1
        BY <1>a DEF TakesOne
    <2>2. T.count[p] >= Q.count[p] - 1
        BY <1>0, <2>1
    <2>3. p # o => T.count[p] = Q.count[p]
        BY <1>a DEF TakesOne
    <2>4. kind[p] \notin Semaphores \cup {"auto"} => T.count[p] = Q.count[p]
        BY <1>a DEF TakesOne
    <2> QED
        BY <2>2, <2>3, <2>4
<1>1. CASE ~ w.all
    <2>1. Signaled(S, w) # {}
        BY <1>1 DEF Satisfied
    <2>2. /\ First(S, w) \in Objects /\ IsSignaled(S, First(S, w))
          /\ First(S, w) \in Range(w.objects)
        <3>1. First(S, w) \in Range(w.objects) /\ IsSignaled(S, First(S, w))
            BY <2>1, FirstIs
        <3>2. Range(w.objects) \subseteq Objects
            BY WantFacts
        <3> QED
            BY <3>1, <3>2
    <2> DEFINE o == First(S, w)
               R == Take(S, t, o)
    <2>3. TakesOne(S, R, t, o) /\ TakeWanted(S, t, w) = [R EXCEPT !.took[t] = X]
        BY <1>1, <1>w, <2>2, Taking
    <2>4. SyncOwn(S) => Later(S, R) /\ o \notin R.unseen[t]
        BY <2>2, TakingOrders
    <2> HIDE DEF R, o
    <2>5. \A p \in Objects : /\ R.count[p] >= S.count[p] - 1
                             /\ kind[p] \notin Semaphores \cup {"auto"} => R.count[p] = S.count[p]
        BY <1>a, <2>2, <2>3 DEF o
    <2>6. SyncOwn(S) => Later(S, R) /\ \A p \in X : p \notin R.unseen[t]
        BY <1>1, <1>w, <2>4 DEF o
    <2>7. R \in TableSet /\ R.took = S.took
        BY <2>3 DEF TakesOne
    <2> QED
        BY <1>n, <2>3, <2>5, <2>6, <2>7
<1>2. CASE w.all
    <2>1. PICK o, p \in Objects : o # p /\ w.objects = <<o, p>> /\ Range(w.objects) = {o, p}
                                  /\ DOMAIN w.objects = {1, 2}
        BY <1>2, WantFacts
    <2>2. IsSignaled(S, o) /\ IsSignaled(S, p)
        <3>1. 1 \in Signaled(S, w) /\ 2 \in Signaled(S, w)
            BY <1>2, <2>1 DEF Satisfied
        <3>2. w.objects[1] = o /\ w.objects[2] = p
            BY <2>1
        <3> QED
            BY <3>1, <3>2 DEF Signaled
    <2> DEFINE Q == Take(S, t, o)
               R == Take(Q, t, p)
    <2>3. TakeWanted(S, t, w) = [R EXCEPT !.took[t] = X]
        BY <1>2, <1>w, <2>1, TakingPair
    <2>4. TakesOne(S, Q, t, o)
        BY <2>2, Taking
    <2>5. SyncOwn(S) => Later(S, Q) /\ o \notin Q.unseen[t]
        BY <2>2, TakingOrders
    <2> HIDE DEF Q
    <2>6. Q \in TableSet /\ IsSignaled(Q, p)
        BY <2>1, <2>2, <2>4 DEF TakesOne, IsSignaled
    <2>7. TakesOne(Q, R, t, p)
        BY <2>6, Taking
    <2>8. SyncOwn(Q) => Later(Q, R) /\ p \notin R.unseen[t]
        BY <2>6, TakingOrders
    <2> HIDE DEF R
    <2>9. ASSUME NEW x \in Objects
          PROVE  /\ R.count[x] >= S.count[x] - 1
                 /\ kind[x] \notin Semaphores \cup {"auto"} => R.count[x] = S.count[x]
        <3>1. CASE x # o
            BY <1>a, <2>4, <2>6, <2>7, <3>1
        <3>2. CASE x = o
            BY <1>a, <2>1, <2>4, <2>6, <2>7, <3>2
        <3> QED
            BY <3>1, <3>2
    <2>10. ASSUME SyncOwn(S)
           PROVE  Later(S, R) /\ \A x \in X : x \notin R.unseen[t]
        <3>1. Later(S, Q) /\ SyncOwn(Q)
            BY <2>5, <2>10, LaterTrans DEF Later, SyncOwn
        <3>2. Later(Q, R) /\ o \notin Q.unseen[t] /\ p \notin R.unseen[t]
            BY <2>5, <2>8, <2>10, <3>1
        <3>3. Later(S, R) /\ o \notin R.unseen[t]
            BY <3>1, <3>2, LaterTrans DEF Later
        <3> QED
            BY <1>2, <1>w, <2>1, <3>2, <3>3
    <2>11. R \in TableSet /\ R.took = S.took
        BY <2>4, <2>7 DEF TakesOne
    <2> QED
        BY <1>n, <2>3, <2>9, <2>10, <2>11
<1> QED
    BY <1>1, <1>2

-----------------------------------------------------------------------------
(* Pleas. *)

(* The threads that wait in R have waited in S for the same, R has no more *)
(* to offer, and what was excused is excused as long as it is there.       *)
Calmer(S, R) ==
    /\ \A u \in Threads :
          R.phase[u] = "parked" => S.phase[u] = "parked" /\ R.want[u] = S.want[u]
    /\ \A p \in Objects :
          IsSignaled(R, p) => IsSignaled(S, p) /\ (Excused(S, p) => Excused(R, p))

(* A plea is some of the objects of the wait, one or all of them. *)
LEMMA PleaFacts ==
    ASSUME NEW w \in Single \cup Multiple, NEW P \in Pleas(w)
    PROVE  /\ P \subseteq Objects /\ P # {} /\ P \subseteq Range(w.objects)
           /\ ~ w.all => \E o \in Objects : P = {o}
           /\ w.all => P = Range(w.objects)
<1>1. Range(w.objects) \subseteq Objects /\ Range(w.objects) # {}
    BY WantFacts
<1> QED
    BY <1>1 DEF Pleas

(* A plea for what S offers is met if the wait is satisfied.               *)
LEMMA PleaMet ==
    ASSUME NEW w \in Single \cup Multiple, NEW S
    PROVE  /\ Satisfied(S, w) => \E P \in Pleas(w) : Met(S, P)
           /\ (\E P \in Pleas(w) : Met(S, P)) => Satisfied(S, w)
<1>1. CASE w.all
    <2>1. Met(S, Range(w.objects)) <=> Signaled(S, w) = DOMAIN w.objects
        BY DEF Met, Range, Signaled
    <2> QED
        BY <1>1, <2>1 DEF Satisfied, Pleas
<1>2. CASE ~ w.all
    <2>1. \A o : Met(S, {o}) <=> IsSignaled(S, o)
        BY DEF Met
    <2>2. Signaled(S, w) # {} <=> \E o \in Range(w.objects) : IsSignaled(S, o)
        BY DEF Range, Signaled
    <2> QED
        BY <1>2, <2>1, <2>2 DEF Satisfied, Pleas
<1> QED
    BY <1>1, <1>2

(* A plea that was heard is heard when it is calmer. *)
LEMMA CalmerHears ==
    ASSUME NEW S, NEW R, Calmer(S, R), NEW P \in SUBSET Objects, Heard(S, P)
    PROVE  Heard(R, P)
BY DEF Calmer, Heard, Met

(* One calm step after another. *)
LEMMA CalmerTrans ==
    ASSUME NEW S, NEW Q, NEW R, Calmer(S, Q), Calmer(Q, R)
    PROVE  Calmer(S, R)
BY DEF Calmer

(* After a calm step what was heard is heard, of one object and of all. *)
LEMMA CalmerAll ==
    ASSUME NEW S \in TableSet, NEW R \in TableSet, Placed(S), Calmer(S, R), NEW o
    PROVE  /\ HeardFor(S, o) => HeardFor(R, o)
           /\ HeardBut(S, o) => HeardBut(R, o)
           /\ AllHeard(S) => AllHeard(R)
<1>1. ASSUME NEW t \in Threads, R.phase[t] = "parked", NEW P \in Pleas(R.want[t])
      PROVE  /\ S.phase[t] = "parked" /\ P \in Pleas(S.want[t])
             /\ Heard(S, P) => Heard(R, P)
    <2>1. S.phase[t] = "parked" /\ R.want[t] = S.want[t]
        BY <1>1 DEF Calmer
    <2>2. S.want[t] \in Single \cup Multiple
        BY <2>1 DEF Placed
    <2>3. P \in SUBSET Objects
        BY <1>1, <2>1, <2>2, PleaFacts
    <2> QED
        BY <1>1, <2>1, <2>3, CalmerHears
<1> QED
    BY <1>1 DEF HeardFor, HeardBut, AllHeard

(* What is heard of o and of all other objects is heard. *)
LEMMA HeardAll ==
    ASSUME NEW S, NEW o
    PROVE  AllHeard(S) <=> HeardFor(S, o) /\ HeardBut(S, o)
BY DEF AllHeard, HeardFor, HeardBut

-----------------------------------------------------------------------------
(* Waking. *)

(* remove *)
LEMMA Leaving ==
    ASSUME NEW S \in TableSet, NEW t \in Threads, \A o \in Objects : IsInjective(S.ws[o])
    PROVE  LET R == Leave(S, t)
           IN  /\ R \in TableSet
               /\ R.count = S.count /\ R.owner = S.owner /\ R.phase = S.phase
               /\ R.astray = S.astray /\ R.result = S.result
               /\ R.unseen = S.unseen /\ R.syncUnseen = S.syncUnseen /\ R.took = S.took
               /\ R.want[t] = Nothing
               /\ \A u \in Threads \ {t} : R.want[u] = S.want[u]
               /\ \A o \in Objects : /\ IsInjective(R.ws[o])
                                     /\ Range(R.ws[o]) = Range(S.ws[o]) \ {t}
<1> DEFINE W == [o \in Objects |-> RemoveFirst(S.ws[o], t)]
<1>1. /\ W \in [Objects -> Seq(Threads)]
      /\ \A o \in Objects : IsInjective(W[o]) /\ Range(W[o]) = Range(S.ws[o]) \ {t}
    <2>1. ASSUME NEW o \in Objects
          PROVE  /\ RemoveFirst(S.ws[o], t) \in Seq(Threads)
                 /\ IsInjective(RemoveFirst(S.ws[o], t))
                 /\ Range(RemoveFirst(S.ws[o], t)) = Range(S.ws[o]) \ {t}
        <3>1. S.ws[o] \in Seq(Threads)
            BY DEF TableSet
        <3> QED
            BY <3>1, Removing
    <2> QED
        BY <2>1
<1>2. Leave(S, t) = [S EXCEPT !.ws = W, !.want[t] = Nothing]
    BY DEF Leave
<1> HIDE DEF W
<1>3. [S EXCEPT !.ws = W, !.want[t] = Nothing] \in TableSet
    BY <1>1 DEF TableSet
<1> QED
    BY <1>1, <1>2, <1>3 DEF TableSet

(* t has been unparked in the waitset of o. *)
Unparked(S, R, t, o) ==
    /\ R \in TableSet
    /\ Going(R) =>
          /\ Placed(R) /\ Calmer(S, R)
          /\ R.phase[t] # "parked"
          /\ \A u \in Threads \ {t} : R.phase[u] = S.phase[u] /\ R.want[u] = S.want[u]
          /\ S.astray \subseteq R.astray /\ R.astray \subseteq S.astray \cup {o}
          /\ R.count[o] <= S.count[o]
          /\ o \in R.astray \/ Took(S, R, o) \/ OnItsWay(R, o)

(* What is the same for every way to wake t: R is S without the waiter t,  *)
(* with less to offer and perhaps one more object whose signal went astray. *)
LEMMA Waking ==
    ASSUME NEW S \in TableSet, Placed(S), NEW t \in Threads, S.phase[t] = "parked",
           NEW R \in TableSet,
           R.phase[t] \in {"running", "woken"},
           R.phase[t] = "woken" => R.want[t] = S.want[t] /\ ~ DoSwitch(S.want[t]),
           \A u \in Threads \ {t} : R.phase[u] = S.phase[u] /\ R.want[u] = S.want[u],
           \A p \in Objects : /\ IsInjective(R.ws[p])
                              /\ Range(R.ws[p]) = Range(S.ws[p]) \ {t},
           \A p \in Objects : /\ IsSignaled(R, p) => IsSignaled(S, p)
                              /\ R.count[p] <= S.count[p],
           S.astray \subseteq R.astray
    PROVE  Placed(R) /\ Calmer(S, R)
<1>1. ASSUME NEW p \in Objects
      PROVE  /\ IsInjective(R.ws[p])
             /\ \A u \in Threads : u \in Range(R.ws[p]) <=> Waits(R, u, p)
             /\ kind[p] \in Events => R.count[p] \in {0, 1}
    <2>1. \A u \in Threads : u \in Range(R.ws[p]) <=> Waits(R, u, p)
        BY DEF Placed, Waits
    <2>2. ASSUME kind[p] \in Events
          PROVE  R.count[p] \in {0, 1}
        <3>1. S.count[p] \in {0, 1} /\ R.count[p] \in 0 .. MaxCount /\ MaxCount \in Nat
            BY <2>2, WaitObjectsAssumption DEF Placed, TableSet
        <3>2. R.count[p] <= S.count[p]
            OBVIOUS
        <3> QED
            BY <3>1, <3>2
    <2> QED
        BY <2>1, <2>2
<1>2. \A u \in Threads :
         /\ R.phase[u] \in {"parked", "woken"} => R.want[u] \in Single \cup Multiple
         /\ R.phase[u] = "woken" => ~ DoSwitch(R.want[u])
    BY DEF Placed
<1>3. ASSUME NEW p \in Objects, IsSignaled(R, p), Excused(S, p)
      PROVE  Excused(R, p)
    <2>1. CASE p \in S.astray
        BY <2>1 DEF Excused
    <2>2. CASE OnItsWay(S, p)
        <3>1. PICK u \in Threads : S.phase[u] = "woken" /\ Head(S.want[u].objects) = p
            BY <2>2 DEF OnItsWay
        <3>2. u # t
            BY <3>1
        <3>3. kind[p] = "mutex" /\ R.owner[p] = Nobody
            BY <1>3, <2>2 DEF OnItsWay, IsSignaled
        <3> QED
            BY <3>1, <3>2, <3>3 DEF Excused, OnItsWay
    <2> QED
        BY <1>3, <2>1, <2>2 DEF Excused
<1>4. \A u \in Threads :
         R.phase[u] = "parked" => S.phase[u] = "parked" /\ R.want[u] = S.want[u]
    OBVIOUS
<1> QED
    BY <1>1, <1>2, <1>3, <1>4 DEF Placed, Calmer

(* try_remove, when it removes, and the hand-over *)
LEMMA Unparking ==
    ASSUME NEW S \in TableSet, Going(S), Placed(S), NEW o \in Objects,
           NEW t \in Threads, t \in Range(S.ws[o])
    PROVE  Unparked(S, Unpark(S, t, o), t, o)
<1> DEFINE w == S.want[t]
           L == Leave(S, t)
           R == Unpark(S, t, o)
<1>1. S.phase[t] = "parked" /\ o \in Range(w.objects) /\ w \in Single \cup Multiple
    BY DEF Placed, Waits
<1>2. /\ L \in TableSet
      /\ L.count = S.count /\ L.owner = S.owner /\ L.phase = S.phase
      /\ L.astray = S.astray /\ L.result = S.result
      /\ \A u \in Threads \ {t} : L.want[u] = S.want[u]
      /\ \A p \in Objects : /\ IsInjective(L.ws[p])
                            /\ Range(L.ws[p]) = Range(S.ws[p]) \ {t}
    <2>1. \A p \in Objects : IsInjective(S.ws[p])
        BY DEF Placed
    <2> QED
        BY <2>1, Leaving
<1> HIDE DEF w, L
<1>3. CASE ~ DoSwitch(w)
    <2>1. R = [L EXCEPT !.phase[t] = "woken", !.want[t] = w]
        BY <1>3 DEF Unpark, w, L
    <2> HIDE DEF R
    <2>a. w \in Single \cup Multiple \cup {Nothing} /\ L.phase[t] \in {S.phase[t]}
        BY <1>1, <1>2
    <2>b. R \in TableSet
        BY <1>2, <2>1, <2>a DEF TableSet
    <2>2. /\ R \in TableSet
          /\ R.count = S.count /\ R.owner = S.owner /\ R.astray = S.astray
          /\ R.ws = L.ws /\ R.phase[t] = "woken" /\ R.want[t] = w
          /\ \A u \in Threads \ {t} : R.phase[u] = S.phase[u] /\ R.want[u] = S.want[u]
        BY <1>1, <1>2, <2>1, <2>b DEF TableSet
    <2>3. \A p \in Objects : /\ IsSignaled(R, p) <=> IsSignaled(S, p)
                             /\ R.count[p] <= S.count[p]
        <3>1. \A p \in Objects : S.count[p] \in Int
            BY WaitObjectsAssumption DEF TableSet
        <3> QED
            BY <2>2, <3>1 DEF IsSignaled
    <2>4. Placed(R) /\ Calmer(S, R)
        BY <1>1, <1>2, <1>3, <2>2, <2>3, Waking DEF w
    <2>5. Head(w.objects) = o /\ kind[o] \notin Events \cup Semaphores
        <3>1. ~ w.multiple
            BY <1>3 DEF DoSwitch
        <3>2. PICK p \in Objects : w.objects = <<p>> /\ Range(w.objects) = {p}
            BY <1>1, <3>1, WantFacts
        <3> QED
            BY <1>1, <1>3, <3>2 DEF DoSwitch
    <2>6. Took(S, R, o) \/ OnItsWay(R, o)
        BY <2>2, <2>5 DEF Took, OnItsWay, Events
    <2> QED
        BY <2>2, <2>3, <2>4, <2>6 DEF Unparked, R
<1>4. CASE DoSwitch(w) /\ ~ Satisfied(L, w)
    <2>1. R = [L EXCEPT !.result = "verify_failed"]
        BY <1>4 DEF Unpark, Serve, Fail, w, L
    <2>2. R \in TableSet /\ ~ Going(R)
        BY <1>2, <2>1 DEF TableSet, Going
    <2> QED
        BY <2>2 DEF Unparked
<1>5. CASE DoSwitch(w) /\ Satisfied(L, w)
    <2> DEFINE Q == TakeWanted(L, t, w)
               lost == IF w.all \/ First(L, w) = o THEN L.astray ELSE L.astray \cup {o}
    <2>1. R = [Q EXCEPT !.phase[t] = "running", !.astray = lost]
        BY <1>5 DEF Unpark, Serve, w, L
    <2>2. /\ Lessens(L, Q)
          /\ \A p \in (IF w.all THEN Range(w.objects) ELSE {First(L, w)}) : Took(L, Q, p)
        BY <1>1, <1>2, <1>5, TakingWanted
    <2> HIDE DEF Q, R
    <2>3. /\ R \in TableSet
          /\ R.count = Q.count /\ R.owner = Q.owner /\ R.ws = L.ws /\ R.want = L.want
          /\ R.astray = lost /\ R.phase[t] = "running"
          /\ \A u \in Threads \ {t} : R.phase[u] = S.phase[u] /\ R.want[u] = S.want[u]
        <3>1. lost \in SUBSET Objects
            BY <1>2 DEF TableSet
        <3>2. Q \in TableSet /\ Q.phase = S.phase /\ Q.want = L.want /\ Q.ws = L.ws
            BY <1>2, <2>2 DEF Lessens
        <3> HIDE DEF lost
        <3>3. R \in TableSet
            BY <2>1, <3>1, <3>2 DEF TableSet
        <3> QED
            BY <1>2, <2>1, <3>2, <3>3 DEF TableSet
    <2>4. \A p \in Objects : /\ IsSignaled(R, p) => IsSignaled(S, p)
                             /\ R.count[p] <= S.count[p]
        <3>1. \A p \in Objects : /\ IsSignaled(Q, p) => IsSignaled(L, p)
                                 /\ Q.count[p] <= L.count[p]
            BY <2>2 DEF Lessens
        <3> QED
            BY <1>2, <2>3, <3>1 DEF IsSignaled
    <2>5. S.astray \subseteq R.astray /\ R.astray \subseteq S.astray \cup {o}
        BY <1>2, <2>3
    <2>6. Placed(R) /\ Calmer(S, R)
        BY <1>1, <1>2, <2>3, <2>4, <2>5, Waking
    <2>7. o \in R.astray \/ Took(L, Q, o)
        BY <1>1, <2>2, <2>3
    <2>8. Took(L, Q, o) => Took(S, R, o)
        BY <1>2, <2>3 DEF Took
    <2> QED
        BY <2>3, <2>4, <2>5, <2>6, <2>7, <2>8 DEF Unparked, R
<1> QED
    BY <1>3, <1>4, <1>5

(* A part of a call that wakes and does not signal: who goes on has taken  *)
(* what it asked for, after the latest signal of it.                       *)
Ordered(S, R) ==
    /\ Later(S, R)
    /\ \A u \in Threads :
          /\ S.phase[u] # "parked" => R.phase[u] = S.phase[u] /\ R.took[u] = S.took[u]
          /\ S.phase[u] = "parked" /\ R.phase[u] = "running" => After(R, u, S.want[u])

(* One ordered step after another. *)
LEMMA OrderedTrans ==
    ASSUME NEW S, NEW Q, NEW R, Calmer(S, Q), Ordered(S, Q), Ordered(Q, R)
    PROVE  Ordered(S, R)
<1>1. Later(S, R)
    BY LaterTrans DEF Ordered
<1>2. ASSUME NEW u \in Threads, S.phase[u] = "parked", R.phase[u] = "running"
      PROVE  After(R, u, S.want[u])
    <2>1. CASE Q.phase[u] = "parked"
        BY <1>2, <2>1 DEF Ordered, Calmer
    <2>2. CASE Q.phase[u] # "parked"
        <3>1. After(Q, u, S.want[u]) /\ R.took[u] = Q.took[u]
            BY <1>2, <2>2 DEF Ordered
        <3> QED
            BY <3>1 DEF After
    <2> QED
        BY <2>1, <2>2
<1> QED
    BY <1>1, <1>2 DEF Ordered

(* Whoever is woken and served has taken what it asked for, in order. *)
LEMMA UnparkOrdered ==
    ASSUME NEW S \in TableSet, Placed(S), SyncOwn(S), NEW o \in Objects,
           NEW t \in Threads, t \in Range(S.ws[o])
    PROVE  Ordered(S, Unpark(S, t, o))
<1> DEFINE w == S.want[t]
           L == Leave(S, t)
           R == Unpark(S, t, o)
<1>1. S.phase[t] = "parked" /\ w \in Single \cup Multiple
    BY DEF Placed, Waits
<1>2. /\ L \in TableSet /\ L.phase = S.phase
      /\ L.unseen = S.unseen /\ L.syncUnseen = S.syncUnseen /\ L.took = S.took
    <2>1. \A p \in Objects : IsInjective(S.ws[p])
        BY DEF Placed
    <2> QED
        BY <2>1, Leaving
<1>3. Later(S, L) /\ SyncOwn(L)
    BY <1>2 DEF Later, SyncOwn
<1> HIDE DEF w, L
<1>4. CASE ~ DoSwitch(w)
    <2>1. R = [L EXCEPT !.phase[t] = "woken", !.want[t] = w]
        BY <1>4 DEF Unpark, w, L
    <2> HIDE DEF R
    <2>2. /\ R.unseen = S.unseen /\ R.syncUnseen = S.syncUnseen /\ R.phase[t] = "woken"
          /\ R.took = S.took
          /\ \A u \in Threads \ {t} : R.phase[u] = S.phase[u]
        BY <1>2, <2>1 DEF TableSet
    <2>3. Ordered(S, R)
        BY <1>1, <2>2 DEF Ordered, Later
    <2> QED
        BY <2>3 DEF R
<1>5. CASE DoSwitch(w) /\ ~ Satisfied(L, w)
    <2>1. R = [L EXCEPT !.result = "verify_failed"]
        BY <1>5 DEF Unpark, Serve, Fail, w, L
    <2> HIDE DEF R
    <2>2. /\ R.unseen = S.unseen /\ R.syncUnseen = S.syncUnseen /\ R.phase = S.phase
          /\ R.took = S.took
        BY <1>2, <2>1 DEF TableSet
    <2>3. Ordered(S, R)
        BY <2>2 DEF Ordered, Later
    <2> QED
        BY <2>3 DEF R
<1>6. CASE DoSwitch(w) /\ Satisfied(L, w)
    <2> DEFINE Q == TakeWanted(L, t, w)
               lost == IF w.all \/ First(L, w) = o THEN L.astray ELSE L.astray \cup {o}
    <2>1. R = [Q EXCEPT !.phase[t] = "running", !.astray = lost]
        BY <1>6 DEF Unpark, Serve, w, L
    <2>2. Lessens(L, Q)
        BY <1>1, <1>2, <1>6, TakingWanted
    <2>3. Later(L, Q) /\ After(Q, t, w) /\ \A u \in Threads \ {t} : Q.took[u] = L.took[u]
        BY <1>1, <1>2, <1>3, <1>6, TakingBounds
    <2> HIDE DEF Q, R, lost
    <2>4. /\ R.unseen = Q.unseen /\ R.syncUnseen = Q.syncUnseen /\ R.phase[t] = "running"
          /\ R.took = Q.took
          /\ \A u \in Threads \ {t} : R.phase[u] = S.phase[u]
        BY <1>2, <2>1, <2>2 DEF TableSet, Lessens
    <2>5. Later(S, R)
        BY <1>3, <2>3, <2>4 DEF Later
    <2>6. After(R, t, w)
        BY <2>3, <2>4 DEF After
    <2>7. Ordered(S, R)
        BY <1>1, <1>2, <2>3, <2>4, <2>5, <2>6 DEF Ordered, w
    <2> QED
        BY <2>7 DEF R
<1> QED
    BY <1>4, <1>5, <1>6

(* So it is of unpark_one. *)
LEMMA UnparkOneOrdered ==
    ASSUME NEW S \in TableSet, Placed(S), SyncOwn(S), NEW o \in Objects,
           NEW R \in UnparkOne(S, o)
    PROVE  Ordered(S, R)
<1>1. Ordered(S, S)
    BY DEF Ordered, Later
<1>2. ASSUME NEW t \in Threads, Contains(S.ws[o], t)
      PROVE  Ordered(S, Unpark(S, t, o))
    <2>1. S.ws[o] \in Seq(Threads)
        BY DEF TableSet
    <2>2. t \in Range(S.ws[o])
        BY <1>2, <2>1 DEF Contains, Range
    <2> QED
        BY <2>2, UnparkOrdered
<1> QED
    BY <1>1, <1>2 DEF UnparkOne

(* The threads that were not parked are where they were. *)
Steady(S, R) ==
    \A u \in Threads : S.phase[u] # "parked" =>
        R.phase[u] = S.phase[u] /\ R.want[u] = S.want[u]

(* One waiter of o less was enough, unless it took one of several signals. *)
LEMMA RelievedHear ==
    ASSUME NEW S \in TableSet, NEW R \in TableSet, NEW o \in Objects, Placed(R),
           o \in R.astray \/ Took(S, R, o) \/ OnItsWay(R, o)
    PROVE  \/ HeardFor(R, o)
           \/ kind[o] \in Semaphores \cup {"auto"} /\ R.count[o] = S.count[o] - 1
           \/ kind[o] \notin Semaphores \cup {"auto", "mutex"}
<1>1. CASE Excused(R, o)
    BY <1>1 DEF HeardFor, Heard
<1>2. CASE kind[o] = "mutex" /\ R.owner[o] # Nobody
    <2>1. ~ IsSignaled(R, o)
        BY <1>2 DEF IsSignaled
    <2> QED
        BY <2>1 DEF HeardFor, Heard, Met
<1> QED
    BY <1>1, <1>2 DEF Took, Excused

(* unpark_one *)
LEMMA UnparkingOne ==
    ASSUME NEW S \in TableSet, Going(S), Placed(S), NEW o \in Objects, HeardBut(S, o),
           kind[o] \in Semaphores \cup {"auto", "mutex"}, NEW R \in UnparkOne(S, o)
    PROVE  /\ R \in TableSet
           /\ Going(R) =>
                 /\ Placed(R) /\ Calmer(S, R) /\ Steady(S, R) /\ HeardBut(R, o)
                 /\ \/ HeardFor(R, o)
                    \/ /\ kind[o] \in Semaphores \cup {"auto"}
                       /\ R.count[o] = S.count[o] - 1
<1> DEFINE removable == {t \in Threads : Contains(S.ws[o], t) /\ TryRemovable(S, t)}
<1>0. \A t \in Threads : Contains(S.ws[o], t) <=> t \in Range(S.ws[o])
    <2>1. S.ws[o] \in Seq(Threads)
        BY DEF TableSet
    <2> QED
        BY <2>1 DEF Contains, Range
<1>1. CASE removable = {}
    <2>1. R = S
        BY <1>1 DEF UnparkOne
    <2>2. ASSUME NEW t \in Threads, S.phase[t] = "parked", NEW P \in Pleas(S.want[t]), o \in P
          PROVE  ~ Met(S, P)
        <3>1. S.want[t] \in Single \cup Multiple
            BY <2>2 DEF Placed
        <3>2. t \in Range(S.ws[o])
            BY <2>2, <3>1, PleaFacts DEF Placed, Waits
        <3>3. ~ TryRemovable(S, t)
            BY <1>0, <1>1, <3>2
        <3> QED
            BY <2>2, <3>1, <3>3, PleaMet DEF TryRemovable
    <2>3. HeardFor(S, o)
        BY <2>2 DEF HeardFor, Heard
    <2> QED
        BY <2>1, <2>3 DEF Calmer, Steady
<1>2. CASE removable # {}
    <2>1. PICK t \in removable : R = Unpark(S, t, o)
        BY <1>2 DEF UnparkOne
    <2>2. Unparked(S, R, t, o)
        BY <1>0, <2>1, Unparking
    <2>3. R \in TableSet
        BY <2>2 DEF Unparked
    <2>4. ASSUME Going(R)
          PROVE  /\ Placed(R) /\ Calmer(S, R) /\ Steady(S, R) /\ HeardBut(R, o)
                 /\ \/ HeardFor(R, o)
                    \/ /\ kind[o] \in Semaphores \cup {"auto"}
                       /\ R.count[o] = S.count[o] - 1
        <3>1. /\ Placed(R) /\ Calmer(S, R)
              /\ \A u \in Threads \ {t} : R.phase[u] = S.phase[u] /\ R.want[u] = S.want[u]
              /\ o \in R.astray \/ Took(S, R, o) \/ OnItsWay(R, o)
            BY <2>2, <2>4 DEF Unparked
        <3>2. S.phase[t] = "parked"
            BY <1>0, <2>1 DEF Placed, Waits
        <3>3. Steady(S, R)
            BY <3>1, <3>2 DEF Steady
        <3>4. HeardBut(R, o)
            BY <2>3, <3>1, CalmerAll
        <3>5. \/ HeardFor(R, o)
              \/ kind[o] \in Semaphores \cup {"auto"} /\ R.count[o] = S.count[o] - 1
            BY <2>3, <3>1, RelievedHear
        <3> QED
            BY <3>1, <3>3, <3>4, <3>5
    <2> QED
        BY <2>3, <2>4
<1> QED
    BY <1>1, <1>2

(* unpark_all, one waiter after the other *)
LEMMA UnparkAllSteps ==
    ASSUME NEW S \in TableSet, NEW o \in Objects
    PROVE  \E f : /\ f[0] = S /\ UnparkAll(S, o) = f[Len(S.ws[o])]
                  /\ \A i \in 1 .. Len(S.ws[o]) :
                        f[i] = IF Going(f[i - 1]) /\ TryRemovable(f[i - 1], S.ws[o][i])
                               THEN Unpark(f[i - 1], S.ws[o][i], o) ELSE f[i - 1]
<1> DEFINE Next_(R, i) == IF Going(R) /\ TryRemovable(R, S.ws[o][i])
                          THEN Unpark(R, S.ws[o][i], o) ELSE R
           Of(g, m) == [i \in 0 .. m |-> IF i = 0 THEN S ELSE Next_(g[i - 1], i)]
           n == Len(S.ws[o])
           G == {m \in Nat : \E g : g = Of(g, m)}
           after == CHOOSE g : g = Of(g, n)
<1>1. n \in Nat
    <2>1. S.ws[o] \in Seq(Threads)
        BY DEF TableSet
    <2> QED
        BY <2>1
<1>2. UnparkAll(S, o) = after[n]
    BY DEF UnparkAll
<1> HIDE DEF Next_, n
<1>3. 0 \in G
    <2> DEFINE g == [i \in 0 .. 0 |-> S]
    <2>1. g = Of(g, 0)
        OBVIOUS
    <2> QED
        BY <2>1
<1>4. ASSUME NEW m \in 1 .. n, m - 1 \in G
      PROVE  m \in G
    <2>1. PICK g : g = Of(g, m - 1)
        BY <1>4
    <2> DEFINE h == [i \in 0 .. m |-> IF i = m THEN Next_(g[m - 1], m) ELSE g[i]]
    <2>2. \A i \in 0 .. m - 1 : g[i] = IF i = 0 THEN S ELSE Next_(g[i - 1], i)
        BY <2>1
    <2>3. m \in Nat /\ m # 0 /\ m - 1 \in 0 .. m - 1 /\ m \notin 0 .. m - 1
        OBVIOUS
    <2>4. h[m] = Next_(g[m - 1], m) /\ \A i \in 0 .. m - 1 : h[i] = g[i]
        BY <2>3
    <2>5. ASSUME NEW i \in 0 .. m
          PROVE  h[i] = IF i = 0 THEN S ELSE Next_(h[i - 1], i)
        <3> HIDE DEF h
        <3>1. CASE i = m
            BY <2>3, <2>4, <3>1
        <3>2. CASE i # m
            <4>1. i \in 0 .. m - 1 /\ (i # 0 => i - 1 \in 0 .. m - 1)
                BY <2>3, <3>2
            <4> QED
                BY <2>2, <2>4, <4>1
        <3> QED
            BY <3>1, <3>2
    <2>6. h = Of(h, m)
        <3>1. h = [i \in 0 .. m |-> h[i]]
            OBVIOUS
        <3> HIDE DEF h
        <3> QED
            BY <2>5, <3>1
    <2> QED
        BY <2>3, <2>6
<1>5. n \in G
    <2> HIDE DEF G
    <2>1. \A i \in 0 .. n : i \in G
        BY <1>1, <1>3, <1>4, Climb
    <2> QED
        BY <1>1, <2>1
<1>6. after = Of(after, n)
    BY <1>5
<1> HIDE DEF after
<1>7. \A i \in 0 .. n : after[i] = IF i = 0 THEN S ELSE Next_(after[i - 1], i)
    BY <1>6
<1>8. after[0] = S /\ \A i \in 1 .. n : after[i] = Next_(after[i - 1], i)
    <2>1. 0 \in 0 .. n /\ \A i \in 1 .. n : i \in 0 .. n /\ i # 0
        BY <1>1
    <2> QED
        BY <1>7, <2>1
<1> QED
    BY <1>2, <1>8 DEF Next_, n

(* What a part of a call leaves when it only wakes waiters of o.           *)
Wakes(S, R, o) ==
    /\ Placed(R) /\ Calmer(S, R) /\ Steady(S, R)
    /\ S.astray \subseteq R.astray /\ R.astray \subseteq S.astray \cup {o}

(* None of the pleas of t is met. *)
Refused(S, t) == \A P \in Pleas(S.want[t]) : ~ Met(S, P)

(* unpark_all: the waiters of o that are left are missing something.       *)
LEMMA UnparkingAll ==
    ASSUME NEW S \in TableSet, Going(S), Placed(S), NEW o \in Objects, HeardBut(S, o)
    PROVE  LET R == UnparkAll(S, o)
           IN  /\ R \in TableSet
               /\ Going(R) => Wakes(S, R, o) /\ AllHeard(R)
               /\ SyncOwn(S) => Ordered(S, R)
<1> DEFINE q == S.ws[o]
           n == Len(q)
<1>1. q \in Seq(Threads) /\ n \in Nat /\ DOMAIN q = 1 .. n /\ IsInjective(q)
    <2>1. q \in Seq(Threads)
        BY DEF TableSet
    <2> QED
        BY <2>1 DEF Placed
<1>2. PICK f : /\ f[0] = S /\ UnparkAll(S, o) = f[n]
               /\ \A i \in 1 .. n :
                     f[i] = IF Going(f[i - 1]) /\ TryRemovable(f[i - 1], q[i])
                            THEN Unpark(f[i - 1], q[i], o) ELSE f[i - 1]
    BY UnparkAllSteps
<1>3. \A u \in Threads : (\E j \in 1 .. n : q[j] = u) <=> Waits(S, u, o)
    BY <1>1 DEF Placed, Range
<1> HIDE DEF q, n
<1> DEFINE Left(u, i) == \E j \in i .. n : q[j] = u
           Reached(R, i) ==
               /\ Wakes(S, R, o)
               /\ \A u \in Threads : Left(u, i + 1) =>
                      R.phase[u] = "parked" /\ R.want[u] = S.want[u]
               /\ \A u \in Threads : Waits(R, u, o) => Left(u, i + 1) \/ Refused(R, u)
           J == {i \in 0 .. n : /\ f[i] \in TableSet /\ (Going(f[i]) => Reached(f[i], i))
                                /\ SyncOwn(S) => Ordered(S, f[i])}
<1>4. 0 \in J
    <2>1. Wakes(S, S, o)
        BY DEF Wakes, Calmer, Steady
    <2>2. \A u \in Threads : Left(u, 0 + 1) <=> Waits(S, u, o)
        BY <1>3
    <2>3. \A u \in Threads : Waits(S, u, o) => S.phase[u] = "parked"
        BY DEF Waits
    <2> HIDE DEF Left
    <2>4. Reached(S, 0)
        BY <2>1, <2>2, <2>3
    <2>5. Ordered(S, S)
        BY DEF Ordered, Later
    <2> HIDE DEF Reached
    <2> QED
        BY <1>1, <1>2, <2>4, <2>5
<1>5. ASSUME NEW i \in 1 .. n, i - 1 \in J
      PROVE  i \in J
    <2> DEFINE Q == f[i - 1]
               R == f[i]
               t == q[i]
    <2>1. /\ Q \in TableSet /\ (Going(Q) => Reached(Q, i - 1))
          /\ SyncOwn(S) => Ordered(S, Q)
        BY <1>5
    <2>2. R = IF Going(Q) /\ TryRemovable(Q, t) THEN Unpark(Q, t, o) ELSE Q
        BY <1>2
    <2>3. t \in Threads /\ i - 1 + 1 = i /\ i \in i .. n
        BY <1>1
    <2>4. /\ \A u \in Threads : Left(u, i + 1) => Left(u, i) /\ u # t
          /\ \A u \in Threads : Left(u, i) => u = t \/ Left(u, i + 1)
        <3>1. ASSUME NEW u \in Threads, Left(u, i + 1)
              PROVE  Left(u, i) /\ u # t
            <4>1. PICK j \in i + 1 .. n : q[j] = u
                BY <3>1
            <4>2. j \in i .. n /\ j # i /\ j \in 1 .. n
                BY <1>1
            <4> QED
                BY <1>1, <4>1, <4>2 DEF IsInjective
        <3>2. ASSUME NEW u \in Threads, Left(u, i), u # t
              PROVE  Left(u, i + 1)
            <4>1. PICK j \in i .. n : q[j] = u
                BY <3>2
            <4>2. j # i
                BY <3>2, <4>1
            <4>3. j \in i + 1 .. n
                BY <1>1, <4>2
            <4> QED
                BY <4>1, <4>3
        <3> QED
            BY <3>1, <3>2
    <2>5. Left(t, i)
        BY <2>3
    <2> HIDE DEF Left, Q, R, t
    <2>6. CASE ~ Going(Q)
        <3>1. R = Q
            BY <2>2, <2>6
        <3> QED
            BY <2>1, <2>6, <3>1 DEF Q, R
    <2>7. CASE Going(Q)
        <3>1. /\ Wakes(S, Q, o)
              /\ \A u \in Threads : Left(u, i) =>
                     Q.phase[u] = "parked" /\ Q.want[u] = S.want[u]
              /\ \A u \in Threads : Waits(Q, u, o) => Left(u, i) \/ Refused(Q, u)
            BY <2>1, <2>3, <2>7
        <3>2. Q.phase[t] = "parked" /\ Q.want[t] \in Single \cup Multiple
            BY <2>3, <2>5, <3>1 DEF Wakes, Placed
        <3>3. CASE ~ TryRemovable(Q, t)
            <4>1. R = Q
                BY <2>2, <3>3
            <4>2. Refused(Q, t)
                BY <3>2, <3>3, PleaMet DEF TryRemovable, Refused
            <4>3. Reached(R, i)
                BY <2>4, <3>1, <4>1, <4>2
            <4> HIDE DEF Reached
            <4> QED
                BY <2>1, <4>1, <4>3 DEF Q, R
        <3>4. CASE TryRemovable(Q, t)
            <4>1. t \in Range(Q.ws[o])
                <5>1. Waits(S, t, o)
                    BY <1>3, <2>3 DEF t
                <5>2. Waits(Q, t, o)
                    BY <2>3, <2>5, <3>1, <5>1 DEF Waits
                <5> QED
                    BY <2>3, <3>1, <5>2 DEF Wakes, Placed
            <4>2. Unparked(Q, R, t, o)
                <5>1. Placed(Q) /\ R = Unpark(Q, t, o)
                    BY <2>2, <2>7, <3>1, <3>4 DEF Wakes
                <5> QED
                    BY <2>1, <2>3, <2>7, <4>1, <5>1, Unparking
            <4>3. ASSUME Going(R)
                  PROVE  Reached(R, i)
                <5>1. /\ Placed(R) /\ Calmer(Q, R) /\ R.phase[t] # "parked"
                      /\ \A u \in Threads \ {t} :
                            R.phase[u] = Q.phase[u] /\ R.want[u] = Q.want[u]
                      /\ Q.astray \subseteq R.astray /\ R.astray \subseteq Q.astray \cup {o}
                    BY <4>2, <4>3 DEF Unparked
                <5>2. Wakes(S, R, o)
                    <6>1. Calmer(S, R)
                        BY <3>1, <5>1, CalmerTrans DEF Wakes
                    <6>2. Steady(S, R)
                        <7>1. S.phase[t] = "parked"
                            BY <2>3, <3>1, <3>2 DEF Wakes, Calmer
                        <7> QED
                            BY <3>1, <5>1, <7>1 DEF Wakes, Steady
                    <6> QED
                        BY <3>1, <5>1, <6>1, <6>2 DEF Wakes
                <5>3. \A u \in Threads : Left(u, i + 1) =>
                         R.phase[u] = "parked" /\ R.want[u] = S.want[u]
                    BY <2>4, <3>1, <5>1
                <5>4. ASSUME NEW u \in Threads, Waits(R, u, o), ~ Left(u, i + 1)
                      PROVE  Refused(R, u)
                    <6>1. u # t /\ ~ Left(u, i) /\ Waits(Q, u, o) /\ R.want[u] = Q.want[u]
                        BY <2>4, <5>1, <5>4 DEF Waits
                    <6>2. Refused(Q, u) /\ Q.want[u] \in Single \cup Multiple
                        BY <3>1, <6>1 DEF Wakes, Placed, Waits
                    <6>3. \A P \in Pleas(R.want[u]) : P \subseteq Objects
                        BY <6>1, <6>2, PleaFacts
                    <6> QED
                        BY <5>1, <6>1, <6>2, <6>3 DEF Refused, Met, Calmer
                <5> QED
                    BY <5>2, <5>3, <5>4
            <4>4. ASSUME SyncOwn(S)
                  PROVE  Ordered(S, R)
                <5>1. Ordered(S, Q) /\ SyncOwn(Q)
                    BY <2>1, <4>4 DEF Ordered, Later, SyncOwn
                <5>2. Placed(Q) /\ Calmer(S, Q) /\ R = Unpark(Q, t, o)
                    BY <2>2, <2>7, <3>1, <3>4 DEF Wakes
                <5>3. Ordered(Q, R)
                    BY <2>1, <2>3, <4>1, <5>1, <5>2, UnparkOrdered
                <5> QED
                    BY <5>1, <5>2, <5>3, OrderedTrans
            <4> HIDE DEF Reached
            <4> QED
                BY <4>2, <4>3, <4>4 DEF Unparked, R
        <3> QED
            BY <3>3, <3>4
    <2> QED
        BY <2>6, <2>7
<1>6. n \in J
    <2> HIDE DEF J
    <2>1. \A i \in 0 .. n : i \in J
        BY <1>1, <1>4, <1>5, Climb DEF n
    <2> QED
        BY <1>1, <2>1
<1> DEFINE R == UnparkAll(S, o)
<1>7. /\ R \in TableSet /\ (Going(R) => Reached(R, n))
      /\ SyncOwn(S) => Ordered(S, R)
    BY <1>2, <1>6
<1> HIDE DEF R
<1>8. ASSUME Going(R)
      PROVE  Wakes(S, R, o) /\ AllHeard(R)
    <2>1. Wakes(S, R, o)
        BY <1>7, <1>8
    <2>2. \A u \in Threads : ~ Left(u, n + 1)
        BY <1>1
    <2>3. \A u \in Threads : Waits(R, u, o) => Refused(R, u)
        BY <1>7, <1>8, <2>2
    <2>4. HeardFor(R, o)
        <3> SUFFICES ASSUME NEW u \in Threads, R.phase[u] = "parked",
                            NEW P \in Pleas(R.want[u]), o \in P
                     PROVE  ~ Met(R, P)
            BY DEF HeardFor, Heard
        <3>1. R.want[u] \in Single \cup Multiple
            BY <2>1 DEF Wakes, Placed
        <3>2. Waits(R, u, o)
            BY <3>1, PleaFacts DEF Waits
        <3> QED
            BY <2>3, <3>2 DEF Refused
    <2>5. HeardBut(R, o)
        BY <1>7, <2>1, CalmerAll DEF Wakes
    <2> QED
        BY <2>1, <2>4, <2>5, HeardAll
<1> QED
    BY <1>7, <1>8 DEF R

(* unpark_one, time after time *)
LEMMA UnparkManySteps ==
    ASSUME NEW S, NEW o, NEW n \in Nat
    PROVE  \E f : /\ f[0] = {S} /\ UnparkMany(S, o, n) = f[n]
                  /\ \A i \in 1 .. n :
                        f[i] = UNION {IF Going(R) THEN UnparkOne(R, o) ELSE {R} : R \in f[i - 1]}
<1> DEFINE Next_(X) == UNION {IF Going(R) THEN UnparkOne(R, o) ELSE {R} : R \in X}
           Of(g, m) == [i \in 0 .. m |-> IF i = 0 THEN {S} ELSE Next_(g[i - 1])]
           G == {m \in Nat : \E g : g = Of(g, m)}
           after == CHOOSE g : g = Of(g, n)
<1>2. UnparkMany(S, o, n) = after[n]
    BY DEF UnparkMany
<1> HIDE DEF Next_
<1>3. 0 \in G
    <2> DEFINE g == [i \in 0 .. 0 |-> {S}]
    <2>1. g = Of(g, 0)
        OBVIOUS
    <2> QED
        BY <2>1
<1>4. ASSUME NEW m \in 1 .. n, m - 1 \in G
      PROVE  m \in G
    <2>1. PICK g : g = Of(g, m - 1)
        BY <1>4
    <2> DEFINE h == [i \in 0 .. m |-> IF i = m THEN Next_(g[m - 1]) ELSE g[i]]
    <2>2. \A i \in 0 .. m - 1 : g[i] = IF i = 0 THEN {S} ELSE Next_(g[i - 1])
        BY <2>1
    <2>3. m \in Nat /\ m # 0 /\ m - 1 \in 0 .. m - 1 /\ m \notin 0 .. m - 1
        OBVIOUS
    <2>4. h[m] = Next_(g[m - 1]) /\ \A i \in 0 .. m - 1 : h[i] = g[i]
        BY <2>3
    <2>5. ASSUME NEW i \in 0 .. m
          PROVE  h[i] = IF i = 0 THEN {S} ELSE Next_(h[i - 1])
        <3> HIDE DEF h
        <3>1. CASE i = m
            BY <2>3, <2>4, <3>1
        <3>2. CASE i # m
            <4>1. i \in 0 .. m - 1 /\ (i # 0 => i - 1 \in 0 .. m - 1)
                BY <2>3, <3>2
            <4> QED
                BY <2>2, <2>4, <4>1
        <3> QED
            BY <3>1, <3>2
    <2>6. h = Of(h, m)
        <3>1. h = [i \in 0 .. m |-> h[i]]
            OBVIOUS
        <3> HIDE DEF h
        <3> QED
            BY <2>5, <3>1
    <2> QED
        BY <2>3, <2>6
<1>5. n \in G
    <2> HIDE DEF G
    <2>1. \A i \in 0 .. n : i \in G
        BY <1>3, <1>4, Climb
    <2> QED
        BY <2>1
<1>6. after = Of(after, n)
    BY <1>5
<1> HIDE DEF after
<1>7. \A i \in 0 .. n : after[i] = IF i = 0 THEN {S} ELSE Next_(after[i - 1])
    BY <1>6
<1>8. after[0] = {S} /\ \A i \in 1 .. n : after[i] = Next_(after[i - 1])
    <2>1. 0 \in 0 .. n /\ \A i \in 1 .. n : i \in 0 .. n /\ i # 0
        OBVIOUS
    <2> QED
        BY <1>7, <2>1
<1> QED
    BY <1>2, <1>8 DEF Next_

(* unpark_one, up to n times: as many signals are taken, or nobody is left *)
(* who could take one.                                                     *)
LEMMA UnparkingMany ==
    ASSUME NEW S \in TableSet, Going(S), Placed(S), NEW o \in Objects, HeardBut(S, o),
           kind[o] \in Semaphores, NEW n \in Nat, NEW R \in UnparkMany(S, o, n)
    PROVE  /\ R \in TableSet
           /\ Going(R) =>
                 /\ Placed(R) /\ Calmer(S, R) /\ Steady(S, R) /\ HeardBut(R, o)
                 /\ HeardFor(R, o) \/ R.count[o] <= S.count[o] - n
           /\ SyncOwn(S) => Ordered(S, R)
<1> DEFINE Reached(Q, i) ==
               /\ Q \in TableSet /\ (SyncOwn(S) => Ordered(S, Q))
               /\ Going(Q) =>
                     /\ Placed(Q) /\ Calmer(S, Q) /\ Steady(S, Q) /\ HeardBut(Q, o)
                     /\ HeardFor(Q, o) \/ Q.count[o] <= S.count[o] - i
<1>1. PICK f : /\ f[0] = {S} /\ UnparkMany(S, o, n) = f[n]
               /\ \A i \in 1 .. n :
                     f[i] = UNION {IF Going(Q) THEN UnparkOne(Q, o) ELSE {Q} : Q \in f[i - 1]}
    BY UnparkManySteps
<1> DEFINE J == {i \in 0 .. n : \A Q \in f[i] : Reached(Q, i)}
<1>2. \A Q \in TableSet : Q.count[o] \in Int
    BY WaitObjectsAssumption DEF TableSet
<1>3. 0 \in J
    <2>1. S.count[o] <= S.count[o] - 0
        BY <1>2
    <2>2. Reached(S, 0)
        BY <2>1 DEF Calmer, Steady, Ordered, Later
    <2> HIDE DEF Reached
    <2> QED
        BY <1>1, <2>2
<1>4. ASSUME NEW i \in 1 .. n, i - 1 \in J
      PROVE  i \in J
    <2> SUFFICES ASSUME NEW T \in f[i]
                 PROVE  Reached(T, i)
        OBVIOUS
    <2>1. PICK Q \in f[i - 1] : T \in IF Going(Q) THEN UnparkOne(Q, o) ELSE {Q}
        BY <1>1
    <2>2. Reached(Q, i - 1)
        BY <1>4
    <2>3. CASE ~ Going(Q)
        BY <2>1, <2>2, <2>3
    <2>4. CASE Going(Q)
        <3>1. /\ Q \in TableSet /\ Placed(Q) /\ Calmer(S, Q) /\ Steady(S, Q) /\ HeardBut(Q, o)
              /\ HeardFor(Q, o) \/ Q.count[o] <= S.count[o] - (i - 1)
              /\ SyncOwn(S) => Ordered(S, Q)
            BY <2>2, <2>4
        <3>2. T \in UnparkOne(Q, o)
            BY <2>1, <2>4
        <3>3. /\ T \in TableSet
              /\ Going(T) =>
                    /\ Placed(T) /\ Calmer(Q, T) /\ Steady(Q, T) /\ HeardBut(T, o)
                    /\ HeardFor(T, o) \/ T.count[o] = Q.count[o] - 1
            BY <2>4, <3>1, <3>2, UnparkingOne
        <3>4. ASSUME Going(T)
              PROVE  /\ Placed(T) /\ Calmer(S, T) /\ Steady(S, T) /\ HeardBut(T, o)
                     /\ HeardFor(T, o) \/ T.count[o] <= S.count[o] - i
            <4>1. Calmer(S, T)
                BY <3>1, <3>3, <3>4, CalmerTrans
            <4>2. Steady(S, T)
                BY <3>1, <3>3, <3>4 DEF Steady
            <4>3. CASE HeardFor(Q, o)
                <5>1. HeardFor(T, o)
                    BY <3>1, <3>3, <3>4, <4>3, CalmerAll
                <5> QED
                    BY <3>3, <3>4, <4>1, <4>2, <5>1
            <4>4. CASE Q.count[o] <= S.count[o] - (i - 1)
                <5>1. T.count[o] = Q.count[o] - 1 => T.count[o] <= S.count[o] - i
                    BY <1>2, <3>1, <4>4
                <5> QED
                    BY <3>3, <3>4, <4>1, <4>2, <5>1
            <4> QED
                BY <3>1, <4>3, <4>4
        <3>5. ASSUME SyncOwn(S)
              PROVE  Ordered(S, T)
            <4>1. Ordered(S, Q) /\ SyncOwn(Q)
                BY <3>1, <3>5 DEF Ordered, Later, SyncOwn
            <4>2. Ordered(Q, T)
                BY <3>1, <3>2, <4>1, UnparkOneOrdered
            <4> QED
                BY <3>1, <4>1, <4>2, OrderedTrans
        <3> QED
            BY <3>3, <3>4, <3>5
    <2> QED
        BY <2>3, <2>4
<1>5. n \in J
    <2> HIDE DEF J
    <2>1. \A i \in 0 .. n : i \in J
        BY <1>3, <1>4, Climb
    <2> QED
        BY <2>1
<1>6. Reached(R, n)
    BY <1>1, <1>5
<1> QED
    BY <1>6

-----------------------------------------------------------------------------
(* When a check fails. *)

(* Who is woken for what is there finds it, and takes one of it at most.   *)
LEMMA ServedWaker ==
    ASSUME NEW S \in TableSet, Going(S), Placed(S), NEW o \in Objects, IsSignaled(S, o),
           NEW t \in Threads, t \in Range(S.ws[o]), TryRemovable(S, t)
    PROVE  LET R == Unpark(S, t, o)
           IN  /\ Going(R)
               /\ R.count[o] >= S.count[o] - 1
               /\ kind[o] \notin Semaphores \cup {"auto"} => R.count[o] = S.count[o]
<1> DEFINE w == S.want[t]
           L == Leave(S, t)
           R == Unpark(S, t, o)
<1>1. S.phase[t] = "parked" /\ o \in Range(w.objects) /\ w \in Single \cup Multiple
    BY DEF Placed, Waits
<1>2. /\ L \in TableSet
      /\ L.count = S.count /\ L.owner = S.owner /\ L.result = S.result
    <2>1. \A p \in Objects : IsInjective(S.ws[p])
        BY DEF Placed
    <2> QED
        BY <2>1, Leaving
<1>3. S.count[o] \in Int
    BY WaitObjectsAssumption DEF TableSet
<1>4. w.all => Satisfied(S, w)
    BY DEF TryRemovable
<1> HIDE DEF w, L
<1>5. Satisfied(L, w)
    <2>1. Signaled(L, w) = Signaled(S, w)
        BY <1>2 DEF Signaled, IsSignaled
    <2>2. \E i \in DOMAIN w.objects : w.objects[i] = o
        BY <1>1 DEF Range
    <2>3. Signaled(S, w) # {}
        BY <2>2 DEF Signaled
    <2> QED
        BY <1>4, <2>1, <2>3 DEF Satisfied
<1>6. CASE ~ DoSwitch(w)
    <2>1. R = [L EXCEPT !.phase[t] = "woken", !.want[t] = w]
        BY <1>6 DEF Unpark, w, L
    <2> HIDE DEF R
    <2>2. R.count = S.count /\ R.result = S.result
        BY <1>2, <2>1 DEF TableSet
    <2>3. S.count[o] >= S.count[o] - 1
        BY <1>3
    <2> QED
        BY <2>2, <2>3 DEF Going, R
<1>7. CASE DoSwitch(w)
    <2> DEFINE Q == TakeWanted(L, t, w)
               lost == IF w.all \/ First(L, w) = o THEN L.astray ELSE L.astray \cup {o}
    <2>1. R = [Q EXCEPT !.phase[t] = "running", !.astray = lost]
        BY <1>5, <1>7 DEF Unpark, Serve, w, L
    <2>2. /\ Q \in TableSet /\ Q.result = L.result
          /\ Q.count[o] >= L.count[o] - 1
          /\ kind[o] \notin Semaphores \cup {"auto"} => Q.count[o] = L.count[o]
        <3>1. Lessens(L, Q)
            BY <1>1, <1>2, <1>5, TakingWanted
        <3>2. /\ Q.count[o] >= L.count[o] - 1
              /\ kind[o] \notin Semaphores \cup {"auto"} => Q.count[o] = L.count[o]
            BY <1>1, <1>2, <1>5, TakingBounds
        <3> QED
            BY <3>1, <3>2 DEF Lessens
    <2> HIDE DEF Q, R, lost
    <2>3. R.count = Q.count /\ R.result = Q.result
        BY <2>1, <2>2 DEF TableSet
    <2> QED
        BY <1>2, <2>2, <2>3 DEF Going, R
<1> QED
    BY <1>6, <1>7

(* unpark_one of an object that is signaled *)
LEMMA OneServed ==
    ASSUME NEW S \in TableSet, Going(S), Placed(S), NEW o \in Objects, IsSignaled(S, o),
           NEW R \in UnparkOne(S, o)
    PROVE  Going(R) /\ R.count[o] >= S.count[o] - 1
<1> DEFINE removable == {t \in Threads : Contains(S.ws[o], t) /\ TryRemovable(S, t)}
<1>1. CASE removable = {}
    <2>1. R = S
        BY <1>1 DEF UnparkOne
    <2>2. S.count[o] \in Int
        BY WaitObjectsAssumption DEF TableSet
    <2>3. S.count[o] >= S.count[o] - 1
        BY <2>2
    <2> QED
        BY <2>1, <2>3
<1>2. CASE removable # {}
    <2>1. PICK t \in removable : R = Unpark(S, t, o)
        BY <1>2 DEF UnparkOne
    <2>2. t \in Range(S.ws[o])
        <3>1. S.ws[o] \in Seq(Threads)
            BY DEF TableSet
        <3> QED
            BY <3>1 DEF Contains, Range
    <2> QED
        BY <2>1, <2>2, ServedWaker
<1> QED
    BY <1>1, <1>2

(* As many unpark_ones as a semaphore has signals *)
LEMMA ManyServed ==
    ASSUME NEW S \in TableSet, Going(S), Placed(S), NEW o \in Objects, HeardBut(S, o),
           kind[o] \in Semaphores, NEW n \in Nat, S.count[o] >= n,
           NEW R \in UnparkMany(S, o, n)
    PROVE  Going(R)
<1> DEFINE Reached(Q, i) == /\ Q \in TableSet /\ Going(Q) /\ Placed(Q) /\ HeardBut(Q, o)
                            /\ Q.count[o] >= n - i
<1>1. PICK f : /\ f[0] = {S} /\ UnparkMany(S, o, n) = f[n]
               /\ \A i \in 1 .. n :
                     f[i] = UNION {IF Going(Q) THEN UnparkOne(Q, o) ELSE {Q} : Q \in f[i - 1]}
    BY UnparkManySteps
<1> DEFINE J == {i \in 0 .. n : \A Q \in f[i] : Reached(Q, i)}
<1>2. \A Q \in TableSet : Q.count[o] \in Int
    BY WaitObjectsAssumption DEF TableSet
<1>3. 0 \in J
    <2>1. Reached(S, 0)
        BY <1>2
    <2> HIDE DEF Reached
    <2> QED
        BY <1>1, <2>1
<1>4. ASSUME NEW i \in 1 .. n, i - 1 \in J
      PROVE  i \in J
    <2> SUFFICES ASSUME NEW T \in f[i]
                 PROVE  Reached(T, i)
        OBVIOUS
    <2>1. PICK Q \in f[i - 1] : T \in IF Going(Q) THEN UnparkOne(Q, o) ELSE {Q}
        BY <1>1
    <2>2. Reached(Q, i - 1)
        BY <1>4
    <2>3. T \in UnparkOne(Q, o)
        BY <2>1, <2>2
    <2>4. IsSignaled(Q, o)
        <3>1. Q.count[o] > 0
            BY <1>2, <2>2
        <3>2. kind[o] # "mutex"
            BY DEF Semaphores
        <3> QED
            BY <3>1, <3>2 DEF IsSignaled
    <2>5. Going(T) /\ T.count[o] >= Q.count[o] - 1
        BY <2>2, <2>3, <2>4, OneServed
    <2>6. T \in TableSet /\ Placed(T) /\ HeardBut(T, o)
        BY <2>2, <2>3, <2>5, UnparkingOne
    <2>7. T.count[o] >= n - i
        BY <1>2, <2>2, <2>5, <2>6
    <2> QED
        BY <2>5, <2>6, <2>7
<1>5. n \in J
    <2> HIDE DEF J
    <2>1. \A i \in 0 .. n : i \in J
        BY <1>3, <1>4, Climb
    <2> QED
        BY <2>1
<1> QED
    BY <1>1, <1>5

(* unpark_all of an object that is signaled; a pulse of an auto-reset event *)
(* gives its signal to the first waiter.                                   *)
LEMMA AllServed ==
    ASSUME NEW S \in TableSet, Going(S), Placed(S), NEW o \in Objects, HeardBut(S, o),
           IsSignaled(S, o), kind[o] # "mutex",
           kind[o] \notin Semaphores \cup {"auto"} \/ Len(S.ws[o]) <= 1
    PROVE  Going(UnparkAll(S, o))
<1> DEFINE q == S.ws[o]
           n == Len(q)
<1>1. q \in Seq(Threads) /\ n \in Nat /\ DOMAIN q = 1 .. n /\ IsInjective(q)
    <2>1. q \in Seq(Threads)
        BY DEF TableSet
    <2> QED
        BY <2>1 DEF Placed
<1>2. PICK f : /\ f[0] = S /\ UnparkAll(S, o) = f[n]
               /\ \A i \in 1 .. n :
                     f[i] = IF Going(f[i - 1]) /\ TryRemovable(f[i - 1], q[i])
                            THEN Unpark(f[i - 1], q[i], o) ELSE f[i - 1]
    BY UnparkAllSteps
<1>3. \A j \in 1 .. n : Waits(S, q[j], o) /\ q[j] \in Threads
    BY <1>1 DEF Placed, Range
<1>4. kind[o] \notin Semaphores \cup {"auto"} \/ n <= 1
    OBVIOUS
<1> HIDE DEF q, n
<1> DEFINE Reached(R, i) ==
               /\ R \in TableSet /\ Going(R) /\ Placed(R)
               /\ kind[o] \notin Semaphores \cup {"auto"} \/ i = 0 => IsSignaled(R, o)
               /\ \A j \in i + 1 .. n : Waits(R, q[j], o)
           J == {i \in 0 .. n : Reached(f[i], i)}
<1>5. 0 \in J
    <2>1. 0 + 1 = 1
        OBVIOUS
    <2> QED
        BY <1>1, <1>2, <1>3, <2>1
<1>6. ASSUME NEW i \in 1 .. n, i - 1 \in J
      PROVE  i \in J
    <2> DEFINE Q == f[i - 1]
               R == f[i]
               t == q[i]
    <2>1. Reached(Q, i - 1)
        BY <1>6
    <2>2. R = IF TryRemovable(Q, t) THEN Unpark(Q, t, o) ELSE Q
        BY <1>2, <2>1
    <2>3. /\ t \in Threads /\ i - 1 + 1 = i /\ i \in i .. n
          /\ \A j \in i + 1 .. n : j \in i .. n /\ q[j] # t /\ q[j] \in Threads
        <3>1. \A j \in i + 1 .. n : j \in i .. n /\ j \in 1 .. n /\ j # i
            BY <1>1
        <3> QED
            BY <1>1, <3>1 DEF IsInjective
    <2>4. Waits(Q, t, o) /\ \A j \in i + 1 .. n : Waits(Q, q[j], o)
        BY <2>1, <2>3
    <2>5. IsSignaled(Q, o)
        <3>1. n <= 1 => i - 1 = 0
            BY <1>1
        <3> QED
            BY <1>4, <2>1, <3>1
    <2>6. Q \in TableSet /\ Going(Q) /\ Placed(Q)
        BY <2>1
    <2> HIDE DEF Q, R, t
    <2>7. CASE ~ TryRemovable(Q, t)
        <3>1. R = Q
            BY <2>2, <2>7
        <3>2. Reached(R, i)
            BY <2>4, <2>5, <2>6, <3>1
        <3> HIDE DEF Reached
        <3> QED
            BY <3>2 DEF R
    <2>8. CASE TryRemovable(Q, t)
        <3>1. t \in Range(Q.ws[o]) /\ R = Unpark(Q, t, o)
            BY <2>2, <2>3, <2>4, <2>6, <2>8 DEF Placed
        <3>2. /\ Going(R)
              /\ kind[o] \notin Semaphores \cup {"auto"} => R.count[o] = Q.count[o]
            BY <2>3, <2>5, <2>6, <2>8, <3>1, ServedWaker
        <3>3. Unparked(Q, R, t, o)
            BY <2>3, <2>6, <3>1, Unparking
        <3>4. /\ R \in TableSet /\ Placed(R)
              /\ \A u \in Threads \ {t} : R.phase[u] = Q.phase[u] /\ R.want[u] = Q.want[u]
            BY <3>2, <3>3 DEF Unparked
        <3>5. kind[o] \notin Semaphores \cup {"auto"} => IsSignaled(R, o)
            BY <2>5, <3>2 DEF IsSignaled
        <3>6. \A j \in i + 1 .. n : Waits(R, q[j], o)
            BY <2>3, <2>4, <3>4 DEF Waits
        <3>7. Reached(R, i)
            BY <3>2, <3>4, <3>5, <3>6
        <3> HIDE DEF Reached
        <3> QED
            BY <3>7 DEF R
    <2> QED
        BY <2>7, <2>8
<1>7. n \in J
    <2> HIDE DEF J
    <2>1. \A i \in 0 .. n : i \in J
        BY <1>1, <1>5, <1>6, Climb
    <2> QED
        BY <1>1, <2>1
<1> QED
    BY <1>2, <1>7

-----------------------------------------------------------------------------
(* The calls. *)

Fine(S) == S \in TableSet /\ Going(S) /\ Placed(S) /\ AllHeard(S)

(* Only what o offers has changed, and perhaps who is not waiting, or who  *)
(* was on its way to o.                                                    *)
Touched(S, R, o) ==
    /\ R \in TableSet /\ R.ws = S.ws
    /\ \A u \in Threads :
          /\ R.phase[u] \in {"parked", "woken"} =>
                S.phase[u] = R.phase[u] /\ R.want[u] = S.want[u]
          /\ S.phase[u] = "parked" => R.phase[u] = "parked"
          /\ S.phase[u] = "woken" => R.phase[u] = "woken" \/ Head(S.want[u].objects) = o
    /\ \A p \in Objects \ {o} : R.count[p] = S.count[p] /\ R.owner[p] = S.owner[p]
    /\ kind[o] \in Events => R.count[o] \in {0, 1}
    /\ S.astray \subseteq R.astray \cup {o}

(* Then the pleas for other objects are heard as before. *)
LEMMA Touching ==
    ASSUME NEW S, Fine(S), NEW o \in Objects, NEW R, Touched(S, R, o)
    PROVE  Placed(R) /\ HeardBut(R, o)
<1>1. ASSUME NEW p \in Objects
      PROVE  /\ IsInjective(R.ws[p])
             /\ \A u \in Threads : u \in Range(R.ws[p]) <=> Waits(R, u, p)
             /\ kind[p] \in Events => R.count[p] \in {0, 1}
    <2>1. \A u \in Threads : Waits(R, u, p) <=> Waits(S, u, p)
        BY DEF Touched, Waits
    <2>2. kind[p] \in Events => R.count[p] \in {0, 1}
        <3>1. CASE p = o
            BY <3>1 DEF Touched
        <3>2. CASE p # o
            BY <3>2 DEF Touched, Fine, Placed
        <3> QED
            BY <3>1, <3>2
    <2> QED
        BY <2>1, <2>2 DEF Touched, Fine, Placed
<1>2. \A u \in Threads :
         /\ R.phase[u] \in {"parked", "woken"} => R.want[u] \in Single \cup Multiple
         /\ R.phase[u] = "woken" => ~ DoSwitch(R.want[u])
    BY DEF Touched, Fine, Placed
<1>3. Placed(R)
    BY <1>1, <1>2 DEF Placed
<1>4. ASSUME NEW p \in Objects, p # o
      PROVE  (IsSignaled(R, p) <=> IsSignaled(S, p)) /\ (Excused(S, p) => Excused(R, p))
    <2>1. IsSignaled(R, p) <=> IsSignaled(S, p)
        BY <1>4 DEF Touched, IsSignaled
    <2>2. p \in S.astray => p \in R.astray
        BY <1>4 DEF Touched
    <2>3. ASSUME OnItsWay(S, p)
          PROVE  OnItsWay(R, p)
        <3>1. PICK u \in Threads : S.phase[u] = "woken" /\ Head(S.want[u].objects) = p
            BY <2>3 DEF OnItsWay
        <3>2. R.phase[u] = "woken" /\ R.want[u] = S.want[u]
            BY <1>4, <3>1 DEF Touched
        <3>3. R.owner[p] = S.owner[p]
            BY <1>4 DEF Touched
        <3> QED
            BY <2>3, <3>1, <3>2, <3>3 DEF OnItsWay
    <2> QED
        BY <2>1, <2>2, <2>3 DEF Excused
<1>5. ASSUME NEW t \in Threads, R.phase[t] = "parked", NEW P \in Pleas(R.want[t]), o \notin P
      PROVE  Heard(R, P)
    <2>1. S.phase[t] = "parked" /\ S.want[t] = R.want[t] /\ S.want[t] \in Single \cup Multiple
        BY <1>5 DEF Touched, Fine, Placed
    <2>2. P \subseteq Objects
        BY <1>5, <2>1, PleaFacts
    <2>3. Heard(S, P)
        BY <1>5, <2>1 DEF Fine, AllHeard
    <2> QED
        BY <1>4, <1>5, <2>2, <2>3 DEF Heard, Met
<1> QED
    BY <1>3, <1>5 DEF HeardBut

(* What is not there is not asked for in vain. *)
LEMMA Unsignaled ==
    ASSUME NEW R, NEW o, ~ IsSignaled(R, o)
    PROVE  HeardFor(R, o)
BY DEF HeardFor, Heard, Met

(* Calls that change nothing but sync_. *)
LEMMA SameGood ==
    ASSUME NEW S, Fine(S), NEW R \in TableSet, Same(S, R)
    PROVE  Fine(R) /\ Steady(S, R)
<1>1. \A p : /\ IsSignaled(R, p) <=> IsSignaled(S, p)
             /\ Excused(S, p) => Excused(R, p)
    BY DEF Same, IsSignaled, Excused, OnItsWay
<1>2. Placed(R)
    BY DEF Same, Fine, Placed, Waits
<1>3. Calmer(S, R)
    BY <1>1 DEF Same, Calmer
<1> QED
    BY <1>2, <1>3, CalmerAll DEF Fine, Same, Going, Steady

(* A check that fails ends the iteration. *)
LEMMA Failing ==
    ASSUME NEW S \in TableSet,
           NEW r \in {"verify_failed", "thread_signal", "unlocking_mutex_wo_ownership"}
    PROVE  Good(Fail(S, r)) /\ ~ Going(Fail(S, r))
<1>1. Fail(S, r) \in TableSet /\ Fail(S, r).result = r
    BY DEF TableSet, Fail
<1> QED
    BY <1>1 DEF Good, Going

(* What a call answers: when its checks fail, and who passes. *)

(* The two situations in which a check of an object fails: an event that   *)
(* is set has waiters, or one that is pulsed has several.                  *)
Doubtful(S) ==
    \E o \in Objects :
        /\ kind[o] \in Events /\ S.count[o] = 1 /\ S.ws[o] # <<>>
        /\ \A t \in Range(S.ws[o]) : S.want[t].all \/ o \in S.astray

Crowded(S, o) == kind[o] = "auto" /\ S.count[o] = 0 /\ Len(S.ws[o]) > 1

Passes(S, R) ==
    \A u \in Threads : S.phase[u] \in {"parked", "woken"} /\ R.phase[u] = "running" =>
        After(R, u, S.want[u])

Told(S, R) == SyncOwn(S) /\ NoneTook(S) => SyncOwn(R) /\ Passes(S, R)

Answered(S, R) == (R.result = "verify_failed" => Doubtful(S)) /\ Told(S, R)

(* A call that lets nobody go on. *)
LEMMA Quiet ==
    ASSUME NEW S, NEW R, Later(S, R), R.result = "verify_failed" => Doubtful(S),
           \A u \in Threads : S.phase[u] \in {"parked", "woken"} => R.phase[u] # "running"
    PROVE  Answered(S, R)
<1>1. SyncOwn(S) => SyncOwn(R)
    BY DEF Later, SyncOwn
<1> QED
    BY <1>1 DEF Answered, Told, Passes

(* A call that signals, to Q, and then wakes. *)
LEMMA Roused ==
    ASSUME NEW S, NEW Q, NEW R,
           \A u \in Threads : S.phase[u] \in {"parked", "woken"} =>
               Q.phase[u] = S.phase[u] /\ Q.want[u] = S.want[u],
           SyncOwn(S) /\ NoneTook(S) => SyncOwn(Q), SyncOwn(Q) => Ordered(Q, R)
    PROVE  Told(S, R)
<1>1. ASSUME SyncOwn(S), NoneTook(S)
      PROVE  SyncOwn(R) /\ Passes(S, R)
    <2>1. SyncOwn(R)
        BY <1>1 DEF Ordered, Later, SyncOwn
    <2>2. Passes(S, R)
        BY <1>1 DEF Ordered, Passes
    <2> QED
        BY <2>1, <2>2
<1> QED
    BY <1>1 DEF Told

(* A check of an event that is set finds only waiters that miss something  *)
(* else or were passed over.                                               *)
LEMMA WaitedThoughSet ==
    ASSUME NEW S, Fine(S), NEW o \in Objects, kind[o] \in Events, S.count[o] = 1,
           S.ws[o] # <<>>
    PROVE  Doubtful(S)
<1>1. ASSUME NEW t \in Range(S.ws[o]), ~ S.want[t].all
      PROVE  o \in S.astray
    <2>1. t \in Threads
        <3>1. S.ws[o] \in Seq(Threads)
            BY DEF Fine, TableSet
        <3> QED
            BY <3>1 DEF Range
    <2>2. S.phase[t] = "parked" /\ o \in Range(S.want[t].objects)
        BY <2>1 DEF Fine, Placed, Waits
    <2>3. {o} \in Pleas(S.want[t])
        BY <1>1, <2>2 DEF Pleas
    <2>4. Met(S, {o})
        BY DEF Met, IsSignaled, Events
    <2>5. Excused(S, o)
        BY <2>1, <2>2, <2>3, <2>4 DEF Fine, AllHeard, Heard
    <2> QED
        BY <2>5 DEF Excused, OnItsWay, Events
<1> QED
    BY <1>1 DEF Doubtful

(* The check of set, reset and pulse *)
LEMMA CheckAnswers ==
    ASSUME NEW S, Fine(S), NEW o \in Objects, kind[o] \in Events, S.count[o] = 1,
           NEW R \in {IF S.ws[o] = <<>> THEN S ELSE Fail(S, "verify_failed")}
    PROVE  Good(R) /\ (Going(R) => Steady(S, R)) /\ Answered(S, R)
<1>1. S \in TableSet /\ Going(S) /\ Good(S)
    BY DEF Fine, Good
<1>2. CASE S.ws[o] = <<>>
    <2>1. Answered(S, S)
        BY <1>1, Quiet DEF Later, Going
    <2> QED
        BY <1>1, <1>2, <2>1 DEF Steady
<1>3. CASE S.ws[o] # <<>>
    <2>1. R = Fail(S, "verify_failed")
        BY <1>3
    <2>2. Good(R) /\ ~ Going(R)
        BY <1>1, <2>1, Failing
    <2>3. /\ R.phase = S.phase /\ R.unseen = S.unseen /\ R.syncUnseen = S.syncUnseen
          /\ R.took = S.took
        BY <1>1, <2>1 DEF Fail, TableSet
    <2>4. Doubtful(S)
        BY <1>3, WaitedThoughSet
    <2>5. Answered(S, R)
        BY <2>3, <2>4, Quiet DEF Later
    <2> QED
        BY <2>2, <2>5
<1> QED
    BY <1>2, <1>3

(* event set *)
LEMMA Setting ==
    ASSUME NEW S, Fine(S), NEW t \in Threads, NEW o \in Objects, kind[o] \in Events,
           NEW R \in Set(S, t, o)
    PROVE  Good(R) /\ (Going(R) => Steady(S, R)) /\ Answered(S, R)
<1>1. S \in TableSet /\ Going(S) /\ Placed(S) /\ AllHeard(S)
    BY DEF Fine
<1>2. CASE S.count[o] = 1
    <2>1. R \in {IF S.ws[o] = <<>> THEN S ELSE Fail(S, "verify_failed")}
        BY <1>2 DEF Set
    <2> QED
        BY <1>2, <2>1, CheckAnswers
<1>3. CASE S.count[o] # 1
    <2> DEFINE G == Signal(S, t, o)
               Q == [G EXCEPT !.count[o] = 1, !.astray = @ \ {o}]
    <2>1. G \in TableSet /\ Same(S, G)
        BY <1>1, Syncing
    <2> HIDE DEF G
    <2>2. 1 \in 0 .. MaxCount
        BY WaitObjectsAssumption
    <2>3. Q \in TableSet
        BY <2>1, <2>2 DEF TableSet
    <2>4. /\ Q.ws = S.ws /\ Q.want = S.want /\ Q.phase = S.phase /\ Q.owner = S.owner
          /\ Q.astray = S.astray \ {o} /\ Q.result = S.result /\ Q.count[o] = 1
          /\ Q.syncUnseen = G.syncUnseen /\ Q.unseen = G.unseen /\ Q.took = G.took
          /\ \A p \in Objects \ {o} : Q.count[p] = S.count[p]
        BY <2>1 DEF TableSet, Same
    <2>s. SyncOwn(S) /\ NoneTook(S) => SyncOwn(Q)
        BY <1>1, <2>4, SyncOrders DEF G, SyncOwn
    <2>5. R \in IF kind[o] = "manual" THEN {UnparkAll(Q, o)} ELSE UnparkOne(Q, o)
        BY <1>3 DEF Set, G
    <2> HIDE DEF Q
    <2>6. Touched(S, Q, o)
        BY <2>3, <2>4 DEF Touched
    <2>7. Placed(Q) /\ HeardBut(Q, o) /\ Going(Q)
        BY <1>1, <2>4, <2>6, Touching DEF Going
    <2>i. IsSignaled(Q, o)
        BY <2>4 DEF IsSignaled, Events
    <2>8. CASE kind[o] = "manual"
        <3>1. R = UnparkAll(Q, o)
            BY <2>5, <2>8
        <3>2. /\ R \in TableSet /\ (Going(R) => Wakes(Q, R, o) /\ AllHeard(R))
              /\ SyncOwn(Q) => Ordered(Q, R)
            BY <2>3, <2>7, <3>1, UnparkingAll
        <3>3. Going(R)
            BY <2>3, <2>7, <2>8, <2>i, <3>1, AllServed DEF Semaphores
        <3>4. Answered(S, R)
            BY <2>4, <2>s, <3>2, <3>3, Roused DEF Going, Answered
        <3> QED
            BY <2>4, <3>2, <3>4 DEF Good, Wakes, Steady
    <2>9. CASE kind[o] = "auto"
        <3>1. R \in UnparkOne(Q, o)
            BY <2>5, <2>9
        <3>2. /\ R \in TableSet
              /\ Going(R) => /\ Placed(R) /\ Steady(Q, R) /\ HeardBut(R, o)
                             /\ HeardFor(R, o) \/ R.count[o] = Q.count[o] - 1
            BY <2>3, <2>7, <2>9, <3>1, UnparkingOne
        <3>3. R.count[o] = Q.count[o] - 1 => HeardFor(R, o)
            <4>1. R.count[o] = Q.count[o] - 1 => ~ IsSignaled(R, o)
                BY <2>4, <2>9 DEF IsSignaled
            <4> QED
                BY <4>1, Unsignaled
        <3>4. Going(R)
            BY <2>3, <2>7, <2>i, <3>1, OneServed
        <3>5. SyncOwn(Q) => Ordered(Q, R)
            BY <2>3, <2>7, <3>1, UnparkOneOrdered
        <3>6. Answered(S, R)
            BY <2>4, <2>s, <3>4, <3>5, Roused DEF Going, Answered
        <3> QED
            BY <2>4, <3>2, <3>3, <3>6, HeardAll DEF Good, Steady
    <2> QED
        BY <2>8, <2>9 DEF Events
<1> QED
    BY <1>2, <1>3

(* event pulse *)
LEMMA Pulsing ==
    ASSUME NEW S, Fine(S), NEW t \in Threads, NEW o \in Objects, kind[o] \in Events
    PROVE  LET R == Pulse(S, t, o)
           IN  /\ Good(R) /\ Told(S, R)
               /\ R.result = "verify_failed" => Doubtful(S) \/ Crowded(S, o)
<1> DEFINE R == Pulse(S, t, o)
<1>1. S \in TableSet /\ Going(S) /\ Placed(S) /\ AllHeard(S)
    BY DEF Fine
<1>2. CASE S.count[o] = 1
    <2>1. R \in {IF S.ws[o] = <<>> THEN S ELSE Fail(S, "verify_failed")}
        BY <1>2 DEF Pulse
    <2> HIDE DEF R
    <2>2. Good(R) /\ Answered(S, R)
        BY <1>2, <2>1, CheckAnswers
    <2> QED
        BY <2>2 DEF R, Answered
<1>3. CASE S.count[o] # 1
    <2> DEFINE G == Signal(S, t, o)
               Q == [G EXCEPT !.count[o] = 1]
               U == UnparkAll(Q, o)
    <2>1. G \in TableSet /\ Same(S, G)
        BY <1>1, Syncing
    <2>r. R = IF Going(U) THEN [U EXCEPT !.count[o] = 0, !.astray = S.astray] ELSE U
        BY <1>3 DEF Pulse
    <2> HIDE DEF G, R
    <2>2. 1 \in 0 .. MaxCount /\ 0 \in 0 .. MaxCount
        BY WaitObjectsAssumption
    <2>3. Q \in TableSet
        BY <2>1, <2>2 DEF TableSet
    <2>4. /\ Q.ws = S.ws /\ Q.want = S.want /\ Q.phase = S.phase /\ Q.owner = S.owner
          /\ Q.astray = S.astray /\ Q.result = S.result /\ Q.count[o] = 1
          /\ Q.syncUnseen = G.syncUnseen /\ Q.unseen = G.unseen /\ Q.took = G.took
          /\ \A p \in Objects \ {o} : Q.count[p] = S.count[p]
        BY <2>1 DEF TableSet, Same
    <2> HIDE DEF Q
    <2>s. SyncOwn(S) /\ NoneTook(S) => SyncOwn(Q)
        BY <1>1, <2>4, SyncOrders DEF G, SyncOwn
    <2>5. Touched(S, Q, o)
        BY <2>3, <2>4 DEF Touched
    <2>6. Placed(Q) /\ HeardBut(Q, o) /\ Going(Q)
        BY <1>1, <2>4, <2>5, Touching DEF Going
    <2>7. /\ U \in TableSet /\ (Going(U) => Wakes(Q, U, o) /\ AllHeard(U))
          /\ SyncOwn(Q) => Ordered(Q, U)
        BY <2>3, <2>6, UnparkingAll
    <2>d. Going(U) \/ Crowded(S, o)
        <3>1. IsSignaled(Q, o) /\ kind[o] # "mutex"
            BY <2>4 DEF IsSignaled, Events
        <3>2. CASE kind[o] = "auto" /\ Len(S.ws[o]) > 1
            <4>1. S.count[o] = 0
                BY <1>1, <1>3 DEF Placed
            <4> QED
                BY <3>2, <4>1 DEF Crowded
        <3>3. CASE ~ (kind[o] = "auto" /\ Len(S.ws[o]) > 1)
            <4>1. Len(Q.ws[o]) \in Nat /\ Q.ws[o] = S.ws[o]
                <5>1. Q.ws[o] \in Seq(Threads)
                    BY <2>3 DEF TableSet
                <5> QED
                    BY <2>4, <5>1
            <4>2. kind[o] \notin Semaphores \cup {"auto"} \/ Len(Q.ws[o]) <= 1
                BY <3>3, <4>1 DEF Events, Semaphores
            <4> QED
                BY <2>3, <2>6, <3>1, <4>2, AllServed
        <3> QED
            BY <3>2, <3>3
    <2> HIDE DEF U
    <2>8. CASE ~ Going(U)
        <3>1. R = U
            BY <2>r, <2>8
        <3>2. Told(S, R)
            BY <2>4, <2>7, <2>s, <3>1, Roused
        <3>3. Good(R)
            BY <2>7, <2>8, <3>1 DEF Good
        <3> QED
            BY <2>8, <2>d, <3>2, <3>3 DEF R
    <2>9. CASE Going(U)
        <3>1. /\ R \in TableSet /\ R.ws = U.ws /\ R.phase = U.phase /\ R.want = U.want
              /\ R.owner = U.owner /\ R.count[o] = 0 /\ R.astray = S.astray
              /\ R.unseen = U.unseen /\ R.syncUnseen = U.syncUnseen /\ R.took = U.took
              /\ R.result = U.result
              /\ \A p \in Objects \ {o} : R.count[p] = U.count[p]
            <4>1. R = [U EXCEPT !.count[o] = 0, !.astray = S.astray]
                BY <2>r, <2>9
            <4>2. S.astray \in SUBSET Objects
                BY <1>1 DEF TableSet
            <4>3. R \in TableSet
                BY <2>2, <2>7, <4>1, <4>2 DEF TableSet
            <4> QED
                BY <2>7, <4>1, <4>3 DEF TableSet
        <3>2. Fine(U) /\ Touched(U, R, o)
            <4>1. Fine(U)
                BY <2>7, <2>9 DEF Fine, Wakes
            <4>2. U.astray \subseteq R.astray \cup {o}
                BY <2>4, <2>7, <2>9, <3>1 DEF Wakes
            <4> QED
                BY <3>1, <4>1, <4>2 DEF Touched
        <3>3. Placed(R) /\ HeardBut(R, o)
            BY <3>2, Touching
        <3>4. HeardFor(R, o)
            <4>1. kind[o] # "mutex"
                BY DEF Events
            <4>2. ~ IsSignaled(R, o)
                BY <3>1, <4>1 DEF IsSignaled
            <4> QED
                BY <4>2, Unsignaled
        <3>5. Good(R)
            BY <3>1, <3>3, <3>4, HeardAll DEF Good
        <3>6. SyncOwn(Q) => Ordered(Q, R)
            BY <2>7, <3>1 DEF Ordered, Later, After
        <3>7. Told(S, R)
            BY <2>4, <2>s, <3>6, Roused
        <3> QED
            BY <2>9, <3>1, <3>5, <3>7 DEF R, Going
    <2> QED
        BY <2>8, <2>9
<1> QED
    BY <1>2, <1>3

(* event reset *)
LEMMA Resetting ==
    ASSUME NEW S, Fine(S), NEW t \in Threads, NEW o \in Objects, kind[o] \in Events
    PROVE  Good(Reset(S, t, o)) /\ Answered(S, Reset(S, t, o))
<1> DEFINE R == Reset(S, t, o)
           G == Release(S, t, o)
<1>1. S \in TableSet /\ Going(S) /\ Placed(S) /\ AllHeard(S)
    BY DEF Fine
<1>2. \/ S.count[o] = 0 /\ R = S
      \/ S.count[o] = 1 /\ R \in {IF S.ws[o] = <<>> THEN S ELSE Fail(S, "verify_failed")}
      \/ R = [G EXCEPT !.count[o] = 0]
    BY <1>1 DEF Reset, Placed
<1>3. G \in TableSet /\ Same(S, G)
    BY <1>1, Syncing
<1> HIDE DEF G, R
<1>4. CASE R = S
    <2>1. Answered(S, R)
        BY <1>1, <1>4, Quiet DEF Later, Going
    <2> QED
        BY <1>1, <1>4, <2>1 DEF R, Good
<1>6. CASE S.count[o] = 1 /\ R \in {IF S.ws[o] = <<>> THEN S ELSE Fail(S, "verify_failed")}
    <2>1. Good(R) /\ Answered(S, R)
        BY <1>6, CheckAnswers
    <2> QED
        BY <2>1 DEF R
<1>5. CASE R = [G EXCEPT !.count[o] = 0]
    <2>1. 0 \in 0 .. MaxCount
        BY WaitObjectsAssumption
    <2>2. R \in TableSet
        BY <1>3, <1>5, <2>1 DEF TableSet
    <2>3. /\ R.ws = S.ws /\ R.want = S.want /\ R.phase = S.phase /\ R.owner = S.owner
          /\ R.astray = S.astray /\ R.result = S.result /\ R.count[o] = 0
          /\ R.unseen = G.unseen /\ R.syncUnseen = G.syncUnseen /\ R.took = G.took
          /\ \A p \in Objects \ {o} : R.count[p] = S.count[p]
        BY <1>3, <1>5 DEF TableSet, Same
    <2>4. Touched(S, R, o)
        BY <2>2, <2>3 DEF Touched
    <2>5. Placed(R) /\ HeardBut(R, o)
        BY <2>4, Touching
    <2>6. HeardFor(R, o)
        <3>1. kind[o] # "mutex"
            BY DEF Events
        <3>2. ~ IsSignaled(R, o)
            BY <2>3, <3>1 DEF IsSignaled
        <3> QED
            BY <3>2, Unsignaled
    <2>7. Good(R)
        BY <2>2, <2>5, <2>6, HeardAll DEF Good
    <2>8. ASSUME SyncOwn(S)
          PROVE  Later(S, R)
        <3>1. Later(S, G)
            BY <1>1, <2>8, SyncOrders DEF G
        <3> QED
            BY <2>3, <3>1 DEF Later
    <2>9. Answered(S, R)
        BY <1>1, <2>3, <2>8, Quiet DEF Answered, Told, Going
    <2> QED
        BY <2>7, <2>9 DEF R
<1> QED
    BY <1>2, <1>4, <1>5, <1>6

(* semaphore post *)
LEMMA Posting ==
    ASSUME NEW S, Fine(S), NEW t \in Threads, NEW o \in Objects, kind[o] \in Semaphores,
           NEW n \in Nat, NEW R \in Post(S, t, o, n)
    PROVE  Good(R) /\ (Going(R) => Steady(S, R)) /\ Answered(S, R)
<1>1. S \in TableSet /\ Going(S) /\ Placed(S) /\ AllHeard(S)
    BY DEF Fine
<1>2. CASE S.count[o] + n > MaxCount
    <2>1. R = Acquire(S, t, o)
        BY <1>2 DEF Post
    <2>2. R \in TableSet /\ Same(S, R)
        BY <1>1, <2>1, Syncing
    <2>3. Fine(R) /\ Steady(S, R)
        BY <2>2, SameGood
    <2>4. SyncOwn(S) => Later(S, R)
        BY <1>1, <2>1, SyncOrders
    <2>5. Answered(S, R)
        BY <1>1, <2>2, <2>4, Quiet DEF Answered, Told, Going, Same
    <2> QED
        BY <2>3, <2>5 DEF Fine, Good
<1>3. CASE ~ (S.count[o] + n > MaxCount)
    <2> DEFINE G == Signal(S, t, o)
               H == [G EXCEPT !.count[o] = @ + n]
               Q == AcqRel(H, t, o)
    <2>r. R \in UnparkMany(Q, o, n)
        BY <1>3 DEF Post
    <2>1. G \in TableSet /\ Same(S, G)
        BY <1>1, Syncing
    <2> HIDE DEF G
    <2>2. S.count[o] \in Nat /\ S.count[o] + n \in 0 .. MaxCount
        BY <1>1, <1>3, WaitObjectsAssumption DEF TableSet
    <2>3. G.count[o] = S.count[o] /\ G.count[o] + n \in 0 .. MaxCount
        BY <2>1, <2>2 DEF Same
    <2>4. H \in TableSet
        BY <2>1, <2>3 DEF TableSet
    <2>5. /\ H.ws = S.ws /\ H.want = S.want /\ H.phase = S.phase /\ H.owner = S.owner
          /\ H.astray = S.astray /\ H.result = S.result /\ H.count[o] = S.count[o] + n
          /\ H.syncUnseen = G.syncUnseen /\ H.unseen = G.unseen /\ H.took = G.took
          /\ \A p \in Objects \ {o} : H.count[p] = S.count[p]
        BY <2>1, <2>3 DEF TableSet, Same
    <2> HIDE DEF H
    <2>6. Q \in TableSet /\ Same(H, Q)
        BY <2>4, Syncing
    <2>s. SyncOwn(S) /\ NoneTook(S) => SyncOwn(Q)
        <3>1. SyncOwn(S) /\ NoneTook(S) => SyncOwn(H)
            BY <1>1, <2>5, SyncOrders DEF G, SyncOwn
        <3>2. SyncOwn(H) => Later(H, Q)
            BY <2>4, SyncOrders
        <3> QED
            BY <3>1, <3>2 DEF Later, SyncOwn
    <2> HIDE DEF Q
    <2>7. /\ Q.ws = S.ws /\ Q.want = S.want /\ Q.phase = S.phase /\ Q.owner = S.owner
          /\ Q.astray = S.astray /\ Q.result = S.result /\ Q.count[o] = S.count[o] + n
          /\ \A p \in Objects \ {o} : Q.count[p] = S.count[p]
        BY <2>5, <2>6 DEF Same
    <2>k. kind[o] # "mutex" /\ kind[o] \notin Events
        BY DEF Semaphores, Events
    <2>8. Touched(S, Q, o)
        BY <2>6, <2>7, <2>k DEF Touched
    <2>9. Placed(Q) /\ HeardBut(Q, o) /\ Going(Q)
        BY <1>1, <2>7, <2>8, Touching DEF Going
    <2>10. /\ R \in TableSet
           /\ Going(R) =>
                 /\ Placed(R) /\ Calmer(Q, R) /\ Steady(Q, R) /\ HeardBut(R, o)
                 /\ HeardFor(R, o) \/ R.count[o] <= Q.count[o] - n
           /\ SyncOwn(Q) => Ordered(Q, R)
        BY <2>r, <2>6, <2>9, UnparkingMany
    <2>11. ASSUME Going(R), R.count[o] <= Q.count[o] - n
           PROVE  HeardFor(R, o)
        <3> SUFFICES ASSUME NEW u \in Threads, R.phase[u] = "parked",
                            NEW P \in Pleas(R.want[u]), o \in P, Met(R, P)
                     PROVE  \E p \in P : Excused(R, p)
            BY DEF HeardFor, Heard
        <3>1. /\ S.phase[u] = "parked" /\ S.want[u] = R.want[u]
              /\ S.want[u] \in Single \cup Multiple
            BY <2>7, <2>10, <2>11, <1>1 DEF Calmer, Placed
        <3>2. P \subseteq Objects /\ P \in Pleas(S.want[u])
            BY <3>1, PleaFacts
        <3>3. S.count[o] > 0
            <4>1. R.count[o] > 0
                BY <2>k DEF Met, IsSignaled
            <4>2. R.count[o] \in Nat
                BY <2>10, WaitObjectsAssumption DEF TableSet
            <4>3. \A a, b \in Nat : a <= (b + n) - n => a <= b
                OBVIOUS
            <4>4. R.count[o] <= (S.count[o] + n) - n
                BY <2>7, <2>11
            <4>5. R.count[o] <= S.count[o]
                BY ONLY <2>2, <4>2, <4>3, <4>4
            <4> QED
                BY ONLY <2>2, <4>1, <4>2, <4>5
        <3>4. ASSUME NEW p \in P
              PROVE  IsSignaled(S, p)
            <4>1. IsSignaled(Q, p)
                BY <2>10, <2>11, <3>2 DEF Met, Calmer
            <4> QED
                BY <2>7, <2>k, <3>2, <3>3, <4>1 DEF IsSignaled
        <3>5. PICK p \in P : Excused(S, p)
            BY <1>1, <3>1, <3>2, <3>4 DEF AllHeard, Heard, Met
        <3>6. Excused(Q, p)
            BY <2>7, <3>5 DEF Excused, OnItsWay
        <3>7. Excused(R, p)
            BY <2>10, <2>11, <3>2, <3>6 DEF Met, Calmer
        <3> QED
            BY <3>7
    <2>12. Q.count[o] >= n
        BY <2>2, <2>7
    <2>13. Going(R)
        BY <2>r, <2>6, <2>9, <2>12, ManyServed
    <2>14. Answered(S, R)
        BY <2>7, <2>10, <2>13, <2>s, Roused DEF Going, Answered
    <2> QED
        BY <2>7, <2>10, <2>11, <2>14, HeardAll DEF Good, Steady
<1> QED
    BY <1>2, <1>3

(* unlock_exclusive *)
LEMMA Unlocking ==
    ASSUME NEW S, Fine(S), NEW t \in Threads, NEW o \in Objects, kind[o] = "mutex",
           NEW R \in Unlock(S, t, o)
    PROVE  Good(R) /\ (Going(R) => Steady(S, R)) /\ Answered(S, R)
<1>1. S \in TableSet /\ Going(S) /\ Placed(S) /\ AllHeard(S)
    BY DEF Fine
<1>2. CASE S.owner[o] # t
    <2>1. R = Fail(S, "unlocking_mutex_wo_ownership")
        BY <1>2 DEF Unlock
    <2>2. /\ R.phase = S.phase /\ R.unseen = S.unseen /\ R.syncUnseen = S.syncUnseen
          /\ R.took = S.took /\ R.result # "verify_failed"
        BY <1>1, <2>1 DEF Fail, TableSet
    <2>3. Answered(S, R)
        BY <2>2, Quiet DEF Later
    <2> QED
        BY <1>1, <2>1, <2>3, Failing
<1>3. CASE S.owner[o] = t
    <2> DEFINE G == Signal(S, t, o)
               Q == [G EXCEPT !.owner[o] = Nobody]
    <2>r. R \in UnparkOne(Q, o)
        BY <1>3 DEF Unlock
    <2>1. G \in TableSet /\ Same(S, G)
        BY <1>1, Syncing
    <2> HIDE DEF G
    <2>2. Q \in TableSet
        BY <2>1 DEF TableSet
    <2>3. /\ Q.ws = S.ws /\ Q.want = S.want /\ Q.phase = S.phase /\ Q.count = S.count
          /\ Q.astray = S.astray /\ Q.result = S.result
          /\ Q.syncUnseen = G.syncUnseen /\ Q.unseen = G.unseen /\ Q.took = G.took
          /\ Q.owner[o] = Nobody
          /\ \A p \in Objects \ {o} : Q.owner[p] = S.owner[p]
        BY <2>1 DEF TableSet, Same
    <2> HIDE DEF Q
    <2>4. Touched(S, Q, o)
        BY <2>2, <2>3 DEF Touched, Events
    <2>5. Placed(Q) /\ HeardBut(Q, o) /\ Going(Q)
        BY <1>1, <2>3, <2>4, Touching DEF Going
    <2>6. /\ R \in TableSet
          /\ Going(R) => /\ Placed(R) /\ Steady(Q, R) /\ HeardBut(R, o)
                         /\ HeardFor(R, o) \/ kind[o] \in Semaphores \cup {"auto"}
        BY <2>r, <2>2, <2>5, UnparkingOne
    <2>7. SyncOwn(S) /\ NoneTook(S) => SyncOwn(Q)
        BY <1>1, <2>3, SyncOrders DEF G, SyncOwn
    <2>8. Going(R)
        <3>1. IsSignaled(Q, o)
            BY <2>3 DEF IsSignaled
        <3> QED
            BY <2>r, <2>2, <2>5, <3>1, OneServed
    <2>9. SyncOwn(Q) => Ordered(Q, R)
        BY <2>r, <2>2, <2>5, UnparkOneOrdered
    <2>10. Answered(S, R)
        BY <2>3, <2>7, <2>8, <2>9, Roused DEF Going, Answered
    <2> QED
        BY <2>3, <2>6, <2>10, HeardAll DEF Good, Steady, Semaphores
<1> QED
    BY <1>2, <1>3

(* signal of an object by its handle *)
LEMMA SignalingObject ==
    ASSUME NEW S, Fine(S), NEW t \in Threads, NEW o \in Objects, NEW R \in SignalObject(S, t, o)
    PROVE  Good(R) /\ (Going(R) => Steady(S, R)) /\ Answered(S, R)
<1>1. CASE kind[o] \in Events
    <2>1. R \in Set(S, t, o)
        BY <1>1 DEF SignalObject, Events, Semaphores
    <2> QED
        BY <1>1, <2>1, Setting
<1>2. CASE kind[o] \in Semaphores
    <2>1. R \in Post(S, t, o, 1)
        BY <1>2 DEF SignalObject, Events, Semaphores
    <2> QED
        BY <1>2, <2>1, Posting
<1>3. CASE kind[o] = "mutex"
    <2>1. R \in Unlock(S, t, o)
        BY <1>3 DEF SignalObject, Events, Semaphores
    <2> QED
        BY <1>3, <2>1, Unlocking
<1>4. CASE kind[o] \notin Events \cup Semaphores \cup {"mutex"}
    <2>1. R = Fail(S, "thread_signal")
        BY <1>4 DEF SignalObject
    <2>2. /\ R.phase = S.phase /\ R.unseen = S.unseen /\ R.syncUnseen = S.syncUnseen
          /\ R.took = S.took /\ R.result # "verify_failed"
        BY <2>1 DEF Fine, Fail, TableSet
    <2>3. Answered(S, R)
        BY <2>2, Quiet DEF Later
    <2> QED
        BY <2>1, <2>3, Failing DEF Fine
<1> QED
    BY <1>1, <1>2, <1>3, <1>4

(* Who has less to hope for has no more to complain about. *)
LEMMA LessenedFine ==
    ASSUME NEW S, Fine(S), NEW R, Lessens(S, R)
    PROVE  Fine(R)
<1>1. /\ S \in TableSet /\ R \in TableSet
      /\ R.ws = S.ws /\ R.want = S.want /\ R.phase = S.phase
      /\ R.astray = S.astray /\ R.result = S.result
      /\ \A p \in Objects : /\ IsSignaled(R, p) => IsSignaled(S, p)
                            /\ R.count[p] <= S.count[p]
    BY DEF Fine, Lessens
<1>2. ASSUME NEW p \in Objects, kind[p] \in Events
      PROVE  R.count[p] \in {0, 1}
    <2>1. S.count[p] \in {0, 1} /\ R.count[p] \in 0 .. MaxCount /\ MaxCount \in Nat
        BY <1>1, <1>2, WaitObjectsAssumption DEF Fine, Placed, TableSet
    <2>2. R.count[p] <= S.count[p]
        BY <1>1
    <2> QED
        BY <2>1, <2>2
<1>3. Placed(R)
    BY <1>1, <1>2 DEF Fine, Placed, Waits
<1>4. \A p \in Objects : IsSignaled(R, p) /\ Excused(S, p) => Excused(R, p)
    BY <1>1 DEF Excused, OnItsWay, IsSignaled
<1>5. Calmer(S, R)
    BY <1>1, <1>4 DEF Calmer
<1> QED
    BY <1>1, <1>3, <1>5, CalmerAll DEF Fine, Going

(* park_current *)
LEMMA Parking ==
    ASSUME NEW S, Fine(S), NEW t \in Threads, S.phase[t] = "running",
           NEW w \in Single \cup Multiple, ~ Satisfied(S, w)
    PROVE  Good(Park(S, t, w))
<1> DEFINE W == [o \in Objects |-> IF Contains(w.objects, o) THEN Append(S.ws[o], t)
                                   ELSE S.ws[o]]
           R == Park(S, t, w)
<1>1. S \in TableSet /\ Going(S) /\ Placed(S) /\ AllHeard(S)
    BY DEF Fine
<1>2. \A o : Contains(w.objects, o) <=> o \in Range(w.objects)
    <2>1. DOMAIN w.objects = 1 .. Len(w.objects)
        BY WantFacts
    <2> QED
        BY <2>1 DEF Contains, Range
<1>3. ASSUME NEW o \in Objects
      PROVE  /\ W[o] \in Seq(Threads) /\ IsInjective(W[o])
             /\ \A u \in Threads : u \in Range(W[o]) <=>
                    u \in Range(S.ws[o]) \/ (u = t /\ o \in Range(w.objects))
    <2>1. S.ws[o] \in Seq(Threads) /\ IsInjective(S.ws[o]) /\ t \notin Range(S.ws[o])
        BY <1>1 DEF TableSet, Placed, Waits
    <2>2. CASE o \notin Range(w.objects)
        <3>1. W[o] = S.ws[o]
            BY <1>2, <2>2
        <3> QED
            BY <2>1, <2>2, <3>1
    <2>3. CASE o \in Range(w.objects)
        <3> DEFINE s == S.ws[o]
                   a == Append(s, t)
        <3>1. W[o] = a
            BY <1>2, <2>3
        <3> HIDE DEF W, s
        <3>2. /\ a \in Seq(Threads) /\ Len(a) = Len(s) + 1 /\ Len(s) \in Nat
              /\ DOMAIN a = 1 .. Len(s) + 1 /\ DOMAIN s = 1 .. Len(s)
              /\ a[Len(s) + 1] = t /\ \A i \in 1 .. Len(s) : a[i] = s[i]
            BY <2>1 DEF s
        <3> HIDE DEF a
        <3>3. \A i \in 1 .. Len(s) : s[i] # t
            BY <2>1, <3>2 DEF Range, s
        <3>4. IsInjective(a)
            <4> SUFFICES ASSUME NEW i \in DOMAIN a, NEW j \in DOMAIN a, a[i] = a[j]
                         PROVE  i = j
                BY DEF IsInjective
            <4>1. /\ i \in 1 .. Len(s) \/ i = Len(s) + 1
                  /\ j \in 1 .. Len(s) \/ j = Len(s) + 1
                BY <3>2
            <4>2. CASE i \in 1 .. Len(s) /\ j \in 1 .. Len(s)
                <5>1. s[i] = s[j]
                    BY <3>2, <4>2
                <5> QED
                    BY <2>1, <3>2, <4>2, <5>1 DEF IsInjective, s
            <4> QED
                BY <3>2, <3>3, <4>1, <4>2
        <3>5. ASSUME NEW u \in Threads
              PROVE  u \in Range(a) <=> u \in Range(s) \/ u = t
            <4>1. u \in Range(s) => u \in Range(a)
                BY <3>2 DEF Range
            <4>2. Len(s) + 1 \in DOMAIN a
                BY <3>2
            <4>3. t \in Range(a)
                BY <3>2, <4>2 DEF Range
            <4>4. ASSUME u \in Range(a)
                  PROVE  u \in Range(s) \/ u = t
                <5>1. PICK i \in DOMAIN a : a[i] = u
                    BY <4>4 DEF Range
                <5>2. i \in 1 .. Len(s) \/ i = Len(s) + 1
                    BY <3>2
                <5> QED
                    BY <3>2, <5>1, <5>2 DEF Range
            <4> QED
                BY <4>1, <4>3, <4>4
        <3> QED
            BY <2>3, <3>1, <3>2, <3>4, <3>5 DEF s
    <2> QED
        BY <2>2, <2>3
<1>4. R = [S EXCEPT !.ws = W, !.want[t] = w, !.phase[t] = "parked"]
    BY DEF Park
<1>5. W \in [Objects -> Seq(Threads)]
    <2>1. \A o \in Objects : W[o] \in Seq(Threads)
        BY <1>3
    <2>2. W = [o \in Objects |-> W[o]]
        OBVIOUS
    <2> HIDE DEF W
    <2> QED
        BY <2>1, <2>2
<1> HIDE DEF W, R
<1>6. R \in TableSet
    BY <1>1, <1>4, <1>5 DEF TableSet
<1>7. /\ R.ws = W /\ R.count = S.count /\ R.owner = S.owner /\ R.astray = S.astray
      /\ R.phase[t] = "parked" /\ R.want[t] = w
      /\ \A u \in Threads \ {t} : R.phase[u] = S.phase[u] /\ R.want[u] = S.want[u]
    BY <1>1, <1>4 DEF TableSet
<1>8. Placed(R)
    <2>1. ASSUME NEW o \in Objects, NEW u \in Threads
          PROVE  u \in Range(R.ws[o]) <=> Waits(R, u, o)
        <3>1. ~ Waits(S, t, o)
            BY DEF Waits
        <3>2. CASE u = t
            BY <1>1, <1>3, <1>7, <3>1, <3>2 DEF Placed, Waits
        <3>3. CASE u # t
            BY <1>1, <1>3, <1>7, <3>3 DEF Placed, Waits
        <3> QED
            BY <3>2, <3>3
    <2> QED
        BY <1>1, <1>3, <1>7, <2>1 DEF Placed
<1>9. \A p : (IsSignaled(R, p) <=> IsSignaled(S, p)) /\ (Excused(S, p) => Excused(R, p))
    <2>1. \A u \in Threads : S.phase[u] = "woken" =>
              R.phase[u] = "woken" /\ R.want[u] = S.want[u]
        BY <1>7
    <2> QED
        BY <1>7, <2>1 DEF IsSignaled, Excused, OnItsWay
<1>10. ASSUME NEW u \in Threads, R.phase[u] = "parked", NEW P \in Pleas(R.want[u])
       PROVE  Heard(R, P)
    <2>1. CASE u = t
        <3>1. ~ Met(S, P)
            BY <1>7, <1>10, <2>1, PleaMet
        <3> QED
            BY <1>9, <3>1 DEF Heard, Met
    <2>2. CASE u # t
        <3>1. Heard(S, P)
            BY <1>1, <1>7, <1>10, <2>2 DEF AllHeard
        <3> QED
            BY <1>9, <3>1 DEF Heard, Met
    <2> QED
        BY <2>1, <2>2
<1>11. Good(R)
    BY <1>6, <1>8, <1>10 DEF Good, AllHeard
<1> QED
    BY <1>11 DEF R

(* wait *)
LEMMA Waiting ==
    ASSUME NEW S, Fine(S), NEW t \in Threads, S.phase[t] = "running",
           NEW w \in Single \cup Multiple
    PROVE  Good(WaitFor(S, t, w))
<1>1. CASE Satisfied(S, w)
    <2>1. Lessens(S, TakeWanted(S, t, w))
        BY <1>1, TakingWanted DEF Fine
    <2>2. Fine(TakeWanted(S, t, w))
        BY <2>1, LessenedFine
    <2> QED
        BY <1>1, <2>2 DEF WaitFor, Fine, Good
<1>2. CASE ~ Satisfied(S, w)
    BY <1>2, Parking DEF WaitFor
<1> QED
    BY <1>1, <1>2

(* acquire of several *)
LEMMA AcquiringAll ==
    ASSUME NEW S \in TableSet, NEW t \in Threads, NEW objects
    PROVE  AcquireAll(S, t, objects) \in TableSet /\ Same(S, AcquireAll(S, t, objects))
<1> DEFINE U == [u \in Threads |->
                   IF u = t THEN {p \in S.unseen[t] : \A o \in Range(objects) : p \in S.syncUnseen[o]}
                   ELSE S.unseen[u]]
<1>1. U \in [Threads -> SUBSET Objects]
    BY DEF TableSet
<1>2. AcquireAll(S, t, objects) = [S EXCEPT !.unseen = U]
    BY DEF AcquireAll
<1> HIDE DEF U
<1>3. [S EXCEPT !.unseen = U] \in TableSet
    BY <1>1 DEF TableSet
<1> QED
    BY <1>2, <1>3 DEF TableSet, Same

(* To acquire several objects only takes away from what a thread is not yet after. *)
LEMMA AcquireLater ==
    ASSUME NEW S \in TableSet, NEW t, NEW objects
    PROVE  Later(S, AcquireAll(S, t, objects))
BY DEF TableSet, AcquireAll, Later

(* try_wait *)
LEMMA Trying ==
    ASSUME NEW S, Fine(S), NEW t \in Threads, NEW w \in Single \cup Multiple
    PROVE  Good(TryWait(S, t, w))
<1>1. CASE Satisfied(S, w)
    <2>1. Lessens(S, TakeWanted(S, t, w))
        BY <1>1, TakingWanted DEF Fine
    <2>2. Fine(TakeWanted(S, t, w))
        BY <2>1, LessenedFine
    <2> QED
        BY <1>1, <2>2 DEF TryWait, Fine, Good
<1>2. CASE ~ Satisfied(S, w)
    <2> DEFINE R == AcquireAll(S, t, w.objects)
    <2>1. R \in TableSet /\ Same(S, R)
        BY AcquiringAll DEF Fine
    <2> HIDE DEF R
    <2>2. Fine(R)
        BY <2>1, SameGood
    <2>3. TryWait(S, t, w) = S \/ TryWait(S, t, w) = R
        BY <1>2 DEF TryWait, R
    <2> QED
        BY <2>2, <2>3 DEF Fine, Good
<1> QED
    BY <1>1, <1>2

(* A wait that times out, or ends for no reason. *)
LEMMA GivingUp ==
    ASSUME NEW S, Fine(S), NEW t \in Threads, S.phase[t] = "parked", NEW objects
    PROVE  Good([AcquireAll(Leave(S, t), t, objects) EXCEPT !.phase[t] = "running"])
<1> DEFINE L == Leave(S, t)
           A == AcquireAll(L, t, objects)
           R == [A EXCEPT !.phase[t] = "running"]
<1>1. S \in TableSet /\ Going(S) /\ Placed(S) /\ AllHeard(S)
    BY DEF Fine
<1>2. /\ L \in TableSet
      /\ L.count = S.count /\ L.owner = S.owner /\ L.phase = S.phase
      /\ L.astray = S.astray /\ L.result = S.result
      /\ \A u \in Threads \ {t} : L.want[u] = S.want[u]
      /\ \A p \in Objects : /\ IsInjective(L.ws[p])
                            /\ Range(L.ws[p]) = Range(S.ws[p]) \ {t}
    <2>1. \A p \in Objects : IsInjective(S.ws[p])
        BY <1>1 DEF Placed
    <2> QED
        BY <1>1, <2>1, Leaving
<1> HIDE DEF L
<1>3. A \in TableSet /\ Same(L, A)
    BY <1>2, AcquiringAll
<1> HIDE DEF A
<1>4. R \in TableSet
    BY <1>3 DEF TableSet
<1>5. /\ R.phase[t] = "running" /\ R.count = S.count /\ R.owner = S.owner
      /\ R.astray = S.astray /\ R.ws = L.ws
      /\ \A u \in Threads \ {t} : R.phase[u] = S.phase[u] /\ R.want[u] = S.want[u]
    BY <1>2, <1>3 DEF TableSet, Same
<1> HIDE DEF R
<1>6. \A p \in Objects : (IsSignaled(R, p) => IsSignaled(S, p)) /\ R.count[p] <= S.count[p]
    <2>1. \A p \in Objects : S.count[p] \in Int
        BY <1>1, WaitObjectsAssumption DEF TableSet
    <2> QED
        BY <1>5, <2>1 DEF IsSignaled
<1>7. Placed(R) /\ Calmer(S, R)
    BY <1>1, <1>2, <1>4, <1>5, <1>6, Waking
<1>8. Good(R)
    BY <1>1, <1>4, <1>7, CalmerAll DEF Good
<1> QED
    BY <1>8 DEF R, A, L

(* Who goes on after it was woken takes the mutex if it is still free: it   *)
(* was on its way to this object and to no other.                          *)
LEMMA GoingOn ==
    ASSUME NEW S, Fine(S), NEW t \in Threads, S.phase[t] = "woken"
    PROVE  Good(Woken(S, t, S.want[t]))
<1> DEFINE w == S.want[t]
           Q == [S EXCEPT !.phase[t] = "running", !.want[t] = Nothing]
<1>1. S \in TableSet /\ Going(S) /\ Placed(S) /\ AllHeard(S)
    BY DEF Fine
<1>2. w \in Single \cup Multiple /\ ~ DoSwitch(w)
    BY <1>1 DEF Placed
<1> HIDE DEF w
<1>3. PICK o \in Objects :
         /\ w.objects = <<o>> /\ ~ w.all /\ Range(w.objects) = {o}
         /\ DOMAIN w.objects = {1} /\ w.objects[1] = o
    BY <1>2, WantFacts DEF DoSwitch
<1>4. Head(w.objects) = o
    BY <1>3
<1>5. Q \in TableSet
    BY <1>1 DEF TableSet
<1>6. /\ Q.ws = S.ws /\ Q.count = S.count /\ Q.owner = S.owner /\ Q.astray = S.astray
      /\ Q.result = S.result /\ Q.phase[t] = "running"
      /\ \A u \in Threads \ {t} : Q.phase[u] = S.phase[u] /\ Q.want[u] = S.want[u]
    BY <1>1 DEF TableSet
<1>7. Woken(S, t, w) = WaitFor(Q, t, w)
    BY DEF Woken
<1> HIDE DEF Q
<1>8. Touched(S, Q, o)
    <2>1. kind[o] \in Events => Q.count[o] \in {0, 1}
        BY <1>1, <1>6 DEF Placed
    <2>2. ASSUME NEW u \in Threads
          PROVE  /\ Q.phase[u] \in {"parked", "woken"} =>
                       S.phase[u] = Q.phase[u] /\ Q.want[u] = S.want[u]
                 /\ S.phase[u] = "parked" => Q.phase[u] = "parked"
                 /\ S.phase[u] = "woken" => Q.phase[u] = "woken" \/ Head(S.want[u].objects) = o
        <3>1. CASE u = t
            BY <1>4, <1>6, <3>1 DEF w
        <3>2. CASE u # t
            BY <1>6, <3>2
        <3> QED
            BY <3>1, <3>2
    <2> QED
        BY <1>5, <1>6, <2>1, <2>2 DEF Touched
<1>9. Placed(Q) /\ HeardBut(Q, o)
    BY <1>8, Touching
<1>10. CASE kind[o] = "mutex" /\ Q.owner[o] = Nobody
    <2>1. Signaled(Q, w) = {1}
        BY <1>3, <1>10 DEF Signaled, IsSignaled
    <2>2. Satisfied(Q, w)
        BY <1>3, <2>1 DEF Satisfied
    <2> DEFINE R == TakeWanted(Q, t, w)
    <2>3. Lessens(Q, R) /\ \A p \in {First(Q, w)} : Took(Q, R, p)
        BY <1>2, <1>3, <1>5, <2>2, TakingWanted
    <2>4. First(Q, w) = o
        BY <1>2, <1>3, <2>1, FirstIs
    <2>w. WaitFor(Q, t, w) = R
        BY <2>2 DEF WaitFor
    <2> HIDE DEF R
    <2>5. R \in TableSet /\ Placed(R) /\ HeardBut(R, o)
        <3>1. /\ R \in TableSet
              /\ R.ws = Q.ws /\ R.want = Q.want /\ R.phase = Q.phase
              /\ R.astray = Q.astray /\ R.result = Q.result
              /\ \A p \in Objects : /\ IsSignaled(R, p) => IsSignaled(Q, p)
                                    /\ R.count[p] <= Q.count[p]
            BY <2>3 DEF Lessens
        <3>2. ASSUME NEW p \in Objects, kind[p] \in Events
              PROVE  R.count[p] \in {0, 1}
            <4>1. /\ Q.count[p] \in {0, 1} /\ R.count[p] \in 0 .. MaxCount
                  /\ MaxCount \in Nat
                BY <1>9, <3>1, <3>2, WaitObjectsAssumption DEF Placed, TableSet
            <4>2. R.count[p] <= Q.count[p]
                BY <3>1
            <4> QED
                BY <4>1, <4>2
        <3>3. Placed(R)
            BY <1>9, <3>1, <3>2 DEF Placed, Waits
        <3>4. \A p \in Objects : IsSignaled(R, p) /\ Excused(Q, p) => Excused(R, p)
            BY <3>1 DEF Excused, OnItsWay, IsSignaled
        <3>5. Calmer(Q, R)
            BY <3>1, <3>4 DEF Calmer
        <3> QED
            BY <1>5, <1>9, <3>1, <3>3, <3>5, CalmerAll
    <2>6. HeardFor(R, o)
        <3>1. ~ IsSignaled(R, o)
            BY <1>10, <2>3, <2>4 DEF Took, IsSignaled
        <3> QED
            BY <3>1, Unsignaled
    <2>7. Good(R)
        BY <2>5, <2>6, HeardAll DEF Good
    <2> QED
        BY <1>7, <2>7, <2>w DEF w
<1>11. CASE ~ (kind[o] = "mutex" /\ Q.owner[o] = Nobody)
    <2>1. \A p : (IsSignaled(Q, p) <=> IsSignaled(S, p)) /\ (Excused(S, p) => Excused(Q, p))
        <3>1. ASSUME NEW p, OnItsWay(S, p)
              PROVE  OnItsWay(Q, p)
            <4>1. PICK u \in Threads : S.phase[u] = "woken" /\ Head(S.want[u].objects) = p
                BY <3>1 DEF OnItsWay
            <4>2. u # t
                BY <1>4, <1>6, <1>11, <3>1, <4>1 DEF OnItsWay, w
            <4> QED
                BY <1>6, <3>1, <4>1, <4>2 DEF OnItsWay
        <3> QED
            BY <1>6, <3>1 DEF IsSignaled, Excused
    <2>2. \A u \in Threads :
             Q.phase[u] = "parked" => S.phase[u] = "parked" /\ Q.want[u] = S.want[u]
        BY <1>6
    <2>3. Calmer(S, Q)
        BY <2>1, <2>2 DEF Calmer
    <2>4. Fine(Q)
        BY <1>1, <1>5, <1>6, <1>9, <2>3, CalmerAll DEF Fine, Going
    <2>5. Good(WaitFor(Q, t, w))
        BY <1>2, <1>6, <2>4, Waiting
    <2> QED
        BY <1>7, <2>5 DEF w
<1> QED
    BY <1>10, <1>11

(* A thread that begins has nothing to do with the waits. *)
LEMMA Beginning ==
    ASSUME NEW S, Fine(S), NEW Q \in TableSet, Same(S, Q), NEW t \in Threads,
           S.phase[t] \in {"absent", "created"}, NEW p \in {"created", "running"}
    PROVE  Good([Q EXCEPT !.phase[t] = p])
<1> DEFINE R == [Q EXCEPT !.phase[t] = p]
<1>1. R \in TableSet
    BY DEF TableSet
<1>2. /\ R.ws = S.ws /\ R.count = S.count /\ R.owner = S.owner /\ R.astray = S.astray
      /\ R.want = S.want /\ R.phase[t] = p
      /\ \A u \in Threads \ {t} : R.phase[u] = S.phase[u]
    BY DEF TableSet, Same
<1> HIDE DEF R
<1>3. \A u \in Threads : /\ R.phase[u] = "parked" <=> S.phase[u] = "parked"
                         /\ R.phase[u] = "woken" <=> S.phase[u] = "woken"
    BY <1>2
<1>4. Placed(R)
    BY <1>2, <1>3 DEF Fine, Placed, Waits
<1>5. \A o : (IsSignaled(R, o) <=> IsSignaled(S, o)) /\ (Excused(S, o) => Excused(R, o))
    BY <1>2, <1>3 DEF IsSignaled, Excused, OnItsWay
<1>6. Calmer(S, R)
    BY <1>2, <1>3, <1>5 DEF Calmer
<1>7. Good(R)
    BY <1>1, <1>4, <1>6, CalmerAll DEF Fine, Good
<1> QED
    BY <1>7 DEF R

(* on_finish *)
LEMMA Finishing ==
    ASSUME NEW S, Fine(S), kind \in Kinds, NEW o \in Objects, kind[o] \in Threads,
           S.phase[kind[o]] = "running"
    PROVE  Good(End(S, kind[o], o)) /\ Answered(S, End(S, kind[o], o))
<1> DEFINE t == kind[o]
           Q == Signal(S, t, o)
           E == [Q EXCEPT !.count[o] = 1, !.phase[t] = "ended"]
<1>1. S \in TableSet /\ Going(S) /\ Placed(S) /\ AllHeard(S)
    BY DEF Fine
<1>2. t \in Threads /\ t \notin Events
    BY WaitObjectsAssumption DEF Events
<1> HIDE DEF t
<1>3. Q \in TableSet /\ Same(S, Q)
    BY <1>1, <1>2, Syncing
<1> HIDE DEF Q
<1>4. 1 \in 0 .. MaxCount
    BY WaitObjectsAssumption
<1>5. E \in TableSet
    BY <1>2, <1>3, <1>4 DEF TableSet
<1>6. /\ E.ws = S.ws /\ E.owner = S.owner /\ E.astray = S.astray /\ E.want = S.want
      /\ E.result = S.result /\ E.phase[t] = "ended" /\ E.syncUnseen = Q.syncUnseen
      /\ E.unseen = Q.unseen /\ E.took = Q.took
      /\ E.count[o] = 1
      /\ \A u \in Threads \ {t} : E.phase[u] = S.phase[u]
      /\ \A p \in Objects \ {o} : E.count[p] = S.count[p]
    BY <1>2, <1>3 DEF TableSet, Same
<1> HIDE DEF E
<1>7. Touched(S, E, o)
    <2>1. S.phase[t] = "running"
        BY DEF t
    <2>2. kind[o] \notin Events
        BY <1>2 DEF t
    <2> QED
        BY <1>2, <1>5, <1>6, <2>1, <2>2 DEF Touched
<1>8. Placed(E) /\ HeardBut(E, o) /\ Going(E)
    BY <1>1, <1>6, <1>7, Touching DEF Going
<1> DEFINE R == UnparkAll(E, o)
<1>9. /\ R \in TableSet /\ (Going(R) => Wakes(E, R, o) /\ AllHeard(R))
      /\ SyncOwn(E) => Ordered(E, R)
    BY <1>5, <1>8, UnparkingAll
<1>10. Going(R)
    <2>1. kind[o] \notin Semaphores \cup {"auto"} /\ kind[o] # "mutex"
        BY WaitObjectsAssumption DEF Semaphores
    <2>2. IsSignaled(E, o)
        BY <1>6, <2>1 DEF IsSignaled
    <2> QED
        BY <1>5, <1>8, <2>1, <2>2, AllServed
<1> HIDE DEF R
<1>11. SyncOwn(S) /\ NoneTook(S) => SyncOwn(E)
    BY <1>1, <1>2, <1>6, SyncOrders DEF Q, SyncOwn
<1>12. \A u \in Threads : S.phase[u] \in {"parked", "woken"} =>
          E.phase[u] = S.phase[u] /\ E.want[u] = S.want[u]
    <2>1. S.phase[t] = "running"
        BY DEF t
    <2> QED
        BY <1>6, <2>1
<1>13. Answered(S, R)
    BY <1>9, <1>10, <1>11, <1>12, Roused DEF Going, Answered
<1>14. Good(R)
    BY <1>9 DEF Good, Wakes
<1> QED
    BY <1>13, <1>14 DEF R, E, Q, t, End

-----------------------------------------------------------------------------
(* The steps. *)

(* The tables are the state, but for what was taken. *)
LEMMA BecomesIs ==
    ASSUME NEW S \in TableSet, Becomes(S)
    PROVE  /\ kind' = kind /\ Tables' \in TableSet
           /\ Tables'.count = S.count /\ Tables'.owner = S.owner /\ Tables'.ws = S.ws
           /\ Tables'.want = S.want /\ Tables'.phase = S.phase
           /\ Tables'.astray = S.astray /\ Tables'.result = S.result
<1>1. Tables' = [count |-> S.count, owner |-> S.owner, ws |-> S.ws, want |-> S.want,
                 phase |-> S.phase, unseen |-> S.unseen, syncUnseen |-> S.syncUnseen,
                 astray |-> S.astray, took |-> NothingTaken, result |-> S.result]
    BY DEF Becomes, Tables, NothingTaken
<1>2. NothingTaken \in [Threads -> SUBSET Objects]
    BY DEF NothingTaken
<1>3. Tables' \in TableSet
    BY <1>1, <1>2 DEF TableSet
<1> QED
    BY <1>1, <1>3 DEF Becomes

(* A step that leaves good tables. *)
LEMMA BecomesGood ==
    ASSUME WaitInv, NEW S, Good(S), Becomes(S)
    PROVE  WaitInv'
<1>1. S \in TableSet
    BY DEF Good
<1>2. /\ kind' = kind /\ Tables' \in TableSet
      /\ Tables'.count = S.count /\ Tables'.owner = S.owner /\ Tables'.ws = S.ws
      /\ Tables'.want = S.want /\ Tables'.phase = S.phase
      /\ Tables'.astray = S.astray /\ Tables'.result = S.result
    BY <1>1, BecomesIs
<1>3. (Tables \in TableSet)' /\ (Going(Tables)' <=> Going(S))
    BY <1>1, <1>2 DEF TableSet, Going
<1>4. Placed(Tables)' <=> Placed(S)
    BY <1>2 DEF Placed, Waits, DoSwitch
<1>5. AllHeard(Tables)' <=> AllHeard(S)
    <2>1. \A p : IsSignaled(Tables, p)' <=> IsSignaled(S, p)
        BY <1>2 DEF IsSignaled
    <2>2. \A p : Excused(Tables, p)' <=> Excused(S, p)
        BY <1>2 DEF Excused, OnItsWay
    <2>3. \A P : Heard(Tables, P)' <=> Heard(S, P)
        BY <2>1, <2>2 DEF Heard, Met
    <2> QED
        BY <1>2, <2>3 DEF AllHeard
<1>6. took' \in [Threads -> SUBSET Objects]
    BY <1>1 DEF Becomes, TableSet
<1> QED
    BY <1>2, <1>3, <1>4, <1>5, <1>6 DEF WaitInv, Good

(* The invariant makes the tables fit for the lemmas about calls. *)
LEMMA TablesFine ==
    ASSUME WaitInv, result = "none"
    PROVE  Fine(Tables) /\ \A t : Tables.phase[t] = phase[t] /\ Tables.want[t] = want[t]
BY DEF WaitInv, Good, Going, Fine, Tables

(* SetEvent, ResetEvent, PulseEvent, PostSemaphore, GetValue, ReleaseMutex *)
LEMMA SignalsKeep ==
    ASSUME WaitInv, NEW t \in Threads, NEW o \in Objects,
           \/ SetEvent(t, o) \/ ResetEvent(t, o) \/ PulseEvent(t, o)
           \/ \E n \in 1 .. MaxCount : PostSemaphore(t, o, n)
           \/ GetValue(t, o) \/ ReleaseMutex(t, o)
    PROVE  WaitInv'
<1>1. result = "none"
    BY DEF SetEvent, ResetEvent, PulseEvent, PostSemaphore, GetValue, ReleaseMutex, CanGo
<1>2. Fine(Tables)
    BY <1>1, TablesFine
<1>3. CASE SetEvent(t, o)
    <2>1. PICK S \in Set(Tables, t, o) : Becomes(S)
        BY <1>3 DEF SetEvent
    <2>2. Good(S)
        BY <1>2, <1>3, Setting DEF SetEvent
    <2> QED
        BY <2>1, <2>2, BecomesGood
<1>4. CASE ResetEvent(t, o)
    <2>1. Good(Reset(Tables, t, o)) /\ Becomes(Reset(Tables, t, o))
        BY <1>2, <1>4, Resetting DEF ResetEvent
    <2> QED
        BY <2>1, BecomesGood
<1>5. CASE PulseEvent(t, o)
    <2>1. Good(Pulse(Tables, t, o)) /\ Becomes(Pulse(Tables, t, o))
        BY <1>2, <1>5, Pulsing DEF PulseEvent
    <2> QED
        BY <2>1, BecomesGood
<1>6. ASSUME NEW n \in 1 .. MaxCount, PostSemaphore(t, o, n)
      PROVE  WaitInv'
    <2>1. n \in Nat
        OBVIOUS
    <2>2. PICK S \in Post(Tables, t, o, n) : Becomes(S)
        BY <1>6 DEF PostSemaphore
    <2>3. Good(S)
        BY <1>2, <1>6, <2>1, Posting DEF PostSemaphore
    <2> QED
        BY <2>2, <2>3, BecomesGood
<1>7. CASE GetValue(t, o)
    <2> DEFINE R == Acquire(Tables, t, o)
    <2>1. R \in TableSet /\ Same(Tables, R)
        BY <1>2, Syncing DEF Fine
    <2>2. Becomes(R)
        BY <1>7 DEF GetValue
    <2> HIDE DEF R
    <2>3. Good(R)
        BY <1>2, <2>1, SameGood DEF Fine, Good
    <2> QED
        BY <2>2, <2>3, BecomesGood
<1>8. CASE ReleaseMutex(t, o)
    <2>1. PICK S \in Unlock(Tables, t, o) : Becomes(S)
        BY <1>8 DEF ReleaseMutex
    <2>2. Good(S)
        BY <1>2, <1>8, Unlocking DEF ReleaseMutex
    <2> QED
        BY <2>1, <2>2, BecomesGood
<1> QED
    BY <1>3, <1>4, <1>5, <1>6, <1>7, <1>8

(* Wait, Try, SignalAndWait *)
LEMMA WaitsKeep ==
    ASSUME WaitInv, NEW t \in Threads, NEW w \in Single \cup Multiple,
           \/ Wait(t, w) \/ Try(t, w)
           \/ \E o \in Objects : SignalAndWait(t, o, w)
    PROVE  WaitInv'
<1>1. result = "none" /\ phase[t] = "running"
    BY DEF Wait, Try, SignalAndWait, CanGo
<1>2. Fine(Tables) /\ Tables.phase[t] = "running"
    BY <1>1, TablesFine
<1>3. CASE Wait(t, w)
    <2>1. Good(WaitFor(Tables, t, w)) /\ Becomes(WaitFor(Tables, t, w))
        BY <1>2, <1>3, Waiting DEF Wait
    <2> QED
        BY <2>1, BecomesGood
<1>4. CASE Try(t, w)
    <2>1. Good(TryWait(Tables, t, w)) /\ Becomes(TryWait(Tables, t, w))
        BY <1>2, <1>4, Trying DEF Try
    <2> QED
        BY <2>1, BecomesGood
<1>5. ASSUME NEW o \in Objects, SignalAndWait(t, o, w)
      PROVE  WaitInv'
    <2>1. PICK S \in SignalObject(Tables, t, o) :
              Becomes(IF Going(S) /\ ~ Full(o) THEN WaitFor(S, t, w) ELSE S)
        BY <1>5 DEF SignalAndWait
    <2>2. Good(S) /\ (Going(S) => Steady(Tables, S))
        BY <1>2, SignalingObject
    <2>3. CASE Going(S) /\ ~ Full(o)
        <3>1. Fine(S) /\ S.phase[t] = "running"
            BY <1>2, <2>2, <2>3 DEF Good, Fine, Steady
        <3>2. Good(WaitFor(S, t, w))
            BY <3>1, Waiting
        <3> QED
            BY <2>1, <2>3, <3>2, BecomesGood
    <2>4. CASE ~ (Going(S) /\ ~ Full(o))
        BY <2>1, <2>2, <2>4, BecomesGood
    <2> QED
        BY <2>3, <2>4
<1> QED
    BY <1>3, <1>4, <1>5

(* Continue, Timeout, Spurious, Create, Start, Finish *)
LEMMA PhasesKeep ==
    ASSUME WaitInv,
           \/ \E t \in Threads : Continue(t) \/ Timeout(t) \/ Spurious(t)
           \/ \E t \in Threads, o \in Objects : Create(t, o)
           \/ \E o \in Objects : Start(o) \/ Finish(o)
    PROVE  WaitInv'
<1>1. result = "none"
    <2>1. \A t : Continue(t) \/ Timeout(t) \/ Spurious(t) => result = "none"
        BY DEF Continue, Timeout, Spurious
    <2>2. \A t, o : Create(t, o) => result = "none"
        BY DEF Create, CanGo
    <2>3. \A o : Start(o) \/ Finish(o) => result = "none"
        BY DEF Start, Finish, CanGo
    <2> QED
        BY <2>1, <2>2, <2>3
<1>2. Fine(Tables) /\ \A t : Tables.phase[t] = phase[t] /\ Tables.want[t] = want[t]
    BY <1>1, TablesFine
<1>3. ASSUME NEW t \in Threads, Continue(t)
      PROVE  WaitInv'
    <2>1. Good(Woken(Tables, t, want[t])) /\ Becomes(Woken(Tables, t, want[t]))
        BY <1>2, <1>3, GoingOn DEF Continue
    <2> QED
        BY <2>1, BecomesGood
<1>4. ASSUME NEW t \in Threads, Timeout(t) \/ Spurious(t)
      PROVE  WaitInv'
    <2> DEFINE R == [AcquireAll(Leave(Tables, t), t, want[t].objects)
                        EXCEPT !.phase[t] = "running"]
    <2>1. phase[t] = "parked" /\ Becomes(R)
        BY <1>4 DEF Timeout, Spurious
    <2>2. Good(R)
        BY <1>2, <2>1, GivingUp
    <2> HIDE DEF R
    <2> QED
        BY <2>1, <2>2, BecomesGood
<1>5. ASSUME NEW t \in Threads, NEW o \in Objects, Create(t, o)
      PROVE  WaitInv'
    <2> DEFINE Q == Release(Tables, t, o)
               R == [Q EXCEPT !.phase[kind[o]] = "created"]
    <2>1. kind[o] \in Threads /\ Tables.phase[kind[o]] = "absent" /\ Becomes(R)
        BY <1>2, <1>5 DEF Create
    <2>2. Q \in TableSet /\ Same(Tables, Q)
        BY <1>2, Syncing DEF Fine
    <2> HIDE DEF Q
    <2>3. Good(R)
        BY <1>2, <2>1, <2>2, Beginning
    <2> HIDE DEF R
    <2> QED
        BY <2>1, <2>3, BecomesGood
<1>6. ASSUME NEW o \in Objects, Start(o)
      PROVE  WaitInv'
    <2> DEFINE Q == Acquire(Tables, kind[o], o)
               R == [Q EXCEPT !.phase[kind[o]] = "running"]
    <2>1. kind[o] \in Threads /\ Tables.phase[kind[o]] = "created" /\ Becomes(R)
        BY <1>2, <1>6 DEF Start
    <2>2. Q \in TableSet /\ Same(Tables, Q)
        BY <1>2, <2>1, Syncing DEF Fine
    <2> HIDE DEF Q
    <2>3. Good(R)
        BY <1>2, <2>1, <2>2, Beginning
    <2> HIDE DEF R
    <2> QED
        BY <2>1, <2>3, BecomesGood
<1>7. ASSUME NEW o \in Objects, Finish(o)
      PROVE  WaitInv'
    <2> DEFINE R == End(Tables, kind[o], o)
    <2>1. kind[o] \in Threads /\ Tables.phase[kind[o]] = "running" /\ Becomes(R)
        BY <1>2, <1>7 DEF Finish, CanGo
    <2>2. kind \in Kinds
        BY DEF WaitInv
    <2>3. Good(R)
        BY <1>2, <2>1, <2>2, Finishing
    <2> HIDE DEF R
    <2> QED
        BY <2>1, <2>3, BecomesGood
<1> QED
    BY <1>3, <1>4, <1>5, <1>6, <1>7

(* Every step, and no step, keeps the invariant. *)
LEMMA NextKeeps == WaitInv /\ [Next]_vars => WaitInv'
<1> SUFFICES ASSUME WaitInv, [Next]_vars
             PROVE  WaitInv'
    OBVIOUS
<1>1. ASSUME NEW t \in Threads, NEW o \in Objects,
             \/ SetEvent(t, o) \/ ResetEvent(t, o) \/ PulseEvent(t, o)
             \/ \E n \in 1 .. MaxCount : PostSemaphore(t, o, n)
             \/ GetValue(t, o) \/ ReleaseMutex(t, o)
      PROVE  WaitInv'
    BY <1>1, SignalsKeep
<1>2. ASSUME NEW t \in Threads, NEW o \in Objects, Create(t, o)
      PROVE  WaitInv'
    BY <1>2, PhasesKeep
<1>3. ASSUME NEW t \in Threads, NEW w \in Single \cup Multiple,
             Wait(t, w) \/ Try(t, w) \/ (\E o \in Objects : SignalAndWait(t, o, w))
      PROVE  WaitInv'
    BY <1>3, WaitsKeep
<1>4. ASSUME \/ \E t \in Threads : Continue(t) \/ Timeout(t) \/ Spurious(t)
             \/ \E o \in Objects : Start(o) \/ Finish(o)
      PROVE  WaitInv'
    BY <1>4, PhasesKeep
<1>5. CASE UNCHANGED vars
    <2>1. Tables' = Tables /\ kind' = kind
        BY <1>5 DEF vars, Tables, NothingTaken
    <2>2. took' = took
        BY <1>5 DEF vars
    <2> QED
        BY <1>5 DEF vars, WaitInv, Good, Tables, NothingTaken, Going, Placed, Waits,
            DoSwitch, AllHeard, Heard, Met, IsSignaled, Excused, OnItsWay
<1>6. CASE Next
    BY <1>1, <1>2, <1>3, <1>4, <1>6 DEF Next
<1> QED
    BY <1>5, <1>6

(* Nobody is parked at first. *)
LEMMA InitGood == Init => WaitInv
<1> SUFFICES ASSUME Init
             PROVE  WaitInv
    OBVIOUS
<1>1. /\ Tables.count = count /\ Tables.phase = phase /\ Tables.want = want
      /\ Tables.ws = [o \in Objects |-> <<>>] /\ Tables.result = "none"
    BY DEF Init, Tables
<1>2. Tables \in TableSet /\ took \in [Threads -> SUBSET Objects]
    BY DEF Init, Tables, TableSet, NothingTaken
<1>3. \A t \in Threads : Tables.phase[t] \notin {"parked", "woken"}
    BY <1>1 DEF Init
<1>4. ASSUME NEW o \in Objects
      PROVE  /\ IsInjective(Tables.ws[o]) /\ Range(Tables.ws[o]) = {}
             /\ kind[o] \in Events => Tables.count[o] \in {0, 1}
    <2>1. IsInjective(Tables.ws[o]) /\ Range(Tables.ws[o]) = {}
        BY <1>1 DEF IsInjective, Range
    <2>2. ASSUME kind[o] \in Events
          PROVE  Tables.count[o] \in {0, 1}
        <3>1. count[o] \in 0 .. MaxCount /\ count[o] <= 1
            BY <2>2 DEF Init, Events, Semaphores
        <3> QED
            BY <1>1, <3>1, WaitObjectsAssumption
    <2> QED
        BY <2>1, <2>2
<1>5. Placed(Tables)
    BY <1>3, <1>4 DEF Placed, Waits
<1>6. AllHeard(Tables)
    BY <1>3 DEF AllHeard
<1> QED
    BY <1>2, <1>5, <1>6 DEF WaitInv, Good, Init

(* What the invariant says of the threads that are parked. *)
LEMMA NobodyWaitsForWhatIsThere == WaitInv => NoLostWakeup
<1> SUFFICES ASSUME WaitInv
             PROVE  NoLostWakeup
    OBVIOUS
<1>1. TypeOK
    BY DEF WaitInv, Good, TableSet, Tables, TypeOK
<1>2. ASSUME result = "none", NEW t \in Threads, phase[t] = "parked",
             Satisfied(Tables, want[t])
      PROVE  \E o \in Range(want[t].objects) : OnTheWay(o) \/ o \in astray
    <2>1. Fine(Tables) /\ Tables.phase[t] = "parked" /\ Tables.want[t] = want[t]
        BY <1>2, TablesFine
    <2>2. want[t] \in Single \cup Multiple
        BY <2>1 DEF Fine, Placed
    <2>3. PICK P \in Pleas(want[t]) : Met(Tables, P)
        BY <1>2, <2>2, PleaMet
    <2>4. PICK p \in P : Excused(Tables, p)
        BY <2>1, <2>3 DEF Fine, AllHeard, Heard
    <2>5. p \in Range(want[t].objects)
        BY <2>2, PleaFacts
    <2>6. OnTheWay(p) \/ p \in astray
        BY <2>4 DEF Excused, OnItsWay, OnTheWay, Tables
    <2> QED
        BY <2>5, <2>6
<1> QED
    BY <1>1, <1>2 DEF NoLostWakeup

(* No wake-up is lost, whatever threads signal and wait for whatever       *)
(* objects, one at a time or several at once: a thread stays parked only   *)
(* while something it waits for is missing, but for a mutex that another   *)
(* thread is on its way to and for the signals that woke a waiter for any  *)
(* of several objects who took another one (waitset.hpp, event.hpp,        *)
(* semaphore.hpp).                                                         *)
THEOREM WakeupsArrive == Spec => []NoLostWakeup
<1>1. Spec => []WaitInv
    BY InitGood, NextKeeps, PTL DEF Spec
<1> QED
    BY <1>1, NobodyWaitsForWhatIsThere, PTL

-----------------------------------------------------------------------------
(* Who passes, and which checks fail. *)

(* wait: who does not park is after the signals it took. *)
LEMMA WaitPasses ==
    ASSUME NEW S \in TableSet, SyncOwn(S), NEW t \in Threads, S.phase[t] = "running",
           NEW w \in Single \cup Multiple
    PROVE  LET R == WaitFor(S, t, w)
           IN  /\ R.result = S.result /\ Later(S, R)
               /\ \A u \in Threads \ {t} : R.phase[u] = S.phase[u] /\ R.took[u] = S.took[u]
               /\ R.phase[t] = "running" => After(R, t, w)
<1>1. CASE Satisfied(S, w)
    <2> DEFINE R == TakeWanted(S, t, w)
    <2>1. R.phase = S.phase /\ R.result = S.result
        BY <1>1, TakingWanted DEF Lessens
    <2>2. Later(S, R) /\ After(R, t, w) /\ \A u \in Threads \ {t} : R.took[u] = S.took[u]
        BY <1>1, TakingBounds
    <2>3. WaitFor(S, t, w) = R
        BY <1>1 DEF WaitFor
    <2> HIDE DEF R
    <2> QED
        BY <2>1, <2>2, <2>3
<1>2. CASE ~ Satisfied(S, w)
    <2> DEFINE W == [o \in Objects |-> IF Contains(w.objects, o) THEN Append(S.ws[o], t)
                                       ELSE S.ws[o]]
    <2>1. WaitFor(S, t, w) = [S EXCEPT !.ws = W, !.want[t] = w, !.phase[t] = "parked"]
        BY <1>2 DEF WaitFor, Park
    <2> HIDE DEF W
    <2> QED
        BY <2>1 DEF TableSet, Later
<1> QED
    BY <1>1, <1>2

(* try_wait *)
LEMMA TryPasses ==
    ASSUME NEW S \in TableSet, SyncOwn(S), NEW t \in Threads, NEW w \in Single \cup Multiple
    PROVE  LET R == TryWait(S, t, w)
           IN  R.result = S.result /\ Later(S, R) /\ R.phase = S.phase
<1>1. CASE Satisfied(S, w)
    <2>1. Lessens(S, TakeWanted(S, t, w)) /\ Later(S, TakeWanted(S, t, w))
        BY <1>1, TakingWanted, TakingBounds
    <2> QED
        BY <1>1, <2>1 DEF TryWait, Lessens
<1>2. CASE ~ Satisfied(S, w)
    <2> DEFINE R == AcquireAll(S, t, w.objects)
    <2>1. Later(S, R) /\ R.result = S.result /\ R.phase = S.phase
        BY AcquiringAll, AcquireLater DEF Same
    <2>2. TryWait(S, t, w) = S \/ TryWait(S, t, w) = R
        BY <1>2 DEF TryWait
    <2> HIDE DEF R
    <2> QED
        BY <2>1, <2>2 DEF Later
<1> QED
    BY <1>1, <1>2

(* What a step does, if a call gives it the tables S. *)
PassersStep ==
    \A t \in Threads :
        LET passes == /\ phase[t] \in {"parked", "woken"} /\ phase'[t] = "running"
                      /\ ~ Timeout(t) /\ ~ Spurious(t)
        IN  /\ took'[t] \cap unseen'[t] = {}
            /\ passes => took'[t] \in Asks(want[t])

ChecksStep ==
    result' = "verify_failed" =>
        \/ Doubtful(Tables)
        \/ \E o \in Objects : Crowded(Tables, o) /\ \E t \in Threads : PulseEvent(t, o)

Answers == SyncOwn(Tables)' /\ PassersStep /\ ChecksStep

(* A step begins with nothing taken. *)
LEMMA TablesTook == NoneTook(Tables)
BY DEF NoneTook, Tables

(* What is told in the tables is told by the step to them. *)
LEMMA BecomesTold ==
    ASSUME NEW S \in TableSet, Becomes(S), SyncOwn(Tables), Told(Tables, S)
    PROVE  SyncOwn(Tables)' /\ PassersStep
<1>1. SyncOwn(S) /\ Passes(Tables, S)
    BY TablesTook DEF Told
<1>2. phase' = S.phase /\ unseen' = S.unseen /\ syncUnseen' = S.syncUnseen /\ took' = S.took
    BY DEF Becomes
<1>3. Tables'.syncUnseen = syncUnseen' /\ Tables'.took = NothingTaken
    BY DEF Tables, NothingTaken
<1>4. SyncOwn(Tables)'
    <2>1. \A o \in Objects : o \notin Tables'.syncUnseen[o]
        BY <1>1, <1>2, <1>3 DEF SyncOwn
    <2>2. \A u \in Threads : Tables'.took[u] = {}
        BY <1>3 DEF NothingTaken
    <2> QED
        BY <2>1, <2>2 DEF SyncOwn
<1>5. Tables.phase = phase /\ Tables.want = want
    BY DEF Tables
<1>6. PassersStep
    BY <1>1, <1>2, <1>5 DEF PassersStep, Passes, After, SyncOwn
<1> QED
    BY <1>4, <1>6

(* What is answered in the tables is answered by the step to them. *)
LEMMA BecomesAnswered ==
    ASSUME NEW S \in TableSet, Becomes(S), SyncOwn(Tables), Answered(Tables, S)
    PROVE  Answers
<1>1. SyncOwn(Tables)' /\ PassersStep
    BY BecomesTold DEF Answered
<1>2. ChecksStep
    BY DEF ChecksStep, Answered, Becomes
<1> QED
    BY <1>1, <1>2 DEF Answers

(* A step in which nobody passes. *)
LEMMA BecomesQuiet ==
    ASSUME NEW S \in TableSet, Becomes(S), SyncOwn(Tables), Later(Tables, S),
           S.result = "none",
           \A u \in Threads : phase[u] \in {"parked", "woken"} => S.phase[u] # "running"
    PROVE  Answers
<1>1. \A u \in Threads : Tables.phase[u] \in {"parked", "woken"} => S.phase[u] # "running"
    BY DEF Tables
<1>2. Answered(Tables, S)
    BY <1>1, Quiet
<1> QED
    BY <1>2, BecomesAnswered

(* SetEvent, ResetEvent, PulseEvent, PostSemaphore, GetValue, ReleaseMutex *)
LEMMA SignalsAnswer ==
    ASSUME WaitInv, SyncOwn(Tables), NEW t \in Threads, NEW o \in Objects,
           \/ SetEvent(t, o) \/ ResetEvent(t, o) \/ PulseEvent(t, o)
           \/ \E n \in 1 .. MaxCount : PostSemaphore(t, o, n)
           \/ GetValue(t, o) \/ ReleaseMutex(t, o)
    PROVE  Answers
<1>1. result = "none"
    BY DEF SetEvent, ResetEvent, PulseEvent, PostSemaphore, GetValue, ReleaseMutex, CanGo
<1>2. Fine(Tables) /\ \A u : Tables.phase[u] = phase[u]
    BY <1>1, TablesFine
<1>3. CASE SetEvent(t, o)
    <2>1. PICK S \in Set(Tables, t, o) : Becomes(S)
        BY <1>3 DEF SetEvent
    <2>2. Good(S) /\ Answered(Tables, S)
        BY <1>2, <1>3, Setting DEF SetEvent
    <2> QED
        BY <2>1, <2>2, BecomesAnswered DEF Good
<1>4. CASE ResetEvent(t, o)
    <2> DEFINE S == Reset(Tables, t, o)
    <2>1. Good(S) /\ Answered(Tables, S) /\ Becomes(S)
        BY <1>2, <1>4, Resetting DEF ResetEvent
    <2> QED
        BY <2>1, BecomesAnswered DEF Good
<1>5. CASE PulseEvent(t, o)
    <2> DEFINE S == Pulse(Tables, t, o)
    <2>1. /\ Good(S) /\ Told(Tables, S) /\ Becomes(S)
          /\ S.result = "verify_failed" => Doubtful(Tables) \/ Crowded(Tables, o)
        BY <1>2, <1>5, Pulsing DEF PulseEvent
    <2> HIDE DEF S
    <2>2. SyncOwn(Tables)' /\ PassersStep
        BY <2>1, BecomesTold DEF Good
    <2>3. result' = S.result
        BY <2>1 DEF Becomes
    <2>4. ChecksStep
        BY <1>5, <2>1, <2>3 DEF ChecksStep
    <2> QED
        BY <2>2, <2>4 DEF Answers
<1>6. ASSUME NEW n \in 1 .. MaxCount, PostSemaphore(t, o, n)
      PROVE  Answers
    <2>1. n \in Nat
        OBVIOUS
    <2>2. PICK S \in Post(Tables, t, o, n) : Becomes(S)
        BY <1>6 DEF PostSemaphore
    <2>3. Good(S) /\ Answered(Tables, S)
        BY <1>2, <1>6, <2>1, Posting DEF PostSemaphore
    <2> QED
        BY <2>2, <2>3, BecomesAnswered DEF Good
<1>7. CASE GetValue(t, o)
    <2> DEFINE R == Acquire(Tables, t, o)
    <2>1. R \in TableSet /\ Same(Tables, R)
        BY <1>2, Syncing DEF Fine
    <2>2. Becomes(R)
        BY <1>7 DEF GetValue
    <2>3. Later(Tables, R)
        BY <1>2, SyncOrders DEF Fine
    <2> HIDE DEF R
    <2>4. R.result = "none" /\ R.phase = phase
        BY <1>1, <2>1 DEF Same, Tables
    <2> QED
        BY <2>1, <2>2, <2>3, <2>4, BecomesQuiet
<1>8. CASE ReleaseMutex(t, o)
    <2>1. PICK S \in Unlock(Tables, t, o) : Becomes(S)
        BY <1>8 DEF ReleaseMutex
    <2>2. Good(S) /\ Answered(Tables, S)
        BY <1>2, <1>8, Unlocking DEF ReleaseMutex
    <2> QED
        BY <2>1, <2>2, BecomesAnswered DEF Good
<1> QED
    BY <1>3, <1>4, <1>5, <1>6, <1>7, <1>8

(* Wait, Try, SignalAndWait *)
LEMMA WaitsAnswer ==
    ASSUME WaitInv, SyncOwn(Tables), NEW t \in Threads, NEW w \in Single \cup Multiple,
           \/ Wait(t, w) \/ Try(t, w)
           \/ \E o \in Objects : SignalAndWait(t, o, w)
    PROVE  Answers
<1>1. result = "none" /\ phase[t] = "running"
    BY DEF Wait, Try, SignalAndWait, CanGo
<1>2. /\ Fine(Tables) /\ Tables \in TableSet
      /\ \A u : Tables.phase[u] = phase[u] /\ Tables.want[u] = want[u]
      /\ Tables.result = "none"
    BY <1>1, TablesFine DEF Fine, Tables
<1>3. CASE Wait(t, w)
    <2> DEFINE R == WaitFor(Tables, t, w)
    <2>1. Good(R) /\ Becomes(R)
        BY <1>1, <1>2, <1>3, Waiting DEF Wait
    <2>2. /\ R.result = "none" /\ Later(Tables, R)
          /\ \A u \in Threads \ {t} : R.phase[u] = phase[u]
        BY <1>1, <1>2, WaitPasses
    <2> HIDE DEF R
    <2> QED
        BY <1>1, <2>1, <2>2, BecomesQuiet DEF Good
<1>4. CASE Try(t, w)
    <2> DEFINE R == TryWait(Tables, t, w)
    <2>1. Good(R) /\ Becomes(R)
        BY <1>1, <1>2, <1>4, Trying DEF Try
    <2>2. R.result = "none" /\ Later(Tables, R) /\ R.phase = Tables.phase
        BY <1>1, <1>2, TryPasses
    <2> HIDE DEF R
    <2>3. \A u \in Threads : phase[u] \in {"parked", "woken"} => R.phase[u] # "running"
        BY <1>2, <2>2
    <2> QED
        BY <2>1, <2>2, <2>3, BecomesQuiet DEF Good
<1>5. ASSUME NEW o \in Objects, SignalAndWait(t, o, w)
      PROVE  Answers
    <2>1. PICK S \in SignalObject(Tables, t, o) :
              Becomes(IF Going(S) /\ ~ Full(o) THEN WaitFor(S, t, w) ELSE S)
        BY <1>5 DEF SignalAndWait
    <2>2. Good(S) /\ (Going(S) => Steady(Tables, S)) /\ Answered(Tables, S)
        BY <1>2, SignalingObject
    <2>3. CASE Going(S) /\ ~ Full(o)
        <3> DEFINE R == WaitFor(S, t, w)
        <3>1. Fine(S) /\ S \in TableSet /\ S.phase[t] = "running"
            BY <1>1, <1>2, <2>2, <2>3 DEF Good, Fine, Steady
        <3>2. Good(R)
            BY <3>1, Waiting
        <3>3. Becomes(R)
            BY <2>1, <2>3
        <3>4. SyncOwn(S) /\ Passes(Tables, S)
            BY <2>2, TablesTook DEF Answered, Told
        <3>5. /\ R.result = S.result /\ Later(S, R)
              /\ \A u \in Threads \ {t} : R.phase[u] = S.phase[u] /\ R.took[u] = S.took[u]
            BY <3>1, <3>4, WaitPasses
        <3> HIDE DEF R
        <3>6. Passes(Tables, R)
            <4> SUFFICES ASSUME NEW u \in Threads, phase[u] \in {"parked", "woken"},
                                R.phase[u] = "running"
                         PROVE  After(R, u, want[u])
                BY <1>2 DEF Passes
            <4>1. S.phase[u] = "running"
                BY <1>1, <3>5
            <4>2. After(S, u, want[u]) /\ u # t
                BY <1>1, <1>2, <3>4, <4>1 DEF Passes
            <4> QED
                BY <3>5, <4>2 DEF After
        <3>7. Answered(Tables, R)
            <4>1. SyncOwn(R)
                BY <3>4, <3>5 DEF Later, SyncOwn
            <4>2. R.result = "none"
                BY <2>3, <3>5 DEF Going
            <4> QED
                BY <3>6, <4>1, <4>2 DEF Answered, Told
        <3> QED
            BY <3>2, <3>3, <3>7, BecomesAnswered DEF Good
    <2>4. CASE ~ (Going(S) /\ ~ Full(o))
        BY <2>1, <2>2, <2>4, BecomesAnswered DEF Good
    <2> QED
        BY <2>3, <2>4
<1> QED
    BY <1>3, <1>4, <1>5

(* A wait that ends without a signal *)
LEMMA GivingUpAnswers ==
    ASSUME WaitInv, SyncOwn(Tables), NEW t \in Threads, Timeout(t) \/ Spurious(t)
    PROVE  Answers
<1> DEFINE L == Leave(Tables, t)
           A == AcquireAll(L, t, want[t].objects)
           R == [A EXCEPT !.phase[t] = "running"]
<1>1. result = "none" /\ phase[t] = "parked" /\ Becomes(R)
    BY DEF Timeout, Spurious
<1>2. /\ Fine(Tables) /\ Tables \in TableSet /\ Tables.phase = phase
      /\ Tables.result = "none"
    BY <1>1, TablesFine DEF Fine, Tables
<1>3. /\ L \in TableSet /\ L.phase = phase /\ L.result = "none"
      /\ L.unseen = Tables.unseen /\ L.syncUnseen = Tables.syncUnseen
      /\ L.took = Tables.took
    <2>1. \A p \in Objects : IsInjective(Tables.ws[p])
        BY <1>2 DEF Fine, Placed
    <2> QED
        BY <1>2, <2>1, Leaving
<1> HIDE DEF L
<1>4. A \in TableSet /\ Same(L, A) /\ Later(L, A)
    BY <1>3, AcquiringAll, AcquireLater
<1> HIDE DEF A
<1>5. R \in TableSet
    BY <1>4 DEF TableSet
<1>6. /\ R.unseen = A.unseen /\ R.syncUnseen = A.syncUnseen /\ R.result = "none"
      /\ R.took = A.took
      /\ \A u \in Threads \ {t} : R.phase[u] = phase[u]
    BY <1>3, <1>4 DEF TableSet, Same
<1> HIDE DEF R
<1>7. Later(Tables, R)
    BY <1>3, <1>4, <1>6 DEF Later
<1>8. SyncOwn(R) /\ R.took = NothingTaken
    <2>1. SyncOwn(R)
        BY <1>7 DEF Later, SyncOwn
    <2> QED
        BY <1>3, <1>4, <1>6, <2>1, TablesTook DEF Same, NoneTook
<1>9. /\ phase' = R.phase /\ result' = "none" /\ took' = NothingTaken
       /\ syncUnseen' = R.syncUnseen
    BY <1>1, <1>6, <1>8 DEF Becomes
<1>10. SyncOwn(Tables)'
    <2>1. Tables'.syncUnseen = R.syncUnseen /\ Tables'.took = NothingTaken
        BY <1>9 DEF Tables, NothingTaken
    <2>2. \A u \in Threads : NothingTaken[u] = {}
        BY DEF NothingTaken
    <2> QED
        BY <1>8, <2>1, <2>2 DEF SyncOwn
<1>11. PassersStep
    <2>1. \A u \in Threads : took'[u] = {}
        BY <1>9 DEF NothingTaken
    <2> QED
        BY <1>6, <1>9, <2>1 DEF PassersStep
<1> QED
    BY <1>9, <1>10, <1>11 DEF Answers, ChecksStep

(* Continue, Timeout, Spurious, Create, Start, Finish *)
LEMMA PhasesAnswer ==
    ASSUME WaitInv, SyncOwn(Tables),
           \/ \E t \in Threads : Continue(t) \/ Timeout(t) \/ Spurious(t)
           \/ \E t \in Threads, o \in Objects : Create(t, o)
           \/ \E o \in Objects : Start(o) \/ Finish(o)
    PROVE  Answers
<1>1. result = "none"
    <2>1. \A t : Continue(t) \/ Timeout(t) \/ Spurious(t) => result = "none"
        BY DEF Continue, Timeout, Spurious
    <2>2. \A t, o : Create(t, o) => result = "none"
        BY DEF Create, CanGo
    <2>3. \A o : Start(o) \/ Finish(o) => result = "none"
        BY DEF Start, Finish, CanGo
    <2> QED
        BY <2>1, <2>2, <2>3
<1>2. /\ Fine(Tables) /\ Tables \in TableSet /\ Tables.phase = phase /\ Tables.want = want
      /\ Tables.result = "none"
    BY <1>1, TablesFine DEF Fine, Tables
<1>3. ASSUME NEW t \in Threads, Continue(t)
      PROVE  Answers
    <2> DEFINE w == want[t]
               Q == [Tables EXCEPT !.phase[t] = "running", !.want[t] = Nothing]
               R == WaitFor(Q, t, w)
    <2>1. phase[t] = "woken" /\ Becomes(Woken(Tables, t, w)) /\ Good(Woken(Tables, t, w))
        BY <1>2, <1>3, GoingOn DEF Continue
    <2>2. Woken(Tables, t, w) = R
        BY DEF Woken
    <2>3. Q \in TableSet
        BY <1>2 DEF TableSet
    <2>4. /\ Q.unseen = Tables.unseen /\ Q.syncUnseen = Tables.syncUnseen
          /\ Q.took = Tables.took
          /\ Q.result = "none" /\ Q.phase[t] = "running"
          /\ \A u \in Threads \ {t} : Q.phase[u] = phase[u]
        BY <1>2 DEF TableSet
    <2> HIDE DEF Q
    <2>5. w \in Single \cup Multiple
        BY <1>2, <2>1 DEF Fine, Placed
    <2>6. Later(Tables, Q) /\ SyncOwn(Q)
        BY <2>4 DEF Later, SyncOwn
    <2>7. /\ R.result = "none" /\ Later(Q, R)
          /\ \A u \in Threads \ {t} : R.phase[u] = Q.phase[u]
          /\ R.phase[t] = "running" => After(R, t, w)
        BY <2>3, <2>4, <2>5, <2>6, WaitPasses
    <2> HIDE DEF R
    <2>8. Passes(Tables, R)
        BY <1>2, <2>4, <2>7 DEF Passes
    <2>9. SyncOwn(R)
        BY <2>6, <2>7, LaterTrans
    <2>10. Answered(Tables, R)
        BY <2>7, <2>8, <2>9 DEF Answered, Told
    <2> QED
        BY <2>1, <2>2, <2>10, BecomesAnswered DEF Good
<1>4. ASSUME NEW t \in Threads, Timeout(t) \/ Spurious(t)
      PROVE  Answers
    BY <1>4, GivingUpAnswers
<1>5. ASSUME NEW t \in Threads, NEW o \in Objects, Create(t, o)
      PROVE  Answers
    <2> DEFINE Q == Release(Tables, t, o)
               R == [Q EXCEPT !.phase[kind[o]] = "created"]
    <2>1. kind[o] \in Threads /\ Becomes(R)
        BY <1>5 DEF Create
    <2>2. Q \in TableSet /\ Same(Tables, Q) /\ Later(Tables, Q)
        BY <1>2, Syncing, SyncOrders
    <2> HIDE DEF Q
    <2>3. R \in TableSet
        BY <2>1, <2>2 DEF TableSet
    <2>4. /\ R.unseen = Q.unseen /\ R.syncUnseen = Q.syncUnseen /\ R.result = "none"
          /\ R.took = Q.took
          /\ \A u \in Threads : R.phase[u] = phase[u] \/ R.phase[u] = "created"
        BY <1>2, <2>1, <2>2 DEF TableSet, Same
    <2> HIDE DEF R
    <2>5. Later(Tables, R)
        BY <2>2, <2>4 DEF Later
    <2> QED
        BY <2>1, <2>3, <2>4, <2>5, BecomesQuiet
<1>6. ASSUME NEW o \in Objects, Start(o)
      PROVE  Answers
    <2> DEFINE t == kind[o]
               Q == Acquire(Tables, t, o)
               R == [Q EXCEPT !.phase[t] = "running"]
    <2>1. t \in Threads /\ phase[t] = "created" /\ Becomes(R)
        BY <1>6 DEF Start
    <2>2. Q \in TableSet /\ Same(Tables, Q) /\ Later(Tables, Q)
        BY <1>2, <2>1, Syncing, SyncOrders
    <2> HIDE DEF Q, t
    <2>3. R \in TableSet
        BY <2>1, <2>2 DEF TableSet
    <2>4. /\ R.unseen = Q.unseen /\ R.syncUnseen = Q.syncUnseen /\ R.result = "none"
          /\ R.took = Q.took
          /\ \A u \in Threads \ {t} : R.phase[u] = phase[u]
        BY <1>2, <2>1, <2>2 DEF TableSet, Same
    <2> HIDE DEF R
    <2>5. Later(Tables, R)
        BY <2>2, <2>4 DEF Later
    <2> QED
        BY <2>1, <2>3, <2>4, <2>5, BecomesQuiet
<1>7. ASSUME NEW o \in Objects, Finish(o)
      PROVE  Answers
    <2> DEFINE R == End(Tables, kind[o], o)
    <2>1. kind[o] \in Threads /\ Tables.phase[kind[o]] = "running" /\ Becomes(R)
        BY <1>2, <1>7 DEF Finish, CanGo
    <2>2. kind \in Kinds
        BY DEF WaitInv
    <2>3. Good(R) /\ Answered(Tables, R)
        BY <1>2, <2>1, <2>2, Finishing
    <2> HIDE DEF R
    <2> QED
        BY <2>1, <2>3, BecomesAnswered DEF Good
<1> QED
    BY <1>3, <1>4, <1>5, <1>6, <1>7

(* Next, and the steps in which nothing changes. *)
LEMMA NextAnswers == WaitInv /\ SyncOwn(Tables) /\ Next => Answers
<1> SUFFICES ASSUME WaitInv, SyncOwn(Tables), Next
             PROVE  Answers
    OBVIOUS
<1>1. ASSUME NEW t \in Threads, NEW o \in Objects,
             \/ SetEvent(t, o) \/ ResetEvent(t, o) \/ PulseEvent(t, o)
             \/ \E n \in 1 .. MaxCount : PostSemaphore(t, o, n)
             \/ GetValue(t, o) \/ ReleaseMutex(t, o)
      PROVE  Answers
    BY <1>1, SignalsAnswer
<1>2. ASSUME NEW t \in Threads, NEW o \in Objects, Create(t, o)
      PROVE  Answers
    BY <1>2, PhasesAnswer
<1>3. ASSUME NEW t \in Threads, NEW w \in Single \cup Multiple,
             Wait(t, w) \/ Try(t, w) \/ (\E o \in Objects : SignalAndWait(t, o, w))
      PROVE  Answers
    BY <1>3, WaitsAnswer
<1>4. ASSUME \/ \E t \in Threads : Continue(t) \/ Timeout(t) \/ Spurious(t)
             \/ \E o \in Objects : Start(o) \/ Finish(o)
      PROVE  Answers
    BY <1>4, PhasesAnswer
<1> QED
    BY <1>1, <1>2, <1>3, <1>4 DEF Next

(* Nothing is signaled at first. *)
LEMMA InitOrders == Init => SyncOwn(Tables)
BY DEF Init, SyncOwn, Tables, NothingTaken

(* sync_ of every object is always after the latest signal of it. *)
LEMMA Synced == Spec => [](WaitInv /\ SyncOwn(Tables))
<1>1. WaitInv /\ SyncOwn(Tables) /\ [Next]_vars => (WaitInv /\ SyncOwn(Tables))'
    <2> SUFFICES ASSUME WaitInv, SyncOwn(Tables), [Next]_vars
                 PROVE  WaitInv' /\ SyncOwn(Tables)'
        OBVIOUS
    <2>1. WaitInv'
        BY NextKeeps
    <2>2. CASE Next
        BY <2>1, <2>2, NextAnswers DEF Answers
    <2>3. CASE UNCHANGED vars
        <3>1. Tables' = Tables
            BY <2>3 DEF vars, Tables, NothingTaken
        <3> QED
            BY <2>1, <3>1 DEF SyncOwn
    <2> QED
        BY <2>2, <2>3
<1> QED
    BY <1>1, InitGood, InitOrders, PTL DEF Spec

(* Whatever a thread takes, in a wait or a try that passes at once, inside *)
(* the step of its waker or after it was woken, it is after the latest     *)
(* signal of that object, and a wait that is over has taken what it asked  *)
(* for: the clocks of the objects, and not of the threads that woke it,    *)
(* are enough (sync_var.hpp, event.hpp, semaphore.hpp, dyn_thread_ctx.hpp). *)
THEOREM PassersAreOrdered == Spec => PassersOrdered
<1>1. WaitInv /\ SyncOwn(Tables) /\ [Next]_vars => [PassersStep]_vars
    BY NextAnswers DEF Answers
<1> QED
    BY <1>1, Synced, PTL DEF Spec, PassersOrdered, PassersStep

(* The checks of the waits and of set, reset and pulse fail only when the  *)
(* call pulses an auto-reset event that several threads wait for, or an    *)
(* event that is set has a waiter who misses something else or was passed  *)
(* over (event.hpp, semaphore.hpp).                                        *)
THEOREM ChecksHold == Spec => VerifiesFailOnlyIf
<1> DEFINE A == result' = "verify_failed" =>
                  \E o \in Objects :
                      \/ /\ kind[o] = "auto" /\ count[o] = 0 /\ Len(ws[o]) > 1
                         /\ \E t \in Threads : PulseEvent(t, o)
                      \/ /\ kind[o] \in Events /\ count[o] = 1 /\ ws[o] # <<>>
                         /\ \A t \in Range(ws[o]) : want[t].all \/ o \in astray
<1>1. ChecksStep => A
    <2>1. /\ Tables.count = count /\ Tables.ws = ws /\ Tables.want = want
          /\ Tables.astray = astray
        BY DEF Tables
    <2> QED
        BY <2>1 DEF ChecksStep, Doubtful, Crowded
<1>2. WaitInv /\ SyncOwn(Tables) /\ [Next]_vars => [A]_vars
    BY <1>1, NextAnswers DEF Answers
<1> QED
    BY <1>2, Synced, PTL DEF Spec, VerifiesFailOnlyIf

=============================================================================
