------------------------ MODULE HappensBeforeProofs ------------------------
(***************************************************************************)
(* Proofs about HappensBefore: the clocks of the engine are happens-before *)
(* for any program, any number of threads, variables and calls.  What each *)
(* clock stands for is a set of calls of the log, and the invariant HBInv  *)
(* says so of every clock the engine keeps.  The release sequences are     *)
(* those of the code, not those of ISO C++0x (HBCxx0x.cfg refutes these).  *)
(***************************************************************************)
EXTENDS HappensBefore, MemoryOrderProofs, FiniteSetTheorems, NaturalsInduction,
        WellFoundedInduction

-----------------------------------------------------------------------------
(* The inductive invariant. *)

(* The past of a set of calls. *)
Pasts(S) == UNION {past[i] : i \in S}

(* The calls whose pasts the clocks of the engine stand for. *)
ReadsOf(t) == {r \in Events : log[r].t = t /\ IsRead(log[r])}
FencesOf(t) ==
    {f \in Events : log[f].kind = "fence" /\ Releases(log[f].mo) /\ log[f].t = t}
SeqCstFences == {f \in Events : log[f].kind = "fence" /\ log[f].mo = "seq_cst"}
SyncReleases(sv) ==
    {i \in Events : log[i].kind = "sync" /\ Releases(log[i].mo) /\ log[i].obj = sv}
ReleasePast(w) == Pasts(ReleasedBy(w))
AcquirePast(t) == UNION {ReleasePast(log[r].rf) : r \in ReadsOf(t)}

(* The clock c has reached the stamps of the calls of S and of no others. *)
Stands(c, S) ==
    \A i \in Events : log[i].stamp > 0 => (c[log[i].t] >= log[i].stamp <=> i \in S)

ThreadStands(t) ==
    /\ Stands(clock[t], PastOf(t))
    /\ Stands(AssignMax(clock[t], acquireFence[t]), PastOf(t) \cup AcquirePast(t))
    /\ Stands(releaseFence[t], Pasts(FencesOf(t)))

ThreadsStand == \A t \in Threads : ThreadStands(t)

SharedStand ==
    /\ Stands(seqCstFence, Pasts(SeqCstFences))
    /\ \A sv \in SyncVars : Stands(syncOrder[sv], Pasts(SyncReleases(sv)))

(* w is the store of a that is n places older than its newest one. *)
IsNth(a, n, w) ==
    w \in WritesTo(a) /\ Cardinality({j \in WritesTo(a) : j > w}) = n

(* The call i made the store w, or read it. *)
Touches(i, w) == (IsRead(log[i]) \/ IsWrite(log[i])) /\ StoreOf(i) = w

(* The record rec is that of the store w. *)
RecordStands(rec, w) ==
    /\ rec.thread = log[w].t /\ rec.timestamp = log[w].stamp
    /\ rec.seqCst <=> log[w].mo = "seq_cst"
    /\ Stands(rec.order, ReleasePast(w))
    /\ \A i \in Events : Touches(i, w) => SeenBy(rec, log[i].t, log[i].stamp)

(* The n-th record of the history of a is that of its n-th newest store. *)
PlaceStands(a, n) ==
    LET rec == history[a][Older(current[a], n)]
    IN  /\ rec.busy <=> \E w \in Events : IsNth(a, n, w)
        /\ \A w \in Events : IsNth(a, n, w) => RecordStands(rec, w)

HistoryStands == \A a \in Atomics, n \in 0 .. HistorySize - 1 : PlaceStands(a, n)

(* The stamps of a plain variable are those of its latest accesses. *)
StampsStand(stamps, kind, v) ==
    /\ \A i \in Events : log[i].kind = kind /\ log[i].obj = v =>
            log[i].stamp <= stamps[log[i].t] /\ initialized[v]
    /\ \A u \in Threads : stamps[u] > 0 =>
            \E i \in Events : /\ log[i].kind = kind /\ log[i].obj = v
                              /\ log[i].t = u /\ log[i].stamp = stamps[u]

AccessesStand ==
    \A v \in Vars : /\ StampsStand(storeStamp[v], "varStore", v)
                    /\ StampsStand(loadStamp[v], "varLoad", v)

Kinds == {"load", "store", "rmw", "varStore", "varLoad", "sync", "fence", "global"}
Silent(e) == e.kind \in {"fence", "global"}
EventSet == [t: Threads, kind: Kinds, obj: Atomics \cup Vars \cup SyncVars \cup {0},
             mo: AllOrders, rf: Nat, stamp: Nat]

(* The log is well formed: what a call reads is an earlier store to the    *)
(* same variable, and only what was made before can happen before.         *)
EntryOK(i) ==
    /\ log[i].stamp <= clock[log[i].t][log[i].t]
    /\ Silent(log[i]) => log[i].stamp = 0
    /\ i \in past[i] /\ past[i] \subseteq 1 .. i
    /\ IsRead(log[i]) => log[i].rf \in WritesTo(log[i].obj) /\ log[i].rf < i

LogOK ==
    /\ log \in Seq(EventSet) /\ past \in Seq(SUBSET Nat) /\ Len(past) = Len(log)
    /\ \A i \in Events : EntryOK(i)

HasRace ==
    \E j \in Events : \E i \in 1 .. j - 1 : Conflict(log[i], log[j]) /\ i \notin past[j]

Stamped == \A i \in Events : ~ Silent(log[i]) => log[i].stamp > 0

AllStand ==
    Stamped /\ ThreadsStand /\ SharedStand /\ HistoryStands /\ AccessesStand

HBInv ==
    /\ profile \in Profiles
    /\ LogOK
    /\ CoherentHistory /\ SeqCstReads
    /\ \/ result = "none" /\ ~ HasRace /\ AllStand
       \/ result = "data_race" /\ HasRace

-----------------------------------------------------------------------------
(* Orders and cardinalities of sets of calls. *)

(* A set of naturals with a member below l has a largest such member. *)
LEMMA LargestBelow ==
    ASSUME NEW W \in SUBSET Nat, NEW l \in Nat, NEW u \in W, u < l
    PROVE  \E p \in W : p < l /\ \A q \in W : q < l => q <= p
  <1> DEFINE D == {n \in Nat : n <= l /\ n > 0 /\ l - n \in W}
  <1>1. D \subseteq Nat /\ D # {}
    <2>1. l - u \in Nat /\ l - u > 0 /\ l - (l - u) = u /\ l - u <= l
      OBVIOUS
    <2>2. l - u \in D
      BY <2>1
    <2> QED
      BY <2>2
  <1> HIDE DEF D
  <1>2. PICK n \in D : \A i \in D : ~ (<<i, n>> \in OpToRel(<, Nat))
    BY <1>1, NatLessThanWellFounded, WFMin, Zenon
  <1>3. \A i \in D : ~ (i < n)
    BY <1>1, <1>2 DEF OpToRel
  <1>4. n \in Nat /\ n <= l /\ n > 0 /\ l - n \in W
    BY DEF D
  <1>5. ASSUME NEW q \in W, q < l PROVE q <= l - n
    <2>1. l - q \in Nat /\ l - q > 0 /\ l - q <= l /\ l - (l - q) = q
      BY <1>5
    <2>2. l - q \in D
      BY <2>1 DEF D
    <2> QED
      BY <1>3, <1>4, <2>1, <2>2
  <1>6. l - n < l
    BY <1>4
  <1> QED
    BY <1>4, <1>5, <1>6

(* The CHOOSE of Carries picks the largest store below l. *)
LEMMA PreviousIs ==
    ASSUME NEW W \in SUBSET Nat, NEW l \in Nat, NEW p \in W, p < l,
           \A q \in W : q < l => q <= p
    PROVE  (CHOOSE x \in W : x < l /\ \A q \in W : q < l => q <= x) = p
  <1> DEFINE x == CHOOSE x \in W : x < l /\ \A q \in W : q < l => q <= x
  <1>1. x \in W /\ x < l /\ \A q \in W : q < l => q <= x
    OBVIOUS
  <1> HIDE DEF x
  <1>2. x <= p /\ p <= x /\ x \in Nat /\ p \in Nat
    BY <1>1
  <1> QED
    BY <1>2 DEF x

(* The members above a larger member are fewer. *)
LEMMA FewerAbove ==
    ASSUME NEW W \in SUBSET Nat, IsFiniteSet(W), NEW u \in W, NEW w \in W, u < w
    PROVE  /\ Cardinality({j \in W : j > w}) \in Nat
           /\ Cardinality({j \in W : j > u}) \in Nat
           /\ Cardinality({j \in W : j > w}) < Cardinality({j \in W : j > u})
  <1> DEFINE A == {j \in W : j > w}
             B == {j \in W : j > u}
  <1>1. A \subseteq B /\ w \in B /\ w \notin A
    <2>1. \A j \in W : j > w => j > u
      OBVIOUS
    <2>2. w > u /\ ~ (w > w)
      OBVIOUS
    <2> QED
      BY <2>1, <2>2
  <1>2. IsFiniteSet(B) /\ IsFiniteSet(A)
    <2>1. A \in SUBSET W /\ B \in SUBSET W
      OBVIOUS
    <2> HIDE DEF A, B
    <2> QED
      BY <2>1, FS_Subset
  <1> HIDE DEF A, B
  <1>3. Cardinality(A) \in Nat /\ Cardinality(B) \in Nat
    BY <1>2, FS_CardinalityType
  <1>4. A \in SUBSET B
    BY <1>1
  <1>5. Cardinality(A) <= Cardinality(B) /\ (Cardinality(B) = Cardinality(A) => B = A)
    BY <1>2, <1>4, FS_Subset
  <1>6. Cardinality(A) < Cardinality(B)
    BY <1>1, <1>3, <1>5
  <1> QED
    BY <1>3, <1>6 DEF A, B

-----------------------------------------------------------------------------
(* The log grows by one call. *)

(* The call e is logged as the k-th one. *)
Logged(e, k) ==
    /\ e \in EventSet /\ k \in Nat /\ k \notin Events /\ Events' = Events \cup {k}
    /\ Events = 1 .. k - 1
    /\ \A i \in Events : /\ i \in Nat /\ i < k /\ log[i] \in EventSet
                         /\ log'[i] = log[i] /\ past'[i] = past[i]
    /\ log'[k] = e /\ past'[k] = {k} \cup Pasts(Predecessors(e))

(* Recording a call appends it to the log, and its past to past.           *)
LEMMA RecordLogs ==
    ASSUME LogOK, NEW e \in EventSet, Record(e)
    PROVE  /\ Logged(e, Len(log) + 1)
           /\ log' \in Seq(EventSet) /\ Len(past') = Len(log')
           /\ Predecessors(e) \subseteq Events
  <1> DEFINE k == Len(log) + 1
             new == {k} \cup Pasts(Predecessors(e))
  <1>1. log \in Seq(EventSet) /\ past \in Seq(SUBSET Nat) /\ Len(past) = Len(log)
    BY DEF LogOK
  <1>2. log' = Append(log, e) /\ past' = Append(past, new)
    BY DEF Record, Pasts
  <1> HIDE DEF new
  <1>3. /\ Events = 1 .. Len(log) /\ k \in Nat /\ Events' = 1 .. k
        /\ Len(log') = k /\ Len(past') = k
    BY <1>1, <1>2 DEF Events
  <1>4. \A i \in Events : log'[i] = log[i] /\ past'[i] = past[i]
    BY <1>1, <1>2, <1>3
  <1>5. log'[k] = e /\ past'[k] = new
    BY <1>1, <1>2, <1>3
  <1>6. /\ \A i \in Events : i \in Nat /\ i < k /\ log[i] \in EventSet
        /\ k \notin Events /\ Events' = Events \cup {k} /\ Events = 1 .. k - 1
    BY <1>1, <1>3
  <1>7. log' \in Seq(EventSet)
    BY <1>1, <1>2
  <1>8. Predecessors(e) \subseteq Events
    BY DEF Predecessors
  <1> QED
    BY <1>3, <1>4, <1>5, <1>6, <1>7, <1>8 DEF Logged, new

(* The calls of the log are numbered before the one that is made.          *)
LEMMA LogFacts ==
    ASSUME LogOK
    PROVE  /\ Events = 1 .. Len(log) /\ Len(log) \in Nat
           /\ \A i \in Events :
                /\ i \in Nat /\ log[i] \in EventSet /\ EntryOK(i)
                /\ past[i] \subseteq 1 .. i /\ past[i] \subseteq Events
  <1>1. log \in Seq(EventSet)
    BY DEF LogOK
  <1>2. Events = 1 .. Len(log) /\ Len(log) \in Nat
    BY <1>1 DEF Events
  <1>3. ASSUME NEW i \in Events
        PROVE  /\ i \in Nat /\ log[i] \in EventSet /\ EntryOK(i)
               /\ past[i] \subseteq 1 .. i /\ past[i] \subseteq Events
    <2>1. EntryOK(i) /\ log[i] \in EventSet
      BY <1>1, <1>2 DEF LogOK
    <2>2. past[i] \subseteq 1 .. i
      BY <2>1 DEF EntryOK
    <2> QED
      BY <1>2, <2>1, <2>2
  <1> QED
    BY <1>2, <1>3

(* Pasts of the old calls do not change.                                   *)
LEMMA PastsKeep ==
    ASSUME NEW e, NEW k, Logged(e, k), NEW S \in SUBSET Events
    PROVE  /\ UNION {past'[i] : i \in S} = Pasts(S)
           /\ UNION {past'[i] : i \in S \cup {k}} = Pasts(S) \cup past'[k]
  <1>1. \A i \in S : past'[i] = past[i]
    BY DEF Logged
  <1> QED
    BY <1>1 DEF Pasts

(* Only the thread that makes a call, or all at a global fence, come to    *)
(* know of more.                                                           *)
LEMMA PastOfGrows ==
    ASSUME LogOK, NEW e, NEW k, Logged(e, k), NEW u
    PROVE  PastOf(u)' = PastOf(u) \cup (IF e.t = u \/ e.kind = "global"
                                        THEN past'[k] ELSE {})
  <1> DEFINE S == {j \in Events : log[j].t = u \/ log[j].kind = "global"}
             T == {j \in Events' : log'[j].t = u \/ log'[j].kind = "global"}
  <1>1. T = S \cup (IF e.t = u \/ e.kind = "global" THEN {k} ELSE {})
    BY DEF Logged
  <1>2. S \in SUBSET Events
    OBVIOUS
  <1>3. PastOf(u) = Pasts(S) /\ PastOf(u)' = UNION {past'[i] : i \in T}
    BY DEF PastOf, Pasts
  <1> HIDE DEF S, T
  <1> QED
    BY <1>1, <1>2, <1>3, PastsKeep

(* The release fences of a thread, and what they publish.                  *)
LEMMA FencesGrow ==
    ASSUME LogOK, NEW e, NEW k, Logged(e, k), NEW u
    PROVE  Pasts(FencesOf(u))' = Pasts(FencesOf(u)) \cup
              (IF e.kind = "fence" /\ Releases(e.mo) /\ e.t = u THEN past'[k] ELSE {})
  <1> DEFINE S == FencesOf(u)
             T == FencesOf(u)'
  <1>1. T = S \cup (IF e.kind = "fence" /\ Releases(e.mo) /\ e.t = u THEN {k} ELSE {})
    BY DEF Logged, FencesOf
  <1>2. S \in SUBSET Events
    BY DEF FencesOf
  <1>3. Pasts(FencesOf(u))' = UNION {past'[i] : i \in T}
    BY DEF Pasts
  <1> HIDE DEF S, T
  <1> QED
    BY <1>1, <1>2, <1>3, PastsKeep DEF S

(* The same for the seq_cst fences.                                        *)
LEMMA SeqCstFencesGrow ==
    ASSUME LogOK, NEW e, NEW k, Logged(e, k)
    PROVE  Pasts(SeqCstFences)' = Pasts(SeqCstFences) \cup
              (IF e.kind = "fence" /\ e.mo = "seq_cst" THEN past'[k] ELSE {})
  <1> DEFINE S == SeqCstFences
             T == SeqCstFences'
  <1>1. T = S \cup (IF e.kind = "fence" /\ e.mo = "seq_cst" THEN {k} ELSE {})
    BY DEF Logged, SeqCstFences
  <1>2. S \in SUBSET Events
    BY DEF SeqCstFences
  <1>3. Pasts(SeqCstFences)' = UNION {past'[i] : i \in T}
    BY DEF Pasts
  <1> HIDE DEF S, T
  <1> QED
    BY <1>1, <1>2, <1>3, PastsKeep DEF S

(* And for the releases of a sync_var.                                     *)
LEMMA SyncReleasesGrow ==
    ASSUME LogOK, NEW e, NEW k, Logged(e, k), NEW sv
    PROVE  Pasts(SyncReleases(sv))' = Pasts(SyncReleases(sv)) \cup
              (IF e.kind = "sync" /\ Releases(e.mo) /\ e.obj = sv THEN past'[k] ELSE {})
  <1> DEFINE S == SyncReleases(sv)
             T == SyncReleases(sv)'
  <1>1. T = S \cup (IF e.kind = "sync" /\ Releases(e.mo) /\ e.obj = sv THEN {k} ELSE {})
    BY DEF Logged, SyncReleases
  <1>2. S \in SUBSET Events
    BY DEF SyncReleases
  <1>3. Pasts(SyncReleases(sv))' = UNION {past'[i] : i \in T}
    BY DEF Pasts
  <1> HIDE DEF S, T
  <1> QED
    BY <1>1, <1>2, <1>3, PastsKeep DEF S

(* The stores to a variable.                                               *)
LEMMA WritesGrow ==
    ASSUME LogOK, NEW e, NEW k, Logged(e, k), NEW a
    PROVE  /\ WritesTo(a)' = WritesTo(a) \cup
                 (IF IsWrite(e) /\ e.obj = a THEN {k} ELSE {})
           /\ WritesTo(a) \subseteq Events /\ WritesTo(a) \in SUBSET Nat
           /\ \A w \in WritesTo(a) : w < k
           /\ IsFiniteSet(WritesTo(a))
  <1>1. WritesTo(a)' = WritesTo(a) \cup (IF IsWrite(e) /\ e.obj = a THEN {k} ELSE {})
    BY DEF Logged, WritesTo, IsWrite
  <1>2. WritesTo(a) \subseteq Events
    BY DEF WritesTo
  <1>3. WritesTo(a) \in SUBSET Nat /\ \A w \in WritesTo(a) : w < k
    BY <1>2 DEF Logged
  <1>4. Events = 1 .. Len(log) /\ Len(log) \in Nat
    BY LogFacts
  <1>5. IsFiniteSet(Events)
    BY <1>4, FS_Interval
  <1> QED
    BY <1>1, <1>2, <1>3, <1>5, FS_Subset

-----------------------------------------------------------------------------
(* Release sequences, without the CHOOSE of the previous store. *)

(* p is the store just before l, in the modification order W of a log.     *)
Adjacent(W, p, l) == p < l /\ \A q \in W : q < l => q <= p
Linked(entries, p, l) == entries[l].kind = "rmw" \/ entries[l].t = entries[p].t

(* The stores from u to w form one release sequence.                       *)
Chain(entries, W, u, w) ==
    \A l \in W, p \in W : u < l /\ l <= w /\ Adjacent(W, p, l) => Linked(entries, p, l)

CarriesIn(entries, W, u, w) ==
    \A l \in {l \in W : u < l /\ l <= w} :
        \/ entries[l].kind = "rmw"
        \/ entries[l].t = entries[CHOOSE p \in W : p < l /\ \A q \in W : q < l => q <= p].t

(* Every store of the sequence but the first has a store before it.        *)
LEMMA ChainIsCarries ==
    ASSUME NEW entries, NEW W \in SUBSET Nat, NEW u \in W, NEW w \in W
    PROVE  CarriesIn(entries, W, u, w) <=> Chain(entries, W, u, w)
  <1> DEFINE Previous(l) == CHOOSE p \in W : p < l /\ \A q \in W : q < l => q <= p
  <1>1. ASSUME NEW l \in W, NEW p \in W, Adjacent(W, p, l)
        PROVE  Previous(l) = p
    <2>1. l \in Nat /\ p < l /\ \A q \in W : q < l => q <= p
      BY <1>1 DEF Adjacent
    <2> QED
      BY <2>1, PreviousIs
  <1>2. ASSUME NEW l \in W, u < l
        PROVE  Adjacent(W, Previous(l), l) /\ Previous(l) \in W
    <2>1. l \in Nat
      OBVIOUS
    <2>2. PICK p \in W : p < l /\ \A q \in W : q < l => q <= p
      BY <1>2, <2>1, LargestBelow
    <2>3. Previous(l) = p
      BY <1>1, <2>2 DEF Adjacent
    <2> QED
      BY <2>2, <2>3 DEF Adjacent
  <1>3. CarriesIn(entries, W, u, w) <=>
          \A l \in W : u < l /\ l <= w =>
             entries[l].kind = "rmw" \/ entries[l].t = entries[Previous(l)].t
    BY DEF CarriesIn
  <1> HIDE DEF Previous
  <1> QED
    BY <1>1, <1>2, <1>3 DEF Chain, Linked

(* The stores whose release the store w of a carries.                      *)
Heads(a, w) == {u \in WritesTo(a) : u <= w /\ Chain(log, WritesTo(a), u, w)}

(* What an acquire of w synchronizes with, when the sequences are those of *)
(* the code.                                                               *)
LEMMA ReleasedByHeads ==
    ASSUME LogOK, ~ Cxx0xSequences, NEW a, NEW w \in WritesTo(a)
    PROVE  ReleasedBy(w) =
             {u \in Heads(a, w) : Releases(log[u].mo)}
             \cup {f \in Events : \E u \in Heads(a, w) :
                      /\ log[f].kind = "fence" /\ Releases(log[f].mo)
                      /\ log[f].t = log[u].t /\ f < u}
  <1> DEFINE W == WritesTo(a)
  <1>1. log[w].obj = a /\ w \in W /\ W \subseteq Events
    BY DEF WritesTo
  <1>2. W \in SUBSET Nat
    BY <1>1, LogFacts
  <1>3. \A u \in W : Carries(u, w) <=> CarriesIn(log, W, u, w)
    BY <1>1 DEF Carries, CarriesIn
  <1>4. {u \in WritesTo(log[w].obj) : u <= w /\ Carries(u, w)} = Heads(a, w)
    <2> HIDE DEF W
    <2>1. \A u \in W : Carries(u, w) <=> Chain(log, W, u, w)
      BY <1>1, <1>2, <1>3, ChainIsCarries
    <2> QED
      BY <1>1, <2>1 DEF Heads, W
  <1> QED
    BY <1>4 DEF ReleasedBy

(* The same of the log after the call e.                                   *)
LEMMA NextReleasedByHeads ==
    ASSUME LogOK, ~ Cxx0xSequences, NEW e, NEW k, Logged(e, k), NEW a, NEW w \in WritesTo(a)'
    PROVE  ReleasedBy(w)' =
             {u \in Heads(a, w)' : Releases(log'[u].mo)}
             \cup {f \in Events' : \E u \in Heads(a, w)' :
                      /\ log'[f].kind = "fence" /\ Releases(log'[f].mo)
                      /\ log'[f].t = log'[u].t /\ f < u}
  <1> DEFINE W == WritesTo(a)'
  <1>1. log'[w].obj = a /\ w \in W
    BY DEF WritesTo
  <1>2. W \in SUBSET Nat
    BY WritesGrow DEF Logged
  <1>3. \A u \in W : Carries(u, w)' <=> CarriesIn(log', W, u, w)
    BY <1>1 DEF Carries, CarriesIn
  <1>4. {u \in WritesTo(log[w].obj) : u <= w /\ Carries(u, w)}' = Heads(a, w)'
    <2> HIDE DEF W
    <2>1. \A u \in W : Carries(u, w)' <=> Chain(log', W, u, w)
      BY <1>1, <1>2, <1>3, ChainIsCarries
    <2> QED
      BY <1>1, <2>1 DEF Heads, W
  <1> QED
    BY <1>4 DEF ReleasedBy

(* A later call does not change the sequence a store is in.                *)
LEMMA HeadsKeep ==
    ASSUME LogOK, NEW e, NEW k, Logged(e, k), NEW a, NEW w \in WritesTo(a)
    PROVE  Heads(a, w)' = Heads(a, w)
  <1> DEFINE W == WritesTo(a)
             V == WritesTo(a)'
  <1>1. /\ V = W \/ V = W \cup {k}
        /\ W \subseteq Events /\ W \in SUBSET Nat /\ k \in Nat
        /\ \A l \in W : l < k /\ log'[l] = log[l] /\ ~ (k < l) /\ ~ (k <= l)
    <2>1. V = W \cup (IF IsWrite(e) /\ e.obj = a THEN {k} ELSE {})
      BY WritesGrow
    <2>2. W \subseteq Events /\ W \in SUBSET Nat
      BY WritesGrow
    <2>3. k \in Nat /\ \A l \in Events : l < k /\ l \in Nat /\ log'[l] = log[l]
      BY DEF Logged
    <2> HIDE DEF W, V
    <2>4. \A l \in W : l < k /\ log'[l] = log[l] /\ ~ (k < l) /\ ~ (k <= l)
      BY <2>2, <2>3
    <2> QED
      BY <2>1, <2>2, <2>3, <2>4
  <1>2. w \in W
    OBVIOUS
  <1>3. ASSUME NEW p \in W, NEW l \in W
        PROVE  Adjacent(V, p, l) <=> Adjacent(W, p, l)
    BY <1>1 DEF Adjacent
  <1>4. ASSUME NEW l \in W PROVE ~ Adjacent(V, k, l)
    BY <1>1 DEF Adjacent
  <1> HIDE DEF W, V
  <1>5. ASSUME NEW u \in W PROVE Chain(log', V, u, w) <=> Chain(log, W, u, w)
    <2>1. \A l \in V, p \in V : u < l /\ l <= w /\ Adjacent(V, p, l) => l \in W /\ p \in W
      <3> SUFFICES ASSUME NEW l \in V, NEW p \in V, u < l, l <= w, Adjacent(V, p, l)
                   PROVE  l \in W /\ p \in W
        OBVIOUS
      <3>1. l \in W
        BY ONLY <1>1, <1>2, l \in V, l <= w
      <3>2. p # k
        BY <1>4, <3>1
      <3> QED
        BY ONLY <1>1, <3>1, <3>2, p \in V
    <2>2. \A l \in W, p \in W : Linked(log', p, l) <=> Linked(log, p, l)
      BY <1>1 DEF Linked
    <2>3. W \subseteq V
      BY <1>1
    <2>4. ASSUME Chain(log, W, u, w), NEW l \in V, NEW p \in V, u < l, l <= w,
                 Adjacent(V, p, l)
          PROVE  Linked(log', p, l)
      <3>1. l \in W /\ p \in W
        BY ONLY <2>1, <2>4
      <3>2. Adjacent(W, p, l)
        BY <1>3, <2>4, <3>1
      <3>3. Linked(log, p, l)
        BY ONLY <2>4, <3>1, <3>2 DEF Chain
      <3> QED
        BY ONLY <2>2, <3>1, <3>3
    <2>5. ASSUME Chain(log', V, u, w), NEW l \in W, NEW p \in W, u < l, l <= w,
                 Adjacent(W, p, l)
          PROVE  Linked(log, p, l)
      <3>1. l \in V /\ p \in V
        BY ONLY <2>3, l \in W, p \in W
      <3>2. Adjacent(V, p, l)
        BY <1>3, <2>5
      <3>3. Linked(log', p, l)
        BY ONLY <2>5, <3>1, <3>2 DEF Chain
      <3> QED
        BY ONLY <2>2, <3>3, l \in W, p \in W
    <2> QED
      BY ONLY <2>4, <2>5 DEF Chain
  <1>6. \A u \in V : u <= w => u \in W
    BY <1>1, <1>2
  <1>7. W \subseteq V
    BY <1>1
  <1>8. Heads(a, w)' = {u \in V : u <= w /\ Chain(log', V, u, w)}
    BY DEF Heads, V
  <1>9. Heads(a, w) = {u \in W : u <= w /\ Chain(log, W, u, w)}
    BY DEF Heads, W
  <1> QED
    BY <1>5, <1>6, <1>7, <1>8, <1>9

(* So what a store has published stays the same.                           *)
LEMMA ReleaseKeeps ==
    ASSUME LogOK, ~ Cxx0xSequences, NEW e, NEW k, Logged(e, k), NEW a, NEW w \in WritesTo(a)
    PROVE  /\ ReleasedBy(w)' = ReleasedBy(w) /\ ReleasePast(w)' = ReleasePast(w)
           /\ ReleasedBy(w) \in SUBSET Events /\ \A i \in ReleasedBy(w) : i <= w
  <1>1. w \in WritesTo(a)'
    BY WritesGrow
  <1>2. Heads(a, w)' = Heads(a, w)
    BY HeadsKeep
  <1>3. \A u \in Heads(a, w) : u \in Events /\ log'[u] = log[u] /\ u < k /\ u \in Nat /\ u <= w
    BY WritesGrow DEF Heads, Logged
  <1>4. \A f \in Events' : (\E u \in Heads(a, w) : f < u) => f \in Events
    BY <1>3 DEF Logged
  <1>5. \A f \in Events : f \in Events' /\ log'[f] = log[f] /\ f \in Nat
    BY DEF Logged
  <1>6. ReleasedBy(w) = {u \in Heads(a, w) : Releases(log[u].mo)}
             \cup {f \in Events : \E u \in Heads(a, w) :
                      /\ log[f].kind = "fence" /\ Releases(log[f].mo)
                      /\ log[f].t = log[u].t /\ f < u}
    BY ReleasedByHeads
  <1>7. ReleasedBy(w)' = {u \in Heads(a, w) : Releases(log'[u].mo)}
             \cup {f \in Events' : \E u \in Heads(a, w) :
                      /\ log'[f].kind = "fence" /\ Releases(log'[f].mo)
                      /\ log'[f].t = log'[u].t /\ f < u}
    BY <1>1, <1>2, NextReleasedByHeads
  <1>8. ReleasedBy(w)' = ReleasedBy(w)
    BY <1>3, <1>4, <1>5, <1>6, <1>7
  <1>9. ReleasedBy(w) \in SUBSET Events
    BY <1>3, <1>6
  <1>10. \A i \in ReleasedBy(w) : i <= w
    <2>1. w \in Nat
      BY WritesGrow
    <2> QED
      BY <1>3, <1>5, <1>6, <2>1
  <1>11. ReleasePast(w)' = UNION {past'[i] : i \in ReleasedBy(w)}
    BY <1>8 DEF ReleasePast, Pasts
  <1> QED
    BY <1>8, <1>9, <1>10, <1>11, PastsKeep DEF ReleasePast

(* A store continues the release sequence of the one before it when it is  *)
(* a read-modify-write or made by the same thread (atomic_store).          *)
LEMMA NewHeads ==
    ASSUME LogOK, NEW e, NEW k, Logged(e, k), NEW a, IsWrite(e), e.obj = a
    PROVE  /\ WritesTo(a) = {} => Heads(a, k)' = {k}
           /\ \A p \in WritesTo(a) : (\A q \in WritesTo(a) : q <= p) =>
                Heads(a, k)' = {k} \cup (IF e.kind = "rmw" \/ e.t = log[p].t
                                         THEN Heads(a, p) ELSE {})
  <1> DEFINE W == WritesTo(a)
             V == WritesTo(a)'
  <1>1. /\ V = W \cup {k} /\ W \in SUBSET Nat /\ k \in Nat
        /\ \A l \in W : l < k /\ log'[l] = log[l] /\ l # k
    <2>1. V = W \cup {k}
      BY WritesGrow
    <2>2. W \subseteq Events /\ W \in SUBSET Nat
      BY WritesGrow
    <2>3. k \in Nat /\ \A l \in Events : l < k /\ l \in Nat /\ log'[l] = log[l]
      BY DEF Logged
    <2> HIDE DEF W, V
    <2>4. \A l \in W : l < k /\ log'[l] = log[l] /\ l # k
      BY <2>2, <2>3
    <2> QED
      BY <2>1, <2>2, <2>3, <2>4
  <1>2. Heads(a, k)' = {u \in V : u <= k /\ Chain(log', V, u, k)}
    BY DEF Heads
  <1>3. log'[k] = e
    BY DEF Logged
  <1>4. \A p \in W : Heads(a, p) = {u \in W : u <= p /\ Chain(log, W, u, p)}
    BY DEF Heads
  <1> HIDE DEF W, V
  <1>5. k \in Heads(a, k)'
    <2>1. k \in V /\ k <= k /\ \A l \in V : ~ (k < l /\ l <= k)
      BY <1>1
    <2> QED
      BY <1>2, <2>1 DEF Chain
  <1>6. ASSUME NEW p \in W, \A q \in W : q <= p, NEW u \in W
        PROVE  u \in Heads(a, k)' <=> u \in Heads(a, p) /\ (e.kind = "rmw" \/ e.t = log[p].t)
    <2>1. /\ u <= k /\ u <= p /\ u < k
          /\ \A l \in W : l <= k /\ l <= p
      <3>1. \A l \in W : l \in Nat /\ l < k /\ l <= p
        BY <1>1, <1>6
      <3>2. \A l \in W : l <= k
        BY <1>1, <3>1
      <3> QED
        BY <3>1, <3>2
    <2>2. Adjacent(V, p, k) /\ \A q \in V : Adjacent(V, q, k) => q = p
      <3>1. p < k /\ \A q \in V : q < k => q <= p
        BY <1>1, <1>6
      <3>2. ASSUME NEW q \in V, q < k, \A r \in V : r < k => r <= q PROVE q = p
        BY <1>1, <1>6, <3>2
      <3> QED
        BY <3>1, <3>2 DEF Adjacent
    <2>3. \A q \in W, l \in W : Adjacent(V, q, l) <=> Adjacent(W, q, l)
      BY <1>1 DEF Adjacent
    <2>4. \A l \in W : ~ Adjacent(V, k, l)
      BY <1>1 DEF Adjacent
    <2>5. \A q \in W, l \in W : Linked(log', q, l) <=> Linked(log, q, l)
      BY <1>1 DEF Linked
    <2>6. Linked(log', p, k) <=> e.kind = "rmw" \/ e.t = log[p].t
      BY <1>1, <1>3 DEF Linked
    <2>7. Chain(log', V, u, k) <=> Chain(log, W, u, p) /\ Linked(log', p, k)
      <3>1. V = W \cup {k} /\ k <= k /\ k \in V /\ p \in V /\ u < k
        BY <1>1, <2>1
      <3>2. Chain(log', V, u, k) => Linked(log', p, k)
        BY <2>2, <3>1 DEF Chain
      <3>3. Chain(log', V, u, k) => Chain(log, W, u, p)
        BY <2>1, <2>3, <2>5, <3>1 DEF Chain
      <3>4. ASSUME Chain(log, W, u, p), Linked(log', p, k), NEW l \in V, NEW q \in V,
                   u < l, Adjacent(V, q, l)
            PROVE  Linked(log', q, l)
        <4>1. CASE l = k
          BY <2>2, <3>4, <4>1
        <4>2. CASE l # k
          <5>1. l \in W /\ q \in W
            BY <2>4, <3>1, <3>4, <4>2
          <5> QED
            BY <2>1, <2>3, <2>5, <3>4, <5>1 DEF Chain
        <4> QED
          BY <4>1, <4>2
      <3> QED
        BY <3>2, <3>3, <3>4 DEF Chain
    <2> QED
      BY <1>1, <1>2, <1>4, <2>1, <2>6, <2>7
  <1>7. Heads(a, k)' \subseteq W \cup {k}
    BY <1>1, <1>2
  <1>8. ASSUME NEW p \in W PROVE Heads(a, p) \subseteq W
    BY <1>4
  <1>9. W = {} => Heads(a, k)' = {k}
    BY <1>5, <1>7
  <1>10. ASSUME NEW p \in W, \A q \in W : q <= p
         PROVE  Heads(a, k)' = {k} \cup (IF e.kind = "rmw" \/ e.t = log[p].t
                                         THEN Heads(a, p) ELSE {})
    BY <1>5, <1>6, <1>7, <1>8, <1>10
  <1> QED
    BY <1>9, <1>10 DEF W

(* What a store publishes: its own past if it is a release, that of the    *)
(* release fences of its thread, and what the sequence carries.            *)
LEMMA NewRelease ==
    ASSUME LogOK, ~ Cxx0xSequences, NEW e, NEW k, Logged(e, k), NEW a, IsWrite(e), e.obj = a
    PROVE  /\ WritesTo(a) = {} =>
                ReleasePast(k)' = (IF Releases(e.mo) THEN past'[k] ELSE {})
                                  \cup Pasts(FencesOf(e.t))
           /\ \A p \in WritesTo(a) : (\A q \in WritesTo(a) : q <= p) =>
                ReleasePast(k)' =
                   (IF Releases(e.mo) THEN past'[k] ELSE {})
                   \cup Pasts(FencesOf(e.t))
                   \cup (IF e.kind = "rmw" \/ e.t = log[p].t THEN ReleasePast(p) ELSE {})
  <1> DEFINE Own == IF Releases(e.mo) THEN {k} ELSE {}
             Carried(H) ==
                {u \in H : Releases(log[u].mo)}
                \cup {f \in Events : \E u \in H :
                         /\ log[f].kind = "fence" /\ Releases(log[f].mo)
                         /\ log[f].t = log[u].t /\ f < u}
  <1>1. k \in WritesTo(a)'
    BY WritesGrow
  <1>2. ReleasedBy(k)' =
             {u \in Heads(a, k)' : Releases(log'[u].mo)}
             \cup {f \in Events' : \E u \in Heads(a, k)' :
                      /\ log'[f].kind = "fence" /\ Releases(log'[f].mo)
                      /\ log'[f].t = log'[u].t /\ f < u}
    BY <1>1, NextReleasedByHeads
  <1>3. /\ log'[k] = e /\ k \notin Events /\ Events' = Events \cup {k} /\ k \in Nat
        /\ \A i \in Events : log'[i] = log[i] /\ i < k /\ i \in Nat
    BY DEF Logged
  <1>4. e.kind # "fence"
    BY DEF IsWrite
  <1>5. FencesOf(e.t) = {f \in Events : log[f].kind = "fence" /\ Releases(log[f].mo)
                                         /\ log[f].t = e.t}
    BY DEF FencesOf
  <1>6. ASSUME NEW H \in SUBSET WritesTo(a), Heads(a, k)' = {k} \cup H
        PROVE  ReleasedBy(k)' = Own \cup FencesOf(e.t) \cup Carried(H)
    <2>1. H \in SUBSET Events
      BY WritesGrow
    <2>2. {u \in Heads(a, k)' : Releases(log'[u].mo)} = Own \cup {u \in H : Releases(log[u].mo)}
      BY <1>3, <1>6, <2>1
    <2>3. {f \in Events' : \E u \in Heads(a, k)' :
                      /\ log'[f].kind = "fence" /\ Releases(log'[f].mo)
                      /\ log'[f].t = log'[u].t /\ f < u}
          = FencesOf(e.t) \cup {f \in Events : \E u \in H :
                      /\ log[f].kind = "fence" /\ Releases(log[f].mo)
                      /\ log[f].t = log[u].t /\ f < u}
      BY <1>3, <1>4, <1>5, <1>6, <2>1
    <2> QED
      BY <1>2, <2>2, <2>3
  <1>7. FencesOf(e.t) \in SUBSET Events
    BY <1>5
  <1>8. ASSUME NEW R \in SUBSET Events, ReleasedBy(k)' = Own \cup FencesOf(e.t) \cup R
        PROVE  ReleasePast(k)' = (IF Releases(e.mo) THEN past'[k] ELSE {})
                                 \cup Pasts(FencesOf(e.t)) \cup Pasts(R)
    <2>1. FencesOf(e.t) \cup R \in SUBSET Events
      BY <1>7
    <2>2. ReleasePast(k)' = UNION {past'[i] : i \in Own \cup FencesOf(e.t) \cup R}
      BY <1>8 DEF ReleasePast, Pasts
    <2>3. Pasts(FencesOf(e.t) \cup R) = Pasts(FencesOf(e.t)) \cup Pasts(R)
      BY DEF Pasts
    <2> DEFINE S == FencesOf(e.t) \cup R
    <2> HIDE DEF S
    <2>4. /\ UNION {past'[i] : i \in S} = Pasts(S)
          /\ UNION {past'[i] : i \in S \cup {k}} = Pasts(S) \cup past'[k]
      BY <2>1, PastsKeep DEF S
    <2>5. ReleasePast(k)' = Pasts(S) \cup (IF Releases(e.mo) THEN past'[k] ELSE {})
      <3>1. CASE Releases(e.mo)
        <4>1. Own \cup FencesOf(e.t) \cup R = S \cup {k}
          BY <3>1 DEF S
        <4> QED
          BY <2>2, <2>4, <3>1, <4>1
      <3>2. CASE ~ Releases(e.mo)
        <4>1. Own \cup FencesOf(e.t) \cup R = S
          BY <3>2 DEF S
        <4> QED
          BY <2>2, <2>4, <3>2, <4>1
      <3> QED
        BY <3>1, <3>2
    <2> QED
      BY <2>3, <2>5 DEF S
  <1>9. Carried({}) = {}
    OBVIOUS
  <1>10. \A p \in WritesTo(a) : Carried(Heads(a, p)) = ReleasedBy(p)
    BY ReleasedByHeads
  <1>11. {} \in SUBSET WritesTo(a) /\ \A p \in WritesTo(a) : Heads(a, p) \in SUBSET WritesTo(a)
    BY DEF Heads
  <1> HIDE DEF Own, Carried
  <1>12. ASSUME WritesTo(a) = {}
        PROVE  ReleasePast(k)' = (IF Releases(e.mo) THEN past'[k] ELSE {})
                                 \cup Pasts(FencesOf(e.t))
    <2>1. Heads(a, k)' = {k} \cup {}
      BY <1>12, NewHeads
    <2>2. ReleasedBy(k)' = Own \cup FencesOf(e.t) \cup {}
      BY <1>6, <1>9, <1>11, <2>1
    <2>3. Pasts({}) = {}
      BY DEF Pasts
    <2> QED
      BY <1>8, <2>2, <2>3
  <1>13. ASSUME NEW p \in WritesTo(a), \A q \in WritesTo(a) : q <= p
         PROVE  ReleasePast(k)' =
                   (IF Releases(e.mo) THEN past'[k] ELSE {})
                   \cup Pasts(FencesOf(e.t))
                   \cup (IF e.kind = "rmw" \/ e.t = log[p].t THEN ReleasePast(p) ELSE {})
    <2>1. CASE e.kind = "rmw" \/ e.t = log[p].t
      <3>1. Heads(a, k)' = {k} \cup Heads(a, p)
        BY <1>13, <2>1, NewHeads
      <3>3. ReleasedBy(k)' = Own \cup FencesOf(e.t) \cup ReleasedBy(p)
        BY <1>6, <1>10, <1>11, <3>1
      <3>4. ReleasedBy(p) \in SUBSET Events
        BY ReleaseKeeps
      <3> QED
        BY <1>8, <2>1, <3>3, <3>4 DEF ReleasePast
    <2>2. CASE ~ (e.kind = "rmw" \/ e.t = log[p].t)
      <3>1. Heads(a, k)' = {k} \cup {}
        BY <1>13, <2>2, NewHeads
      <3>2. ReleasedBy(k)' = Own \cup FencesOf(e.t) \cup {}
        BY <1>6, <1>9, <1>11, <3>1
      <3>3. Pasts({}) = {}
        BY DEF Pasts
      <3> QED
        BY <1>8, <2>2, <3>2, <3>3
    <2> QED
      BY <2>1, <2>2
  <1> QED
    BY <1>12, <1>13

(* What an acquire fence of u would add grows with the reads of u.         *)
LEMMA AcquirePastGrows ==
    ASSUME LogOK, ~ Cxx0xSequences, NEW e, NEW k, Logged(e, k), NEW u,
           IsRead(e) => e.rf \in WritesTo(e.obj)
    PROVE  AcquirePast(u)' = AcquirePast(u) \cup
              (IF e.t = u /\ IsRead(e) THEN ReleasePast(e.rf) ELSE {})
  <1>1. ReadsOf(u)' = ReadsOf(u) \cup (IF e.t = u /\ IsRead(e) THEN {k} ELSE {})
    BY DEF ReadsOf, Logged, IsRead
  <1>2. \A r \in ReadsOf(u) : /\ r \in Events /\ log'[r] = log[r]
                              /\ ReleasePast(log[r].rf)' = ReleasePast(log[r].rf)
    <2> SUFFICES ASSUME NEW r \in ReadsOf(u)
                 PROVE  /\ r \in Events /\ log'[r] = log[r]
                        /\ ReleasePast(log[r].rf)' = ReleasePast(log[r].rf)
      OBVIOUS
    <2>1. r \in Events /\ IsRead(log[r])
      BY DEF ReadsOf
    <2>2. log[r].rf \in WritesTo(log[r].obj)
      BY <2>1, LogFacts DEF EntryOK
    <2>3. log'[r] = log[r]
      BY <2>1 DEF Logged
    <2>4. ASSUME NEW w, w = log[r].rf
          PROVE  ReleasePast(log[r].rf)' = ReleasePast(w)
      <3>1. ReleasePast(w)' = ReleasePast(w)
        BY <2>2, <2>4, ReleaseKeeps
      <3>2. log'[r].rf = w
        BY <2>3, <2>4
      <3> QED
        BY <3>1, <3>2
    <2> QED
      BY <2>1, <2>3, <2>4
  <1>3. IsRead(e) => ReleasePast(e.rf)' = ReleasePast(e.rf)
    BY ReleaseKeeps
  <1>4. log'[k] = e
    BY DEF Logged
  <1> QED
    BY <1>1, <1>2, <1>3, <1>4 DEF AcquirePast

(* What happens before a call that is not a global fence: what its thread  *)
(* did, and what it synchronizes with.                                     *)
LEMMA NewPast ==
    ASSUME LogOK, ~ Cxx0xSequences, NEW e, NEW k, Logged(e, k), e.kind # "global"
    PROVE  past'[k] = {k} \cup PastOf(e.t)
              \cup (IF IsRead(e) /\ Acquires(e.mo) THEN ReleasePast(e.rf) ELSE {})
              \cup (IF e.kind = "fence" /\ Acquires(e.mo) THEN AcquirePast(e.t) ELSE {})
              \cup (IF e.kind = "fence" /\ e.mo = "seq_cst"
                    THEN Pasts(SeqCstFences) ELSE {})
              \cup (IF e.kind = "sync" /\ Acquires(e.mo)
                    THEN Pasts(SyncReleases(e.obj)) ELSE {})
  <1> DEFINE P1 == {j \in Events : log[j].t = e.t \/ log[j].kind = "global"}
             P2 == IF IsRead(e) /\ Acquires(e.mo)
                   THEN {i \in Events : i \in ReleasedBy(e.rf)} ELSE {}
             P3 == IF e.kind = "fence" /\ Acquires(e.mo)
                   THEN {i \in Events : \E r \in ReadsOf(e.t) : i \in ReleasedBy(log[r].rf)}
                   ELSE {}
             P4 == IF e.kind = "fence" /\ e.mo = "seq_cst" THEN SeqCstFences ELSE {}
             P5 == IF e.kind = "sync" /\ Acquires(e.mo) THEN SyncReleases(e.obj) ELSE {}
  <1>1. past'[k] = {k} \cup Pasts(Predecessors(e))
    BY DEF Logged
  <1>2. Predecessors(e) = P1 \cup P2 \cup P3 \cup P4 \cup P5
    BY DEF Predecessors, ReadsOf, SeqCstFences, SyncReleases
  <1>3. Pasts(P1) = PastOf(e.t)
    BY DEF Pasts, PastOf
  <1>4. \A w : ReleasedBy(w) \subseteq Events
    BY DEF ReleasedBy, WritesTo
  <1>5. Pasts(P2) = IF IsRead(e) /\ Acquires(e.mo) THEN ReleasePast(e.rf) ELSE {}
    <2>1. {i \in Events : i \in ReleasedBy(e.rf)} = ReleasedBy(e.rf)
      BY <1>4
    <2> QED
      BY <2>1 DEF Pasts, ReleasePast
  <1>6. Pasts(P3) = IF e.kind = "fence" /\ Acquires(e.mo) THEN AcquirePast(e.t) ELSE {}
    BY <1>4 DEF Pasts, ReleasePast, AcquirePast
  <1>7. Pasts(P4) = IF e.kind = "fence" /\ e.mo = "seq_cst" THEN Pasts(SeqCstFences) ELSE {}
    BY DEF Pasts
  <1>8. Pasts(P5) = IF e.kind = "sync" /\ Acquires(e.mo)
                    THEN Pasts(SyncReleases(e.obj)) ELSE {}
    BY DEF Pasts
  <1> HIDE DEF P1, P2, P3, P4, P5
  <1>9. Pasts(P1 \cup P2 \cup P3 \cup P4 \cup P5)
          = Pasts(P1) \cup Pasts(P2) \cup Pasts(P3) \cup Pasts(P4) \cup Pasts(P5)
    BY DEF Pasts
  <1>10. past'[k] = {k} \cup Pasts(P1) \cup Pasts(P2) \cup Pasts(P3)
                        \cup Pasts(P4) \cup Pasts(P5)
    BY <1>1, <1>2, <1>9
  <1> QED
    BY <1>3, <1>5, <1>6, <1>7, <1>8, <1>10, Zenon

(* A global fence comes after every call made so far.                      *)
LEMMA GlobalPast ==
    ASSUME LogOK, NEW e, NEW k, Logged(e, k), e.kind = "global"
    PROVE  past'[k] = Events \cup {k}
  <1>1. Predecessors(e) = Events
    BY DEF Predecessors
  <1>2. \A i \in Events : i \in past[i] /\ past[i] \subseteq Events
    BY LogFacts DEF EntryOK
  <1> QED
    BY <1>1, <1>2 DEF Logged, Pasts

(* The sets that clocks stand for hold calls of the log only.              *)
LEMMA PastsAreEvents ==
    ASSUME LogOK
    PROVE  /\ \A S \in SUBSET Events : Pasts(S) \subseteq Events
           /\ \A u : PastOf(u) \subseteq Events /\ Pasts(FencesOf(u)) \subseteq Events
           /\ \A u : Pasts(FencesOf(u)) \subseteq PastOf(u)
           /\ \A w : ReleasePast(w) \subseteq Events
           /\ \A u : AcquirePast(u) \subseteq Events
           /\ Pasts(SeqCstFences) \subseteq Events
           /\ \A sv : Pasts(SyncReleases(sv)) \subseteq Events
  <1>1. \A i \in Events : past[i] \subseteq Events
    BY LogFacts
  <1>2. \A S \in SUBSET Events : Pasts(S) \subseteq Events
    BY <1>1 DEF Pasts
  <1>3. \A u : PastOf(u) \subseteq Events
    BY <1>1 DEF PastOf
  <1>4. \A w : ReleasedBy(w) \in SUBSET Events
    BY DEF ReleasedBy, WritesTo
  <1>5. \A u : FencesOf(u) \in SUBSET Events
    BY DEF FencesOf
  <1>6. \A sv : SyncReleases(sv) \in SUBSET Events
    BY DEF SyncReleases
  <1>7. SeqCstFences \in SUBSET Events
    BY DEF SeqCstFences
  <1>8. \A w : ReleasePast(w) \subseteq Events
    BY <1>2, <1>4 DEF ReleasePast
  <1>9. \A u : Pasts(FencesOf(u)) \subseteq PastOf(u)
    BY DEF Pasts, FencesOf, PastOf
  <1>10. \A u : AcquirePast(u) \subseteq Events
    BY <1>8 DEF AcquirePast
  <1> QED
    BY <1>2, <1>3, <1>5, <1>6, <1>7, <1>8, <1>9, <1>10

-----------------------------------------------------------------------------
(* Clocks that stand for sets of calls. *)

(* Stands, of the log after a step.                                        *)
NextStands(c, S) ==
    \A i \in Events' : log'[i].stamp > 0 => (c[log'[i].t] >= log'[i].stamp <=> i \in S)

(* A clock that has not reached the new call stands for the same calls.    *)
LEMMA StandsKeep ==
    ASSUME NEW e, NEW k, Logged(e, k), NEW c \in Timestamps, NEW S \in SUBSET Events,
           Stands(c, S), e.stamp = 0 \/ c[e.t] < e.stamp
    PROVE  NextStands(c, S)
  <1>1. e.t \in Threads /\ e.stamp \in Nat
    BY DEF Logged, EventSet
  <1>2. c[e.t] \in Nat
    BY <1>1 DEF Timestamps
  <1>3. k \notin S /\ log'[k] = e
    BY DEF Logged
  <1>4. e.stamp > 0 => ~ (c[e.t] >= e.stamp)
    BY <1>1, <1>2
  <1>5. ASSUME NEW i \in Events', log'[i].stamp > 0
        PROVE  c[log'[i].t] >= log'[i].stamp <=> i \in S
    <2>1. CASE i = k
      BY <1>3, <1>4, <1>5, <2>1
    <2>2. CASE i # k
      <3>1. i \in Events /\ log'[i] = log[i]
        BY <1>5, <2>2 DEF Logged
      <3> QED
        BY <1>5, <3>1 DEF Stands
    <2> QED
      BY <2>1, <2>2
  <1> QED
    BY <1>5 DEF NextStands

(* A call without a stamp need not be reached.                             *)
LEMMA StandsSilent ==
    ASSUME NEW e, NEW k, Logged(e, k), NEW c, NEW S, Stands(c, S), e.stamp = 0
    PROVE  NextStands(c, S \cup {k})
  <1>1. k \notin Events /\ log'[k] = e
    BY DEF Logged
  <1>2. ASSUME NEW i \in Events', log'[i].stamp > 0
        PROVE  c[log'[i].t] >= log'[i].stamp <=> i \in S \cup {k}
    <2>1. i # k
      BY <1>1, <1>2
    <2>2. i \in Events /\ log'[i] = log[i]
      BY <2>1 DEF Logged
    <2> QED
      BY <1>2, <2>1, <2>2 DEF Stands
  <1> QED
    BY <1>2 DEF NextStands

(* The clock f is the join of c and d.                                     *)
Joins(f, c, d) ==
    \A i \in Threads : f[i] \in {c[i], d[i]} /\ c[i] <= f[i] /\ d[i] <= f[i]

(* assign_max stands for the union, before a step and after it.            *)
LEMMA StandsJoin ==
    ASSUME LogOK, NEW c \in Timestamps, NEW d \in Timestamps, NEW f \in Timestamps,
           Joins(f, c, d), NEW S, NEW T, Stands(c, S), Stands(d, T)
    PROVE  Stands(f, S \cup T)
  <1>1. ASSUME NEW i \in Events, log[i].stamp > 0
        PROVE  f[log[i].t] >= log[i].stamp <=> i \in S \cup T
    <2> DEFINE u == log[i].t
               n == log[i].stamp
    <2>1. log[i] \in EventSet
      BY LogFacts
    <2>2. u \in Threads /\ n \in Nat
      BY <2>1 DEF EventSet
    <2>3. c[u] \in Nat /\ d[u] \in Nat /\ f[u] \in Nat
      BY <2>2 DEF Timestamps
    <2>4. f[u] \in {c[u], d[u]} /\ c[u] <= f[u] /\ d[u] <= f[u]
      BY <2>2 DEF Joins
    <2>5. (c[u] >= n <=> i \in S) /\ (d[u] >= n <=> i \in T)
      BY <1>1 DEF Stands
    <2> HIDE DEF u, n
    <2>6. f[u] >= n <=> c[u] >= n \/ d[u] >= n
      BY <2>2, <2>3, <2>4
    <2>7. f[u] >= n <=> i \in S \cup T
      BY <2>5, <2>6
    <2> QED
      BY <2>7 DEF u, n
  <1> QED
    BY <1>1 DEF Stands

(* The same, after a step.                                                 *)
LEMMA NextStandsJoin ==
    ASSUME log' \in Seq(EventSet), NEW c \in Timestamps, NEW d \in Timestamps,
           NEW f \in Timestamps,
           Joins(f, c, d), NEW S, NEW T, NextStands(c, S), NextStands(d, T)
    PROVE  NextStands(f, S \cup T)
  <1>1. ASSUME NEW i \in Events', log'[i].stamp > 0
        PROVE  f[log'[i].t] >= log'[i].stamp <=> i \in S \cup T
    <2> DEFINE u == log'[i].t
               n == log'[i].stamp
    <2>1. log'[i] \in EventSet
      BY DEF Events
    <2>2. u \in Threads /\ n \in Nat
      BY <2>1 DEF EventSet
    <2>3. c[u] \in Nat /\ d[u] \in Nat /\ f[u] \in Nat
      BY <2>2 DEF Timestamps
    <2>4. f[u] \in {c[u], d[u]} /\ c[u] <= f[u] /\ d[u] <= f[u]
      BY <2>2 DEF Joins
    <2>5. (c[u] >= n <=> i \in S) /\ (d[u] >= n <=> i \in T)
      BY <1>1 DEF NextStands
    <2> HIDE DEF u, n
    <2>6. f[u] >= n <=> c[u] >= n \/ d[u] >= n
      BY <2>2, <2>3, <2>4
    <2>7. f[u] >= n <=> i \in S \cup T
      BY <2>5, <2>6
    <2> QED
      BY <2>7 DEF u, n
  <1> QED
    BY <1>1 DEF NextStands

(* assign_max is the join.                                                 *)
LEMMA AssignMaxJoins ==
    ASSUME NEW c \in Timestamps, NEW d \in Timestamps
    PROVE  AssignMax(c, d) \in Timestamps /\ Joins(AssignMax(c, d), c, d)
  <1>1. AssignMax(c, d) \in Timestamps
    BY AssignMaxFacts
  <1>2. \A i \in Threads : c[i] \in Nat /\ d[i] \in Nat
    BY DEF Timestamps
  <1>3. \A i \in Threads :
          AssignMax(c, d)[i] \in {c[i], d[i]} /\ c[i] <= AssignMax(c, d)[i]
             /\ d[i] <= AssignMax(c, d)[i]
    <2> SUFFICES ASSUME NEW i \in Threads
                 PROVE  /\ AssignMax(c, d)[i] \in {c[i], d[i]}
                        /\ c[i] <= AssignMax(c, d)[i] /\ d[i] <= AssignMax(c, d)[i]
      OBVIOUS
    <2>1. AssignMax(c, d)[i] = IF d[i] > c[i] THEN d[i] ELSE c[i]
      BY DEF AssignMax
    <2>2. c[i] \in Nat /\ d[i] \in Nat
      BY <1>2
    <2> QED
      BY <2>1, <2>2
  <1> QED
    BY <1>1, <1>3 DEF Joins

(* A thread that makes a call with a stamp reaches it, and nothing else    *)
(* new: c is its clock with what it acquires, before the ticks.            *)
LEMMA StandsTick ==
    ASSUME LogOK, NEW e, NEW k, Logged(e, k), NEW c \in Timestamps, NEW d \in Timestamps,
           NEW S \in SUBSET Events, Stands(c, S), c[e.t] = clock[e.t][e.t],
           c[e.t] < d[e.t], e.stamp = d[e.t],
           \A i \in Threads : i # e.t => d[i] = c[i]
    PROVE  NextStands(d, S \cup {k})
  <1>1. e.t \in Threads /\ e.stamp \in Nat
    BY DEF Logged, EventSet
  <1>2. c[e.t] \in Nat /\ d[e.t] \in Nat
    BY <1>1 DEF Timestamps
  <1>3. k \notin S /\ log'[k] = e
    BY DEF Logged
  <1>4. ASSUME NEW i \in Events', log'[i].stamp > 0
        PROVE  d[log'[i].t] >= log'[i].stamp <=> i \in S \cup {k}
    <2>1. CASE i = k
      BY <1>1, <1>2, <1>3, <2>1
    <2>2. CASE i # k
      <3>1. i \in Events /\ log'[i] = log[i]
        BY <1>4, <2>2 DEF Logged
      <3>2. log[i] \in EventSet /\ log[i].stamp <= clock[log[i].t][log[i].t]
        BY <3>1, LogFacts DEF EntryOK
      <3>3. log[i].t \in Threads /\ log[i].stamp \in Nat
        BY <3>2 DEF EventSet
      <3>4. c[log[i].t] >= log[i].stamp <=> i \in S
        BY <1>4, <3>1 DEF Stands
      <3>5. CASE log[i].t = e.t
        <4>1. c[log[i].t] >= log[i].stamp /\ d[log[i].t] >= log[i].stamp
          BY <1>2, <3>2, <3>3, <3>5
        <4> QED
          BY <3>1, <3>4, <4>1
      <3>6. CASE log[i].t # e.t
        BY <2>2, <3>1, <3>3, <3>4, <3>6
      <3> QED
        BY <3>5, <3>6
    <2> QED
      BY <2>1, <2>2
  <1> QED
    BY <1>4 DEF NextStands

-----------------------------------------------------------------------------
(* The clocks of the threads and the shared ones. *)

(* A live state in which the call e, as the k-th one, is made and logged.  *)
Call(e, k) ==
    /\ TypeOK /\ TypeOK' /\ KnowledgeBound /\ LogOK /\ AllStand /\ ~ Cxx0xSequences
    /\ Logged(e, k) /\ log' \in Seq(EventSet)
    /\ e.stamp = 0 \/ clock[e.t][e.t] < e.stamp
    /\ Silent(e) <=> e.stamp = 0
    /\ IsRead(e) => e.rf \in WritesTo(e.obj)

(* A clock of the state before the call stands for what it stood for.      *)
LEMMA OldStands ==
    ASSUME NEW e, NEW k, Call(e, k), NEW c \in Timestamps, Bounded(c),
           NEW S \in SUBSET Events, Stands(c, S)
    PROVE  NextStands(c, S)
  <1>1. e.t \in Threads /\ e.stamp \in Nat
    BY DEF Call, Logged, EventSet
  <1>2. c[e.t] \in Nat /\ clock[e.t][e.t] \in Nat
    BY <1>1 DEF Timestamps, Call, TypeOK
  <1>3. c[e.t] <= clock[e.t][e.t]
    BY <1>1 DEF Bounded
  <1>4. e.stamp = 0 \/ c[e.t] < e.stamp
    BY <1>1, <1>2, <1>3 DEF Call
  <1> QED
    BY <1>4, StandsKeep DEF Call

(* The join of clocks within the bounds is within the bounds.              *)
LEMMA JoinBounded ==
    ASSUME NEW c, NEW d, NEW f, Joins(f, c, d), Bounded(c), Bounded(d)
    PROVE  Bounded(f)
  BY DEF Joins, Bounded

(* What the clocks of a thread stand for, in the next state.               *)
LEMMA NextThread ==
    ASSUME NEW u,
           NextStands(clock'[u], PastOf(u)'),
           NextStands(AssignMax(clock'[u], acquireFence'[u]), PastOf(u)' \cup AcquirePast(u)'),
           NextStands(releaseFence'[u], Pasts(FencesOf(u))')
    PROVE  ThreadStands(u)'
  <1>1. Stands(clock[u], PastOf(u))' /\ Stands(releaseFence[u], Pasts(FencesOf(u)))'
    BY DEF Stands, NextStands
  <1>2. Stands(AssignMax(clock[u], acquireFence[u]), PastOf(u) \cup AcquirePast(u))'
    BY DEF Stands, NextStands, AssignMax
  <1> QED
    BY <1>1, <1>2 DEF ThreadStands

(* A call of one thread tells the others nothing.                          *)
LEMMA OthersStand ==
    ASSUME NEW e, NEW k, Call(e, k), e.kind # "global", NEW u \in Threads, u # e.t,
           clock'[u] = clock[u], acquireFence'[u] = acquireFence[u],
           releaseFence'[u] = releaseFence[u]
    PROVE  ThreadStands(u)'
  <1>1. PastOf(u)' = PastOf(u) /\ AcquirePast(u)' = AcquirePast(u)
    <2>1. /\ LogOK /\ ~ Cxx0xSequences /\ Logged(e, k)
          /\ IsRead(e) => e.rf \in WritesTo(e.obj)
      BY DEF Call
    <2>2. PastOf(u)' = PastOf(u) \cup (IF e.t = u \/ e.kind = "global"
                                       THEN past'[k] ELSE {})
      BY ONLY <2>1, PastOfGrows
    <2>3. AcquirePast(u)' = AcquirePast(u) \cup
              (IF e.t = u /\ IsRead(e) THEN ReleasePast(e.rf) ELSE {})
      BY ONLY <2>1, AcquirePastGrows
    <2> QED
      BY <2>2, <2>3
  <1>2. Pasts(FencesOf(u))' = Pasts(FencesOf(u))
    BY FencesGrow DEF Call
  <1>3. ThreadStands(u)
    BY DEF Call, AllStand, ThreadsStand
  <1>4. /\ clock[u] \in Timestamps /\ acquireFence[u] \in Timestamps
        /\ releaseFence[u] \in Timestamps
    BY DEF Call, TypeOK
  <1>5. Bounded(clock[u]) /\ Bounded(acquireFence[u]) /\ Bounded(releaseFence[u])
    BY DEF Call, KnowledgeBound, ThreadsBounded
  <1> DEFINE f == AssignMax(clock[u], acquireFence[u])
  <1>6. f \in Timestamps /\ Joins(f, clock[u], acquireFence[u])
    BY <1>4, AssignMaxJoins
  <1>7. Bounded(f)
    BY <1>5, <1>6, JoinBounded
  <1>8. /\ PastOf(u) \in SUBSET Events /\ AcquirePast(u) \in SUBSET Events
        /\ Pasts(FencesOf(u)) \in SUBSET Events
    BY PastsAreEvents DEF Call
  <1>9. /\ Stands(clock[u], PastOf(u)) /\ Stands(f, PastOf(u) \cup AcquirePast(u))
        /\ Stands(releaseFence[u], Pasts(FencesOf(u)))
    BY <1>3 DEF ThreadStands
  <1> HIDE DEF f
  <1>10. NextStands(clock[u], PastOf(u)) /\ NextStands(releaseFence[u], Pasts(FencesOf(u)))
    BY <1>4, <1>5, <1>8, <1>9, OldStands
  <1>11. PastOf(u) \cup AcquirePast(u) \in SUBSET Events
    BY <1>8
  <1>12. NextStands(f, PastOf(u) \cup AcquirePast(u))
    BY <1>6, <1>7, <1>9, <1>11, OldStands
  <1>13. NextStands(clock'[u], PastOf(u)')
    BY <1>1, <1>10
  <1>14. NextStands(releaseFence'[u], Pasts(FencesOf(u))')
    BY <1>2, <1>10
  <1>15. NextStands(AssignMax(clock'[u], acquireFence'[u]), PastOf(u)' \cup AcquirePast(u)')
    BY <1>1, <1>12 DEF f
  <1> QED
    BY <1>13, <1>14, <1>15, NextThread

(* The thread that makes the call: its clock takes the past of the call,   *)
(* its acquire fence what it read, its release fence its clock.            *)
LEMMA ActorStands ==
    ASSUME NEW e, NEW k, Call(e, k), e.kind # "global", NEW t \in Threads, t = e.t,
           NextStands(clock'[t], past'[k]),
           \A i \in Threads : clock[t][i] <= clock'[t][i],
           NEW order \in Timestamps,
           \/ ~ IsRead(e) /\ acquireFence'[t] = acquireFence[t]
           \/ /\ IsRead(e) /\ NextStands(order, ReleasePast(e.rf))
              /\ acquireFence'[t] = IF Acquires(e.mo) THEN acquireFence[t]
                                    ELSE AssignMax(acquireFence[t], order),
           IF e.kind = "fence" /\ Releases(e.mo)
           THEN releaseFence'[t] = clock'[t]
           ELSE releaseFence'[t] = releaseFence[t]
    PROVE  ThreadStands(t)'
  <1>1. PastOf(t)' = past'[k]
    <2>1. PastOf(t)' = PastOf(t) \cup past'[k]
      BY PastOfGrows DEF Call
    <2>2. PastOf(t) \subseteq past'[k]
      BY NewPast DEF Call
    <2> QED
      BY <2>1, <2>2
  <1>2. AcquirePast(t)' = AcquirePast(t) \cup (IF IsRead(e) THEN ReleasePast(e.rf) ELSE {})
    BY AcquirePastGrows DEF Call
  <1>3. IsRead(e) /\ Acquires(e.mo) => ReleasePast(e.rf) \subseteq past'[k]
    BY NewPast DEF Call
  <1>4. PastOf(t) \subseteq past'[k]
    BY NewPast DEF Call
  <1>5. /\ clock[t] \in Timestamps /\ acquireFence[t] \in Timestamps
        /\ releaseFence[t] \in Timestamps
        /\ clock'[t] \in Timestamps /\ acquireFence'[t] \in Timestamps
    BY DEF Call, TypeOK
  <1>6. Bounded(clock[t]) /\ Bounded(acquireFence[t]) /\ Bounded(releaseFence[t])
    BY DEF Call, KnowledgeBound, ThreadsBounded
  <1>7. ThreadStands(t)
    BY DEF Call, AllStand, ThreadsStand
  <1>8. /\ PastOf(t) \in SUBSET Events /\ AcquirePast(t) \in SUBSET Events
        /\ Pasts(FencesOf(t)) \in SUBSET Events /\ Pasts(FencesOf(t)) \subseteq PastOf(t)
    BY PastsAreEvents DEF Call
  <1> DEFINE f == AssignMax(clock[t], acquireFence[t])
             g == AssignMax(f, clock'[t])
             h == AssignMax(clock'[t], acquireFence'[t])
             all == PastOf(t) \cup AcquirePast(t)
  <1>9. f \in Timestamps /\ Joins(f, clock[t], acquireFence[t])
    BY <1>5, AssignMaxJoins
  <1>10. Bounded(f)
    BY <1>6, <1>9, JoinBounded
  <1>11. Stands(f, all) /\ all \in SUBSET Events
    BY <1>7, <1>8 DEF ThreadStands
  <1>12. g \in Timestamps /\ Joins(g, f, clock'[t])
    <2> HIDE DEF f
    <2> QED
      BY <1>5, <1>9, AssignMaxJoins
  <1>13. h \in Timestamps /\ Joins(h, clock'[t], acquireFence'[t])
    BY <1>5, AssignMaxJoins
  <1>14. log' \in Seq(EventSet)
    BY DEF Call
  <1> HIDE DEF f, g, h, all
  <1>15. NextStands(f, all)
    BY <1>9, <1>10, <1>11, OldStands
  <1>16. NextStands(g, all \cup past'[k])
    BY <1>5, <1>9, <1>12, <1>14, <1>15, NextStandsJoin
  <1>17. NextStands(h, PastOf(t)' \cup AcquirePast(t)')
    <2>1. CASE acquireFence'[t] = acquireFence[t] /\ (IsRead(e) => Acquires(e.mo))
      <3>1. Joins(h, g, g)
        <4> SUFFICES ASSUME NEW i \in Threads PROVE h[i] = g[i] /\ g[i] <= h[i]
          BY DEF Joins
        <4>1. /\ clock[t][i] \in Nat /\ clock'[t][i] \in Nat /\ acquireFence[t][i] \in Nat
              /\ f[i] \in Nat /\ g[i] \in Nat /\ h[i] \in Nat /\ clock[t][i] <= clock'[t][i]
          BY <1>5, <1>9, <1>12, <1>13 DEF Timestamps
        <4>2. f[i] \in {clock[t][i], acquireFence[t][i]} /\ clock[t][i] <= f[i]
                 /\ acquireFence[t][i] <= f[i]
          BY <1>9 DEF Joins
        <4>3. g[i] \in {f[i], clock'[t][i]} /\ f[i] <= g[i] /\ clock'[t][i] <= g[i]
          BY <1>12 DEF Joins
        <4>4. h[i] \in {clock'[t][i], acquireFence[t][i]} /\ clock'[t][i] <= h[i]
                 /\ acquireFence[t][i] <= h[i]
          BY <1>13, <2>1 DEF Joins
        <4> QED
          BY <4>1, <4>2, <4>3, <4>4
      <3>2. NextStands(h, (all \cup past'[k]) \cup (all \cup past'[k]))
        BY <1>12, <1>13, <1>14, <1>16, <3>1, NextStandsJoin
      <3>3. PastOf(t)' \cup AcquirePast(t)' = (all \cup past'[k]) \cup (all \cup past'[k])
        BY <1>1, <1>2, <1>3, <1>4, <2>1 DEF all
      <3> QED
        BY <3>2, <3>3
    <2>2. CASE /\ acquireFence'[t] = AssignMax(acquireFence[t], order)
               /\ IsRead(e) /\ NextStands(order, ReleasePast(e.rf))
      <3>1. Joins(acquireFence'[t], acquireFence[t], order)
        BY <1>5, <2>2, AssignMaxJoins
      <3>2. Joins(h, g, order)
        <4> SUFFICES ASSUME NEW i \in Threads
                     PROVE  h[i] \in {g[i], order[i]} /\ g[i] <= h[i] /\ order[i] <= h[i]
          BY DEF Joins
        <4>1. /\ clock[t][i] \in Nat /\ clock'[t][i] \in Nat /\ acquireFence[t][i] \in Nat
              /\ f[i] \in Nat /\ g[i] \in Nat /\ h[i] \in Nat /\ clock[t][i] <= clock'[t][i]
              /\ order[i] \in Nat /\ acquireFence'[t][i] \in Nat
          BY <1>5, <1>9, <1>12, <1>13 DEF Timestamps
        <4>2. f[i] \in {clock[t][i], acquireFence[t][i]} /\ clock[t][i] <= f[i]
                 /\ acquireFence[t][i] <= f[i]
          BY <1>9 DEF Joins
        <4>3. g[i] \in {f[i], clock'[t][i]} /\ f[i] <= g[i] /\ clock'[t][i] <= g[i]
          BY <1>12 DEF Joins
        <4>4. h[i] \in {clock'[t][i], acquireFence'[t][i]} /\ clock'[t][i] <= h[i]
                 /\ acquireFence'[t][i] <= h[i]
          BY <1>13 DEF Joins
        <4>5. acquireFence'[t][i] \in {acquireFence[t][i], order[i]}
                 /\ acquireFence[t][i] <= acquireFence'[t][i]
                 /\ order[i] <= acquireFence'[t][i]
          BY <3>1 DEF Joins
        <4> QED
          BY <4>1, <4>2, <4>3, <4>4, <4>5
      <3>3. NextStands(h, (all \cup past'[k]) \cup ReleasePast(e.rf))
        BY <1>12, <1>13, <1>14, <1>16, <2>2, <3>2, NextStandsJoin
      <3>4. PastOf(t)' \cup AcquirePast(t)' = (all \cup past'[k]) \cup ReleasePast(e.rf)
        BY <1>1, <1>2, <1>4, <2>2 DEF all
      <3> QED
        BY <3>3, <3>4
    <2> QED
      BY <2>1, <2>2
  <1>18. NextStands(releaseFence'[t], Pasts(FencesOf(t))')
    <2>1. CASE e.kind = "fence" /\ Releases(e.mo)
      <3>1. Pasts(FencesOf(t))' = Pasts(FencesOf(t)) \cup past'[k]
        BY <2>1, FencesGrow DEF Call
      <3>2. Pasts(FencesOf(t))' = past'[k]
        BY <1>4, <1>8, <3>1
      <3> QED
        BY <2>1, <3>2
    <2>2. CASE ~ (e.kind = "fence" /\ Releases(e.mo))
      <3>1. Pasts(FencesOf(t))' = Pasts(FencesOf(t))
        <4>1. Pasts(FencesOf(t))' = Pasts(FencesOf(t)) \cup
                 (IF e.kind = "fence" /\ Releases(e.mo) /\ e.t = t THEN past'[k] ELSE {})
          BY FencesGrow DEF Call
        <4> QED
          BY <2>2, <4>1
      <3>2. Stands(releaseFence[t], Pasts(FencesOf(t)))
        BY <1>7 DEF ThreadStands
      <3>3. NextStands(releaseFence[t], Pasts(FencesOf(t)))
        BY <1>5, <1>6, <1>8, <3>2, OldStands
      <3> QED
        BY <2>2, <3>1, <3>3
    <2> QED
      BY <2>1, <2>2
  <1> QED
    BY <1>1, <1>17, <1>18, NextThread DEF h

(* The shared clocks a call does not touch.                                *)
LEMMA SharedKeeps ==
    ASSUME NEW e, NEW k, Call(e, k)
    PROVE  /\ ~ (e.kind = "fence" /\ e.mo = "seq_cst") /\ seqCstFence' = seqCstFence
                => NextStands(seqCstFence', Pasts(SeqCstFences)')
           /\ \A sv \in SyncVars :
                /\ ~ (e.kind = "sync" /\ Releases(e.mo) /\ e.obj = sv)
                /\ syncOrder'[sv] = syncOrder[sv]
                => NextStands(syncOrder'[sv], Pasts(SyncReleases(sv))')
  <1>1. ASSUME ~ (e.kind = "fence" /\ e.mo = "seq_cst"), seqCstFence' = seqCstFence
        PROVE  NextStands(seqCstFence', Pasts(SeqCstFences)')
    <2>1. seqCstFence \in Timestamps /\ Bounded(seqCstFence)
      BY DEF Call, TypeOK, KnowledgeBound
    <2>2. Stands(seqCstFence, Pasts(SeqCstFences))
      BY DEF Call, AllStand, SharedStand
    <2>3. Pasts(SeqCstFences) \in SUBSET Events
      BY PastsAreEvents DEF Call
    <2>4. Pasts(SeqCstFences)' = Pasts(SeqCstFences)
      BY <1>1, SeqCstFencesGrow DEF Call
    <2>5. NextStands(seqCstFence, Pasts(SeqCstFences))
      BY <2>1, <2>2, <2>3, OldStands
    <2> QED
      BY <1>1, <2>4, <2>5
  <1>2. ASSUME NEW sv \in SyncVars, syncOrder'[sv] = syncOrder[sv],
               ~ (e.kind = "sync" /\ Releases(e.mo) /\ e.obj = sv)
        PROVE  NextStands(syncOrder'[sv], Pasts(SyncReleases(sv))')
    <2>1. syncOrder[sv] \in Timestamps /\ Bounded(syncOrder[sv])
      BY DEF Call, TypeOK, KnowledgeBound
    <2>2. Stands(syncOrder[sv], Pasts(SyncReleases(sv)))
      BY DEF Call, AllStand, SharedStand
    <2>3. Pasts(SyncReleases(sv)) \in SUBSET Events
      BY PastsAreEvents DEF Call
    <2>4. Pasts(SyncReleases(sv))' = Pasts(SyncReleases(sv))
      BY <1>2, SyncReleasesGrow DEF Call
    <2>5. NextStands(syncOrder[sv], Pasts(SyncReleases(sv)))
      BY <2>1, <2>2, <2>3, OldStands
    <2> QED
      BY <1>2, <2>4, <2>5
  <1> QED
    BY <1>1, <1>2

(* The shared clocks in the next state.                                    *)
LEMMA NextShared ==
    ASSUME NextStands(seqCstFence', Pasts(SeqCstFences)'),
           \A sv \in SyncVars : NextStands(syncOrder'[sv], Pasts(SyncReleases(sv))')
    PROVE  SharedStand'
  BY DEF SharedStand, Stands, NextStands

-----------------------------------------------------------------------------
(* The places of the stores of an atomic. *)

(* The stores are finitely many calls of the log.                          *)
LEMMA WritesFacts ==
    ASSUME LogOK, NEW a
    PROVE  /\ WritesTo(a) \subseteq Events /\ WritesTo(a) \in SUBSET Nat
           /\ IsFiniteSet(WritesTo(a))
  <1>1. WritesTo(a) \subseteq Events
    BY DEF WritesTo
  <1>2. Events = 1 .. Len(log) /\ Len(log) \in Nat
    BY LogFacts
  <1>3. IsFiniteSet(Events)
    BY <1>2, FS_Interval
  <1> QED
    BY <1>1, <1>2, <1>3, FS_Subset

(* A place has one store, the newer stores have smaller places.            *)
LEMMA NthFacts ==
    ASSUME LogOK, NEW a, NEW n, NEW u, IsNth(a, n, u)
    PROVE  /\ n \in Nat
           /\ \A w : IsNth(a, n, w) => w = u
           /\ NthNewest(a, n) = u
           /\ \A w \in WritesTo(a) : u < w =>
                \E i \in Nat : i < n /\ IsNth(a, i, w)
  <1> DEFINE W == WritesTo(a)
             Above(w) == Cardinality({j \in W : j > w})
  <1>1. W \in SUBSET Nat /\ IsFiniteSet(W)
    BY WritesFacts
  <1>2. \A w : IsNth(a, n, w) <=> w \in W /\ Above(w) = n
    BY DEF IsNth
  <1>3. \A v \in W, w \in W : v < w => /\ Above(w) \in Nat /\ Above(v) \in Nat
                                       /\ Above(w) < Above(v)
    <2> HIDE DEF W
    <2> QED
      BY <1>1, FewerAbove
  <1>4. u \in W /\ Above(u) = n
    BY <1>2
  <1>5. n \in Nat
    <2>1. {j \in W : j > u} \in SUBSET W
      OBVIOUS
    <2> DEFINE A == {j \in W : j > u}
    <2> HIDE DEF A, W
    <2>2. IsFiniteSet(A)
      BY <1>1, <2>1, FS_Subset DEF A
    <2>3. Cardinality(A) \in Nat
      BY <2>2, FS_CardinalityType
    <2> QED
      BY <1>4, <2>3 DEF A
  <1>6. NthNewest(a, n) = CHOOSE i \in W : Above(i) = n
    BY DEF NthNewest
  <1>7. \A w \in W : IsNth(a, Above(w), w)
    BY DEF IsNth
  <1> HIDE DEF W, Above
  <1>8. \A w \in W : Above(w) = n => w = u
    <2> SUFFICES ASSUME NEW w \in W, Above(w) = n, w # u PROVE FALSE
      OBVIOUS
    <2>1. w < u \/ u < w
      BY <1>1, <1>4
    <2> QED
      BY <1>3, <1>4, <1>5, <2>1
  <1>9. NthNewest(a, n) = u
    BY <1>4, <1>6, <1>8
  <1>10. \A w \in W : u < w => \E i \in Nat : i < n /\ IsNth(a, i, w)
    BY <1>3, <1>4, <1>7
  <1> QED
    BY <1>2, <1>5, <1>8, <1>9, <1>10 DEF W

(* The store at place 0 is the newest, and there is one if there is any.   *)
LEMMA NewestFacts ==
    ASSUME LogOK, NEW a
    PROVE  /\ \A p : IsNth(a, 0, p) => p \in WritesTo(a) /\ \A q \in WritesTo(a) : q <= p
           /\ WritesTo(a) # {} => \E p \in WritesTo(a) : IsNth(a, 0, p)
  <1> DEFINE W == WritesTo(a)
  <1>1. W \in SUBSET Nat /\ IsFiniteSet(W) /\ W \subseteq Events
    BY WritesFacts
  <1>2. ASSUME NEW p, IsNth(a, 0, p) PROVE p \in W /\ \A q \in W : q <= p
    <2>1. p \in W
      BY <1>2 DEF IsNth
    <2>2. \A q \in W : ~ (p < q)
      BY <1>2, NthFacts
    <2> QED
      BY <1>1, <2>1, <2>2
  <1>3. ASSUME W # {} PROVE \E p \in W : IsNth(a, 0, p)
    <2>1. PICK u \in W : TRUE
      BY <1>3
    <2>2. Events = 1 .. Len(log) /\ Len(log) \in Nat
      BY LogFacts
    <2> DEFINE l == Len(log) + 1
    <2>3. l \in Nat /\ \A q \in W : q < l
      BY <1>1, <2>2
    <2> HIDE DEF W, l
    <2>4. PICK p \in W : p < l /\ \A q \in W : q < l => q <= p
      BY <1>1, <2>1, <2>3, LargestBelow
    <2>5. \A q \in W : ~ (q > p)
      BY <1>1, <2>3, <2>4
    <2>6. {j \in W : j > p} = {}
      BY <2>5
    <2>7. Cardinality({j \in W : j > p}) = 0
      BY <2>6, FS_EmptySet
    <2> QED
      BY <2>4, <2>7 DEF IsNth, W
  <1> QED
    BY <1>2, <1>3

(* A new store takes place 0 and moves the others on by one.               *)
LEMMA NthShift ==
    ASSUME LogOK, NEW e, NEW k, Logged(e, k), NEW a, NEW w
    PROVE  /\ ~ (IsWrite(e) /\ e.obj = a) =>
                \A n : IsNth(a, n, w)' <=> IsNth(a, n, w)
           /\ IsWrite(e) /\ e.obj = a =>
                /\ IsNth(a, 0, w)' <=> w = k
                /\ \A n \in Nat : IsNth(a, n + 1, w)' <=> IsNth(a, n, w)
  <1> DEFINE W == WritesTo(a)
             V == WritesTo(a)'
  <1>1. /\ V = W \cup (IF IsWrite(e) /\ e.obj = a THEN {k} ELSE {})
        /\ W \in SUBSET Nat /\ IsFiniteSet(W) /\ \A j \in W : j < k
    BY WritesGrow
  <1>2. k \in Nat
    BY DEF Logged
  <1>3. \A n : IsNth(a, n, w)' <=> w \in V /\ Cardinality({j \in V : j > w}) = n
    BY DEF IsNth
  <1>4. \A n : IsNth(a, n, w) <=> w \in W /\ Cardinality({j \in W : j > w}) = n
    BY DEF IsNth
  <1> HIDE DEF W, V
  <1>5. ASSUME ~ (IsWrite(e) /\ e.obj = a)
        PROVE  \A n : IsNth(a, n, w)' <=> IsNth(a, n, w)
    <2>1. V = W
      BY <1>1, <1>5
    <2> QED
      BY <1>3, <1>4, <2>1
  <1>6. ASSUME IsWrite(e) /\ e.obj = a
        PROVE  /\ IsNth(a, 0, w)' <=> w = k
               /\ \A n \in Nat : IsNth(a, n + 1, w)' <=> IsNth(a, n, w)
    <2>1. V = W \cup {k} /\ k \notin W
      BY <1>1, <1>2, <1>6
    <2>2. {j \in V : j > k} = {}
      <3>1. \A j \in W : ~ (j > k)
        BY <1>1, <1>2
      <3>2. ~ (k > k)
        BY <1>2
      <3> QED
        BY <2>1, <3>1, <3>2
    <2>3. Cardinality({j \in V : j > k}) = 0
      BY <2>2, FS_EmptySet
    <2>4. CASE w \in W
      <3> DEFINE A == {j \in W : j > w}
      <3>1. {j \in V : j > w} = A \cup {k} /\ k \notin A
        BY <1>1, <1>2, <2>1, <2>4
      <3>2. A \in SUBSET W
        OBVIOUS
      <3> HIDE DEF A
      <3>3. IsFiniteSet(A)
        BY <1>1, <3>2, FS_Subset
      <3>4. Cardinality(A) \in Nat /\ Cardinality(A \cup {k}) = Cardinality(A) + 1
        BY <3>1, <3>3, FS_AddElement, FS_CardinalityType
      <3>5. w # k /\ w \in V
        BY <2>1, <2>4
      <3>6. ~ IsNth(a, 0, w)'
        BY <1>3, <3>1, <3>4
      <3>7. \A n \in Nat : IsNth(a, n + 1, w)' <=> Cardinality(A) = n
        BY <1>3, <3>1, <3>4, <3>5
      <3>8. \A n \in Nat : IsNth(a, n, w) <=> Cardinality(A) = n
        BY <1>4, <2>4 DEF A
      <3> QED
        BY <3>5, <3>6, <3>7, <3>8
    <2>5. CASE w = k
      <3>1. IsNth(a, 0, w)'
        BY <1>3, <2>1, <2>3, <2>5
      <3>2. \A n \in Nat : ~ IsNth(a, n + 1, w)'
        BY <1>3, <2>3, <2>5
      <3> QED
        BY <1>4, <2>1, <2>5, <3>1, <3>2
    <2>6. CASE w \notin W /\ w # k
      BY <1>3, <1>4, <2>1, <2>6
    <2> QED
      BY <2>4, <2>5, <2>6
  <1> QED
    BY <1>5, <1>6

-----------------------------------------------------------------------------
(* The records of the history. *)

(* new is rec, with perhaps more threads that have seen it.                *)
MoreSeen(rec, new) ==
    /\ new.busy = rec.busy /\ new.seqCst = rec.seqCst /\ new.thread = rec.thread
    /\ new.timestamp = rec.timestamp /\ new.order = rec.order
    /\ \A u \in Threads : rec.firstSeen[u] # NotSeen => new.firstSeen[u] = rec.firstSeen[u]

(* Reading a record adds a thread that has seen it.                        *)
LEMMA MarkSeenMore ==
    ASSUME NEW rec \in Records, NEW t \in Threads, NEW n \in Nat
    PROVE  /\ MoreSeen(rec, MarkSeen(rec, t, n)) /\ MoreSeen(rec, rec)
           /\ MarkSeen(rec, t, n).firstSeen[t] =
                 (IF rec.firstSeen[t] = NotSeen THEN n ELSE rec.firstSeen[t])
  BY DEF MarkSeen, MoreSeen, Records

NextRecordStands(rec, w) ==
    /\ rec.thread = log'[w].t /\ rec.timestamp = log'[w].stamp
    /\ rec.seqCst <=> log'[w].mo = "seq_cst"
    /\ NextStands(rec.order, ReleasePast(w)')
    /\ \A i \in Events' : Touches(i, w)' => SeenBy(rec, log'[i].t, log'[i].stamp)

(* The record of an old store stays its record.                            *)
LEMMA RecordKeeps ==
    ASSUME NEW e, NEW k, Call(e, k), NEW a, NEW w \in WritesTo(a), NEW rec \in Records,
           NEW new \in Records, RecordStands(rec, w), MoreSeen(rec, new),
           Bounded(rec.order), Touches(k, w)' => SeenBy(new, e.t, e.stamp)
    PROVE  NextRecordStands(new, w)
  <1>1. w \in Events /\ log'[w] = log[w]
    BY DEF Call, Logged, WritesTo
  <1>2. ReleasePast(w)' = ReleasePast(w) /\ ReleasePast(w) \in SUBSET Events
    <2>1. ReleasePast(w)' = ReleasePast(w)
      BY ReleaseKeeps DEF Call
    <2>2. ReleasePast(w) \in SUBSET Events
      BY PastsAreEvents DEF Call
    <2> QED
      BY <2>1, <2>2
  <1>3. rec.order \in Timestamps
    BY DEF Records
  <1>4. NextStands(rec.order, ReleasePast(w))
    BY <1>2, <1>3, OldStands DEF RecordStands
  <1>5. NextStands(new.order, ReleasePast(w)')
    BY <1>2, <1>4 DEF MoreSeen
  <1>6. ASSUME NEW i \in Events', Touches(i, w)'
        PROVE  SeenBy(new, log'[i].t, log'[i].stamp)
    <2>1. CASE i = k
      <3>1. log'[i] = e
        BY <2>1 DEF Call, Logged
      <3> QED
        BY <1>6, <2>1, <3>1
    <2>2. CASE i # k
      <3>1. i \in Events /\ log'[i] = log[i]
        BY <2>2 DEF Call, Logged
      <3>2. Touches(i, w)
        BY <1>6, <3>1 DEF Touches, StoreOf, IsRead, IsWrite
      <3>3. SeenBy(rec, log[i].t, log[i].stamp)
        BY <3>1, <3>2 DEF RecordStands
      <3>4. log[i].t \in Threads
        BY <3>1 DEF Call, Logged, EventSet
      <3>5. SeenBy(new, log[i].t, log[i].stamp)
        BY <3>3, <3>4 DEF MoreSeen, SeenBy
      <3> QED
        BY <3>1, <3>5
    <2> QED
      BY <2>1, <2>2
  <1> QED
    BY <1>1, <1>5, <1>6 DEF NextRecordStands, RecordStands, MoreSeen

(* A place of the history in the next state.                               *)
LEMMA NextPlace ==
    ASSUME NEW a, NEW n,
           history'[a][Older(current'[a], n)].busy <=> \E w \in Events' : IsNth(a, n, w)',
           \A w \in Events' : IsNth(a, n, w)' =>
              NextRecordStands(history'[a][Older(current'[a], n)], w)
    PROVE  PlaceStands(a, n)'
  BY DEF PlaceStands, Older, RecordStands, NextRecordStands, Stands, NextStands, SeenBy

(* A call that stores nothing leaves the places; a read marks its record.  *)
LEMMA HistoryRead ==
    ASSUME NEW e, NEW k, Call(e, k), ~ IsWrite(e), current' = current,
           \A b \in Atomics, s \in Slots : MoreSeen(history[b][s], history'[b][s]),
           IsRead(e) =>
              \A b \in Atomics, n \in 0 .. HistorySize - 1 :
                 b = e.obj /\ IsNth(b, n, e.rf) =>
                    SeenBy(history'[b][Older(current[b], n)], e.t, e.stamp)
    PROVE  HistoryStands'
  <1> SUFFICES ASSUME NEW b \in Atomics, NEW n \in 0 .. HistorySize - 1
               PROVE  PlaceStands(b, n)'
    BY DEF HistoryStands
  <1> DEFINE s == Older(current[b], n)
             rec == history[b][s]
             new == history'[b][s]
  <1>1. current[b] \in Slots
    BY DEF Call, TypeOK
  <1>2. s \in Slots
    BY <1>1, SlotFacts
  <1>3. rec \in Records /\ new \in Records /\ MoreSeen(rec, new) /\ Bounded(rec.order)
    BY <1>2 DEF Call, TypeOK, KnowledgeBound, RecordBounded
  <1>4. PlaceStands(b, n)
    BY DEF Call, AllStand, HistoryStands
  <1>5. \A w : IsNth(b, n, w)' <=> IsNth(b, n, w)
    BY NthShift DEF Call
  <1>6. \A w : IsNth(b, n, w) => w \in Events /\ w \in Events' /\ w \in WritesTo(b)
    BY DEF IsNth, WritesTo, Call, Logged
  <1>7. new.busy <=> \E w \in Events' : IsNth(b, n, w)'
    <2>1. rec.busy <=> \E w \in Events : IsNth(b, n, w)
      BY <1>4 DEF PlaceStands
    <2> QED
      BY <1>3, <1>5, <1>6, <2>1 DEF MoreSeen
  <1>8. ASSUME NEW w \in Events', IsNth(b, n, w)'
        PROVE  NextRecordStands(new, w)
    <2>1. IsNth(b, n, w) /\ w \in WritesTo(b) /\ w \in Events
      BY <1>5, <1>6, <1>8
    <2>2. RecordStands(rec, w)
      BY <1>4, <2>1 DEF PlaceStands
    <2>3. Touches(k, w)' => SeenBy(new, e.t, e.stamp)
      <3> SUFFICES ASSUME Touches(k, w)' PROVE SeenBy(new, e.t, e.stamp)
        OBVIOUS
      <3>1. log'[k] = e
        BY DEF Call, Logged
      <3>2. IsRead(e) /\ w = e.rf
        BY <3>1 DEF Touches, StoreOf, IsRead, IsWrite
      <3>3. e.rf \in WritesTo(e.obj)
        BY <3>2 DEF Call
      <3>4. b = e.obj
        BY <2>1, <3>2, <3>3 DEF WritesTo
      <3> QED
        BY <2>1, <3>2, <3>4
    <2> HIDE DEF rec, new
    <2> QED
      BY <1>3, <2>1, <2>2, <2>3, RecordKeeps
  <1>9. new = history'[b][Older(current'[b], n)]
    OBVIOUS
  <1> HIDE DEF new
  <1> QED
    BY <1>7, <1>8, <1>9, NextPlace

(* The ring moves on by one slot.                                          *)
LEMMA RingMoves ==
    ASSUME NEW s \in Slots
    PROVE  /\ Older(Next1(s), 0) = Next1(s)
           /\ \A n \in 0 .. HistorySize - 2 : Older(Next1(s), n + 1) = Older(s, n)
           /\ \A n \in 0 .. HistorySize - 2 : Older(s, n) # Next1(s)
           /\ Older(s, 0) = s
  BY DEF Slots, Next1, Older, HistorySize

(* A store puts its record in the next slot and moves the others on.       *)
LEMMA HistoryAppend ==
    ASSUME NEW e, NEW k, Call(e, k), IsWrite(e), NEW a \in Atomics, e.obj = a,
           current'[a] = Next1(current[a]),
           history'[a][Next1(current[a])].busy,
           NextRecordStands(history'[a][Next1(current[a])], k),
           \A n \in 0 .. HistorySize - 2 :
              MoreSeen(history[a][Older(current[a], n)], history'[a][Older(current[a], n)]),
           \A b \in Atomics : b # a => current'[b] = current[b] /\ history'[b] = history[b]
    PROVE  HistoryStands'
  <1>1. \A b \in Atomics : current[b] \in Slots
    BY DEF Call, TypeOK
  <1>2. \A b \in Atomics, s \in Slots : /\ history[b][s] \in Records
                                        /\ history'[b][s] \in Records
                                        /\ Bounded(history[b][s].order)
    BY DEF Call, TypeOK, KnowledgeBound, RecordBounded
  <1>3. k \in Events' /\ \A b, n, w : IsNth(b, n, w) => /\ w \in Events /\ w \in Events'
                                                         /\ w \in WritesTo(b)
    BY DEF IsNth, WritesTo, Call, Logged
  <1>4. ASSUME NEW b, NEW w \in WritesTo(b)
        PROVE  ~ Touches(k, w)'
    <2>1. w # k /\ log'[k] = e
      BY DEF WritesTo, Call, Logged
    <2> QED
      BY <2>1 DEF Touches, StoreOf, IsWrite
  <1>5. ASSUME NEW b \in Atomics, NEW n \in 0 .. HistorySize - 1, NEW s \in Slots,
               s = Older(current[b], n), NEW w, IsNth(b, n, w),
               MoreSeen(history[b][s], history'[b][s])
        PROVE  NextRecordStands(history'[b][s], w)
    <2>1. RecordStands(history[b][s], w)
      <3>1. PlaceStands(b, n)
        BY DEF Call, AllStand, HistoryStands
      <3> QED
        BY <1>3, <1>5, <3>1 DEF PlaceStands
    <2>2. w \in WritesTo(b) /\ ~ Touches(k, w)'
      BY <1>3, <1>4, <1>5
    <2>3. /\ history[b][s] \in Records /\ history'[b][s] \in Records
          /\ Bounded(history[b][s].order)
      BY <1>2
    <2> QED
      BY <1>5, <2>1, <2>2, <2>3, RecordKeeps
  <1>6. ASSUME NEW b \in Atomics, NEW n \in 0 .. HistorySize - 1, NEW s \in Slots,
               s = Older(current[b], n), MoreSeen(history[b][s], history'[b][s])
        PROVE  history'[b][s].busy <=> \E w \in Events : IsNth(b, n, w)
    <2>1. PlaceStands(b, n)
      BY DEF Call, AllStand, HistoryStands
    <2> QED
      BY <1>6, <2>1 DEF PlaceStands, MoreSeen
  <1>7. ASSUME NEW b \in Atomics, b # a, NEW n \in 0 .. HistorySize - 1
        PROVE  PlaceStands(b, n)'
    <2> DEFINE s == Older(current[b], n)
    <2>1. s \in Slots /\ s = Older(current'[b], n)
      BY <1>1, <1>7, SlotFacts
    <2>2. MoreSeen(history[b][s], history'[b][s])
      BY <1>7 DEF MoreSeen
    <2>3. \A w : IsNth(b, n, w)' <=> IsNth(b, n, w)
      BY <1>7, NthShift DEF Call
    <2> HIDE DEF s
    <2>4. s = Older(current[b], n)
      BY DEF s
    <2>5. history'[b][s].busy <=> \E w \in Events' : IsNth(b, n, w)'
      BY <1>3, <1>6, <2>1, <2>2, <2>3, <2>4
    <2>6. \A w \in Events' : IsNth(b, n, w)' => NextRecordStands(history'[b][s], w)
      BY <1>5, <2>1, <2>2, <2>3, <2>4
    <2> QED
      BY <2>1, <2>5, <2>6, NextPlace
  <1>8. PlaceStands(a, 0)'
    <2>1. Older(current'[a], 0) = Next1(current[a])
      BY <1>1, RingMoves
    <2>2. \A w : IsNth(a, 0, w)' <=> w = k
      BY NthShift DEF Call
    <2>3. history'[a][Older(current'[a], 0)].busy <=> \E w \in Events' : IsNth(a, 0, w)'
      BY <1>3, <2>1, <2>2
    <2>4. \A w \in Events' : IsNth(a, 0, w)' =>
             NextRecordStands(history'[a][Older(current'[a], 0)], w)
      BY <2>1, <2>2
    <2> QED
      BY <2>3, <2>4, NextPlace
  <1>9. ASSUME NEW n \in 0 .. HistorySize - 2
        PROVE  PlaceStands(a, n + 1)'
    <2> DEFINE s == Older(current[a], n)
    <2>1. n \in 0 .. HistorySize - 1 /\ n \in Nat
      BY DEF HistorySize
    <2>2. s \in Slots /\ s = Older(current'[a], n + 1)
      BY <1>1, <2>1, SlotFacts, RingMoves
    <2>3. MoreSeen(history[a][s], history'[a][s])
      OBVIOUS
    <2>4. \A w : IsNth(a, n + 1, w)' <=> IsNth(a, n, w)
      BY <2>1, NthShift DEF Call
    <2> HIDE DEF s
    <2>5. s = Older(current[a], n)
      BY DEF s
    <2>6. history'[a][s].busy <=> \E w \in Events' : IsNth(a, n + 1, w)'
      BY <1>3, <1>6, <2>1, <2>2, <2>3, <2>4, <2>5
    <2>7. \A w \in Events' : IsNth(a, n + 1, w)' => NextRecordStands(history'[a][s], w)
      BY <1>5, <2>1, <2>2, <2>3, <2>4, <2>5
    <2> QED
      BY <2>2, <2>6, <2>7, NextPlace
  <1>10. ASSUME NEW n \in 0 .. HistorySize - 1
         PROVE  PlaceStands(a, n)'
    <2>1. n = 0 \/ (n - 1 \in 0 .. HistorySize - 2 /\ (n - 1) + 1 = n)
      BY DEF HistorySize
    <2>2. CASE n = 0
      BY <1>8, <2>2
    <2>3. CASE n - 1 \in 0 .. HistorySize - 2 /\ (n - 1) + 1 = n
      <3> DEFINE j == n - 1
      <3>1. j \in 0 .. HistorySize - 2 /\ j + 1 = n
        BY <2>3
      <3> HIDE DEF j
      <3> QED
        BY <1>9, <3>1
    <2> QED
      BY <2>1, <2>2, <2>3
  <1> QED
    BY <1>7, <1>10 DEF HistoryStands

-----------------------------------------------------------------------------
(* Plain variables. *)

NextStampsStand(stamps, kind, v) ==
    /\ \A i \in Events' : log'[i].kind = kind /\ log'[i].obj = v =>
            log'[i].stamp <= stamps[log'[i].t] /\ initialized'[v]
    /\ \A u \in Threads : stamps[u] > 0 =>
            \E i \in Events' : /\ log'[i].kind = kind /\ log'[i].obj = v
                               /\ log'[i].t = u /\ log'[i].stamp = stamps[u]

(* Stamps that a call does not concern stand as before.                    *)
LEMMA StampsKeep ==
    ASSUME NEW e, NEW k, Call(e, k), NEW v, NEW kind, NEW stamps,
           StampsStand(stamps, kind, v), ~ (e.kind = kind /\ e.obj = v),
           initialized[v] => initialized'[v]
    PROVE  NextStampsStand(stamps, kind, v)
  <1>1. /\ Events' = Events \cup {k} /\ log'[k] = e
        /\ \A i \in Events : log'[i] = log[i]
    BY DEF Call, Logged
  <1>2. \A i \in Events' : log'[i].kind = kind /\ log'[i].obj = v => i \in Events
    BY <1>1
  <1> QED
    BY <1>1, <1>2 DEF StampsStand, NextStampsStand

(* An access stamps the variable for its thread.                           *)
LEMMA StampsMove ==
    ASSUME NEW e, NEW k, Call(e, k), NEW stamps \in Timestamps, Bounded(stamps),
           StampsStand(stamps, e.kind, e.obj), e.stamp > 0, initialized'[e.obj]
    PROVE  NextStampsStand([stamps EXCEPT ![e.t] = e.stamp], e.kind, e.obj)
  <1> DEFINE new == [stamps EXCEPT ![e.t] = e.stamp]
  <1>1. /\ Events' = Events \cup {k} /\ log'[k] = e /\ k \notin Events
        /\ \A i \in Events : log'[i] = log[i] /\ log[i].t \in Threads /\ log[i].stamp \in Nat
        /\ e.t \in Threads /\ e.stamp \in Nat
    BY DEF Call, Logged, EventSet
  <1>2. new[e.t] = e.stamp /\ \A u \in Threads : u # e.t => new[u] = stamps[u]
    BY <1>1 DEF Timestamps
  <1>3. stamps[e.t] <= e.stamp
    <2>1. stamps[e.t] <= clock[e.t][e.t]
      BY <1>1 DEF Bounded
    <2>2. stamps[e.t] \in Nat /\ clock[e.t][e.t] \in Nat
      BY <1>1 DEF Call, TypeOK, Timestamps
    <2>3. clock[e.t][e.t] < e.stamp
      BY DEF Call
    <2> QED
      BY <1>1, <2>1, <2>2, <2>3
  <1>4. \A u \in Threads : stamps[u] \in Nat
    BY DEF Timestamps
  <1> HIDE DEF new
  <1>5. ASSUME NEW i \in Events', log'[i].kind = e.kind, log'[i].obj = e.obj
        PROVE  log'[i].stamp <= new[log'[i].t] /\ initialized'[e.obj]
    <2>1. CASE i = k
      BY <1>1, <1>2, <2>1
    <2>2. CASE i # k
      <3>1. i \in Events /\ log'[i] = log[i] /\ log[i].t \in Threads /\ log[i].stamp \in Nat
        BY <1>1, <2>2
      <3>2. log[i].stamp <= stamps[log[i].t]
        BY <1>5, <3>1 DEF StampsStand
      <3>3. log[i].stamp <= new[log[i].t]
        <4>1. CASE log[i].t = e.t
          BY <1>1, <1>2, <1>3, <1>4, <3>1, <3>2, <4>1
        <4>2. CASE log[i].t # e.t
          BY <1>2, <3>1, <3>2, <4>2
        <4> QED
          BY <4>1, <4>2
      <3> QED
        BY <3>1, <3>3
    <2> QED
      BY <2>1, <2>2
  <1>6. ASSUME NEW u \in Threads, new[u] > 0
        PROVE  \E i \in Events' : /\ log'[i].kind = e.kind /\ log'[i].obj = e.obj
                                  /\ log'[i].t = u /\ log'[i].stamp = new[u]
    <2>1. CASE u = e.t
      BY <1>1, <1>2, <2>1
    <2>2. CASE u # e.t
      <3>1. PICK i \in Events : /\ log[i].kind = e.kind /\ log[i].obj = e.obj
                                /\ log[i].t = u /\ log[i].stamp = stamps[u]
        BY <1>2, <1>6, <2>2 DEF StampsStand
      <3> QED
        BY <1>1, <1>2, <2>2, <3>1
    <2> QED
      BY <2>1, <2>2
  <1> QED
    BY <1>5, <1>6 DEF NextStampsStand, new

(* The stamps of the variables in the next state.                          *)
LEMMA NextAccesses ==
    ASSUME \A v \in Vars : /\ NextStampsStand(storeStamp'[v], "varStore", v)
                           /\ NextStampsStand(loadStamp'[v], "varLoad", v)
    PROVE  AccessesStand'
  BY DEF AccessesStand, StampsStand, NextStampsStand

(* Stamps that no call touches.                                            *)
LEMMA AccessesKeep ==
    ASSUME NEW e, NEW k, Call(e, k), e.kind \notin {"varStore", "varLoad"},
           UNCHANGED plainVars
    PROVE  AccessesStand'
  <1>1. \A v \in Vars : /\ StampsStand(storeStamp[v], "varStore", v)
                        /\ StampsStand(loadStamp[v], "varLoad", v)
    BY DEF Call, AllStand, AccessesStand
  <1>2. \A v \in Vars : /\ NextStampsStand(storeStamp[v], "varStore", v)
                        /\ NextStampsStand(loadStamp[v], "varLoad", v)
    BY <1>1, StampsKeep DEF plainVars
  <1> QED
    BY <1>2, NextAccesses DEF plainVars

-----------------------------------------------------------------------------
(* The log, coherence and races. *)

(* The log stays well formed.                                              *)
LEMMA LogGrows ==
    ASSUME TypeOK, TypeOK', LogOK, NEW e \in EventSet, Record(e),
           \A u \in Threads : clock[u][u] <= clock'[u][u],
           e.stamp <= clock'[e.t][e.t], Silent(e) => e.stamp = 0,
           IsRead(e) => e.rf \in WritesTo(e.obj)
    PROVE  LogOK'
  <1> DEFINE k == Len(log) + 1
  <1>1. /\ Logged(e, k) /\ log' \in Seq(EventSet) /\ Len(past') = Len(log')
        /\ Predecessors(e) \subseteq Events
    BY RecordLogs
  <1>2. Events = 1 .. Len(log) /\ Len(log) \in Nat
    BY LogFacts
  <1> DEFINE new == {k} \cup Pasts(Predecessors(e))
  <1>3. past' = Append(past, new)
    BY DEF Record, Pasts
  <1>4. new \subseteq 1 .. k /\ k \in new
    <2>1. Pasts(Predecessors(e)) \subseteq Events
      BY <1>1, PastsAreEvents
    <2> QED
      BY <1>2, <2>1
  <1>5. past' \in Seq(SUBSET Nat)
    BY <1>2, <1>3, <1>4 DEF LogOK
  <1>6. past'[k] = new
    BY <1>1 DEF Logged
  <1> HIDE DEF k, new
  <1>7. ASSUME NEW i \in Events' PROVE EntryOK(i)'
    <2>1. CASE i = k
      <3>1. log'[i] = e /\ e.t \in Threads /\ e.stamp \in Nat
        BY <1>1, <2>1 DEF Logged, EventSet
      <3>2. IsRead(e) => e.rf \in WritesTo(e.obj)' /\ e.rf < i
        <4>1. IsRead(e) => e.rf \in WritesTo(e.obj) /\ e.rf < k
          BY <1>1, WritesGrow
        <4>2. ASSUME NEW a PROVE WritesTo(a) \subseteq WritesTo(a)'
          BY <1>1, WritesGrow
        <4>3. ASSUME NEW a, a = e.obj PROVE WritesTo(e.obj) \subseteq WritesTo(a)'
          BY <4>2, <4>3
        <4> QED
          BY <2>1, <4>1, <4>3
      <3>3. IsRead(log[i])' => log'[i].rf \in WritesTo(log[i].obj)' /\ log'[i].rf < i
        BY <3>1, <3>2 DEF IsRead, WritesTo, IsWrite
      <3>4. log'[i].stamp <= clock'[log'[i].t][log'[i].t]
        BY <3>1
      <3>5. Silent(log[i])' => log'[i].stamp = 0
        BY <3>1 DEF Silent
      <3> QED
        BY <1>4, <1>6, <2>1, <3>3, <3>4, <3>5 DEF EntryOK
    <2>2. CASE i # k
      <3>1. i \in Events /\ log'[i] = log[i] /\ past'[i] = past[i]
        BY <1>1, <2>2 DEF Logged
      <3>2. EntryOK(i) /\ log[i] \in EventSet
        BY <3>1, LogFacts
      <3>3. log[i].t \in Threads /\ log[i].stamp \in Nat
        BY <3>2 DEF EventSet
      <3>4. /\ clock[log[i].t][log[i].t] \in Nat /\ clock'[log[i].t][log[i].t] \in Nat
            /\ clock[log[i].t][log[i].t] <= clock'[log[i].t][log[i].t]
        BY <3>3 DEF TypeOK, Timestamps
      <3>5. log[i].stamp <= clock'[log[i].t][log[i].t]
        BY <3>2, <3>3, <3>4 DEF EntryOK
      <3>6. IsRead(log[i])' => log'[i].rf \in WritesTo(log[i].obj)' /\ log'[i].rf < i
        <4>1. IsRead(log[i]) => log[i].rf \in WritesTo(log[i].obj) /\ log[i].rf < i
          BY <3>2 DEF EntryOK
        <4>2. WritesTo(log[i].obj) \subseteq
                 {j \in Events' : IsWrite(log'[j]) /\ log'[j].obj = log[i].obj}
          BY <1>1 DEF WritesTo, Logged
        <4> QED
          BY <3>1, <4>1, <4>2 DEF WritesTo, IsRead, IsWrite
      <3> QED
        BY <3>1, <3>2, <3>5, <3>6 DEF EntryOK, Silent
    <2> QED
      BY <2>1, <2>2
  <1> QED
    BY <1>1, <1>5, <1>7 DEF LogOK

(* The past of the new call, but for itself, is made of earlier calls.     *)
LEMMA NewPastOld ==
    ASSUME LogOK, NEW e, NEW k, Logged(e, k)
    PROVE  past'[k] \ {k} \subseteq Events /\ \A i \in Events : k \notin past'[i]
  <1>1. Predecessors(e) \in SUBSET Events
    BY DEF Predecessors
  <1>2. Pasts(Predecessors(e)) \subseteq Events
    BY <1>1, PastsAreEvents
  <1>3. \A i \in Events : past'[i] = past[i] /\ past[i] \subseteq Events
    BY LogFacts DEF Logged
  <1> QED
    BY <1>2, <1>3 DEF Logged

(* Coherence is kept if the new call respects it.                          *)
LEMMA CoherentGrows ==
    ASSUME LogOK, NEW e, NEW k, Logged(e, k), CoherentHistory, SeqCstReads,
           IsRead(e) =>
              \A i \in past'[k] \ {k} :
                 (IsRead(log[i]) \/ IsWrite(log[i])) /\ log[i].obj = e.obj
                    => StoreOf(i) <= e.rf,
           IsRead(e) /\ e.mo = "seq_cst" =>
              \A i \in Events :
                 IsWrite(log[i]) /\ log[i].mo = "seq_cst" /\ log[i].obj = e.obj => i <= e.rf
    PROVE  CoherentHistory' /\ SeqCstReads'
  <1>1. /\ Events' = Events \cup {k} /\ log'[k] = e /\ k \notin Events /\ k \in Nat
        /\ \A i \in Events : log'[i] = log[i] /\ past'[i] = past[i] /\ i \in Nat /\ i < k
    BY DEF Logged
  <1>2. \A i \in Events : past[i] \subseteq Events
    BY LogFacts
  <1>3. past'[k] \ {k} \subseteq Events
    BY NewPastOld
  <1>4. \A j \in Events' : \A i \in 1 .. j - 1 : i \in Events
    <2>1. Events = 1 .. k - 1
      BY DEF Logged
    <2>2. \A j \in Events' : j \in Nat /\ j <= k
      BY <1>1
    <2> QED
      BY <1>1, <2>1, <2>2
  <1>5. \A i \in Events : /\ (IsRead(log[i]) <=> IsRead(log[i])')
                          /\ (IsWrite(log[i]) <=> IsWrite(log[i])')
                          /\ StoreOf(i)' = StoreOf(i)
    BY <1>1 DEF IsRead, IsWrite, StoreOf
  <1>6. CoherentHistory'
    <2> SUFFICES ASSUME NEW j \in Events', IsRead(log[j])', NEW i \in past'[j] \ {j},
                        (IsRead(log[i]) \/ IsWrite(log[i]))', log'[i].obj = log'[j].obj
                 PROVE  StoreOf(i)' <= log'[j].rf
      BY DEF CoherentHistory
    <2>1. i \in Events
      BY <1>1, <1>2, <1>3
    <2>2. CASE j = k
      <3>1. IsRead(e) /\ log[i].obj = e.obj /\ (IsRead(log[i]) \/ IsWrite(log[i]))
        BY <1>1, <1>5, <2>1, <2>2 DEF IsRead
      <3>2. StoreOf(i) <= e.rf
        BY <2>2, <3>1
      <3> QED
        BY <1>1, <1>5, <2>1, <2>2, <3>2
    <2>3. CASE j # k
      <3>1. j \in Events /\ i \in past[j] \ {j} /\ log[i].obj = log[j].obj /\ IsRead(log[j])
               /\ (IsRead(log[i]) \/ IsWrite(log[i]))
        BY <1>1, <1>5, <2>1, <2>3
      <3>2. StoreOf(i) <= log[j].rf
        BY <3>1 DEF CoherentHistory
      <3> QED
        BY <1>1, <1>5, <2>1, <3>1, <3>2
    <2> QED
      BY <2>2, <2>3
  <1>7. SeqCstReads'
    <2> SUFFICES ASSUME NEW j \in Events', IsRead(log[j])', log'[j].mo = "seq_cst",
                        NEW i \in 1 .. j - 1, IsWrite(log[i])', log'[i].mo = "seq_cst",
                        log'[i].obj = log'[j].obj
                 PROVE  i <= log'[j].rf
      BY DEF SeqCstReads
    <2>1. i \in Events
      BY <1>4
    <2>2. CASE j = k
      <3>1. /\ IsRead(e) /\ e.mo = "seq_cst" /\ log[i].obj = e.obj /\ IsWrite(log[i])
            /\ log[i].mo = "seq_cst"
        BY <1>1, <1>5, <2>1, <2>2 DEF IsRead
      <3> QED
        BY <1>1, <2>1, <2>2, <3>1
    <2>3. CASE j # k
      <3>1. /\ j \in Events /\ log[i].obj = log[j].obj /\ IsRead(log[j]) /\ IsWrite(log[i])
            /\ log[i].mo = "seq_cst" /\ log[j].mo = "seq_cst"
        BY <1>1, <1>5, <2>1, <2>3
      <3>2. i <= log[j].rf
        BY <3>1 DEF SeqCstReads
      <3> QED
        BY <1>1, <3>1, <3>2
    <2> QED
      BY <2>2, <2>3
  <1> QED
    BY <1>6, <1>7

(* There is a race after a call if there was one, or if the call conflicts *)
(* with an earlier one that does not happen before it.                     *)
LEMMA RaceGrows ==
    ASSUME LogOK, NEW e, NEW k, Logged(e, k)
    PROVE  HasRace' <=> HasRace \/ \E i \in Events : Conflict(log[i], e) /\ i \notin past'[k]
  <1>1. /\ Events' = Events \cup {k} /\ log'[k] = e /\ k \notin Events /\ k \in Nat
        /\ \A i \in Events : log'[i] = log[i] /\ past'[i] = past[i] /\ i \in Nat /\ i < k
        /\ Events = 1 .. k - 1
    BY DEF Logged
  <1>2. \A j \in Events : \A i \in 1 .. j - 1 : i \in Events
    BY <1>1
  <1>3. HasRace' <=> \E j \in Events' : \E i \in 1 .. j - 1 :
                        Conflict(log'[i], log'[j]) /\ i \notin past'[j]
    BY DEF HasRace, Conflict
  <1>4. (\E i \in 1 .. k - 1 : Conflict(log'[i], log'[k]) /\ i \notin past'[k])
          <=> \E i \in Events : Conflict(log[i], e) /\ i \notin past'[k]
    BY <1>1 DEF Conflict
  <1>5. ASSUME NEW j \in Events
        PROVE  (\E i \in 1 .. j - 1 : Conflict(log'[i], log'[j]) /\ i \notin past'[j])
                 <=> \E i \in 1 .. j - 1 : Conflict(log[i], log[j]) /\ i \notin past[j]
    BY <1>1, <1>2 DEF Conflict
  <1> QED
    BY <1>1, <1>3, <1>4, <1>5 DEF HasRace

-----------------------------------------------------------------------------
(* The calls, one by one. *)

(* What makes a step a Call.                                               *)
LEMMA MakesCall ==
    ASSUME TypeOK, TypeOK', KnowledgeBound, LogOK, AllStand, ~ Cxx0xSequences,
           NEW e \in EventSet, Record(e),
           e.stamp = 0 \/ clock[e.t][e.t] < e.stamp, Silent(e) <=> e.stamp = 0,
           IsRead(e) => e.rf \in WritesTo(e.obj)
    PROVE  Call(e, Len(log) + 1)
  BY RecordLogs DEF Call

(* The own clocks grow, those of the other threads at most to what they    *)
(* were.                                                                   *)
OwnGrow == \A u \in Threads : clock[u][u] <= clock'[u][u]

(* A call that ends in a live state keeps the invariant, if the clocks     *)
(* stand, the call is coherent and races with nothing.                     *)
LEMMA LiveCall ==
    ASSUME NEW e, NEW k, Call(e, k), Record(e), k = Len(log) + 1,
           profile \in Profiles, UNCHANGED profile, result' = "none", ~ HasRace,
           CoherentHistory, SeqCstReads, OwnGrow, e.stamp <= clock'[e.t][e.t],
           ThreadsStand', SharedStand', HistoryStands', AccessesStand',
           IsRead(e) =>
              \A i \in past'[k] \ {k} :
                 (IsRead(log[i]) \/ IsWrite(log[i])) /\ log[i].obj = e.obj
                    => StoreOf(i) <= e.rf,
           IsRead(e) /\ e.mo = "seq_cst" =>
              \A i \in Events :
                 IsWrite(log[i]) /\ log[i].mo = "seq_cst" /\ log[i].obj = e.obj => i <= e.rf,
           \A i \in Events : Conflict(log[i], e) => i \in past'[k]
    PROVE  HBInv'
  <1>1. Logged(e, k) /\ e \in EventSet /\ LogOK
    BY DEF Call, Logged
  <1>2. LogOK'
    BY <1>1, LogGrows DEF Call, OwnGrow
  <1>3. CoherentHistory' /\ SeqCstReads'
    BY <1>1, CoherentGrows
  <1>4. ~ HasRace'
    BY <1>1, RaceGrows
  <1>5. Stamped'
    <2> SUFFICES ASSUME NEW i \in Events', ~ Silent(log[i])' PROVE log'[i].stamp > 0
      BY DEF Stamped
    <2>1. CASE i = k
      <3>1. log'[i] = e /\ e.stamp \in Nat
        BY <1>1, <2>1 DEF Logged, EventSet
      <3> QED
        BY <3>1 DEF Silent, Call
    <2>2. CASE i # k
      <3>1. i \in Events /\ log'[i] = log[i]
        BY <1>1, <2>2 DEF Logged
      <3>2. ~ Silent(log[i])
        BY <3>1 DEF Silent
      <3> QED
        BY <3>1, <3>2 DEF Call, AllStand, Stamped
    <2> QED
      BY <2>1, <2>2
  <1>6. AllStand'
    BY <1>5 DEF AllStand
  <1>7. (profile \in Profiles)'
    OBVIOUS
  <1>8. (result = "none")'
    OBVIOUS
  <1> QED
    BY <1>2, <1>3, <1>4, <1>6, <1>7, <1>8 DEF HBInv

(* A load goes back n stores, past stores its thread does not know of.     *)
LEMMA ReadIsCoherent ==
    ASSUME NEW e, NEW k, Call(e, k), IsRead(e), NEW t \in Threads, e.t = t,
           NEW a \in Atomics, e.obj = a, NEW n \in 0 .. LoadLimit,
           IsNth(a, n, e.rf),
           \A j \in 0 .. n - 1 : MaySkip(t, a, e.mo, Older(current[a], j))
    PROVE  /\ \A i \in past'[k] \ {k} :
                 (IsRead(log[i]) \/ IsWrite(log[i])) /\ log[i].obj = e.obj
                    => StoreOf(i) <= e.rf
           /\ e.mo = "seq_cst" =>
              \A i \in Events :
                 IsWrite(log[i]) /\ log[i].mo = "seq_cst" /\ log[i].obj = e.obj => i <= e.rf
  <1>1. LogOK /\ Logged(e, k) /\ ~ Cxx0xSequences
    BY DEF Call
  <1>2. WritesTo(a) \in SUBSET Nat /\ WritesTo(a) \subseteq Events /\ e.rf \in WritesTo(a)
    BY <1>1, WritesFacts DEF IsNth
  <1>3. LoadLimit \in 0 .. HistorySize - 1 /\ n \in Nat
    BY DEF LoadLimit, HistorySize
  <1>4. ASSUME NEW w \in WritesTo(a), e.rf < w
        PROVE  \E m \in 0 .. n - 1 :
                 LET rec == history[a][Older(current[a], m)]
                 IN  MaySkip(t, a, e.mo, Older(current[a], m)) /\ RecordStands(rec, w)
    <2>1. PICK m \in Nat : m < n /\ IsNth(a, m, w)
      BY <1>1, <1>4, NthFacts
    <2>2. m \in 0 .. n - 1 /\ m \in 0 .. HistorySize - 1
      BY <1>3, <2>1 DEF HistorySize
    <2>3. PlaceStands(a, m)
      BY <2>2 DEF Call, AllStand, HistoryStands
    <2>4. RecordStands(history[a][Older(current[a], m)], w)
      BY <1>2, <2>1, <2>3 DEF PlaceStands
    <2> QED
      BY <2>2, <2>4
  <1>5. ASSUME NEW i \in past'[k] \ {k}, IsRead(log[i]) \/ IsWrite(log[i]),
               log[i].obj = a
        PROVE  StoreOf(i) <= e.rf
    <2>1. i \in Events /\ log[i] \in EventSet /\ EntryOK(i) /\ i \in Nat
      BY <1>1, NewPastOld, LogFacts
    <2> DEFINE w == StoreOf(i)
    <2>2. w \in WritesTo(a) /\ w <= i
      <3>1. CASE log[i].kind = "load"
        <4>1. log[i].rf \in WritesTo(a) /\ log[i].rf < i /\ w = log[i].rf
          BY <1>5, <2>1, <3>1 DEF StoreOf, EntryOK, IsRead
        <4>2. log[i].rf \in Nat
          BY <1>2, <4>1
        <4> HIDE DEF w
        <4> QED
          BY <2>1, <4>1, <4>2
      <3>2. CASE log[i].kind # "load"
        BY <1>5, <2>1, <3>2 DEF StoreOf, IsRead, IsWrite, WritesTo
      <3> QED
        BY <3>1, <3>2
    <2>3. i \in PastOf(t) \/ i \in ReleasePast(e.rf)
      <3>1. e.kind \notin {"global", "fence", "sync"}
        BY DEF IsRead
      <3> QED
        BY <1>1, <3>1, NewPast
    <2>4. ASSUME i \in ReleasePast(e.rf) PROVE i <= e.rf
      <3>1. PICK r \in ReleasedBy(e.rf) : i \in past[r]
        BY <2>4 DEF ReleasePast, Pasts
      <3>2. r <= e.rf /\ r \in Events
        BY <1>1, <1>2, ReleaseKeeps
      <3>3. i <= r /\ r \in Nat
        BY <1>1, <3>1, <3>2, LogFacts
      <3> QED
        BY <1>2, <2>1, <3>2, <3>3
    <2>5. ASSUME i \in PastOf(t) PROVE ~ (e.rf < w)
      <3> SUFFICES ASSUME e.rf < w PROVE FALSE
        OBVIOUS
      <3>1. PICK m \in 0 .. n - 1 :
               /\ MaySkip(t, a, e.mo, Older(current[a], m))
               /\ RecordStands(history[a][Older(current[a], m)], w)
        BY <1>4, <2>2
      <3> DEFINE rec == history[a][Older(current[a], m)]
      <3>2. SeenBy(rec, log[i].t, log[i].stamp)
        BY <1>5, <2>1, <3>1 DEF RecordStands, Touches
      <3>3. log[i].stamp > 0
        <4>1. ~ Silent(log[i])
          BY <1>5 DEF Silent, IsRead, IsWrite
        <4> QED
          BY <2>1, <4>1 DEF Call, AllStand, Stamped
      <3>4. Stands(clock[t], PastOf(t))
        BY DEF Call, AllStand, ThreadsStand, ThreadStands
      <3>5. log[i].t \in Threads /\ log[i].stamp \in Nat
        BY <2>1 DEF EventSet
      <3>6. clock[t][log[i].t] >= log[i].stamp
        BY <2>1, <2>5, <3>3, <3>4 DEF Stands
      <3>7. clock[t][log[i].t] \in Nat
        <4>1. clock[t] \in Timestamps
          BY DEF Call, TypeOK
        <4> QED
          BY <3>5, <4>1 DEF Timestamps
      <3>8. rec.firstSeen[log[i].t] \in Nat
        <4>1. m \in 0 .. HistorySize - 1
          BY <1>3 DEF HistorySize
        <4>2. Older(current[a], m) \in Slots
          BY <4>1, SlotFacts DEF Call, TypeOK
        <4>3. rec \in Records
          BY <4>2 DEF Call, TypeOK
        <4>4. rec.firstSeen[log[i].t] \in Nat \cup {NotSeen}
          BY <3>5, <4>3 DEF Records
        <4> QED
          BY <3>2, <4>4 DEF SeenBy
      <3>9. SeenBy(rec, log[i].t, clock[t][log[i].t])
        <4>1. rec.firstSeen[log[i].t] <= log[i].stamp
          BY <3>2 DEF SeenBy
        <4>2. rec.firstSeen[log[i].t] <= clock[t][log[i].t]
          BY <3>5, <3>6, <3>7, <3>8, <4>1
        <4> QED
          BY <3>2, <4>2 DEF SeenBy
      <3> QED
        BY <3>1, <3>5, <3>9 DEF MaySkip, Knows
    <2>6. w \in Nat /\ e.rf \in Nat
      BY <1>2, <2>2
    <2> HIDE DEF w
    <2>7. w <= e.rf
      BY <2>1, <2>2, <2>3, <2>4, <2>5, <2>6
    <2> QED
      BY <2>7 DEF w
  <1>6. ASSUME e.mo = "seq_cst", NEW i \in Events, IsWrite(log[i]),
               log[i].mo = "seq_cst", log[i].obj = a
        PROVE  i <= e.rf
    <2>1. i \in WritesTo(a)
      BY <1>6 DEF WritesTo
    <2>2. ASSUME e.rf < i PROVE FALSE
      BY <1>4, <1>6, <2>1, <2>2 DEF RecordStands, MaySkip
    <2> QED
      BY <1>2, <2>1, <2>2
  <1> QED
    BY <1>5, <1>6

(* The clock after a read: d is the loaded clock, ticked once more by a    *)
(* read-modify-write.                                                      *)
LEMMA ReadClocks ==
    ASSUME NEW e, NEW k, Call(e, k), IsRead(e), NEW t \in Threads, e.t = t,
           NEW rec \in Records, Stands(rec.order, ReleasePast(e.rf)),
           Bounded(rec.order), NEW d \in Timestamps, e.stamp = d[t],
           LoadedClock(t, rec, e.mo)[t] <= d[t],
           \A i \in Threads : i # t => d[i] = LoadedClock(t, rec, e.mo)[i]
    PROVE  /\ NextStands(d, past'[k]) /\ NextStands(rec.order, ReleasePast(e.rf))
           /\ \A i \in Threads : clock[t][i] <= d[i]
           /\ LoadedClock(t, rec, e.mo)[t] = clock[t][t] + 1
  <1> DEFINE own == Tick(clock[t], t)
             c == LoadedClock(t, rec, e.mo)
             b == IF Acquires(e.mo) THEN AssignMax(clock[t], rec.order) ELSE clock[t]
             S == PastOf(t) \cup (IF Acquires(e.mo) THEN ReleasePast(e.rf) ELSE {})
  <1>1. clock[t] \in Timestamps /\ rec.order \in Timestamps /\ LogOK
    BY DEF Call, TypeOK, Records
  <1>2. /\ own \in Timestamps /\ own[t] = clock[t][t] + 1
        /\ \A i \in Threads : i # t => own[i] = clock[t][i]
    BY <1>1, TickFacts
  <1>3. AssignMax(clock[t], rec.order) \in Timestamps
          /\ Joins(AssignMax(clock[t], rec.order), clock[t], rec.order)
    BY <1>1, AssignMaxJoins
  <1>4. c = IF Acquires(e.mo) THEN AssignMax(own, rec.order) ELSE own
    BY DEF LoadedClock
  <1>5. rec.order[t] <= clock[t][t]
    BY DEF Bounded
  <1>6. PastOf(t) \in SUBSET Events /\ ReleasePast(e.rf) \in SUBSET Events
    BY <1>1, PastsAreEvents
  <1>7. Stands(clock[t], PastOf(t))
    BY DEF Call, AllStand, ThreadsStand, ThreadStands
  <1>8. past'[k] = S \cup {k}
    <2>1. e.kind \notin {"global", "fence", "sync"}
      BY DEF IsRead
    <2>2. past'[k] = {k} \cup PastOf(e.t)
              \cup (IF IsRead(e) /\ Acquires(e.mo) THEN ReleasePast(e.rf) ELSE {})
              \cup (IF e.kind = "fence" /\ Acquires(e.mo) THEN AcquirePast(e.t) ELSE {})
              \cup (IF e.kind = "fence" /\ e.mo = "seq_cst"
                    THEN Pasts(SeqCstFences) ELSE {})
              \cup (IF e.kind = "sync" /\ Acquires(e.mo)
                    THEN Pasts(SyncReleases(e.obj)) ELSE {})
      BY <2>1, NewPast DEF Call
    <2> QED
      BY <2>1, <2>2
  <1> HIDE DEF own
  <1>9. c[t] = clock[t][t] + 1 /\ \A i \in Threads : i # t => c[i] = b[i]
    <2>1. clock[t][t] \in Nat /\ rec.order[t] \in Nat
      BY <1>1 DEF Timestamps
    <2>2. CASE Acquires(e.mo)
      <3>1. \A i \in Threads :
               /\ c[i] = IF rec.order[i] > own[i] THEN rec.order[i] ELSE own[i]
               /\ b[i] = IF rec.order[i] > clock[t][i] THEN rec.order[i] ELSE clock[t][i]
        BY <1>4, <2>2 DEF AssignMax
      <3>2. ~ (rec.order[t] > own[t])
        BY <1>2, <1>5, <2>1
      <3> HIDE DEF c, b
      <3> QED
        BY <1>2, <3>1, <3>2
    <2>3. CASE ~ Acquires(e.mo)
      BY <1>2, <1>4, <2>3
    <2> QED
      BY <2>2, <2>3
  <1>10. b \in Timestamps /\ Stands(b, S) /\ b[t] = clock[t][t]
    <2>1. CASE Acquires(e.mo)
      <3>1. Stands(AssignMax(clock[t], rec.order), PastOf(t) \cup ReleasePast(e.rf))
        BY <1>1, <1>3, <1>7, StandsJoin
      <3>2. AssignMax(clock[t], rec.order)[t] = clock[t][t]
        <4>1. clock[t][t] \in Nat /\ rec.order[t] \in Nat
          BY <1>1 DEF Timestamps
        <4> QED
          BY <1>5, <4>1 DEF AssignMax
      <3> QED
        BY <1>3, <2>1, <3>1, <3>2
    <2>2. CASE ~ Acquires(e.mo)
      BY <1>1, <1>7, <2>2
    <2> QED
      BY <2>1, <2>2
  <1>11. \A i \in Threads : clock[t][i] <= b[i] /\ clock[t][i] \in Nat
    <2>1. \A i \in Threads : clock[t][i] \in Nat
      BY <1>1 DEF Timestamps
    <2>2. CASE Acquires(e.mo)
      BY <1>3, <2>1, <2>2 DEF Joins
    <2>3. CASE ~ Acquires(e.mo)
      <3>1. ASSUME NEW i \in Threads PROVE clock[t][i] <= clock[t][i]
        <4>1. clock[t][i] \in Nat
          BY <2>1
        <4> QED
          BY ONLY <4>1
      <3> QED
        BY <2>1, <2>3, <3>1
    <2> QED
      BY <2>2, <2>3
  <1>12. S \in SUBSET Events
    BY <1>6
  <1> HIDE DEF c, b, S
  <1>13. c[t] <= d[t] /\ \A i \in Threads : i # t => d[i] = c[i]
    BY DEF c
  <1>14. b[t] < d[t] /\ d[t] \in Nat
    <2>1. clock[t][t] \in Nat /\ d[t] \in Nat
      BY <1>1 DEF Timestamps
    <2> QED
      BY <1>9, <1>10, <1>13, <2>1
  <1>15. NextStands(d, S \cup {k})
    <2>1. Logged(e, k)
      BY DEF Call
    <2>2. b[e.t] = clock[e.t][e.t] /\ b[e.t] < d[e.t] /\ e.stamp = d[e.t]
          /\ \A i \in Threads : i # e.t => d[i] = b[i]
      BY <1>9, <1>10, <1>13, <1>14
    <2> QED
      BY <1>1, <1>10, <1>12, <2>1, <2>2, StandsTick
  <1>16. \A i \in Threads : clock[t][i] <= d[i]
    <2> TAKE i \in Threads
    <2>1. CASE i = t
      BY <1>10, <1>11, <1>14, <2>1
    <2>2. CASE i # t
      BY <1>9, <1>11, <1>13, <2>2
    <2> QED
      BY <2>1, <2>2
  <1>17. NextStands(rec.order, ReleasePast(e.rf))
    BY <1>1, <1>6, OldStands
  <1> QED
    BY <1>8, <1>9, <1>15, <1>16, <1>17 DEF c

(* The clocks after a call that reads no atomic: that of its thread        *)
(* becomes d.                                                              *)
LEMMA OneThread ==
    ASSUME NEW e, NEW k, Call(e, k), e.kind # "global", ~ IsRead(e),
           NEW t \in Threads, e.t = t,
           NEW d \in Timestamps, clock' = [clock EXCEPT ![t] = d],
           NextStands(d, past'[k]), \A i \in Threads : clock[t][i] <= d[i],
           acquireFence' = acquireFence,
           \A u \in Threads : releaseFence'[u] =
              IF u = t /\ e.kind = "fence" /\ Releases(e.mo) THEN d ELSE releaseFence[u]
    PROVE  ThreadsStand' /\ OwnGrow /\ clock'[t] = d
  <1>1. /\ clock \in [Threads -> Timestamps] /\ acquireFence \in [Threads -> Timestamps]
        /\ releaseFence \in [Threads -> Timestamps]
    BY DEF Call, TypeOK
  <1>2. clock'[t] = d /\ \A u \in Threads : u # t => clock'[u] = clock[u]
    BY <1>1
  <1>3. \A u \in Threads : acquireFence'[u] = acquireFence[u]
    OBVIOUS
  <1>4. /\ \A u \in Threads : u # t => releaseFence'[u] = releaseFence[u]
        /\ IF e.kind = "fence" /\ Releases(e.mo) THEN releaseFence'[t] = d
           ELSE releaseFence'[t] = releaseFence[t]
    BY <1>1
  <1>5. ThreadStands(t)'
    <2>1. t = e.t /\ NextStands(clock'[t], past'[k])
            /\ \A i \in Threads : clock[t][i] <= clock'[t][i]
      BY <1>2
    <2>2. IF e.kind = "fence" /\ Releases(e.mo) THEN releaseFence'[t] = clock'[t]
          ELSE releaseFence'[t] = releaseFence[t]
      BY <1>2, <1>4
    <2>3. \E order \in Timestamps : TRUE
      OBVIOUS
    <2> QED
      BY <1>3, <2>1, <2>2, <2>3, ActorStands
  <1>6. ASSUME NEW u \in Threads, u # t PROVE ThreadStands(u)'
    <2>1. /\ clock'[u] = clock[u] /\ acquireFence'[u] = acquireFence[u]
          /\ releaseFence'[u] = releaseFence[u] /\ u # e.t
      BY <1>2, <1>3, <1>4, <1>6
    <2> QED
      BY <2>1, OthersStand
  <1>7. ThreadsStand'
    BY <1>5, <1>6 DEF ThreadsStand
  <1>8. ASSUME NEW u \in Threads PROVE clock[u][u] <= clock'[u][u]
    <2>1. clock[u][u] \in Nat
      BY <1>1 DEF Timestamps
    <2>2. CASE u = t
      BY <1>2, <2>2
    <2>3. CASE u # t
      <3>1. clock'[u] = clock[u]
        BY <1>2, <2>3
      <3> QED
        BY <2>1, <3>1
    <2> QED
      BY <2>2, <2>3
  <1> QED
    BY <1>2, <1>7, <1>8 DEF OwnGrow

(* A call that acquires nothing only ticks the clock of its thread.        *)
LEMMA TickClocks ==
    ASSUME NEW e, NEW k, Call(e, k), ~ IsRead(e), e.kind \notin {"fence", "global"},
           e.kind = "sync" => ~ Acquires(e.mo), NEW t \in Threads, e.t = t,
           e.stamp = clock[t][t] + 1
    PROVE  LET d == Tick(clock[t], t)
           IN  /\ d \in Timestamps /\ NextStands(d, past'[k]) /\ d[t] = e.stamp
               /\ \A i \in Threads : clock[t][i] <= d[i]
  <1> DEFINE d == Tick(clock[t], t)
  <1>1. clock[t] \in Timestamps /\ LogOK /\ Logged(e, k)
    BY DEF Call, TypeOK
  <1>2. /\ d \in Timestamps /\ d[t] = clock[t][t] + 1
        /\ \A i \in Threads : i # t => d[i] = clock[t][i]
    BY <1>1, TickFacts
  <1>3. \A i \in Threads : clock[t][i] \in Nat
    BY <1>1 DEF Timestamps
  <1> HIDE DEF d
  <1>4. \A i \in Threads : clock[t][i] <= d[i]
    <2> SUFFICES ASSUME NEW i \in Threads PROVE clock[t][i] <= d[i]
      OBVIOUS
    <2>1. clock[t][i] \in Nat
      BY <1>3
    <2>2. CASE i = t
      BY <1>2, <2>1, <2>2
    <2>3. CASE i # t
      <3>1. d[i] = clock[t][i]
        BY <1>2, <2>3
      <3> QED
        BY ONLY <2>1, <3>1
    <2> QED
      BY <2>2, <2>3
  <1>5. past'[k] = PastOf(t) \cup {k}
    <2>1. past'[k] = {k} \cup PastOf(e.t)
              \cup (IF IsRead(e) /\ Acquires(e.mo) THEN ReleasePast(e.rf) ELSE {})
              \cup (IF e.kind = "fence" /\ Acquires(e.mo) THEN AcquirePast(e.t) ELSE {})
              \cup (IF e.kind = "fence" /\ e.mo = "seq_cst"
                    THEN Pasts(SeqCstFences) ELSE {})
              \cup (IF e.kind = "sync" /\ Acquires(e.mo)
                    THEN Pasts(SyncReleases(e.obj)) ELSE {})
      BY NewPast DEF Call
    <2> QED
      BY <2>1
  <1>6. Stands(clock[t], PastOf(t)) /\ PastOf(t) \in SUBSET Events
    BY <1>1, PastsAreEvents DEF Call, AllStand, ThreadsStand, ThreadStands
  <1>7. clock[t][t] < d[t]
    BY <1>2, <1>3
  <1>8. NextStands(d, PastOf(t) \cup {k})
    <2>1. /\ clock[t][e.t] = clock[e.t][e.t] /\ clock[t][e.t] < d[e.t] /\ e.stamp = d[e.t]
          /\ \A i \in Threads : i # e.t => d[i] = clock[t][i]
      BY <1>2, <1>7
    <2> QED
      BY <1>1, <1>2, <1>6, <2>1, StandsTick
  <1> QED
    BY <1>2, <1>4, <1>5, <1>8 DEF d

(* The record of a new store: its order joins what the store publishes     *)
(* with what the release sequence carries (atomic_store).                  *)
LEMMA NewRecord ==
    ASSUME NEW e, NEW k, Call(e, k), IsWrite(e), NEW t \in Threads, e.t = t,
           NEW a \in Atomics, e.obj = a, NEW c \in Timestamps, c[t] = e.stamp,
           NextStands(c, past'[k]), NEW x \in Values,
           NEW rmw \in BOOLEAN, rmw <=> e.kind = "rmw", e.stamp > 0
    PROVE  LET new == StoreRecord(t, c, Newest(a), e.mo, rmw, x)
           IN  new.busy /\ NextRecordStands(new, k)
  <1> DEFINE prev == Newest(a)
             source == IF Releases(e.mo) THEN c ELSE releaseFence[t]
             preserve == prev.busy /\ (rmw \/ prev.thread = t)
             order == IF preserve THEN AssignMax(prev.order, source) ELSE source
             seen == [i \in Threads |-> IF i = t THEN c[t] ELSE NotSeen]
             new == StoreRecord(t, c, prev, e.mo, rmw, x)
             S == (IF Releases(e.mo) THEN past'[k] ELSE {}) \cup Pasts(FencesOf(t))
  <1>1. /\ LogOK /\ Logged(e, k) /\ ~ Cxx0xSequences /\ TypeOK /\ log' \in Seq(EventSet)
        /\ current[a] \in Slots
    BY DEF Call, TypeOK
  <1>2. /\ new.busy /\ new.seqCst = (e.mo = "seq_cst") /\ new.thread = t
        /\ new.timestamp = c[t] /\ new.order = order /\ new.firstSeen = seen
    BY DEF StoreRecord
  <1>3. /\ Events' = Events \cup {k} /\ log'[k] = e /\ k \notin Events
        /\ \A i \in Events : log'[i] = log[i]
    BY <1>1 DEF Logged
  <1>4. prev \in Records /\ prev.order \in Timestamps /\ Bounded(prev.order)
    BY <1>1 DEF Call, TypeOK, Newest, KnowledgeBound, RecordBounded, Records
  <1>5. releaseFence[t] \in Timestamps /\ Bounded(releaseFence[t])
    BY DEF Call, TypeOK, KnowledgeBound, ThreadsBounded
  <1>6. source \in Timestamps
    BY <1>5
  <1>7. Pasts(FencesOf(t)) \in SUBSET Events /\ Pasts(FencesOf(t)) \subseteq PastOf(t)
    BY <1>1, PastsAreEvents
  <1>8. PastOf(t) \subseteq past'[k]
    <2>1. e.kind # "global"
      BY DEF IsWrite
    <2> QED
      BY <1>1, <2>1, NewPast
  <1>9. NextStands(source, S)
    <2>1. CASE Releases(e.mo)
      <3>1. S = past'[k]
        BY <1>7, <1>8, <2>1
      <3> QED
        BY <2>1, <3>1
    <2>2. CASE ~ Releases(e.mo)
      <3>1. Stands(releaseFence[t], Pasts(FencesOf(t)))
        BY DEF Call, AllStand, ThreadsStand, ThreadStands
      <3>2. NextStands(releaseFence[t], Pasts(FencesOf(t)))
        BY <1>5, <1>7, <3>1, OldStands
      <3> QED
        BY <2>2, <3>2
    <2> QED
      BY <2>1, <2>2
  <1>10. PlaceStands(a, 0) /\ Older(current[a], 0) = current[a]
    <2>1. 0 \in 0 .. HistorySize - 1
      BY DEF HistorySize
    <2> QED
      BY <1>1, <2>1, RingMoves DEF Call, AllStand, HistoryStands
  <1>11. /\ prev.busy <=> \E w \in Events : IsNth(a, 0, w)
         /\ \A w \in Events : IsNth(a, 0, w) => RecordStands(prev, w)
    BY <1>10 DEF PlaceStands, Newest
  <1> HIDE DEF source, prev, S
  <1>12. NextStands(order, ReleasePast(k)')
    <2>1. CASE ~ prev.busy
      <3>1. WritesTo(a) = {}
        <4>1. \A p \in WritesTo(a) : p \in Events
          BY DEF WritesTo
        <4> QED
          BY <1>1, <1>11, <2>1, <4>1, NewestFacts
      <3>2. ReleasePast(k)' = S
        BY <1>1, <3>1, NewRelease DEF S
      <3> QED
        BY <1>9, <2>1, <3>2
    <2>2. CASE prev.busy
      <3>1. PICK p \in Events : IsNth(a, 0, p)
        BY <1>11, <2>2
      <3>2. p \in WritesTo(a) /\ \A q \in WritesTo(a) : q <= p
        BY <1>1, <3>1, NewestFacts
      <3>3. ReleasePast(k)' = S \cup (IF e.kind = "rmw" \/ t = log[p].t
                                      THEN ReleasePast(p) ELSE {})
        <4>1. ReleasePast(k)' =
                 (IF Releases(e.mo) THEN past'[k] ELSE {})
                 \cup Pasts(FencesOf(e.t))
                 \cup (IF e.kind = "rmw" \/ e.t = log[p].t THEN ReleasePast(p) ELSE {})
          <5>1. \A q \in WritesTo(a) : (\A r \in WritesTo(a) : r <= q) =>
                   ReleasePast(k)' =
                      (IF Releases(e.mo) THEN past'[k] ELSE {})
                      \cup Pasts(FencesOf(e.t))
                      \cup (IF e.kind = "rmw" \/ e.t = log[q].t THEN ReleasePast(q) ELSE {})
            <6>1. LogOK /\ ~ Cxx0xSequences /\ Logged(e, k) /\ IsWrite(e) /\ e.obj = a
              BY <1>1
            <6> QED
              BY ONLY <6>1, NewRelease
          <5> QED
            BY ONLY <3>2, <5>1
        <4> QED
          BY <4>1, Zenon DEF S
      <3>4. RecordStands(prev, p)
        BY <1>11, <3>1
      <3>5. preserve <=> e.kind = "rmw" \/ t = log[p].t
        BY <2>2, <3>4 DEF RecordStands
      <3>6. CASE ~ preserve
        <4>1. ReleasePast(k)' = S
          BY <3>3, <3>5, <3>6
        <4> QED
          BY <1>9, <3>6, <4>1
      <3>7. CASE preserve
        <4>1. ReleasePast(k)' = ReleasePast(p) \cup S
          BY <3>3, <3>5, <3>7
        <4>2. ReleasePast(p) \in SUBSET Events
          BY <1>1, PastsAreEvents
        <4>3. NextStands(prev.order, ReleasePast(p))
          BY <1>4, <3>4, <4>2, OldStands DEF RecordStands
        <4>4. /\ AssignMax(prev.order, source) \in Timestamps
              /\ Joins(AssignMax(prev.order, source), prev.order, source)
          BY <1>4, <1>6, AssignMaxJoins
        <4>5. NextStands(AssignMax(prev.order, source), ReleasePast(p) \cup S)
          BY <1>1, <1>4, <1>6, <1>9, <4>3, <4>4, NextStandsJoin
        <4> QED
          BY <3>7, <4>1, <4>5
      <3> QED
        BY <3>6, <3>7
    <2> QED
      BY <2>1, <2>2
  <1>13. ASSUME NEW i \in Events', Touches(i, k)'
         PROVE  SeenBy(new, log'[i].t, log'[i].stamp)
    <2>1. i = k
      <3> SUFFICES ASSUME i # k PROVE FALSE
        OBVIOUS
      <3>1. i \in Events /\ log'[i] = log[i] /\ EntryOK(i)
        BY <1>1, <1>3, LogFacts
      <3>2. log[i].kind = "load" /\ log[i].rf = k
        BY <1>13, <3>1 DEF Touches, StoreOf
      <3>3. k \in WritesTo(log[i].obj)
        BY <3>1, <3>2 DEF EntryOK, IsRead
      <3> QED
        BY <1>3, <3>3 DEF WritesTo
    <2>2. log'[i].t = t /\ log'[i].stamp = c[t] /\ c[t] \in Nat
      BY <1>3, <2>1 DEF Timestamps
    <2>3. new.firstSeen[t] = c[t]
      BY <1>2
    <2> HIDE DEF new
    <2>4. c[t] # NotSeen /\ c[t] <= c[t]
      BY <2>2 DEF NotSeen
    <2> QED
      BY <2>2, <2>3, <2>4 DEF SeenBy
  <1> HIDE DEF new, order, seen
  <1>14. NextRecordStands(new, k)
    BY <1>2, <1>3, <1>12, <1>13 DEF NextRecordStands
  <1> QED
    BY <1>2, <1>14 DEF new, prev

(* A load keeps the invariant (get_load_index, atomic_load).               *)
LEMMA LoadStep ==
    ASSUME TypeOK, TypeOK', KnowledgeBound, HBInv, result = "none", ~ Cxx0xSequences,
           UNCHANGED profile,
           NEW t \in Threads, NEW a \in Atomics, NEW mo \in LoadOrders,
           NEW n \in 0 .. LoadLimit, Load(t, a, mo, Older(current[a], n)),
           Record(Event(t, "load", a, mo, NthNewest(a, n)))
    PROVE  HBInv'
  <1> DEFINE e == Event(t, "load", a, mo, NthNewest(a, n))
             k == Len(log) + 1
             s == Older(current[a], n)
             rec == history[a][s]
  <1>1. /\ profile \in Profiles /\ LogOK /\ CoherentHistory /\ SeqCstReads
        /\ ~ HasRace /\ AllStand
    BY DEF HBInv
  <1>2. n \in 0 .. HistorySize - 1 /\ n \in Nat /\ current[a] \in Slots
    BY DEF LoadLimit, HistorySize, TypeOK
  <1>3. s \in Slots
    BY <1>2, SlotFacts
  <1>4. rec \in Records /\ RecordBounded(rec) /\ rec.busy /\ Bounded(rec.order)
    BY <1>3 DEF TypeOK, KnowledgeBound, Load, RecordBounded
  <1>5. PlaceStands(a, n)
    BY <1>1, <1>2 DEF AllStand, HistoryStands
  <1>6. PICK w \in Events : IsNth(a, n, w)
    BY <1>4, <1>5 DEF PlaceStands
  <1>7. NthNewest(a, n) = w /\ w \in WritesTo(a) /\ w \in Nat
    BY <1>1, <1>6, NthFacts, WritesFacts DEF IsNth
  <1>8. RecordStands(rec, w)
    BY <1>5, <1>6 DEF PlaceStands
  <1>9. \A j \in 0 .. n - 1 : MaySkip(t, a, mo, Older(current[a], j))
    <2>1. PICK m \in 0 .. LoadLimit :
             /\ Older(current[a], n) = Older(current[a], m)
             /\ \A i \in 0 .. m - 1 : MaySkip(t, a, mo, Older(current[a], i))
      BY DEF Load, LoadSlots
    <2>2. m \in 0 .. HistorySize - 1
      BY DEF LoadLimit, HistorySize
    <2>3. m = n
      BY <1>2, <2>1, <2>2, OlderInjective
    <2> QED
      BY <2>1, <2>3
  <1>10. /\ clock' = [clock EXCEPT ![t] = LoadedClock(t, rec, mo)]
         /\ acquireFence' = [acquireFence EXCEPT ![t] = LoadedFence(t, rec, mo)]
         /\ history' = [history EXCEPT ![a][s] = MarkSeen(rec, t, clock[t][t] + 1)]
    BY DEF Load, ReadSlot
  <1>11. UNCHANGED <<releaseFence, seqCstFence, current, plainVars, syncOrder, result>>
    BY DEF Load
  <1>12. clock \in [Threads -> Timestamps] /\ clock' \in [Threads -> Timestamps]
    BY DEF TypeOK
  <1>13. LoadedClock(t, rec, mo) \in Timestamps
    BY <1>4, LoadedClockFacts
  <1>14. clock'[t] = LoadedClock(t, rec, mo) /\ clock'[t] \in Timestamps
    BY <1>10, <1>12
  <1>15. LoadedClock(t, rec, mo)[t] = clock[t][t] + 1 /\ clock[t][t] \in Nat
    <2>1. clock[t] \in Timestamps /\ clock[t][t] \in Nat /\ rec.order \in Timestamps
      BY <1>4, <1>12 DEF Timestamps, Records
    <2>2. Tick(clock[t], t) \in Timestamps /\ Tick(clock[t], t)[t] = clock[t][t] + 1
      BY <2>1, TickFacts
    <2>3. rec.order[t] <= clock[t][t] /\ rec.order[t] \in Nat
      BY <1>4, <2>1 DEF Bounded, Timestamps
    <2>4. LoadedClock(t, rec, mo)[t] \in {Tick(clock[t], t)[t], rec.order[t]}
            /\ Tick(clock[t], t)[t] <= LoadedClock(t, rec, mo)[t]
      BY <1>4, LoadedClockFacts
    <2> QED
      BY <2>1, <2>2, <2>3, <2>4
  <1>16. /\ e = [t |-> t, kind |-> "load", obj |-> a, mo |-> mo, rf |-> w,
                 stamp |-> clock[t][t] + 1]
    BY <1>7, <1>14, <1>15 DEF Event
  <1>17. mo \in AllOrders
    BY MemoryOrderAssumption
  <1>18. e \in EventSet
    BY <1>7, <1>15, <1>16, <1>17 DEF EventSet, Kinds
  <1>19. /\ e.t = t /\ e.kind = "load" /\ e.obj = a /\ e.mo = mo /\ e.rf = w
         /\ e.stamp = clock[t][t] + 1
    BY <1>16
  <1>20. Record(e)
    OBVIOUS
  <1> HIDE DEF e, rec, s
  <1>21. IsRead(e) /\ ~ IsWrite(e) /\ ~ Silent(e)
    BY <1>19 DEF IsRead, IsWrite, Silent
  <1>22. e.stamp > 0 /\ clock[e.t][e.t] < e.stamp
    BY <1>15, <1>19
  <1>23. Call(e, k)
    <2>1. Silent(e) <=> e.stamp = 0
      BY <1>15, <1>19, <1>21
    <2>2. e.rf \in WritesTo(e.obj)
      BY <1>7, <1>19
    <2> HIDE DEF k
    <2> QED
      BY <1>1, <1>18, <1>20, <1>22, <2>1, <2>2, MakesCall DEF k
  <1> HIDE DEF k
  <1>24. Stands(rec.order, ReleasePast(e.rf))
    BY <1>8, <1>19 DEF RecordStands
  <1> DEFINE d == LoadedClock(t, rec, mo)
  <1>25. /\ d \in Timestamps /\ e.stamp = d[t] /\ d[t] <= d[t] /\ clock'[t] = d
    BY <1>13, <1>14, <1>15, <1>19
  <1>26. /\ NextStands(d, past'[k]) /\ NextStands(rec.order, ReleasePast(e.rf))
         /\ \A i \in Threads : clock[t][i] <= d[i]
    <2>1. d = LoadedClock(t, rec, e.mo)
      BY <1>19
    <2> HIDE DEF d
    <2> QED
      BY <1>4, <1>19, <1>21, <1>23, <1>24, <1>25, <2>1, ReadClocks
  <1> HIDE DEF d
  <1>27. acquireFence'[t] = IF Acquires(e.mo) THEN acquireFence[t]
                            ELSE AssignMax(acquireFence[t], rec.order)
    BY <1>10, <1>19 DEF TypeOK, LoadedFence
  <1>28. ThreadStands(t)'
    <2>1. e.kind # "global" /\ ~ (e.kind = "fence" /\ Releases(e.mo)) /\ t = e.t
      BY <1>19
    <2>2. rec.order \in Timestamps
      BY <1>4 DEF Records
    <2>3. NextStands(clock'[t], past'[k]) /\ \A i \in Threads : clock[t][i] <= clock'[t][i]
      BY <1>25, <1>26
    <2>4. releaseFence'[t] = releaseFence[t]
      BY <1>11
    <2> QED
      BY <1>21, <1>23, <1>26, <1>27, <2>1, <2>2, <2>3, <2>4, ActorStands
  <1>29. ThreadsStand'
    <2>1. ASSUME NEW u \in Threads, u # t PROVE ThreadStands(u)'
      <3>1. /\ clock'[u] = clock[u] /\ acquireFence'[u] = acquireFence[u]
            /\ releaseFence'[u] = releaseFence[u] /\ e.kind # "global"
        BY <1>10, <1>11, <1>19, <2>1 DEF TypeOK
      <3> QED
        BY <1>19, <1>23, <2>1, <3>1, OthersStand
    <2> QED
      BY <1>28, <2>1 DEF ThreadsStand
  <1>30. SharedStand'
    BY <1>11, <1>19, <1>23, SharedKeeps, NextShared
  <1>31. HistoryStands'
    <2> DEFINE new == MarkSeen(rec, t, clock[t][t] + 1)
    <2>1. MoreSeen(rec, new) /\ (\A r \in Records : MoreSeen(r, r))
            /\ new.firstSeen[t] = IF rec.firstSeen[t] = NotSeen
                                  THEN clock[t][t] + 1 ELSE rec.firstSeen[t]
      <3>1. clock[t][t] + 1 \in Nat
        BY <1>15
      <3> HIDE DEF new
      <3>2. \A r \in Records : MoreSeen(r, r)
        BY DEF MoreSeen
      <3> QED
        BY <1>4, <3>1, <3>2, MarkSeenMore DEF new
    <2>2. /\ history'[a][s] = new
          /\ \A b \in Atomics, r \in Slots :
                ~ (b = a /\ r = s) => history'[b][r] = history[b][r]
      BY <1>3, <1>10 DEF TypeOK
    <2>3. rec = history[a][s]
      BY DEF rec
    <2>4. new.firstSeen[t] <= clock[t][t] + 1 /\ new.firstSeen[t] # NotSeen
      <3>1. rec.firstSeen[t] \in Nat \cup {NotSeen} /\ rec.firstSeen[t] <= clock[t][t]
        BY <1>4 DEF Records, RecordBounded, Bounded
      <3> HIDE DEF new
      <3> QED
        BY <1>15, <2>1, <3>1 DEF NotSeen
    <2> HIDE DEF new
    <2>5. \A b \in Atomics, r \in Slots : MoreSeen(history[b][r], history'[b][r])
      BY <2>1, <2>2, <2>3 DEF TypeOK
    <2>6. SeenBy(history'[a][s], t, e.stamp)
      BY <1>19, <2>2, <2>4 DEF SeenBy
    <2>7. ASSUME NEW m \in 0 .. HistorySize - 1, IsNth(a, m, e.rf) PROVE m = n
      BY <1>6, <1>19, <2>7 DEF IsNth
    <2>8. \A b \in Atomics, m \in 0 .. HistorySize - 1 :
                 b = e.obj /\ IsNth(b, m, e.rf) =>
                    SeenBy(history'[b][Older(current[b], m)], e.t, e.stamp)
      BY <1>19, <2>6, <2>7 DEF s
    <2> QED
      BY <1>11, <1>21, <1>23, <2>5, <2>8, HistoryRead
  <1>32. AccessesStand'
    BY <1>11, <1>19, <1>23, AccessesKeep
  <1>33. OwnGrow
    <2> SUFFICES ASSUME NEW u \in Threads PROVE clock[u][u] <= clock'[u][u]
      BY DEF OwnGrow
    <2>1. clock[u][u] \in Nat
      BY <1>12 DEF Timestamps
    <2>2. CASE u = t
      BY <1>25, <1>26, <2>2
    <2>3. CASE u # t
      <3>1. clock'[u] = clock[u]
        BY <1>10, <1>12, <2>3
      <3> QED
        BY <2>1, <3>1
    <2> QED
      BY <2>2, <2>3
  <1>34. e.stamp <= clock'[e.t][e.t]
    BY <1>15, <1>19, <1>25
  <1>35. \A i \in Events : ~ Conflict(log[i], e)
    BY <1>19 DEF Conflict
  <1>36. /\ \A i \in past'[k] \ {k} :
                 (IsRead(log[i]) \/ IsWrite(log[i])) /\ log[i].obj = e.obj
                    => StoreOf(i) <= e.rf
         /\ e.mo = "seq_cst" =>
              \A i \in Events :
                 IsWrite(log[i]) /\ log[i].mo = "seq_cst" /\ log[i].obj = e.obj => i <= e.rf
    BY <1>6, <1>9, <1>19, <1>21, <1>23, ReadIsCoherent
  <1>37. result' = "none" /\ k = Len(log) + 1
    BY <1>11 DEF k
  <1> QED
    BY <1>1, <1>20, <1>23, <1>29, <1>30, <1>31, <1>32, <1>33, <1>34, <1>35, <1>36, <1>37,
       LiveCall

(* A store keeps the invariant (atomic_store).                             *)
LEMMA StoreStep ==
    ASSUME TypeOK, TypeOK', KnowledgeBound, HBInv, result = "none", ~ Cxx0xSequences,
           UNCHANGED profile,
           NEW t \in Threads, NEW a \in Atomics, NEW mo \in StoreOrders, NEW x \in Values,
           Store(t, a, mo, x), Record(Event(t, "store", a, mo, 0))
    PROVE  HBInv'
  <1> DEFINE e == Event(t, "store", a, mo, 0)
             k == Len(log) + 1
             d == Tick(clock[t], t)
             s == Next1(current[a])
             new == StoreRecord(t, d, Newest(a), mo, FALSE, x)
  <1>1. /\ profile \in Profiles /\ LogOK /\ CoherentHistory /\ SeqCstReads
        /\ ~ HasRace /\ AllStand
    BY DEF HBInv
  <1>2. current[a] \in Slots /\ s \in Slots /\ current \in [Atomics -> Slots]
    BY SlotFacts DEF TypeOK
  <1>3. clock \in [Threads -> Timestamps] /\ clock[t] \in Timestamps /\ clock[t][t] \in Nat
    BY DEF TypeOK, Timestamps
  <1>4. d \in Timestamps /\ d[t] = clock[t][t] + 1
    BY <1>3, TickFacts
  <1>5. /\ clock' = [clock EXCEPT ![t] = d] /\ clock'[t] = d
        /\ current' = [current EXCEPT ![a] = s]
        /\ history' = [history EXCEPT ![a][s] = new]
        /\ UNCHANGED <<acquireFence, releaseFence, seqCstFence, plainVars, syncOrder, result>>
    BY <1>3 DEF Store
  <1>6. e = [t |-> t, kind |-> "store", obj |-> a, mo |-> mo, rf |-> 0,
             stamp |-> clock[t][t] + 1]
    BY <1>4, <1>5 DEF Event
  <1>7. mo \in AllOrders
    BY MemoryOrderAssumption
  <1>8. e \in EventSet
    BY <1>3, <1>6, <1>7 DEF EventSet, Kinds
  <1>9. /\ e.t = t /\ e.kind = "store" /\ e.obj = a /\ e.mo = mo
        /\ e.stamp = clock[t][t] + 1
    BY <1>6
  <1>10. Record(e)
    OBVIOUS
  <1> HIDE DEF e, k
  <1>11. ~ IsRead(e) /\ IsWrite(e) /\ ~ Silent(e)
    BY <1>9 DEF IsRead, IsWrite, Silent
  <1>12. e.stamp > 0 /\ clock[e.t][e.t] < e.stamp
    BY <1>3, <1>9
  <1>13. Call(e, k)
    BY <1>1, <1>8, <1>10, <1>11, <1>12, MakesCall DEF k
  <1>14. NextStands(d, past'[k]) /\ \A i \in Threads : clock[t][i] <= d[i]
    BY <1>9, <1>11, <1>13, TickClocks
  <1>15. new.busy /\ NextRecordStands(new, k)
    <2>1. d[t] = e.stamp /\ (FALSE <=> e.kind = "rmw") /\ mo = e.mo
      BY <1>4, <1>9
    <2> HIDE DEF d, new
    <2>2. LET r == StoreRecord(t, d, Newest(a), e.mo, FALSE, x)
          IN  r.busy /\ NextRecordStands(r, k)
      BY <1>4, <1>9, <1>11, <1>12, <1>13, <1>14, <2>1, NewRecord
    <2> QED
      BY <2>1, <2>2 DEF new
  <1> HIDE DEF d, new
  <1>16. ThreadsStand' /\ OwnGrow
    <2>1. /\ \A u \in Threads : releaseFence'[u] =
                IF u = t /\ e.kind = "fence" /\ Releases(e.mo) THEN d ELSE releaseFence[u]
          /\ acquireFence' = acquireFence /\ e.kind # "global"
      BY <1>5, <1>9
    <2> QED
      BY <1>4, <1>5, <1>9, <1>11, <1>13, <1>14, <2>1, OneThread
  <1>17. SharedStand'
    BY <1>5, <1>9, <1>13, SharedKeeps, NextShared
  <1>18. HistoryStands'
    <2>1. current'[a] = s /\ history'[a][s] = new
      BY <1>2, <1>5 DEF TypeOK
    <2>2. \A r \in Slots : r # s => history'[a][r] = history[a][r]
      BY <1>2, <1>5 DEF TypeOK
    <2>3. \A n \in 0 .. HistorySize - 2 :
             MoreSeen(history[a][Older(current[a], n)], history'[a][Older(current[a], n)])
      <3> TAKE n \in 0 .. HistorySize - 2
      <3>1. n \in 0 .. HistorySize - 1
        BY DEF HistorySize
      <3>2. Older(current[a], n) \in Slots /\ Older(current[a], n) # s
        BY <1>2, <3>1, SlotFacts, RingMoves
      <3> QED
        BY <2>2, <3>2 DEF MoreSeen
    <2>4. \A b \in Atomics : b # a => current'[b] = current[b] /\ history'[b] = history[b]
      BY <1>2, <1>5 DEF TypeOK
    <2> HIDE DEF s
    <2>5. current'[a] = Next1(current[a]) /\ s = Next1(current[a])
      BY <2>1 DEF s
    <2>6. history'[a][Next1(current[a])].busy
            /\ NextRecordStands(history'[a][Next1(current[a])], k)
      BY <1>15, <2>1, <2>5
    <2> QED
      BY <1>9, <1>11, <1>13, <2>3, <2>4, <2>5, <2>6, HistoryAppend
  <1>19. AccessesStand'
    BY <1>5, <1>9, <1>13, AccessesKeep
  <1>20. e.stamp <= clock'[e.t][e.t]
    BY <1>3, <1>4, <1>5, <1>9
  <1>21. \A i \in Events : ~ Conflict(log[i], e)
    BY <1>9 DEF Conflict
  <1>22. result' = "none" /\ k = Len(log) + 1
    BY <1>5 DEF k
  <1> QED
    BY <1>1, <1>10, <1>11, <1>13, <1>16, <1>17, <1>18, <1>19, <1>20, <1>21, <1>22, LiveCall

(* A read-modify-write keeps the invariant (atomic_load, atomic_store).    *)
LEMMA RmwStep ==
    ASSUME TypeOK, TypeOK', KnowledgeBound, HBInv, result = "none", ~ Cxx0xSequences,
           UNCHANGED profile,
           NEW t \in Threads, NEW a \in Atomics, NEW mo \in RmwOrders, NEW x \in Values,
           Rmw(t, a, mo, x), Record(Event(t, "rmw", a, mo, NthNewest(a, 0)))
    PROVE  HBInv'
  <1> DEFINE e == Event(t, "rmw", a, mo, NthNewest(a, 0))
             k == Len(log) + 1
             rec == Newest(a)
             c == LoadedClock(t, rec, mo)
             d == Tick(c, t)
             s == Next1(current[a])
             seen == MarkSeen(rec, t, clock[t][t] + 1)
             new == StoreRecord(t, d, rec, mo, TRUE, x)
  <1>1. /\ profile \in Profiles /\ LogOK /\ CoherentHistory /\ SeqCstReads
        /\ ~ HasRace /\ AllStand
    BY DEF HBInv
  <1>2. /\ current[a] \in Slots /\ s \in Slots /\ current \in [Atomics -> Slots]
        /\ s # current[a]
    BY SlotFacts DEF TypeOK, Slots, Next1, HistorySize
  <1>3. clock \in [Threads -> Timestamps] /\ clock[t] \in Timestamps /\ clock[t][t] \in Nat
    BY DEF TypeOK, Timestamps
  <1>4. rec \in Records /\ RecordBounded(rec) /\ rec.busy /\ Bounded(rec.order)
          /\ rec = history[a][current[a]] /\ rec.order \in Timestamps
    BY <1>2 DEF TypeOK, KnowledgeBound, Rmw, RecordBounded, Newest, Records
  <1>5. PlaceStands(a, 0) /\ Older(current[a], 0) = current[a]
    <2>1. 0 \in 0 .. HistorySize - 1
      BY DEF HistorySize
    <2> QED
      BY <1>1, <1>2, <2>1, RingMoves DEF AllStand, HistoryStands
  <1>6. PICK w \in Events : IsNth(a, 0, w)
    BY <1>4, <1>5 DEF PlaceStands
  <1>7. NthNewest(a, 0) = w /\ w \in WritesTo(a) /\ w \in Nat
    BY <1>1, <1>6, NthFacts, WritesFacts DEF IsNth
  <1>8. RecordStands(rec, w)
    BY <1>4, <1>5, <1>6 DEF PlaceStands
  <1>9. c \in Timestamps /\ c[t] \in Nat
    BY <1>4, LoadedClockFacts DEF Timestamps
  <1>10. c[t] = clock[t][t] + 1
    <2>1. Tick(clock[t], t) \in Timestamps /\ Tick(clock[t], t)[t] = clock[t][t] + 1
      BY <1>3, TickFacts
    <2>2. rec.order[t] <= clock[t][t] /\ rec.order[t] \in Nat
      BY <1>4 DEF Bounded, Timestamps
    <2>3. c[t] \in {Tick(clock[t], t)[t], rec.order[t]} /\ Tick(clock[t], t)[t] <= c[t]
      BY <1>4, LoadedClockFacts
    <2> HIDE DEF c
    <2> QED
      BY <1>3, <2>1, <2>2, <2>3
  <1>11. /\ d \in Timestamps /\ d[t] = c[t] + 1
         /\ \A i \in Threads : i # t => d[i] = c[i]
    <2> HIDE DEF c
    <2> QED
      BY <1>9, TickFacts
  <1>12. /\ clock' = [clock EXCEPT ![t] = d] /\ clock'[t] = d
         /\ acquireFence' = [acquireFence EXCEPT ![t] = LoadedFence(t, rec, mo)]
         /\ current' = [current EXCEPT ![a] = s]
         /\ history' = [history EXCEPT ![a][current[a]] = seen, ![a][s] = new]
         /\ UNCHANGED <<releaseFence, seqCstFence, plainVars, syncOrder, result>>
    BY <1>3 DEF Rmw, RmwNewest
  <1> HIDE DEF c, d
  <1>13. d[t] = clock[t][t] + 2 /\ d[t] \in Nat
    BY <1>3, <1>10, <1>11
  <1>14. e = [t |-> t, kind |-> "rmw", obj |-> a, mo |-> mo, rf |-> w, stamp |-> d[t]]
    BY <1>7, <1>12 DEF Event
  <1>15. mo \in AllOrders
    BY MemoryOrderAssumption
  <1>16. e \in EventSet
    BY <1>7, <1>13, <1>14, <1>15 DEF EventSet, Kinds
  <1>17. /\ e.t = t /\ e.kind = "rmw" /\ e.obj = a /\ e.mo = mo /\ e.rf = w
         /\ e.stamp = d[t]
    BY <1>14
  <1>18. Record(e)
    OBVIOUS
  <1> HIDE DEF e, k, rec, seen, new
  <1>19. IsRead(e) /\ IsWrite(e) /\ ~ Silent(e)
    BY <1>17 DEF IsRead, IsWrite, Silent
  <1>20. e.stamp > 0 /\ clock[e.t][e.t] < e.stamp
    BY <1>3, <1>13, <1>17
  <1>21. Call(e, k)
    <2>1. Silent(e) <=> e.stamp = 0
      BY <1>13, <1>17, <1>19, <1>20
    <2>2. e.rf \in WritesTo(e.obj)
      BY <1>7, <1>17
    <2> QED
      BY <1>1, <1>16, <1>18, <1>20, <2>1, <2>2, MakesCall DEF k
  <1>22. Stands(rec.order, ReleasePast(e.rf))
    BY <1>8, <1>17 DEF RecordStands
  <1>23. /\ NextStands(d, past'[k]) /\ NextStands(rec.order, ReleasePast(e.rf))
         /\ \A i \in Threads : clock[t][i] <= d[i]
    <2>1. /\ LoadedClock(t, rec, e.mo)[t] <= d[t]
          /\ \A i \in Threads : i # t => d[i] = LoadedClock(t, rec, e.mo)[i]
      BY <1>9, <1>11, <1>17 DEF c
    <2> QED
      BY <1>4, <1>11, <1>17, <1>19, <1>21, <1>22, <2>1, ReadClocks
  <1>24. ThreadsStand' /\ OwnGrow
    <2>1. /\ t = e.t /\ e.kind # "global" /\ ~ (e.kind = "fence" /\ Releases(e.mo))
          /\ rec.order \in Timestamps
      BY <1>4, <1>17
    <2>2. acquireFence'[t] = IF Acquires(e.mo) THEN acquireFence[t]
                             ELSE AssignMax(acquireFence[t], rec.order)
      BY <1>12, <1>17 DEF TypeOK, LoadedFence
    <2>3. releaseFence'[t] = releaseFence[t]
      BY <1>12
    <2>4. NextStands(clock'[t], past'[k]) /\ \A i \in Threads : clock[t][i] <= clock'[t][i]
      BY <1>12, <1>23
    <2>5. ThreadStands(t)'
      BY <1>19, <1>21, <1>23, <2>1, <2>2, <2>3, <2>4, ActorStands
    <2>6. ASSUME NEW u \in Threads, u # t PROVE ThreadStands(u)'
      <3>1. /\ clock'[u] = clock[u] /\ acquireFence'[u] = acquireFence[u]
            /\ releaseFence'[u] = releaseFence[u]
        BY <1>12, <2>6 DEF TypeOK
      <3> QED
        BY <1>17, <1>21, <2>1, <2>6, <3>1, OthersStand
    <2>7. OwnGrow
      <3> SUFFICES ASSUME NEW u \in Threads PROVE clock[u][u] <= clock'[u][u]
        BY DEF OwnGrow
      <3>1. clock[u][u] \in Nat
        BY <1>3 DEF Timestamps
      <3>2. CASE u = t
        BY <2>4, <3>2
      <3>3. CASE u # t
        <4>1. clock'[u] = clock[u]
          BY <1>3, <1>12, <3>3
        <4> QED
          BY <3>1, <4>1
      <3> QED
        BY <3>2, <3>3
    <2> QED
      BY <2>5, <2>6, <2>7 DEF ThreadsStand
  <1>25. SharedStand'
    BY <1>12, <1>17, <1>21, SharedKeeps, NextShared
  <1>26. new.busy /\ NextRecordStands(new, k)
    <2>1. d[t] = e.stamp /\ (TRUE <=> e.kind = "rmw") /\ mo = e.mo
      BY <1>17
    <2>2. LET r == StoreRecord(t, d, Newest(a), e.mo, TRUE, x)
          IN  r.busy /\ NextRecordStands(r, k)
      BY <1>11, <1>17, <1>19, <1>20, <1>21, <1>23, <2>1, NewRecord
    <2> QED
      BY <2>1, <2>2 DEF new, rec
  <1>27. HistoryStands'
    <2>1. current'[a] = s /\ history'[a][s] = new /\ history'[a][current[a]] = seen
      BY <1>2, <1>12 DEF TypeOK
    <2>2. \A r \in Slots : r # s /\ r # current[a] => history'[a][r] = history[a][r]
      BY <1>2, <1>12 DEF TypeOK
    <2>3. MoreSeen(history[a][current[a]], seen)
      <3>1. clock[t][t] + 1 \in Nat
        BY <1>3
      <3> QED
        BY <1>4, <3>1, MarkSeenMore DEF seen
    <2>4. \A n \in 0 .. HistorySize - 2 :
             MoreSeen(history[a][Older(current[a], n)], history'[a][Older(current[a], n)])
      <3> TAKE n \in 0 .. HistorySize - 2
      <3>1. n \in 0 .. HistorySize - 1
        BY DEF HistorySize
      <3>2. Older(current[a], n) \in Slots /\ Older(current[a], n) # s
        BY <1>2, <3>1, SlotFacts, RingMoves
      <3> QED
        BY <2>1, <2>2, <2>3, <3>2 DEF MoreSeen
    <2>5. \A b \in Atomics : b # a => current'[b] = current[b] /\ history'[b] = history[b]
      BY <1>2, <1>12 DEF TypeOK
    <2> HIDE DEF s
    <2>6. current'[a] = Next1(current[a]) /\ s = Next1(current[a])
      BY <2>1 DEF s
    <2>7. history'[a][Next1(current[a])].busy
            /\ NextRecordStands(history'[a][Next1(current[a])], k)
      BY <1>26, <2>1, <2>6
    <2> QED
      BY <1>17, <1>19, <1>21, <2>4, <2>5, <2>6, <2>7, HistoryAppend
  <1>28. AccessesStand'
    BY <1>12, <1>17, <1>21, AccessesKeep
  <1>29. e.stamp <= clock'[e.t][e.t]
    BY <1>12, <1>13, <1>17
  <1>30. \A i \in Events : ~ Conflict(log[i], e)
    BY <1>17 DEF Conflict
  <1>31. /\ \A i \in past'[k] \ {k} :
                 (IsRead(log[i]) \/ IsWrite(log[i])) /\ log[i].obj = e.obj
                    => StoreOf(i) <= e.rf
         /\ e.mo = "seq_cst" =>
              \A i \in Events :
                 IsWrite(log[i]) /\ log[i].mo = "seq_cst" /\ log[i].obj = e.obj => i <= e.rf
    <2>1. 0 \in 0 .. LoadLimit
      BY DEF LoadLimit, HistorySize
    <2>2. \A j \in 0 .. 0 - 1 : MaySkip(t, a, e.mo, Older(current[a], j))
      OBVIOUS
    <2>3. IsNth(a, 0, e.rf)
      BY <1>6, <1>17
    <2> QED
      BY <1>17, <1>19, <1>21, <2>1, <2>2, <2>3, ReadIsCoherent
  <1>32. result' = "none" /\ k = Len(log) + 1
    BY <1>12 DEF k
  <1> QED
    BY <1>1, <1>18, <1>21, <1>24, <1>25, <1>27, <1>28, <1>29, <1>30, <1>31, <1>32, LiveCall


(* The clock a fence leaves to its thread stands for what happens before   *)
(* the fence: assign_max with what earlier loads left (acquire), and with  *)
(* the earlier seq_cst fences (thread.hpp, the four fence functions).      *)
LEMMA FenceClock ==
    ASSUME NEW e, NEW k, Call(e, k), e.kind = "fence", NEW t \in Threads, e.t = t,
           NEW d \in Timestamps, NEW mo \in FenceOrders, e.mo = mo,
           d = LET c == AssignMax(clock[t], acquireFence[t])
               IN  IF mo = "seq_cst" THEN AssignMax(c, seqCstFence)
                   ELSE IF mo = "release" THEN clock[t] ELSE c
    PROVE  NextStands(d, past'[k]) /\ \A i \in Threads : clock[t][i] <= d[i]
  <1> DEFINE c == AssignMax(clock[t], acquireFence[t])
  <1>1. /\ TypeOK /\ LogOK /\ Logged(e, k) /\ e.stamp = 0 /\ ~ Cxx0xSequences
        /\ ThreadStands(t) /\ Stands(seqCstFence, Pasts(SeqCstFences))
    BY DEF Call, Silent, AllStand, ThreadsStand, SharedStand
  <1>2. clock[t] \in Timestamps /\ acquireFence[t] \in Timestamps /\ seqCstFence \in Timestamps
    BY <1>1 DEF TypeOK
  <1>3. /\ c \in Timestamps
        /\ \A i \in Threads : clock[t][i] <= c[i]
    BY <1>2, AssignMaxFacts
  <1>4. /\ Stands(clock[t], PastOf(t)) /\ Stands(c, PastOf(t) \cup AcquirePast(t))
    BY <1>1 DEF ThreadStands
  <1>5. mo \in {"acquire", "release", "acq_rel", "seq_cst"}
    BY MemoryOrderAssumption DEF AllOrders
  <1> DEFINE S == PastOf(t) \cup (IF Acquires(mo) THEN AcquirePast(t) ELSE {})
                    \cup (IF mo = "seq_cst" THEN Pasts(SeqCstFences) ELSE {})
  <1>6. past'[k] = S \cup {k}
    <2>1. past'[k] = {k} \cup PastOf(e.t)
              \cup (IF IsRead(e) /\ Acquires(e.mo) THEN ReleasePast(e.rf) ELSE {})
              \cup (IF e.kind = "fence" /\ Acquires(e.mo) THEN AcquirePast(e.t) ELSE {})
              \cup (IF e.kind = "fence" /\ e.mo = "seq_cst"
                    THEN Pasts(SeqCstFences) ELSE {})
              \cup (IF e.kind = "sync" /\ Acquires(e.mo)
                    THEN Pasts(SyncReleases(e.obj)) ELSE {})
      BY <1>1, NewPast
    <2>2. ~ IsRead(e) /\ e.kind = "fence" /\ e.kind # "sync" /\ e.mo = mo /\ e.t = t
      BY DEF IsRead
    <2> QED
      BY ONLY <2>1, <2>2 DEF S
  <1> HIDE DEF c
  <1>7. Stands(d, S) /\ \A i \in Threads : clock[t][i] <= d[i]
    <2>1. CASE mo = "seq_cst"
      <3>1. /\ d = AssignMax(c, seqCstFence)
            /\ S = PastOf(t) \cup AcquirePast(t) \cup Pasts(SeqCstFences)
        BY <2>1 DEF c, Acquires
      <3> HIDE DEF S
      <3>2. d \in Timestamps /\ Joins(d, c, seqCstFence)
        BY <1>2, <1>3, <3>1, AssignMaxJoins
      <3>3. Stands(d, S)
        BY ONLY <1>1, <1>2, <1>3, <1>4, <3>1, <3>2, StandsJoin
      <3>4. \A i \in Threads : clock[t][i] \in Nat /\ c[i] \in Nat /\ d[i] \in Nat
        BY <1>2, <1>3, <3>2 DEF Timestamps
      <3> QED
        BY <1>3, <3>2, <3>3, <3>4 DEF Joins
    <2>2. CASE mo = "release"
      <3>1. d = clock[t] /\ S = PastOf(t)
        BY <2>2 DEF Acquires
      <3>2. \A i \in Threads : clock[t][i] \in Nat
        BY <1>2 DEF Timestamps
      <3> HIDE DEF S
      <3> QED
        BY <1>4, <3>1, <3>2
    <2>3. CASE mo \in {"acquire", "acq_rel"}
      <3>1. d = c /\ S = PastOf(t) \cup AcquirePast(t)
        BY <2>3 DEF c, Acquires
      <3> HIDE DEF S
      <3> QED
        BY <1>3, <1>4, <3>1
    <2> QED
      BY <1>5, <2>1, <2>2, <2>3
  <1> HIDE DEF S
  <1> QED
    BY <1>1, <1>6, <1>7, StandsSilent

(* A call that touches no atomic leaves the histories as they stand.       *)
LEMMA HistoryKeeps ==
    ASSUME NEW e, NEW k, Call(e, k), ~ IsWrite(e), ~ IsRead(e), UNCHANGED <<current, history>>
    PROVE  HistoryStands'
  <1>1. \A b \in Atomics, s \in Slots : MoreSeen(history[b][s], history'[b][s])
    BY DEF MoreSeen
  <1> QED
    BY <1>1, HistoryRead

(* A fence keeps the invariant (atomic_thread_fence).                      *)
LEMMA FenceStep ==
    ASSUME TypeOK, TypeOK', KnowledgeBound, HBInv, result = "none", ~ Cxx0xSequences,
           UNCHANGED profile, NEW t \in Threads, NEW mo \in FenceOrders, Fence(t, mo),
           Record(Event(t, "fence", 0, mo, 0))
    PROVE  HBInv'
  <1> DEFINE e == Event(t, "fence", 0, mo, 0)
             k == Len(log) + 1
             c == AssignMax(clock[t], acquireFence[t])
             d == IF mo = "seq_cst" THEN AssignMax(c, seqCstFence)
                  ELSE IF mo = "release" THEN clock[t] ELSE c
  <1>1. /\ profile \in Profiles /\ LogOK /\ CoherentHistory /\ SeqCstReads
        /\ ~ HasRace /\ AllStand
    BY DEF HBInv
  <1>2. clock \in [Threads -> Timestamps] /\ clock[t] \in Timestamps
    BY DEF TypeOK
  <1>3. d \in Timestamps
    BY AssignMaxFacts DEF TypeOK
  <1>4. mo \in {"acquire", "release", "acq_rel", "seq_cst"} /\ mo \in AllOrders
    BY MemoryOrderAssumption DEF AllOrders
  <1>5. /\ clock' = [clock EXCEPT ![t] = d]
        /\ IF Releases(mo) THEN releaseFence' = [releaseFence EXCEPT ![t] = d]
           ELSE releaseFence' = releaseFence
        /\ IF mo = "seq_cst" THEN seqCstFence' = d ELSE seqCstFence' = seqCstFence
        /\ UNCHANGED <<acquireFence, current, history, plainVars, syncOrder, result>>
    <2>1. UNCHANGED <<acquireFence, current, history, plainVars, syncOrder, result>>
      BY DEF Fence, atomicVars
    <2>2. CASE mo = "acquire"
      BY <2>1, <2>2 DEF Fence, FenceAcquire, Releases
    <2>3. CASE mo = "release"
      <3>1. clock' = [clock EXCEPT ![t] = clock[t]]
        BY <1>2, <2>3 DEF Fence, FenceRelease
      <3> QED
        BY <2>1, <2>3, <3>1 DEF Fence, FenceRelease, Releases
    <2>4. CASE mo = "acq_rel"
      BY <2>1, <2>4 DEF Fence, FenceAcqRel, Releases
    <2>5. CASE mo = "seq_cst"
      BY <2>1, <2>5 DEF Fence, FenceSeqCst, Releases
    <2> QED
      BY <1>4, <2>2, <2>3, <2>4, <2>5
  <1>6. e = [t |-> t, kind |-> "fence", obj |-> 0, mo |-> mo, rf |-> 0, stamp |-> 0]
    BY DEF Event
  <1>7. e \in EventSet
    BY <1>4, <1>6 DEF EventSet, Kinds
  <1>8. /\ e.t = t /\ e.kind = "fence" /\ e.mo = mo /\ e.stamp = 0
    BY <1>6
  <1>9. Record(e)
    OBVIOUS
  <1> HIDE DEF e, k
  <1>10. ~ IsRead(e) /\ ~ IsWrite(e) /\ Silent(e)
    BY <1>8 DEF IsRead, IsWrite, Silent
  <1>11. Call(e, k)
    BY <1>1, <1>7, <1>8, <1>9, <1>10, MakesCall DEF k
  <1>12. NextStands(d, past'[k]) /\ \A i \in Threads : clock[t][i] <= d[i]
    <2>1. d = LET j == AssignMax(clock[t], acquireFence[t])
              IN  IF mo = "seq_cst" THEN AssignMax(j, seqCstFence)
                  ELSE IF mo = "release" THEN clock[t] ELSE j
      OBVIOUS
    <2> HIDE DEF d, c
    <2> QED
      BY ONLY <1>3, <1>8, <1>11, <2>1, FenceClock, t \in Threads, mo \in FenceOrders
  <1> HIDE DEF d
  <1>13. ThreadsStand' /\ OwnGrow /\ clock'[t] = d
    <2>1. \A u \in Threads : releaseFence'[u] =
             IF u = t /\ e.kind = "fence" /\ Releases(e.mo) THEN d ELSE releaseFence[u]
      BY <1>5, <1>8 DEF TypeOK
    <2>2. ~ IsRead(e) /\ acquireFence' = acquireFence /\ e.kind # "global"
      BY <1>5, <1>8, <1>10
    <2>3. ThreadsStand' /\ OwnGrow
      BY <1>3, <1>5, <1>8, <1>11, <1>12, <2>1, <2>2, OneThread
    <2> QED
      BY <1>2, <1>5, <2>3
  <1>14. SharedStand'
    <2>1. NextStands(seqCstFence', Pasts(SeqCstFences)')
      <3>1. CASE mo = "seq_cst"
        <4>1. Pasts(SeqCstFences)' = Pasts(SeqCstFences) \cup past'[k]
          BY <1>1, <1>8, <1>11, <3>1, SeqCstFencesGrow DEF Call
        <4>2. Pasts(SeqCstFences) \subseteq past'[k]
          <5>1. past'[k] = {k} \cup PastOf(e.t)
                    \cup (IF IsRead(e) /\ Acquires(e.mo) THEN ReleasePast(e.rf) ELSE {})
                    \cup (IF e.kind = "fence" /\ Acquires(e.mo)
                          THEN AcquirePast(e.t) ELSE {})
                    \cup (IF e.kind = "fence" /\ e.mo = "seq_cst"
                          THEN Pasts(SeqCstFences) ELSE {})
                    \cup (IF e.kind = "sync" /\ Acquires(e.mo)
                          THEN Pasts(SyncReleases(e.obj)) ELSE {})
            BY <1>8, <1>11, NewPast DEF Call
          <5>2. e.kind = "fence" /\ e.mo = "seq_cst"
            BY <1>8, <3>1
          <5> QED
            BY ONLY <5>1, <5>2
        <4>3. Pasts(SeqCstFences)' = past'[k]
          BY <4>1, <4>2
        <4> QED
          BY <1>5, <1>12, <3>1, <4>3
      <3>2. CASE mo # "seq_cst"
        BY <1>5, <1>8, <1>11, <3>2, SharedKeeps
      <3> QED
        BY <3>1, <3>2
    <2>2. \A sv \in SyncVars : NextStands(syncOrder'[sv], Pasts(SyncReleases(sv))')
      BY <1>5, <1>8, <1>11, SharedKeeps
    <2> QED
      BY <2>1, <2>2, NextShared
  <1>15. HistoryStands'
    BY <1>5, <1>10, <1>11, HistoryKeeps
  <1>16. AccessesStand'
    BY <1>5, <1>8, <1>11, AccessesKeep
  <1>17. e.stamp <= clock'[e.t][e.t]
    <2>1. d[t] \in Nat
      BY <1>3 DEF Timestamps
    <2> QED
      BY <1>8, <1>13, <2>1
  <1>18. \A i \in Events : ~ Conflict(log[i], e)
    BY <1>8 DEF Conflict
  <1>19. result' = "none" /\ k = Len(log) + 1
    BY <1>5 DEF k
  <1> QED
    BY <1>1, <1>9, <1>10, <1>11, <1>13, <1>14, <1>15, <1>16, <1>17, <1>18, <1>19, LiveCall

(* Every access to v that the stamps stand for, and that the clock of t    *)
(* has reached, happens before what t does next.                           *)
LEMMA AccessOrdered ==
    ASSUME NEW e, NEW k, Call(e, k), e.kind # "global", NEW t \in Threads, e.t = t,
           NEW kind \in {"varStore", "varLoad"}, NEW v, NEW stamps \in Timestamps,
           StampsStand(stamps, kind, v), \A u \in Threads : stamps[u] <= clock[t][u],
           NEW i \in Events, log[i].kind = kind, log[i].obj = v
    PROVE  i \in past'[k]
  <1>1. /\ TypeOK /\ LogOK /\ Logged(e, k) /\ Stamped /\ Stands(clock[t], PastOf(t))
        /\ ~ Cxx0xSequences
    BY DEF Call, AllStand, ThreadsStand, ThreadStands
  <1>2. log[i].t \in Threads /\ log[i].stamp \in Nat
    BY <1>1, LogFacts DEF EventSet
  <1>3. log[i].stamp > 0
    BY <1>1 DEF Stamped, Silent
  <1>4. log[i].stamp <= stamps[log[i].t] /\ stamps[log[i].t] <= clock[t][log[i].t]
    BY <1>2 DEF StampsStand
  <1>5. stamps[log[i].t] \in Nat /\ clock[t][log[i].t] \in Nat
    BY <1>1, <1>2 DEF TypeOK, Timestamps
  <1>6. clock[t][log[i].t] >= log[i].stamp
    BY <1>2, <1>4, <1>5
  <1>7. i \in PastOf(t)
    BY <1>1, <1>3, <1>6 DEF Stands
  <1>8. past'[k] = {k} \cup PastOf(e.t)
              \cup (IF IsRead(e) /\ Acquires(e.mo) THEN ReleasePast(e.rf) ELSE {})
              \cup (IF e.kind = "fence" /\ Acquires(e.mo) THEN AcquirePast(e.t) ELSE {})
              \cup (IF e.kind = "fence" /\ e.mo = "seq_cst"
                    THEN Pasts(SeqCstFences) ELSE {})
              \cup (IF e.kind = "sync" /\ Acquires(e.mo)
                    THEN Pasts(SyncReleases(e.obj)) ELSE {})
    BY <1>1, NewPast
  <1> QED
    BY <1>7, <1>8

(* A stamp of v that the clock of t has not reached is that of an access   *)
(* of another thread, which does not happen before what t does next.       *)
LEMMA AccessUnordered ==
    ASSUME TypeOK, LogOK, AllStand, ~ Cxx0xSequences, NEW e, NEW k, Logged(e, k),
           e.kind \in {"varStore", "varLoad"}, NEW t \in Threads, e.t = t,
           NEW kind \in {"varStore", "varLoad"}, NEW v, NEW stamps \in Timestamps,
           StampsStand(stamps, kind, v), Bounded(stamps),
           NEW u \in Threads, clock[t][u] < stamps[u]
    PROVE  \E i \in Events : /\ log[i].kind = kind /\ log[i].obj = v /\ log[i].t # t
                             /\ i \notin past'[k]
  <1>1. stamps[u] \in Nat /\ clock[t][u] \in Nat /\ stamps[u] <= clock[u][u]
          /\ clock[u][u] \in Nat
    BY DEF TypeOK, Timestamps, Bounded
  <1>2. stamps[u] > 0 /\ u # t
    BY <1>1
  <1>3. PICK i \in Events : /\ log[i].kind = kind /\ log[i].obj = v
                            /\ log[i].t = u /\ log[i].stamp = stamps[u]
    BY <1>2 DEF StampsStand
  <1>4. Stands(clock[t], PastOf(t))
    BY DEF AllStand, ThreadsStand, ThreadStands
  <1>5. ~ (clock[t][u] >= stamps[u])
    BY <1>1
  <1>6. i \notin PastOf(t)
    BY <1>2, <1>3, <1>4, <1>5 DEF Stands
  <1>7. past'[k] = {k} \cup PastOf(t)
    <2>1. past'[k] = {k} \cup PastOf(e.t)
              \cup (IF IsRead(e) /\ Acquires(e.mo) THEN ReleasePast(e.rf) ELSE {})
              \cup (IF e.kind = "fence" /\ Acquires(e.mo) THEN AcquirePast(e.t) ELSE {})
              \cup (IF e.kind = "fence" /\ e.mo = "seq_cst"
                    THEN Pasts(SeqCstFences) ELSE {})
              \cup (IF e.kind = "sync" /\ Acquires(e.mo)
                    THEN Pasts(SyncReleases(e.obj)) ELSE {})
      BY NewPast
    <2>2. ~ IsRead(e) /\ e.kind # "fence" /\ e.kind # "sync"
      BY DEF IsRead
    <2> QED
      BY <2>1, <2>2
  <1>8. i # k
    BY DEF Logged
  <1> QED
    BY <1>2, <1>3, <1>6, <1>7, <1>8

(* The stamps of every variable after an accepted access.                  *)
LEMMA AccessesMove ==
    ASSUME NEW e, NEW k, Call(e, k), NEW v \in Vars, e.obj = v, e.stamp > 0,
           \/ /\ e.kind = "varStore" /\ loadStamp' = loadStamp
              /\ storeStamp' = [storeStamp EXCEPT ![v][e.t] = e.stamp]
           \/ /\ e.kind = "varLoad" /\ storeStamp' = storeStamp
              /\ loadStamp' = [loadStamp EXCEPT ![v][e.t] = e.stamp],
           initialized'[v], \A w \in Vars : initialized[w] => initialized'[w]
    PROVE  AccessesStand'
  <1>1. /\ AccessesStand /\ TypeOK
        /\ \A w \in Vars : Bounded(storeStamp[w]) /\ Bounded(loadStamp[w])
    BY DEF Call, AllStand, KnowledgeBound
  <1>2. \A w \in Vars : storeStamp[w] \in Timestamps /\ loadStamp[w] \in Timestamps
    BY <1>1 DEF TypeOK
  <1>3. ASSUME NEW w \in Vars PROVE NextStampsStand(storeStamp'[w], "varStore", w)
    <2>1. StampsStand(storeStamp[w], "varStore", w)
      BY <1>1 DEF AccessesStand
    <2>2. CASE e.kind = "varStore" /\ w = v
      <3>1. storeStamp'[w] = [storeStamp[w] EXCEPT ![e.t] = e.stamp]
        BY <1>1, <2>2 DEF TypeOK
      <3>2. StampsStand(storeStamp[w], e.kind, e.obj) /\ initialized'[e.obj]
        BY <2>1, <2>2
      <3>3. NextStampsStand([storeStamp[w] EXCEPT ![e.t] = e.stamp], e.kind, e.obj)
        BY <1>1, <1>2, <3>2, StampsMove
      <3> QED
        BY <2>2, <3>1, <3>3
    <2>3. CASE ~ (e.kind = "varStore" /\ w = v)
      <3>1. storeStamp'[w] = storeStamp[w]
        BY <1>1, <2>3 DEF TypeOK
      <3>2. ~ (e.kind = "varStore" /\ e.obj = w)
        BY <2>3
      <3>3. NextStampsStand(storeStamp[w], "varStore", w)
        BY <2>1, <3>2, StampsKeep
      <3> QED
        BY <3>1, <3>3
    <2> QED
      BY <2>2, <2>3
  <1>4. ASSUME NEW w \in Vars PROVE NextStampsStand(loadStamp'[w], "varLoad", w)
    <2>1. StampsStand(loadStamp[w], "varLoad", w)
      BY <1>1 DEF AccessesStand
    <2>2. CASE e.kind = "varLoad" /\ w = v
      <3>1. loadStamp'[w] = [loadStamp[w] EXCEPT ![e.t] = e.stamp]
        BY <1>1, <2>2 DEF TypeOK
      <3>2. StampsStand(loadStamp[w], e.kind, e.obj) /\ initialized'[e.obj]
        BY <2>1, <2>2
      <3>3. NextStampsStand([loadStamp[w] EXCEPT ![e.t] = e.stamp], e.kind, e.obj)
        BY <1>1, <1>2, <3>2, StampsMove
      <3> QED
        BY <2>2, <3>1, <3>3
    <2>3. CASE ~ (e.kind = "varLoad" /\ w = v)
      <3>1. loadStamp'[w] = loadStamp[w]
        BY <1>1, <2>3 DEF TypeOK
      <3>2. ~ (e.kind = "varLoad" /\ e.obj = w)
        BY <2>3
      <3>3. NextStampsStand(loadStamp[w], "varLoad", w)
        BY <2>1, <3>2, StampsKeep
      <3> QED
        BY <3>1, <3>3
    <2> QED
      BY <2>2, <2>3
  <1> QED
    BY <1>3, <1>4, NextAccesses

(* The part of an accepted access that stores and loads share.             *)
LEMMA AccessStep ==
    ASSUME TypeOK, TypeOK', KnowledgeBound, HBInv, result = "none", ~ Cxx0xSequences,
           UNCHANGED profile, NEW t \in Threads, NEW v \in Vars,
           NEW e \in EventSet, Record(e), e.t = t, e.obj = v,
           e.kind \in {"varStore", "varLoad"}, e.stamp = clock[t][t] + 1,
           clock' = [clock EXCEPT ![t] = Tick(clock[t], t)],
           \/ /\ e.kind = "varStore" /\ loadStamp' = loadStamp
              /\ storeStamp' = [storeStamp EXCEPT ![v][t] = e.stamp]
           \/ /\ e.kind = "varLoad" /\ storeStamp' = storeStamp
              /\ loadStamp' = [loadStamp EXCEPT ![v][t] = e.stamp],
           initialized'[v], \A w \in Vars : initialized[w] => initialized'[w],
           initialized[v] =>
              \A u \in Threads : /\ storeStamp[v][u] <= clock[t][u]
                                 /\ e.kind = "varStore" => loadStamp[v][u] <= clock[t][u],
           UNCHANGED <<acquireFence, releaseFence, seqCstFence, history, current,
                       syncOrder, result>>
    PROVE  HBInv'
  <1> DEFINE k == Len(log) + 1
             d == Tick(clock[t], t)
  <1>1. /\ profile \in Profiles /\ LogOK /\ CoherentHistory /\ SeqCstReads
        /\ ~ HasRace /\ AllStand
    BY DEF HBInv
  <1>2. clock \in [Threads -> Timestamps] /\ clock[t] \in Timestamps /\ clock[t][t] \in Nat
    BY DEF TypeOK, Timestamps
  <1>3. d \in Timestamps /\ d[t] = clock[t][t] + 1 /\ clock'[t] = d
    BY <1>2, TickFacts
  <1>4. ~ IsRead(e) /\ ~ IsWrite(e) /\ ~ Silent(e)
    BY DEF IsRead, IsWrite, Silent
  <1>5. e.stamp > 0 /\ clock[e.t][e.t] < e.stamp
    BY <1>2
  <1> HIDE DEF k
  <1>6. Call(e, k)
    BY <1>1, <1>4, <1>5, MakesCall DEF k
  <1>7. NextStands(d, past'[k]) /\ \A i \in Threads : clock[t][i] <= d[i]
    <2>1. e.kind \notin {"fence", "global"} /\ e.kind # "sync"
      OBVIOUS
    <2> QED
      BY <1>4, <1>6, <2>1, TickClocks
  <1> HIDE DEF d
  <1>8. ThreadsStand' /\ OwnGrow
    <2>1. /\ \A u \in Threads : releaseFence'[u] =
                IF u = t /\ e.kind = "fence" /\ Releases(e.mo) THEN d ELSE releaseFence[u]
          /\ acquireFence' = acquireFence /\ e.kind # "global"
      OBVIOUS
    <2>2. clock' = [clock EXCEPT ![t] = d]
      BY DEF d
    <2>3. e.t = t /\ t \in Threads /\ d \in Timestamps
      BY <1>3
    <2> QED
      BY ONLY <1>4, <1>6, <1>7, <2>1, <2>2, <2>3, OneThread
  <1>9. SharedStand'
    BY <1>6, SharedKeeps, NextShared
  <1>10. HistoryStands'
    BY <1>4, <1>6, HistoryKeeps
  <1>11. AccessesStand'
    BY <1>5, <1>6, AccessesMove
  <1>12. e.stamp <= clock'[e.t][e.t]
    BY <1>2, <1>3
  <1>13. ASSUME NEW i \in Events, Conflict(log[i], e) PROVE i \in past'[k]
    <2>1. /\ log[i].kind \in {"varStore", "varLoad"} /\ log[i].obj = v
          /\ log[i].kind = "varStore" \/ e.kind = "varStore"
      BY <1>13 DEF Conflict
    <2>2. storeStamp[v] \in Timestamps /\ loadStamp[v] \in Timestamps
      BY DEF TypeOK
    <2>3. /\ StampsStand(storeStamp[v], "varStore", v)
          /\ StampsStand(loadStamp[v], "varLoad", v)
      BY <1>1 DEF AllStand, AccessesStand
    <2>4. initialized[v]
      BY <2>1, <2>3 DEF StampsStand
    <2>5. CASE log[i].kind = "varStore"
      BY <1>6, <2>1, <2>2, <2>3, <2>4, <2>5, AccessOrdered
    <2>6. CASE log[i].kind = "varLoad"
      <3>1. \A u \in Threads : loadStamp[v][u] <= clock[t][u]
        BY <2>1, <2>4, <2>6
      <3> QED
        BY <1>6, <2>1, <2>2, <2>3, <2>6, <3>1, AccessOrdered
    <2> QED
      BY <2>1, <2>5, <2>6
  <1>14. result' = "none" /\ k = Len(log) + 1
    BY DEF k
  <1> QED
    BY <1>1, <1>4, <1>6, <1>8, <1>9, <1>10, <1>11, <1>12, <1>13, <1>14, LiveCall

(* An access that is reported as a race keeps the invariant: it races with *)
(* an access that does not happen before it (var.hpp, store and load).     *)
LEMMA RaceStep ==
    ASSUME TypeOK, TypeOK', KnowledgeBound, HBInv, result = "none", ~ Cxx0xSequences,
           UNCHANGED profile, NEW t \in Threads, NEW v \in Vars,
           NEW e \in EventSet, Record(e), e.t = t, e.obj = v,
           e.kind \in {"varStore", "varLoad"}, e.stamp = clock[t][t],
           NEW u \in Threads,
           \/ clock[t][u] < storeStamp[v][u]
           \/ e.kind = "varStore" /\ clock[t][u] < loadStamp[v][u],
           clock' = clock, result' = "data_race"
    PROVE  HBInv'
  <1> DEFINE k == Len(log) + 1
  <1>1. /\ profile \in Profiles /\ LogOK /\ CoherentHistory /\ SeqCstReads /\ AllStand
    BY DEF HBInv
  <1>2. Logged(e, k)
    BY <1>1, RecordLogs
  <1> HIDE DEF k
  <1>3. ~ IsRead(e) /\ ~ Silent(e)
    BY DEF IsRead, Silent
  <1>4. /\ \A w \in Threads : clock[w][w] <= clock'[w][w]
        /\ e.stamp <= clock'[e.t][e.t]
    <2>1. \A w \in Threads : clock[w][w] \in Nat
      BY DEF TypeOK, Timestamps
    <2> QED
      BY <2>1
  <1>5. LogOK'
    BY <1>1, <1>3, <1>4, LogGrows
  <1>6. CoherentHistory' /\ SeqCstReads'
    BY <1>1, <1>2, <1>3, CoherentGrows
  <1>7. /\ StampsStand(storeStamp[v], "varStore", v) /\ Bounded(storeStamp[v])
        /\ StampsStand(loadStamp[v], "varLoad", v) /\ Bounded(loadStamp[v])
        /\ storeStamp[v] \in Timestamps /\ loadStamp[v] \in Timestamps
    BY <1>1 DEF AllStand, AccessesStand, KnowledgeBound, TypeOK
  <1>8. \E i \in Events : Conflict(log[i], e) /\ i \notin past'[k]
    <2>1. CASE clock[t][u] < storeStamp[v][u]
      <3>1. \E i \in Events : /\ log[i].kind = "varStore" /\ log[i].obj = v
                              /\ log[i].t # t /\ i \notin past'[k]
        BY <1>1, <1>2, <1>7, <2>1, AccessUnordered
      <3> QED
        BY <3>1 DEF Conflict
    <2>2. CASE e.kind = "varStore" /\ clock[t][u] < loadStamp[v][u]
      <3>1. \E i \in Events : /\ log[i].kind = "varLoad" /\ log[i].obj = v
                              /\ log[i].t # t /\ i \notin past'[k]
        BY <1>1, <1>2, <1>7, <2>2, AccessUnordered
      <3> QED
        BY <2>2, <3>1 DEF Conflict
    <2> QED
      BY <2>1, <2>2
  <1>9. HasRace'
    BY <1>1, <1>2, <1>8, RaceGrows
  <1> QED
    BY <1>1, <1>5, <1>6, <1>9 DEF HBInv

(* An accepted store to a plain variable keeps the invariant.              *)
LEMMA VarStoreStep ==
    ASSUME TypeOK, TypeOK', KnowledgeBound, HBInv, result = "none", ~ Cxx0xSequences,
           UNCHANGED profile, NEW t \in Threads, NEW v \in Vars, VarStore(t, v),
           Record(Event(t, "varStore", v, "relaxed", 0))
    PROVE  HBInv'
  <1> DEFINE e == Event(t, "varStore", v, "relaxed", 0)
  <1>1. clock \in [Threads -> Timestamps] /\ clock[t] \in Timestamps /\ clock[t][t] \in Nat
    BY DEF TypeOK, Timestamps
  <1>2. Tick(clock[t], t)[t] = clock[t][t] + 1
    BY <1>1, TickFacts
  <1>3. clock' = [clock EXCEPT ![t] = Tick(clock[t], t)]
    BY DEF VarStore, StampStore
  <1>4. e = [t |-> t, kind |-> "varStore", obj |-> v, mo |-> "relaxed", rf |-> 0,
             stamp |-> clock[t][t] + 1]
    BY <1>1, <1>2, <1>3 DEF Event
  <1>5. e \in EventSet
    BY <1>1, <1>4 DEF EventSet, Kinds, AllOrders
  <1>6. /\ e.t = t /\ e.kind = "varStore" /\ e.obj = v /\ e.stamp = clock[t][t] + 1
    BY <1>4
  <1>7. Record(e)
    OBVIOUS
  <1> HIDE DEF e
  <1>8. /\ loadStamp' = loadStamp
        /\ storeStamp' = [storeStamp EXCEPT ![v][t] = e.stamp]
        /\ initialized'[v] /\ \A w \in Vars : initialized[w] => initialized'[w]
        /\ UNCHANGED <<acquireFence, releaseFence, seqCstFence, history, current,
                       syncOrder, result>>
    BY <1>6 DEF VarStore, StampStore, TypeOK, atomicVars
  <1>9. initialized[v] => \A u \in Threads : /\ storeStamp[v][u] <= clock[t][u]
                                             /\ loadStamp[v][u] <= clock[t][u]
    <2> SUFFICES ASSUME initialized[v], NEW u \in Threads
                 PROVE  storeStamp[v][u] <= clock[t][u] /\ loadStamp[v][u] <= clock[t][u]
      OBVIOUS
    <2>1. storeStamp[v][u] \in Nat /\ loadStamp[v][u] \in Nat /\ clock[t][u] \in Nat
      BY DEF TypeOK, Timestamps
    <2>2. ~ (clock[t][u] < storeStamp[v][u]) /\ ~ (clock[t][u] < loadStamp[v][u])
      BY DEF VarStore, StoreRaces
    <2> QED
      BY <2>1, <2>2
  <1> QED
    BY <1>3, <1>5, <1>6, <1>7, <1>8, <1>9, AccessStep

(* An accepted load of a plain variable keeps the invariant.               *)
LEMMA VarLoadStep ==
    ASSUME TypeOK, TypeOK', KnowledgeBound, HBInv, result = "none", ~ Cxx0xSequences,
           UNCHANGED profile, NEW t \in Threads, NEW v \in Vars, VarLoad(t, v),
           Record(Event(t, "varLoad", v, "relaxed", 0))
    PROVE  HBInv'
  <1> DEFINE e == Event(t, "varLoad", v, "relaxed", 0)
  <1>1. clock \in [Threads -> Timestamps] /\ clock[t] \in Timestamps /\ clock[t][t] \in Nat
    BY DEF TypeOK, Timestamps
  <1>2. Tick(clock[t], t)[t] = clock[t][t] + 1
    BY <1>1, TickFacts
  <1>3. clock' = [clock EXCEPT ![t] = Tick(clock[t], t)]
    BY DEF VarLoad
  <1>4. e = [t |-> t, kind |-> "varLoad", obj |-> v, mo |-> "relaxed", rf |-> 0,
             stamp |-> clock[t][t] + 1]
    BY <1>1, <1>2, <1>3 DEF Event
  <1>5. e \in EventSet
    BY <1>1, <1>4 DEF EventSet, Kinds, AllOrders
  <1>6. /\ e.t = t /\ e.kind = "varLoad" /\ e.obj = v /\ e.stamp = clock[t][t] + 1
    BY <1>4
  <1>7. Record(e)
    OBVIOUS
  <1> HIDE DEF e
  <1>8. /\ storeStamp' = storeStamp
        /\ loadStamp' = [loadStamp EXCEPT ![v][t] = e.stamp]
        /\ initialized'[v] /\ \A w \in Vars : initialized[w] => initialized'[w]
        /\ UNCHANGED <<acquireFence, releaseFence, seqCstFence, history, current,
                       syncOrder, result>>
    BY <1>6 DEF VarLoad, TypeOK, atomicVars
  <1>9. \A u \in Threads : storeStamp[v][u] <= clock[t][u]
    <2> SUFFICES ASSUME NEW u \in Threads PROVE storeStamp[v][u] <= clock[t][u]
      OBVIOUS
    <2>1. storeStamp[v][u] \in Nat /\ clock[t][u] \in Nat
      BY DEF TypeOK, Timestamps
    <2>2. ~ (clock[t][u] < storeStamp[v][u])
      BY DEF VarLoad, LoadRaces
    <2> QED
      BY <2>1, <2>2
  <1>10. initialized[v] =>
            \A u \in Threads : /\ storeStamp[v][u] <= clock[t][u]
                               /\ e.kind = "varStore" => loadStamp[v][u] <= clock[t][u]
    BY <1>6, <1>9
  <1> QED
    BY <1>3, <1>5, <1>6, <1>7, <1>8, <1>10, AccessStep

(* A store or a load that ends the iteration as a race.                    *)
LEMMA VarRaceStep ==
    ASSUME TypeOK, TypeOK', KnowledgeBound, HBInv, result = "none", ~ Cxx0xSequences,
           UNCHANGED profile, NEW t \in Threads, NEW v \in Vars,
           NEW kind \in {"varStore", "varLoad"},
           \/ kind = "varStore" /\ VarStoreRace(t, v)
           \/ kind = "varLoad" /\ VarLoadRace(t, v),
           Record(Event(t, kind, v, "relaxed", 0))
    PROVE  HBInv'
  <1> DEFINE e == Event(t, kind, v, "relaxed", 0)
  <1>1. clock' = clock /\ result' = "data_race"
    BY DEF VarStoreRace, VarLoadRace, Fail, threadVars
  <1>2. clock[t][t] \in Nat
    BY DEF TypeOK, Timestamps
  <1>3. e = [t |-> t, kind |-> kind, obj |-> v, mo |-> "relaxed", rf |-> 0,
             stamp |-> clock[t][t]]
    BY <1>1 DEF Event
  <1>4. e \in EventSet
    BY <1>2, <1>3 DEF EventSet, Kinds, AllOrders
  <1>5. e.t = t /\ e.kind = kind /\ e.obj = v /\ e.stamp = clock[t][t]
    BY <1>3
  <1>6. Record(e)
    OBVIOUS
  <1> HIDE DEF e
  <1>7. PICK u \in Threads : \/ clock[t][u] < storeStamp[v][u]
                             \/ kind = "varStore" /\ clock[t][u] < loadStamp[v][u]
    BY DEF VarStoreRace, VarLoadRace, StoreRaces, LoadRaces
  <1>8. \/ clock[t][u] < storeStamp[v][u]
        \/ e.kind = "varStore" /\ clock[t][u] < loadStamp[v][u]
    BY <1>5, <1>7
  <1>9. e.kind \in {"varStore", "varLoad"}
    BY <1>5
  <1> QED
    BY <1>1, <1>4, <1>5, <1>6, <1>8, <1>9, RaceStep

(* The clock of a thread after acquire, release or acq_rel of a sync_var.  *)
SyncClock(t, m, mo) ==
    IF mo = "release" THEN Tick(clock[t], t)
    ELSE AssignMax(Tick(clock[t], t), syncOrder[m])

(* That clock stands for what happens before the call.                     *)
LEMMA SyncClocks ==
    ASSUME NEW e, NEW k, Call(e, k), e.kind = "sync", NEW t \in Threads, e.t = t,
           NEW m \in SyncVars, e.obj = m, NEW mo \in {"acquire", "release", "acq_rel"},
           e.mo = mo, e.stamp = clock[t][t] + 1, NEW d \in Timestamps, d = SyncClock(t, m, mo)
    PROVE  /\ NextStands(d, past'[k]) /\ \A i \in Threads : clock[t][i] <= d[i]
           /\ d[t] = e.stamp
  <1>1. /\ TypeOK /\ LogOK /\ Logged(e, k) /\ ~ Cxx0xSequences /\ ~ IsRead(e)
        /\ Bounded(syncOrder[m]) /\ Stands(syncOrder[m], Pasts(SyncReleases(m)))
        /\ Stands(clock[t], PastOf(t))
    BY DEF Call, AllStand, ThreadsStand, ThreadStands, SharedStand, KnowledgeBound, IsRead
  <1>2. clock[t] \in Timestamps /\ syncOrder[m] \in Timestamps
    BY <1>1 DEF TypeOK
  <1> DEFINE own == Tick(clock[t], t)
             c == AssignMax(clock[t], syncOrder[m])
  <1>3. /\ own \in Timestamps /\ own[t] = clock[t][t] + 1
        /\ \A i \in Threads : i # t => own[i] = clock[t][i]
    BY <1>2, TickFacts
  <1>4. CASE mo = "release"
    <2>1. d = own
      BY <1>4 DEF SyncClock
    <2>2. LET f == Tick(clock[t], t)
          IN  /\ f \in Timestamps /\ NextStands(f, past'[k]) /\ f[t] = e.stamp
              /\ \A i \in Threads : clock[t][i] <= f[i]
      BY <1>1, <1>4, TickClocks DEF Acquires
    <2> QED
      BY <2>1, <2>2
  <1>5. CASE mo # "release"
    <2>1. d = AssignMax(own, syncOrder[m])
      BY <1>5 DEF SyncClock
    <2> HIDE DEF own
    <2>2. c \in Timestamps /\ Joins(c, clock[t], syncOrder[m])
      BY <1>2, AssignMaxJoins
    <2>3. Joins(d, own, syncOrder[m])
      BY <1>2, <1>3, <2>1, AssignMaxJoins
    <2>4. \A i \in Threads : /\ clock[t][i] \in Nat /\ own[i] \in Nat /\ d[i] \in Nat
                             /\ c[i] \in Nat /\ syncOrder[m][i] \in Nat
      BY <1>2, <1>3, <2>2 DEF Timestamps
    <2>5. c[t] = clock[t][t] /\ d[t] = clock[t][t] + 1
      <3>1. syncOrder[m][t] <= clock[t][t]
        BY <1>1 DEF Bounded
      <3>2. /\ c[t] \in {clock[t][t], syncOrder[m][t]} /\ clock[t][t] <= c[t]
            /\ d[t] \in {own[t], syncOrder[m][t]} /\ own[t] <= d[t]
        BY <2>2, <2>3 DEF Joins
      <3> HIDE DEF c
      <3> QED
        BY <1>3, <2>4, <3>1, <3>2
    <2>6. ASSUME NEW i \in Threads, i # t PROVE d[i] = c[i]
      <3>1. own[i] = clock[t][i]
        BY <1>3, <2>6
      <3>2. /\ c[i] \in {clock[t][i], syncOrder[m][i]} /\ clock[t][i] <= c[i]
            /\ syncOrder[m][i] <= c[i]
            /\ d[i] \in {own[i], syncOrder[m][i]} /\ own[i] <= d[i]
            /\ syncOrder[m][i] <= d[i]
        BY <2>2, <2>3 DEF Joins
      <3> HIDE DEF c
      <3> QED
        BY <2>4, <3>1, <3>2
    <2>7. \A i \in Threads : clock[t][i] <= d[i]
      <3> SUFFICES ASSUME NEW i \in Threads PROVE clock[t][i] <= d[i]
        OBVIOUS
      <3>1. CASE i = t
        BY <2>4, <2>5, <3>1
      <3>2. CASE i # t
        BY <2>2, <2>6, <3>2 DEF Joins
      <3> QED
        BY <3>1, <3>2
    <2> HIDE DEF c
    <2> DEFINE S == PastOf(t) \cup Pasts(SyncReleases(m))
    <2>8. past'[k] = S \cup {k}
      <3>1. past'[k] = {k} \cup PastOf(e.t)
              \cup (IF IsRead(e) /\ Acquires(e.mo) THEN ReleasePast(e.rf) ELSE {})
              \cup (IF e.kind = "fence" /\ Acquires(e.mo) THEN AcquirePast(e.t) ELSE {})
              \cup (IF e.kind = "fence" /\ e.mo = "seq_cst"
                    THEN Pasts(SeqCstFences) ELSE {})
              \cup (IF e.kind = "sync" /\ Acquires(e.mo)
                    THEN Pasts(SyncReleases(e.obj)) ELSE {})
        BY <1>1, NewPast
      <3>2. ~ IsRead(e) /\ e.kind = "sync" /\ e.kind # "fence" /\ Acquires(e.mo)
              /\ e.t = t /\ e.obj = m
        BY <1>1, <1>5 DEF Acquires
      <3> QED
        BY ONLY <3>1, <3>2 DEF S
    <2>9. Stands(c, S) /\ S \in SUBSET Events
      BY <1>1, <1>2, <2>2, StandsJoin, PastsAreEvents
    <2> HIDE DEF S
    <2>10. NextStands(d, S \cup {k})
      <3>1. /\ c[e.t] = clock[e.t][e.t] /\ c[e.t] < d[e.t] /\ e.stamp = d[e.t]
            /\ \A i \in Threads : i # e.t => d[i] = c[i]
        BY <2>4, <2>5, <2>6
      <3> QED
        BY ONLY <1>1, <2>2, <2>9, <3>1, d \in Timestamps, StandsTick
    <2> QED
      BY <2>5, <2>7, <2>8, <2>10
  <1> QED
    BY <1>4, <1>5

(* A call of a sync_var keeps the invariant (sync_var.hpp).                *)
LEMMA SyncsStep ==
    ASSUME TypeOK, TypeOK', KnowledgeBound, HBInv, result = "none", ~ Cxx0xSequences,
           UNCHANGED profile, NEW t \in Threads, NEW m \in SyncVars,
           NEW mo \in {"acquire", "release", "acq_rel"},
           \/ mo = "acquire" /\ SyncAcquire(t, m)
           \/ mo = "release" /\ SyncRelease(t, m)
           \/ mo = "acq_rel" /\ SyncAcqRel(t, m),
           Record(Event(t, "sync", m, mo, 0))
    PROVE  HBInv'
  <1> DEFINE e == Event(t, "sync", m, mo, 0)
             k == Len(log) + 1
             d == SyncClock(t, m, mo)
  <1>1. /\ profile \in Profiles /\ LogOK /\ CoherentHistory /\ SeqCstReads
        /\ ~ HasRace /\ AllStand
    BY DEF HBInv
  <1>2. /\ clock \in [Threads -> Timestamps] /\ clock[t] \in Timestamps /\ clock[t][t] \in Nat
        /\ syncOrder \in [SyncVars -> Timestamps] /\ Bounded(syncOrder[m])
    BY DEF TypeOK, Timestamps, KnowledgeBound
  <1>3. Tick(clock[t], t) \in Timestamps /\ Tick(clock[t], t)[t] = clock[t][t] + 1
    BY <1>2, TickFacts
  <1>4. d \in Timestamps
    BY <1>2, <1>3, AssignMaxFacts DEF SyncClock
  <1>5. /\ clock' = [clock EXCEPT ![t] = d]
        /\ syncOrder' = IF mo = "acquire" THEN syncOrder
                        ELSE [syncOrder EXCEPT ![m] = AssignMax(syncOrder[m], d)]
        /\ UNCHANGED <<acquireFence, releaseFence, seqCstFence, current, history,
                       plainVars, result>>
    BY DEF SyncAcquire, SyncRelease, SyncAcqRel, SyncClock, atomicVars
  <1>6. d[t] = clock[t][t] + 1
    <2>1. CASE mo = "release"
      BY <1>3, <2>1 DEF SyncClock
    <2>2. CASE mo # "release"
      <3>1. /\ d[t] \in {Tick(clock[t], t)[t], syncOrder[m][t]}
            /\ Tick(clock[t], t)[t] <= d[t]
        BY <1>2, <1>3, <2>2, AssignMaxFacts DEF SyncClock
      <3>2. syncOrder[m][t] <= clock[t][t] /\ syncOrder[m][t] \in Nat
        BY <1>2 DEF Bounded, Timestamps
      <3> HIDE DEF d
      <3> QED
        BY <1>2, <1>3, <3>1, <3>2
    <2> QED
      BY <2>1, <2>2
  <1> HIDE DEF d
  <1>7. e = [t |-> t, kind |-> "sync", obj |-> m, mo |-> mo, rf |-> 0,
             stamp |-> clock[t][t] + 1]
    BY <1>2, <1>5, <1>6 DEF Event
  <1>8. e \in EventSet
    BY <1>2, <1>7 DEF EventSet, Kinds, AllOrders
  <1>9. /\ e.t = t /\ e.kind = "sync" /\ e.obj = m /\ e.mo = mo
        /\ e.stamp = clock[t][t] + 1
    BY <1>7
  <1>10. Record(e)
    OBVIOUS
  <1> HIDE DEF e, k
  <1>11. ~ IsRead(e) /\ ~ IsWrite(e) /\ ~ Silent(e) /\ e.kind # "global"
    BY <1>9 DEF IsRead, IsWrite, Silent
  <1>12. e.stamp > 0 /\ clock[e.t][e.t] < e.stamp
    BY <1>2, <1>9
  <1>13. Call(e, k)
    BY <1>1, <1>8, <1>10, <1>11, <1>12, MakesCall DEF k
  <1>14. NextStands(d, past'[k]) /\ \A i \in Threads : clock[t][i] <= d[i]
    <2>1. d = SyncClock(t, m, mo)
      BY DEF d
    <2> QED
      BY <1>4, <1>9, <1>13, <2>1, SyncClocks
  <1>15. ThreadsStand' /\ OwnGrow
    <2>1. /\ \A u \in Threads : releaseFence'[u] =
                IF u = t /\ e.kind = "fence" /\ Releases(e.mo) THEN d ELSE releaseFence[u]
          /\ acquireFence' = acquireFence
      BY <1>5, <1>9
    <2> QED
      BY ONLY <1>4, <1>5, <1>9, <1>11, <1>13, <1>14, <2>1, t \in Threads, OneThread
  <1>16. SharedStand'
    <2>1. NextStands(seqCstFence', Pasts(SeqCstFences)')
      BY <1>5, <1>9, <1>13, SharedKeeps
    <2>2. ASSUME NEW sv \in SyncVars
          PROVE  NextStands(syncOrder'[sv], Pasts(SyncReleases(sv))')
      <3>1. CASE sv = m /\ mo # "acquire"
        <4>1. Pasts(SyncReleases(sv))' = Pasts(SyncReleases(sv)) \cup past'[k]
          <5>1. Releases(e.mo)
            BY <1>9, <3>1 DEF Releases
          <5>2. Logged(e, k)
            BY <1>13 DEF Call
          <5> QED
            BY <1>1, <1>9, <3>1, <5>1, <5>2, SyncReleasesGrow
        <4>2. syncOrder'[sv] = AssignMax(syncOrder[sv], d) /\ syncOrder[sv] \in Timestamps
          BY <1>2, <1>5, <3>1
        <4>3. NextStands(syncOrder[sv], Pasts(SyncReleases(sv)))
          <5>1. /\ Stands(syncOrder[sv], Pasts(SyncReleases(sv))) /\ Bounded(syncOrder[sv])
                /\ Pasts(SyncReleases(sv)) \in SUBSET Events
            BY <1>1, <1>2, <3>1, PastsAreEvents DEF AllStand, SharedStand
          <5> QED
            BY <1>13, <4>2, <5>1, OldStands
        <4>4. /\ syncOrder'[sv] \in Timestamps /\ Joins(syncOrder'[sv], syncOrder[sv], d)
              /\ log' \in Seq(EventSet)
          BY <1>4, <1>13, <4>2, AssignMaxJoins DEF Call
        <4>5. NextStands(syncOrder'[sv], Pasts(SyncReleases(sv)) \cup past'[k])
          BY ONLY <1>4, <1>14, <4>2, <4>3, <4>4, NextStandsJoin
        <4> QED
          BY <4>1, <4>5
      <3>2. CASE ~ (sv = m /\ mo # "acquire")
        <4>1. syncOrder'[sv] = syncOrder[sv]
          BY <1>2, <1>5, <3>2
        <4>2. ~ (e.kind = "sync" /\ Releases(e.mo) /\ e.obj = sv)
          BY <1>9, <3>2 DEF Releases
        <4> QED
          BY <1>13, <4>1, <4>2, SharedKeeps
      <3> QED
        BY <3>1, <3>2
    <2> QED
      BY <2>1, <2>2, NextShared
  <1>17. HistoryStands'
    BY <1>5, <1>11, <1>13, HistoryKeeps
  <1>18. AccessesStand'
    BY <1>5, <1>9, <1>13, AccessesKeep
  <1>19. e.stamp <= clock'[e.t][e.t]
    <2>1. clock'[t] = d
      BY <1>2, <1>5
    <2> QED
      BY <1>2, <1>6, <1>9, <2>1
  <1>20. \A i \in Events : ~ Conflict(log[i], e)
    BY <1>9 DEF Conflict
  <1>21. result' = "none" /\ k = Len(log) + 1
    BY <1>5 DEF k
  <1> QED
    BY <1>1, <1>10, <1>11, <1>13, <1>15, <1>16, <1>17, <1>18, <1>19, <1>20, <1>21, LiveCall

(* A system-wide fence keeps the invariant: every clock reaches every call *)
(* made so far, and every call happens before whatever is done next.       *)
LEMMA GlobalStep ==
    ASSUME TypeOK, TypeOK', KnowledgeBound, HBInv, result = "none", ~ Cxx0xSequences,
           UNCHANGED profile, GlobalFence, NEW t \in Threads,
           Record(Event(t, "global", 0, "seq_cst", 0))
    PROVE  HBInv'
  <1> DEFINE e == Event(t, "global", 0, "seq_cst", 0)
             k == Len(log) + 1
  <1>1. /\ profile \in Profiles /\ LogOK /\ CoherentHistory /\ SeqCstReads
        /\ ~ HasRace /\ AllStand
    BY DEF HBInv
  <1>2. PICK m \in {clock[i][i] : i \in Threads} :
           /\ \A i \in Threads : clock[i][i] <= m
           /\ clock' = [i \in Threads |-> [j \in Threads |-> m]]
    BY DEF GlobalFence
  <1>3. m \in Nat /\ clock \in [Threads -> Timestamps]
          /\ \A i, j \in Threads : clock[i][j] \in Nat
    BY DEF TypeOK, Timestamps
  <1>4. UNCHANGED <<acquireFence, releaseFence, seqCstFence, current, history,
                    plainVars, syncOrder, result>>
    BY DEF GlobalFence, atomicVars
  <1>5. e = [t |-> t, kind |-> "global", obj |-> 0, mo |-> "seq_cst", rf |-> 0, stamp |-> 0]
    BY DEF Event
  <1>6. e \in EventSet
    BY <1>5 DEF EventSet, Kinds, AllOrders
  <1>7. /\ e.t = t /\ e.kind = "global" /\ e.stamp = 0
    BY <1>5
  <1>8. Record(e)
    OBVIOUS
  <1> HIDE DEF e, k
  <1>9. ~ IsRead(e) /\ ~ IsWrite(e) /\ Silent(e)
    BY <1>7 DEF IsRead, IsWrite, Silent
  <1>10. Call(e, k)
    BY <1>1, <1>6, <1>7, <1>8, <1>9, MakesCall DEF k
  <1>11. Logged(e, k) /\ past'[k] = Events \cup {k}
    BY <1>1, <1>7, <1>10, GlobalPast DEF Call
  <1>12. ASSUME NEW c, \A i \in Threads : c[i] = m PROVE NextStands(c, Events \cup {k})
    <2> SUFFICES ASSUME NEW i \in Events', log'[i].stamp > 0
                 PROVE  c[log'[i].t] >= log'[i].stamp <=> i \in Events \cup {k}
      BY DEF NextStands
    <2>1. i # k /\ i \in Events /\ log'[i] = log[i]
      BY <1>7, <1>11 DEF Logged
    <2>2. /\ log[i].t \in Threads /\ log[i].stamp \in Nat
          /\ log[i].stamp <= clock[log[i].t][log[i].t]
      BY <1>1, <2>1, LogFacts DEF EventSet, EntryOK
    <2>3. clock[log[i].t][log[i].t] <= m /\ c[log[i].t] = m
            /\ clock[log[i].t][log[i].t] \in Nat
      BY <1>2, <1>3, <1>12, <2>2
    <2>4. m >= log[i].stamp
      BY <1>3, <2>2, <2>3
    <2> QED
      BY <2>1, <2>3, <2>4
  <1>13. ASSUME NEW u \in Threads PROVE ThreadStands(u)'
    <2>1. /\ acquireFence[u] \in Timestamps /\ Bounded(acquireFence[u])
          /\ releaseFence[u] \in Timestamps /\ Bounded(releaseFence[u])
          /\ Stands(releaseFence[u], Pasts(FencesOf(u)))
      BY <1>1 DEF TypeOK, KnowledgeBound, ThreadsBounded, AllStand, ThreadsStand, ThreadStands
    <2>2. \A i \in Threads : clock'[u][i] = m
      BY <1>2
    <2>3. ASSUME NEW i \in Threads PROVE AssignMax(clock'[u], acquireFence'[u])[i] = m
      <3>1. /\ acquireFence[u][i] <= clock[i][i] /\ clock[i][i] <= m
            /\ acquireFence[u][i] \in Nat /\ clock[i][i] \in Nat
        BY <1>2, <1>3, <2>1 DEF Bounded, Timestamps
      <3>2. ~ (acquireFence[u][i] > m)
        BY <1>3, <3>1
      <3> QED
        BY <1>4, <2>2, <3>2 DEF AssignMax
    <2>4. PastOf(u)' = Events \cup {k}
      <3>1. PastOf(u)' = PastOf(u) \cup (IF e.t = u \/ e.kind = "global"
                                         THEN past'[k] ELSE {})
        BY <1>1, <1>11, PastOfGrows
      <3>2. PastOf(u) \subseteq Events
        BY <1>1, PastsAreEvents
      <3> QED
        BY <1>7, <1>11, <3>1, <3>2
    <2>5. AcquirePast(u)' \subseteq Events
      <3>1. AcquirePast(u)' = AcquirePast(u) \cup
              (IF e.t = u /\ IsRead(e) THEN ReleasePast(e.rf) ELSE {})
        BY <1>1, <1>9, <1>11, AcquirePastGrows
      <3>2. AcquirePast(u) \subseteq Events
        BY <1>1, PastsAreEvents
      <3> QED
        BY <1>9, <3>1, <3>2
    <2>6. NextStands(clock'[u], PastOf(u)')
      BY <1>12, <2>2, <2>4
    <2>7. NextStands(AssignMax(clock'[u], acquireFence'[u]), PastOf(u)' \cup AcquirePast(u)')
      <3>1. PastOf(u)' \cup AcquirePast(u)' = Events \cup {k}
        BY <2>4, <2>5
      <3>2. NextStands(AssignMax(clock'[u], acquireFence'[u]), Events \cup {k})
        BY <1>12, <2>3
      <3> QED
        BY <3>1, <3>2
    <2>8. NextStands(releaseFence'[u], Pasts(FencesOf(u))')
      <3>1. Pasts(FencesOf(u))' = Pasts(FencesOf(u)) \cup
              (IF e.kind = "fence" /\ Releases(e.mo) /\ e.t = u THEN past'[k] ELSE {})
        BY <1>1, <1>11, FencesGrow
      <3>2. Pasts(FencesOf(u))' = Pasts(FencesOf(u)) /\ releaseFence'[u] = releaseFence[u]
        BY <1>4, <1>7, <3>1
      <3>3. Pasts(FencesOf(u)) \in SUBSET Events
        BY <1>1, PastsAreEvents
      <3>4. NextStands(releaseFence[u], Pasts(FencesOf(u)))
        BY <1>10, <2>1, <3>3, OldStands
      <3> QED
        BY <3>2, <3>4
    <2> QED
      BY <2>6, <2>7, <2>8, NextThread
  <1>14. ThreadsStand' /\ OwnGrow
    BY <1>2, <1>13 DEF ThreadsStand, OwnGrow
  <1>15. SharedStand'
    BY <1>4, <1>7, <1>10, SharedKeeps, NextShared
  <1>16. HistoryStands'
    BY <1>4, <1>9, <1>10, HistoryKeeps
  <1>17. AccessesStand'
    BY <1>4, <1>7, <1>10, AccessesKeep
  <1>18. e.stamp <= clock'[e.t][e.t]
    BY <1>2, <1>3, <1>7
  <1>19. \A i \in Events : ~ Conflict(log[i], e)
    BY <1>7 DEF Conflict
  <1>20. result' = "none" /\ k = Len(log) + 1
    BY <1>4 DEF k
  <1> QED
    BY <1>1, <1>8, <1>9, <1>10, <1>14, <1>15, <1>16, <1>17, <1>18, <1>19, <1>20, LiveCall

-----------------------------------------------------------------------------
(* The invariant of the specification. *)

(* The threads that act are threads.                                       *)
LEMMA ActorsAreThreads == LogOK => Actors \subseteq Threads
  <1> SUFFICES ASSUME LogOK PROVE Actors \subseteq Threads
    OBVIOUS
  <1>1. \A i \in Events : log[i].t \in Threads
    BY LogFacts DEF EventSet
  <1> QED
    BY <1>1 DEF Actors

(* What the families of programs use is what the engine was given.         *)
LEMMA ProfileFacts ==
    ASSUME profile \in Profiles
    PROVE  /\ profile.atomics \subseteq Atomics /\ profile.vars \subseteq Vars
           /\ profile.syncs \subseteq SyncVars
           /\ profile.loads \subseteq LoadOrders /\ profile.stores \subseteq StoreOrders
           /\ profile.rmws \subseteq RmwOrders /\ profile.fences \subseteq FenceOrders
  BY ProfilesAssumption DEF IsProfile

(* A call of a thread is a step of the engine, and keeps the invariant.    *)
LEMMA ThreadStep ==
    ASSUME TypeOK, TypeOK', KnowledgeBound, HBInv, ~ Cxx0xSequences, UNCHANGED profile,
           NEW t \in Threads, RecordedThread(t)
    PROVE  HBInv'
  <1>1. /\ profile.atomics \subseteq Atomics /\ profile.vars \subseteq Vars
        /\ profile.syncs \subseteq SyncVars
        /\ profile.loads \subseteq LoadOrders /\ profile.stores \subseteq StoreOrders
        /\ profile.rmws \subseteq RmwOrders /\ profile.fences \subseteq FenceOrders
    BY ProfileFacts DEF HBInv
  <1>2. ASSUME NEW a \in profile.atomics, RecordedAtomic(t, a) PROVE HBInv'
    <2>1. a \in Atomics
      BY <1>1
    <2>2. ASSUME NEW mo \in profile.loads, NEW n \in 0 .. LoadLimit,
                 Load(t, a, mo, Older(current[a], n)),
                 Record(Event(t, "load", a, mo, NthNewest(a, n)))
          PROVE  HBInv'
      <3>1. mo \in LoadOrders /\ result = "none"
        BY <1>1, <2>2 DEF Load, Live
      <3> QED
        BY <2>1, <2>2, <3>1, LoadStep
    <2>3. ASSUME NEW mo \in profile.stores, NEW x \in Values, Store(t, a, mo, x),
                 Record(Event(t, "store", a, mo, 0))
          PROVE  HBInv'
      <3>1. mo \in StoreOrders /\ result = "none"
        BY <1>1, <2>3 DEF Store, Live
      <3> QED
        BY <2>1, <2>3, <3>1, StoreStep
    <2>4. ASSUME NEW mo \in profile.rmws, NEW x \in Values, Rmw(t, a, mo, x),
                 Record(Event(t, "rmw", a, mo, NthNewest(a, 0)))
          PROVE  HBInv'
      <3>1. mo \in RmwOrders /\ result = "none"
        BY <1>1, <2>4 DEF Rmw, Live
      <3> QED
        BY <2>1, <2>4, <3>1, RmwStep
    <2> QED
      BY <1>2, <2>2, <2>3, <2>4 DEF RecordedAtomic
  <1>3. ASSUME NEW mo \in profile.fences, Fence(t, mo), Record(Event(t, "fence", 0, mo, 0))
        PROVE  HBInv'
    <2>1. mo \in FenceOrders /\ result = "none"
      BY <1>1, <1>3 DEF Fence, Live
    <2> QED
      BY <1>3, <2>1, FenceStep
  <1>4. ASSUME NEW v \in profile.vars, RecordedVar(t, v) PROVE HBInv'
    <2>1. v \in Vars
      BY <1>1
    <2>2. result = "none"
      BY <1>4 DEF RecordedVar, VarStore, VarStoreRace, VarLoad, VarLoadRace, Live
    <2>3. CASE VarStore(t, v) /\ Record(Event(t, "varStore", v, "relaxed", 0))
      BY <2>1, <2>2, <2>3, VarStoreStep
    <2>4. CASE VarLoad(t, v) /\ Record(Event(t, "varLoad", v, "relaxed", 0))
      BY <2>1, <2>2, <2>4, VarLoadStep
    <2>5. CASE VarStoreRace(t, v) /\ Record(Event(t, "varStore", v, "relaxed", 0))
      BY <2>1, <2>2, <2>5, VarRaceStep
    <2>6. CASE VarLoadRace(t, v) /\ Record(Event(t, "varLoad", v, "relaxed", 0))
      BY <2>1, <2>2, <2>6, VarRaceStep
    <2> QED
      BY <1>4, <2>3, <2>4, <2>5, <2>6 DEF RecordedVar
  <1>5. ASSUME NEW m \in profile.syncs, RecordedSync(t, m) PROVE HBInv'
    <2>1. m \in SyncVars
      BY <1>1
    <2>2. result = "none"
      BY <1>5 DEF RecordedSync, SyncAcquire, SyncRelease, SyncAcqRel, Live
    <2>3. CASE SyncAcquire(t, m) /\ Record(Event(t, "sync", m, "acquire", 0))
      BY <2>1, <2>2, <2>3, SyncsStep
    <2>4. CASE SyncRelease(t, m) /\ Record(Event(t, "sync", m, "release", 0))
      BY <2>1, <2>2, <2>4, SyncsStep
    <2>5. CASE SyncAcqRel(t, m) /\ Record(Event(t, "sync", m, "acq_rel", 0))
      BY <2>1, <2>2, <2>5, SyncsStep
    <2> QED
      BY <1>5, <2>3, <2>4, <2>5 DEF RecordedSync
  <1> QED
    BY <1>2, <1>3, <1>4, <1>5 DEF RecordedThread

(* A step of HBNext is a step of the engine, so that what is invariant of  *)
(* MemoryOrder is invariant here.                                          *)
LEMMA EngineStep ==
    ASSUME TypeOK, HBInv, HBNext
    PROVE  Next
  <1>1. Actors \subseteq Threads
    BY ActorsAreThreads DEF HBInv
  <1>2. /\ profile.atomics \subseteq Atomics /\ profile.vars \subseteq Vars
        /\ profile.syncs \subseteq SyncVars
        /\ profile.loads \subseteq LoadOrders /\ profile.stores \subseteq StoreOrders
        /\ profile.rmws \subseteq RmwOrders /\ profile.fences \subseteq FenceOrders
    BY ProfileFacts DEF HBInv
  <1>3. CASE GlobalFence
    BY <1>3 DEF Next
  <1>4. ASSUME NEW t \in Actors, RecordedThread(t) PROVE Next
    <2>1. t \in Threads
      BY <1>1
    <2>2. ASSUME NEW a \in profile.atomics, RecordedAtomic(t, a) PROVE AtomicStep(t, a)
      <3>1. a \in Atomics /\ current[a] \in Slots
        BY <1>2 DEF TypeOK
      <3>2. \A n \in 0 .. LoadLimit : Older(current[a], n) \in Slots
        <4>1. 0 .. LoadLimit \subseteq 0 .. HistorySize - 1
          BY DEF LoadLimit, HistorySize
        <4> QED
          BY <3>1, <4>1, SlotFacts
      <3> QED
        BY <1>2, <2>2, <3>2 DEF RecordedAtomic, AtomicStep
    <2>3. CASE \E a \in profile.atomics : RecordedAtomic(t, a)
      BY <1>2, <2>1, <2>2, <2>3 DEF Next
    <2>4. CASE \E mo \in profile.fences : Fence(t, mo) /\ Record(Event(t, "fence", 0, mo, 0))
      BY <1>2, <2>1, <2>4 DEF Next
    <2>5. CASE \E v \in profile.vars : RecordedVar(t, v)
      <3>1. \E v \in Vars : VarStep(t, v)
        BY <1>2, <2>5 DEF RecordedVar, VarStep
      <3> QED
        BY <2>1, <3>1 DEF Next
    <2>6. CASE \E m \in profile.syncs : RecordedSync(t, m)
      <3>1. \E m \in SyncVars : SyncStep(t, m)
        BY <1>2, <2>6 DEF RecordedSync, SyncStep
      <3> QED
        BY <2>1, <3>1 DEF Next
    <2> QED
      BY <1>4, <2>3, <2>4, <2>5, <2>6 DEF RecordedThread
  <1> QED
    BY <1>3, <1>4 DEF HBNext

(* What the invariant says depends on these variables only.                *)
LEMMA HBStutter == HBInv /\ UNCHANGED hbVars => HBInv'
  <1> SUFFICES ASSUME HBInv, UNCHANGED hbVars PROVE HBInv'
    OBVIOUS
  <1>1. /\ UNCHANGED <<clock, acquireFence, releaseFence, seqCstFence, history, current>>
        /\ UNCHANGED <<storeStamp, loadStamp, initialized, syncOrder, result>>
        /\ UNCHANGED <<profile, log, past>>
    BY DEF hbVars, vars
  <1>2. Events' = Events /\ \A a : WritesTo(a)' = WritesTo(a)
    BY <1>1 DEF Events, WritesTo
  <1>3. \A u, w : Carries(u, w)' = Carries(u, w)
    BY <1>1, <1>2 DEF Carries
  <1>4. \A w : ReleasedBy(w)' = ReleasedBy(w)
    BY <1>1, <1>2, <1>3 DEF ReleasedBy
  <1>5. \A w : ReleasePast(w)' = ReleasePast(w)
    BY <1>1, <1>4 DEF ReleasePast, Pasts
  <1>6. \A u : PastOf(u)' = PastOf(u) /\ ReadsOf(u)' = ReadsOf(u)
    BY <1>1, <1>2 DEF PastOf, ReadsOf
  <1>7. \A u : AcquirePast(u)' = AcquirePast(u)
    BY <1>1, <1>5, <1>6 DEF AcquirePast
  <1>8. \A u : Pasts(FencesOf(u))' = Pasts(FencesOf(u))
    BY <1>1, <1>2 DEF Pasts, FencesOf
  <1>9. Pasts(SeqCstFences)' = Pasts(SeqCstFences)
    BY <1>1, <1>2 DEF Pasts, SeqCstFences
  <1>10. \A sv : Pasts(SyncReleases(sv))' = Pasts(SyncReleases(sv))
    BY <1>1, <1>2 DEF Pasts, SyncReleases
  <1>11. \A c, S : Stands(c, S) => NextStands(c, S)
    BY <1>1, <1>2 DEF Stands, NextStands
  <1>12. /\ profile' \in Profiles /\ LogOK' /\ CoherentHistory' /\ SeqCstReads'
         /\ HasRace' <=> HasRace
    <2>1. LogOK'
      BY <1>1, <1>2 DEF HBInv, LogOK, EntryOK, Silent
    <2>2. CoherentHistory' /\ SeqCstReads'
      BY <1>1, <1>2 DEF HBInv, CoherentHistory, SeqCstReads, StoreOf
    <2>3. HasRace' <=> HasRace
      BY <1>1, <1>2 DEF HasRace
    <2> QED
      BY <1>1, <2>1, <2>2, <2>3 DEF HBInv
  <1>13. ASSUME AllStand PROVE AllStand'
    <2>1. Stamped'
      BY <1>1, <1>2, <1>13 DEF AllStand, Stamped, Silent
    <2>2. ThreadsStand'
      <3> SUFFICES ASSUME NEW u \in Threads PROVE ThreadStands(u)'
        BY DEF ThreadsStand
      <3>1. ThreadStands(u)
        BY <1>13 DEF AllStand, ThreadsStand
      <3>2. /\ NextStands(clock'[u], PastOf(u)')
            /\ NextStands(releaseFence'[u], Pasts(FencesOf(u))')
        BY <1>1, <1>6, <1>8, <1>11, <3>1 DEF ThreadStands
      <3>3. NextStands(AssignMax(clock'[u], acquireFence'[u]), PastOf(u)' \cup AcquirePast(u)')
        BY <1>1, <1>6, <1>7, <1>11, <3>1 DEF ThreadStands
      <3> QED
        BY <3>2, <3>3, NextThread
    <2>3. SharedStand'
      <3>1. NextStands(seqCstFence', Pasts(SeqCstFences)')
        BY <1>1, <1>9, <1>11, <1>13 DEF AllStand, SharedStand
      <3>2. \A sv \in SyncVars : NextStands(syncOrder'[sv], Pasts(SyncReleases(sv))')
        BY <1>1, <1>10, <1>11, <1>13 DEF AllStand, SharedStand
      <3> QED
        BY <3>1, <3>2, NextShared
    <2>4. HistoryStands'
      <3> SUFFICES ASSUME NEW a \in Atomics, NEW n \in 0 .. HistorySize - 1
                   PROVE  PlaceStands(a, n)'
        BY DEF HistoryStands
      <3>1. PlaceStands(a, n)
        BY <1>13 DEF AllStand, HistoryStands
      <3>2. \A w : IsNth(a, n, w)' <=> IsNth(a, n, w)
        BY <1>2 DEF IsNth
      <3>3. \A rec, w : RecordStands(rec, w) => NextRecordStands(rec, w)
        BY <1>1, <1>2, <1>5, <1>11 DEF RecordStands, NextRecordStands, Touches, StoreOf
      <3> QED
        BY <1>1, <1>2, <3>1, <3>2, <3>3, NextPlace DEF PlaceStands
    <2>5. AccessesStand'
      BY <1>1, <1>2, <1>13 DEF AllStand, AccessesStand, StampsStand
    <2> QED
      BY <2>1, <2>2, <2>3, <2>4, <2>5 DEF AllStand
  <1> QED
    BY <1>1, <1>12, <1>13 DEF HBInv

(* The invariant with the types and the bounds it needs.                   *)
HBFull == TypeOK /\ KnowledgeBound /\ HBInv

(* The invariant holds before the first call.                              *)
LEMMA HBStarts == HBInit => HBFull
  <1> SUFFICES ASSUME HBInit PROVE HBFull
    OBVIOUS
  <1>1. Init /\ profile \in Profiles /\ log = <<>> /\ past = <<>>
    BY DEF HBInit
  <1>2. TypeOK /\ KnowledgeBound
    BY <1>1, InitType, InitKnowledge
  <1>3. Events = {} /\ Len(log) = 0
    BY <1>1 DEF Events
  <1>4. LogOK
    <2>1. log \in Seq(EventSet) /\ past \in Seq(SUBSET Nat) /\ Len(past) = Len(log)
      BY <1>1
    <2> QED
      BY <1>3, <2>1 DEF LogOK
  <1>5. CoherentHistory /\ SeqCstReads /\ ~ HasRace
    BY <1>3 DEF CoherentHistory, SeqCstReads, HasRace
  <1>6. Stamped /\ ThreadsStand /\ SharedStand
    BY <1>3 DEF Stamped, ThreadsStand, ThreadStands, SharedStand, Stands
  <1>7. HistoryStands
    <2> SUFFICES ASSUME NEW a \in Atomics, NEW n \in 0 .. HistorySize - 1
                 PROVE  PlaceStands(a, n)
      BY DEF HistoryStands
    <2>1. Older(current[a], n) \in Slots
      BY <1>2, SlotFacts DEF TypeOK
    <2>2. history[a][Older(current[a], n)] = Unused
      BY <1>1, <2>1 DEF Init
    <2> QED
      BY <1>3, <2>2 DEF PlaceStands, Unused
  <1>8. AccessesStand
    <2>1. \A v \in Vars : storeStamp[v] = Zero /\ loadStamp[v] = Zero
      BY <1>1 DEF Init
    <2>2. \A u \in Threads : ~ (Zero[u] > 0)
      BY DEF Zero
    <2> QED
      BY <1>3, <2>1, <2>2 DEF AccessesStand, StampsStand
  <1> QED
    BY <1>1, <1>2, <1>4, <1>5, <1>6, <1>7, <1>8 DEF HBFull, HBInv, AllStand, Init

(* The invariant is inductive.                                             *)
LEMMA HBKeeps == ~ Cxx0xSequences => (HBFull /\ [HBNext]_hbVars => HBFull')
  <1> SUFFICES ASSUME ~ Cxx0xSequences, HBFull, [HBNext]_hbVars PROVE HBFull'
    OBVIOUS
  <1>1. TypeOK /\ KnowledgeBound /\ HBInv
    BY DEF HBFull
  <1>2. CASE UNCHANGED hbVars
    <2>1. UNCHANGED vars
      BY <1>2 DEF hbVars
    <2>2. TypeOK' /\ KnowledgeBound'
      BY <1>1, <2>1, TypeStep, KnowledgeStep
    <2> QED
      BY <1>1, <1>2, <2>2, HBStutter DEF HBFull
  <1>3. CASE HBNext
    <2>1. Next
      BY <1>1, <1>3, EngineStep
    <2>2. TypeOK' /\ KnowledgeBound'
      BY <1>1, <2>1, TypeStep, KnowledgeStep
    <2>3. UNCHANGED profile /\ Actors \subseteq Threads
      BY <1>1, <1>3, ActorsAreThreads DEF HBNext, HBInv
    <2>4. ASSUME NEW t \in Actors, RecordedThread(t) PROVE HBInv'
      <3>1. t \in Threads
        BY <2>3
      <3> QED
        BY <1>1, <2>2, <2>3, <2>4, <3>1, ThreadStep
    <2>5. ASSUME GlobalFence, NEW t \in Actors, Record(Event(t, "global", 0, "seq_cst", 0))
          PROVE  HBInv'
      <3>1. t \in Threads /\ result = "none"
        BY <2>3, <2>5 DEF GlobalFence, Live
      <3> QED
        BY <1>1, <2>2, <2>3, <2>5, <3>1, GlobalStep
    <2>6. HBInv'
      BY <1>3, <2>4, <2>5 DEF HBNext
    <2> QED
      BY <2>2, <2>6 DEF HBFull
  <1> QED
    BY <1>2, <1>3

(* What the invariant says of the properties the runs check.               *)
LEMMA HBImplies ==
    HBFull => ClockIsHappensBefore /\ RaceIffUnordered /\ CoherentHistory /\ SeqCstReads
  <1> SUFFICES ASSUME HBFull
               PROVE  ClockIsHappensBefore /\ RaceIffUnordered /\ CoherentHistory /\ SeqCstReads
    OBVIOUS
  <1>1. CoherentHistory /\ SeqCstReads /\ (result = "data_race" <=> HasRace)
    BY DEF HBFull, HBInv
  <1>2. ClockIsHappensBefore
    BY DEF HBFull, HBInv, AllStand, ThreadsStand, ThreadStands, Stands, ClockIsHappensBefore
  <1>3. RaceIffUnordered
    BY <1>1 DEF RaceIffUnordered, HasRace
  <1> QED
    BY <1>1, <1>2, <1>3

(* The invariant holds in every reachable state.                           *)
LEMMA HBAlways == ASSUME ~ Cxx0xSequences PROVE HBSpec => []HBFull
  <1>1. HBInit => HBFull
    BY HBStarts
  <1>2. HBFull /\ [HBNext]_hbVars => HBFull'
    BY HBKeeps
  <1> QED
    BY <1>1, <1>2, PTL DEF HBSpec

-----------------------------------------------------------------------------
(* The theorems.  They are about the release sequences that the code       *)
(* implements, so Cxx0xSequences is FALSE: with those of ISO C++0x the     *)
(* clocks are not happens-before, which HBCxx0x.cfg shows.                 *)

(* The vector clock of a thread has reached the timestamp of a call        *)
(* exactly if the call happens before whatever the thread does next: the   *)
(* clocks of thread.hpp, atomic.hpp and sync_var.hpp compute               *)
(* happens-before, no more and no less, in every program.                  *)
THEOREM ClocksAreHappensBefore ==
    ASSUME ~ Cxx0xSequences PROVE HBSpec => []ClockIsHappensBefore
  <1>1. HBFull => ClockIsHappensBefore
    BY HBImplies
  <1> QED
    BY <1>1, HBAlways, PTL

(* A data race is reported exactly if two conflicting accesses to a plain  *)
(* variable are not ordered by happens-before: one stamp per thread and    *)
(* kind of access, as var.hpp keeps, forgets no race and invents none.     *)
THEOREM RaceDetectionIsExact ==
    ASSUME ~ Cxx0xSequences PROVE HBSpec => []RaceIffUnordered
  <1>1. HBFull => RaceIffUnordered
    BY HBImplies
  <1> QED
    BY <1>1, HBAlways, PTL

(* A load never returns a store older than one made, or read, by a call    *)
(* that happens before it, although get_load_index remembers three stores  *)
(* and one first reader stamp per thread only.                             *)
THEOREM ReadsAreCoherent ==
    ASSUME ~ Cxx0xSequences PROVE HBSpec => []CoherentHistory
  <1>1. HBFull => CoherentHistory
    BY HBImplies
  <1> QED
    BY <1>1, HBAlways, PTL

(* A seq_cst load never returns a store older than the last seq_cst store  *)
(* to the variable (get_load_index).                                       *)
THEOREM SeqCstReadsAreRecent ==
    ASSUME ~ Cxx0xSequences PROVE HBSpec => []SeqCstReads
  <1>1. HBFull => SeqCstReads
    BY HBImplies
  <1> QED
    BY <1>1, HBAlways, PTL
=============================================================================
