--------------------------- MODULE HappensBefore ---------------------------
(***************************************************************************)
(* What the vector clocks of MemoryOrder stand for.  Every call of the     *)
(* engine is recorded in a log, and happens-before is computed from the    *)
(* log alone: sequenced-before, and the synchronizes-with edges of release *)
(* sequences, fences and sync_vars.  No clock is read to compute it, so    *)
(* comparing the two checks the clock algorithm of thread.hpp and the race *)
(* check of var.hpp against the relation they implement.                   *)
(***************************************************************************)
EXTENDS MemoryOrder, Sequences, FiniteSets

CONSTANTS
    Cxx0xSequences, \* TRUE: release sequences and seq_cst fences of ISO C++0x
    Profiles        \* the families of programs that are explored

(* A family of programs: the objects and the memory orders they use, and   *)
(* bounds on their threads and on the calls of one iteration.              *)
IsProfile(p) ==
    /\ p.atomics \subseteq Atomics /\ p.vars \subseteq Vars
    /\ p.syncs \subseteq SyncVars
    /\ p.loads \subseteq LoadOrders /\ p.stores \subseteq StoreOrders
    /\ p.rmws \subseteq RmwOrders /\ p.fences \subseteq FenceOrders
    /\ p.global \in BOOLEAN        \* they call systemwide_fence
    /\ p.threads \in Nat /\ p.calls \in Nat

ASSUME ProfilesAssumption == \A p \in Profiles : IsProfile(p)

VARIABLES
    profile,        \* the family of this iteration
    log,            \* the calls made so far
    past            \* past[i]: the calls that happen before log[i], and i

hbVars == <<vars, profile, log, past>>

-----------------------------------------------------------------------------
(* Reading the log. *)

Events == DOMAIN log
IsWrite(e) == e.kind \in {"store", "rmw"}
IsRead(e) == e.kind \in {"load", "rmw"}

(* The store of a that is n places older than its newest one. *)
WritesTo(a) == {i \in Events : IsWrite(log[i]) /\ log[i].obj = a}
NthNewest(a, n) ==
    CHOOSE i \in WritesTo(a) : Cardinality({j \in WritesTo(a) : j > i}) = n

(* The store w of an atomic still carries the release of its store u. *)
Carries(u, w) ==
    LET between == {l \in WritesTo(log[w].obj) : u < l /\ l <= w}
        Previous(l) == CHOOSE p \in WritesTo(log[w].obj) :
                          p < l /\ \A q \in WritesTo(log[w].obj) : q < l => q <= p
    IN  \A l \in between :
           \/ log[l].kind = "rmw"
           \/ IF Cxx0xSequences THEN log[l].t = log[u].t
                                ELSE log[l].t = log[Previous(l)].t

(* The calls that an acquire of store w synchronizes with. *)
ReleasedBy(w) ==
    LET heads == {u \in WritesTo(log[w].obj) : u <= w /\ Carries(u, w)}
    IN  {u \in heads : Releases(log[u].mo)}
        \cup {f \in Events : \E u \in heads :
                 /\ log[f].kind = "fence" /\ Releases(log[f].mo)
                 /\ log[f].t = log[u].t /\ f < u}

(* The calls an event e, about to be logged, directly comes after. *)
Predecessors(e) ==
    {i \in Events :
        \/ log[i].t = e.t
        \/ "global" \in {log[i].kind, e.kind}
        \/ /\ IsRead(e) /\ Acquires(e.mo)
           /\ i \in ReleasedBy(e.rf)
        \/ /\ e.kind = "fence" /\ Acquires(e.mo)
           /\ \E r \in Events : /\ log[r].t = e.t /\ IsRead(log[r])
                                /\ i \in ReleasedBy(log[r].rf)
        \/ /\ ~ Cxx0xSequences
           /\ e.kind = "fence" /\ e.mo = "seq_cst"
           /\ log[i].kind = "fence" /\ log[i].mo = "seq_cst"
        \/ /\ e.kind = "sync" /\ Acquires(e.mo)
           /\ log[i].kind = "sync" /\ Releases(log[i].mo) /\ log[i].obj = e.obj}

-----------------------------------------------------------------------------
(* The engine of MemoryOrder, with every call recorded. *)

Event(t, kind, obj, mo, rf) ==
    [t |-> t, kind |-> kind, obj |-> obj, mo |-> mo, rf |-> rf,
     stamp |-> IF kind \in {"fence", "global"} THEN 0 ELSE clock'[t][t]]

Record(e) ==
    /\ log' = Append(log, e)
    /\ past' = Append(past, {Len(log) + 1}
                            \cup UNION {past[i] : i \in Predecessors(e)})

(* A failed CAS loads the newest store: Load covers it here. *)
RecordedAtomic(t, a) ==
    \/ \E mo \in profile.loads, n \in 0 .. LoadLimit :
          /\ Load(t, a, mo, Older(current[a], n))
          /\ Record(Event(t, "load", a, mo, NthNewest(a, n)))
    \/ \E mo \in profile.stores, x \in Values :
          /\ Store(t, a, mo, x)
          /\ Record(Event(t, "store", a, mo, 0))
    \/ \E mo \in profile.rmws, x \in Values :
          /\ Rmw(t, a, mo, x)
          /\ Record(Event(t, "rmw", a, mo, NthNewest(a, 0)))

RecordedVar(t, v) ==
    \/ /\ VarStore(t, v) \/ VarStoreRace(t, v)
       /\ Record(Event(t, "varStore", v, "relaxed", 0))
    \/ /\ VarLoad(t, v) \/ VarLoadRace(t, v)
       /\ Record(Event(t, "varLoad", v, "relaxed", 0))

RecordedSync(t, m) ==
    \/ SyncAcquire(t, m) /\ Record(Event(t, "sync", m, "acquire", 0))
    \/ SyncRelease(t, m) /\ Record(Event(t, "sync", m, "release", 0))
    \/ SyncAcqRel(t, m) /\ Record(Event(t, "sync", m, "acq_rel", 0))

RecordedThread(t) ==
    \/ \E a \in profile.atomics : RecordedAtomic(t, a)
    \/ \E mo \in profile.fences : Fence(t, mo) /\ Record(Event(t, "fence", 0, mo, 0))
    \/ \E v \in profile.vars : RecordedVar(t, v)
    \/ \E m \in profile.syncs : RecordedSync(t, m)

HBInit == Init /\ profile \in Profiles /\ log = <<>> /\ past = <<>>

(* The threads that may make the next call. *)
Actors ==
    LET acted == {log[i].t : i \in Events}
    IN  IF Cardinality(acted) < profile.threads THEN Threads ELSE acted

HBNext ==
    /\ Len(log) < profile.calls
    /\ \/ \E t \in Actors : RecordedThread(t)
       \/ /\ profile.global /\ GlobalFence
          /\ \E t \in Actors : Record(Event(t, "global", 0, "seq_cst", 0))
    /\ UNCHANGED profile

HBSpec == HBInit /\ [][HBNext]_hbVars

-----------------------------------------------------------------------------
(* Properties. *)

(* Everything that happens before the next call of t. *)
PastOf(t) ==
    UNION {past[i] : i \in {j \in Events : log[j].t = t \/ log[j].kind = "global"}}

(* The vector clocks are happens-before, no more and no less: the clock of *)
(* t has reached the timestamp of a call exactly if the call happens       *)
(* before whatever t does next (thread.hpp, atomic.hpp, sync_var.hpp).     *)
ClockIsHappensBefore ==
    \A i \in Events, t \in Threads :
        log[i].stamp > 0 /\ result = "none" =>
            (clock[t][log[i].t] >= log[i].stamp <=> i \in PastOf(t))

Conflict(e, f) ==
    /\ e.kind \in {"varStore", "varLoad"} /\ f.kind \in {"varStore", "varLoad"}
    /\ e.obj = f.obj /\ e.t # f.t
    /\ "varStore" \in {e.kind, f.kind}

(* Race detection is sound and complete: a data race is reported exactly   *)
(* if two conflicting accesses of different threads are not ordered by     *)
(* happens-before (var.hpp, init, store and load).                         *)
RaceIffUnordered ==
    result = "data_race" <=>
        \E j \in Events : \E i \in 1 .. j - 1 :
            Conflict(log[i], log[j]) /\ i \notin past[j]

(* The store an event reads from, or writes. *)
StoreOf(i) == IF log[i].kind = "load" THEN log[i].rf ELSE i

(* Coherence across threads, the rule quoted in get_load_index: a read     *)
(* never returns a store older than one made, or returned by a read, that  *)
(* happens before it.                                                      *)
CoherentHistory ==
    \A j \in Events : IsRead(log[j]) =>
        \A i \in past[j] \ {j} :
            (IsRead(log[i]) \/ IsWrite(log[i])) /\ log[i].obj = log[j].obj
                => StoreOf(i) <= log[j].rf

(* A seq_cst load returns the last seq_cst store before it, or a store     *)
(* that is newer in modification order: never an older one.                *)
SeqCstReads ==
    \A j \in Events : IsRead(log[j]) /\ log[j].mo = "seq_cst" =>
        \A i \in 1 .. j - 1 :
            IsWrite(log[i]) /\ log[i].mo = "seq_cst" /\ log[i].obj = log[j].obj
                => i <= log[j].rf
=============================================================================
