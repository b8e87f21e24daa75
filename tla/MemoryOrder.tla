---------------------------- MODULE MemoryOrder ----------------------------
(***************************************************************************)
(* The relaxed-memory engine of the Relacy race detector: what             *)
(* thread_info (thread.hpp), atomic_data_impl (atomic.hpp), var_data_impl  *)
(* (var.hpp) and sync_var (sync_var.hpp) do to the vector clocks of the    *)
(* simulated threads.  One behaviour is one iteration of a test.           *)
(*                                                                         *)
(* The fibers of the tool run one at a time, so a call of the engine is    *)
(* one atomic step.  Which thread calls what, and in which order, is left  *)
(* to the simulated program and to the scheduler: any thread may make any  *)
(* call in any state.                                                      *)
(***************************************************************************)
EXTENDS Integers

CONSTANTS
    Threads,        \* the simulated threads, 0 .. thread_count - 1
    Atomics,        \* the atomic variables of the test (rl::atomic)
    Vars,           \* its plain variables (rl::var), checked for races
    SyncVars,       \* the sync_var of each mutex, event, thread object...
    Values,         \* the values stored in atomics
    LoadOrders,     \* orders the program gives to loads and failed CAS
    StoreOrders,    \* orders it gives to stores
    RmwOrders,      \* orders it gives to read-modify-writes
    FenceOrders,    \* orders it gives to fences
    RandomSched     \* context::is_random_sched()

AllOrders == {"relaxed", "acquire", "release", "acq_rel", "seq_cst"}

ASSUME MemoryOrderAssumption ==
    /\ Threads # {} /\ Values # {}
    /\ LoadOrders \subseteq AllOrders \ {"release", "acq_rel"}
    /\ StoreOrders \subseteq AllOrders \ {"acquire", "acq_rel"}
    /\ RmwOrders \subseteq AllOrders
    /\ FenceOrders \subseteq AllOrders \ {"relaxed"}
    /\ RandomSched \in BOOLEAN

VARIABLES
    clock,          \* acq_rel_order_ of every thread: its vector clock
    acquireFence,   \* acquire_fence_order_: what an acquire fence would add
    releaseFence,   \* release_fence_order_: the clock at the last release fence
    lastYield,      \* last_yield_: own clock at the last yield or park
    seqCstFence,    \* seq_cst_fence_order_, shared by all threads
    history,        \* history_: the last HistorySize stores of each atomic
    current,        \* current_index_, modulo HistorySize
    alreadyFailed,  \* already_failed_: the one spurious CAS failure is used up
    storeStamp,     \* store_acq_rel_timestamp_ of each plain variable
    loadStamp,      \* load_acq_rel_timestamp_ of each plain variable
    initialized,    \* initialized_ of each plain variable
    syncOrder,      \* order_ of each sync_var
    result          \* test_result_: the verdict that ended the iteration

vars == <<clock, acquireFence, releaseFence, lastYield, seqCstFence, history,
          current, alreadyFailed, storeStamp, loadStamp, initialized,
          syncOrder, result>>

threadVars == <<clock, acquireFence, releaseFence, lastYield, seqCstFence>>
atomicVars == <<history, current, alreadyFailed>>
plainVars  == <<storeStamp, loadStamp, initialized>>

-----------------------------------------------------------------------------
(* Vector clocks. *)

Timestamps == [Threads -> Nat]
NotSeen == -1                       \* (timestamp_t)-1, larger than any stamp
Zero == [i \in Threads |-> 0]

AssignMax(v, w) == [i \in Threads |-> IF w[i] > v[i] THEN w[i] ELSE v[i]]
Tick(v, t) == [v EXCEPT ![t] = @ + 1]

Acquires(mo) == mo \in {"acquire", "acq_rel", "seq_cst"}
Releases(mo) == mo \in {"release", "acq_rel", "seq_cst"}

(* The stores an atomic remembers: a ring of three records. *)

HistorySize == 3
Slots == 0 .. HistorySize - 1
Older(s, n) == (s + HistorySize - n) % HistorySize
(* Mutant of Next1: the index is not reduced modulo the ring. *)
Next1Unreduced(s) == s + 1
Next1(s) == (s + 1) % HistorySize
LoadLimit == IF RandomSched THEN HistorySize - 1 ELSE 1

Records == [busy: BOOLEAN, seqCst: BOOLEAN, thread: Threads, timestamp: Nat,
            order: Timestamps, firstSeen: [Threads -> Nat \cup {NotSeen}],
            value: Values]

(* A record not written yet: only its busy_ field is ever looked at. *)
Unused == [busy |-> FALSE, seqCst |-> FALSE,
           thread |-> CHOOSE t \in Threads : TRUE, timestamp |-> 0,
           order |-> Zero, firstSeen |-> [i \in Threads |-> NotSeen],
           value |-> CHOOSE x \in Values : TRUE]

Newest(a) == history[a][current[a]]

(* first_seen_order_[t] <= n of the unsigned stamps, -1 being the largest. *)
SeenBy(rec, t, n) == rec.firstSeen[t] # NotSeen /\ rec.firstSeen[t] <= n

MarkSeen(rec, t, n) ==
    [rec EXCEPT !.firstSeen[t] = IF @ = NotSeen THEN n ELSE @]

-----------------------------------------------------------------------------
(* get_load_index: which of the remembered stores a load may return. *)

(* Mutant of Knows: loads do not count, only the store itself. *)
KnowsStoreOnly(t, rec) == clock[t][rec.thread] >= rec.timestamp

(* Mutant of Knows: of the loads that returned rec, only those of t count. *)
KnowsOwnLoads(t, rec) ==
    \/ clock[t][rec.thread] >= rec.timestamp
    \/ SeenBy(rec, t, clock[t][t])

(* t happens after the store rec, or after a load that returned rec. *)
Knows(t, rec) ==
    \/ clock[t][rec.thread] >= rec.timestamp
    \/ \E i \in Threads : SeenBy(rec, i, clock[t][i])

(* Mutant of MaySkip: a seq_cst load ignores that a store is seq_cst. *)
MaySkipSeqCst(t, a, mo, s) ==
    LET prev == history[a][Older(s, 1)]
    IN  /\ history[a][s].busy
        /\ ~ (prev.busy /\ SeenBy(prev, t, lastYield[t]))
        /\ ~ Knows(t, history[a][s])

(* The loop of get_load_index may go on from slot s to the next older one. *)
MaySkip(t, a, mo, s) ==
    LET rec == history[a][s]
        prev == history[a][Older(s, 1)]
    IN  /\ rec.busy
        /\ ~ (prev.busy /\ SeenBy(prev, t, lastYield[t]))
        /\ ~ (mo = "seq_cst" /\ rec.seqCst)
        /\ ~ Knows(t, rec)

LoadSlots(t, a, mo) ==
    {Older(current[a], n) :
        n \in {k \in 0 .. LoadLimit :
                 \A j \in 0 .. k - 1 : MaySkip(t, a, mo, Older(current[a], j))}}

(* Mutant of LoadedClock: a load does not advance the clock of its thread. *)
LoadedClockNoTick(t, rec, mo) ==
    IF Acquires(mo) THEN AssignMax(clock[t], rec.order) ELSE clock[t]

(* The clocks of t after it has read rec with order mo. *)
LoadedClock(t, rec, mo) ==
    LET own == Tick(clock[t], t)
    IN  IF Acquires(mo) THEN AssignMax(own, rec.order) ELSE own

(* Mutant of LoadedFence: a relaxed load leaves nothing for a later fence. *)
LoadedFenceNone(t, rec, mo) == acquireFence[t]

LoadedFence(t, rec, mo) ==
    IF Acquires(mo) THEN acquireFence[t] ELSE AssignMax(acquireFence[t], rec.order)

(* Mutant of StoreRecord: a read-modify-write breaks a release sequence. *)
StoreRecordBreaks(t, c, prev, mo, rmw, x) ==
    LET source == IF Releases(mo) THEN c ELSE releaseFence[t]
        preserve == prev.busy /\ prev.thread = t
    IN  [busy |-> TRUE, seqCst |-> mo = "seq_cst", thread |-> t,
         timestamp |-> c[t],
         order |-> IF preserve THEN AssignMax(prev.order, source) ELSE source,
         firstSeen |-> [i \in Threads |-> IF i = t THEN c[t] ELSE NotSeen],
         value |-> x]

(* The record a store by t leaves, where c is t's clock after its tick. *)
StoreRecord(t, c, prev, mo, rmw, x) ==
    LET source == IF Releases(mo) THEN c ELSE releaseFence[t]
        preserve == prev.busy /\ (rmw \/ prev.thread = t)
    IN  [busy |-> TRUE, seqCst |-> mo = "seq_cst", thread |-> t,
         timestamp |-> c[t],
         order |-> IF preserve THEN AssignMax(prev.order, source) ELSE source,
         firstSeen |-> [i \in Threads |-> IF i = t THEN c[t] ELSE NotSeen],
         value |-> x]

Live == result = "none"

(* Reading slot s: the bookkeeping of atomic_load. *)
ReadSlot(t, a, mo, s) ==
    LET rec == history[a][s]
        c == LoadedClock(t, rec, mo)
    IN  /\ clock' = [clock EXCEPT ![t] = c]
        /\ acquireFence' = [acquireFence EXCEPT ![t] = LoadedFence(t, rec, mo)]
        /\ history' = [history EXCEPT ![a][s] = MarkSeen(rec, t, clock[t][t] + 1)]

(* Appending value x: atomic_load of the newest record, then atomic_store. *)
RmwNewest(t, a, mo, x) ==
    LET rec == Newest(a)
        loaded == LoadedClock(t, rec, mo)
        stored == Tick(loaded, t)
        s == Next1(current[a])
    IN  /\ clock' = [clock EXCEPT ![t] = stored]
        /\ acquireFence' = [acquireFence EXCEPT ![t] = LoadedFence(t, rec, mo)]
        /\ current' = [current EXCEPT ![a] = s]
        /\ history' = [history EXCEPT
              ![a][current[a]] = MarkSeen(rec, t, clock[t][t] + 1),
              ![a][s] = StoreRecord(t, stored, rec, mo, TRUE, x)]

Fail(verdict) ==
    /\ result' = verdict
    /\ UNCHANGED <<threadVars, atomicVars, plainVars, syncOrder>>

-----------------------------------------------------------------------------
(* Operations on atomic variables. *)

(* generic_atomic::load *)
Load(t, a, mo, s) ==
    /\ Live
    /\ s \in LoadSlots(t, a, mo)
    /\ history[a][s].busy
    /\ ReadSlot(t, a, mo, s)
    /\ UNCHANGED <<releaseFence, lastYield, seqCstFence, current,
                   alreadyFailed, plainVars, syncOrder, result>>

(* The load runs back to before the first store: unitialized access. *)
LoadUninitialized(t, a, mo) ==
    /\ Live
    /\ \E s \in LoadSlots(t, a, mo) : ~ history[a][s].busy
    /\ Fail("unitialized_access")

(* generic_atomic::store *)
Store(t, a, mo, x) ==
    LET c == Tick(clock[t], t)
        s == Next1(current[a])
    IN  /\ Live
        /\ clock' = [clock EXCEPT ![t] = c]
        /\ current' = [current EXCEPT ![a] = s]
        /\ history' = [history EXCEPT
              ![a][s] = StoreRecord(t, c, Newest(a), mo, FALSE, x)]
        /\ UNCHANGED <<acquireFence, releaseFence, lastYield, seqCstFence,
                       alreadyFailed, plainVars, syncOrder, result>>

(* fetch_add, exchange, ...: x is the value perform_rmw computes. *)
Rmw(t, a, mo, x) ==
    /\ Live
    /\ Newest(a).busy
    /\ RmwNewest(t, a, mo, x)
    /\ UNCHANGED <<releaseFence, lastYield, seqCstFence, alreadyFailed,
                   plainVars, syncOrder, result>>

(* compare_swap_impl, the value being the expected one cmp. *)
CasSuccess(t, a, mo, cmp, x) ==
    /\ Newest(a).value = cmp
    /\ Rmw(t, a, mo, x)

(* A failed CAS reads the newest store with the failure order mo.  A weak  *)
(* CAS may fail although the value is the expected one: at will under the  *)
(* random scheduler, once per atomic variable otherwise.                   *)
CasFail(t, a, mo, cmp, weak) ==
    /\ Live
    /\ Newest(a).busy
    /\ \/ Newest(a).value # cmp /\ UNCHANGED alreadyFailed
       \/ /\ Newest(a).value = cmp
          /\ weak /\ (RandomSched \/ ~ alreadyFailed[a])
          /\ alreadyFailed' = [alreadyFailed EXCEPT ![a] = @ \/ ~ RandomSched]
    /\ ReadSlot(t, a, mo, current[a])
    /\ UNCHANGED <<releaseFence, lastYield, seqCstFence, current, plainVars,
                   syncOrder, result>>

(* A CAS or RMW on an atomic that was never stored to. *)
RmwUninitialized(t, a) ==
    /\ Live /\ ~ Newest(a).busy
    /\ Fail("unitialized_access")

-----------------------------------------------------------------------------
(* Fences. *)

FenceAcquire(t) ==
    /\ clock' = [clock EXCEPT ![t] = AssignMax(@, acquireFence[t])]
    /\ UNCHANGED <<releaseFence, seqCstFence>>

FenceRelease(t) ==
    /\ releaseFence' = [releaseFence EXCEPT ![t] = clock[t]]
    /\ UNCHANGED <<clock, seqCstFence>>

FenceAcqRel(t) ==
    LET c == AssignMax(clock[t], acquireFence[t])
    IN  /\ clock' = [clock EXCEPT ![t] = c]
        /\ releaseFence' = [releaseFence EXCEPT ![t] = c]
        /\ UNCHANGED seqCstFence

(* Mutant of FenceSeqCst: it publishes its clock but takes no other's. *)
FenceSeqCstOneWay(t) ==
    LET c == AssignMax(clock[t], acquireFence[t])
    IN  /\ clock' = [clock EXCEPT ![t] = c]
        /\ seqCstFence' = AssignMax(seqCstFence, c)
        /\ releaseFence' = [releaseFence EXCEPT ![t] = c]

FenceSeqCst(t) ==
    LET c == AssignMax(AssignMax(clock[t], acquireFence[t]), seqCstFence)
    IN  /\ clock' = [clock EXCEPT ![t] = c]
        /\ seqCstFence' = c
        /\ releaseFence' = [releaseFence EXCEPT ![t] = c]

(* atomic_thread_fence *)
Fence(t, mo) ==
    /\ Live
    /\ \/ mo = "acquire" /\ FenceAcquire(t)
       \/ mo = "release" /\ FenceRelease(t)
       \/ mo = "acq_rel" /\ FenceAcqRel(t)
       \/ mo = "seq_cst" /\ FenceSeqCst(t)
    /\ UNCHANGED <<acquireFence, lastYield, atomicVars, plainVars, syncOrder,
                   result>>

(* systemwide_fence, and the fence around before() and after(): every      *)
(* entry of every clock becomes the largest own clock.                     *)
GlobalFence ==
    /\ Live
    /\ \E m \in {clock[i][i] : i \in Threads} :
          /\ \A i \in Threads : clock[i][i] <= m
          /\ clock' = [i \in Threads |-> [j \in Threads |-> m]]
    /\ UNCHANGED <<acquireFence, releaseFence, lastYield, seqCstFence,
                   atomicVars, plainVars, syncOrder, result>>

(* context::schedule with yield > 0: a yield, or parking. *)
Yield(t) ==
    /\ Live
    /\ lastYield' = [lastYield EXCEPT ![t] = clock[t][t]]
    /\ UNCHANGED <<clock, acquireFence, releaseFence, seqCstFence, atomicVars,
                   plainVars, syncOrder, result>>

-----------------------------------------------------------------------------
(* Plain variables and their race detection. *)

(* Mutant of StoreRaces: a store is not checked against earlier loads. *)
StoreRacesWithStores(t, v) == \E i \in Threads : clock[t][i] < storeStamp[v][i]

LoadRaces(t, v) == \E i \in Threads : clock[t][i] < storeStamp[v][i]
StoreRaces(t, v) ==
    \E i \in Threads : \/ clock[t][i] < storeStamp[v][i]
                       \/ clock[t][i] < loadStamp[v][i]

(* The bookkeeping of an accepted store to v by t, its first one included. *)
StampStore(t, v) ==
    /\ clock' = [clock EXCEPT ![t] = Tick(@, t)]
    /\ storeStamp' = [storeStamp EXCEPT ![v][t] = clock[t][t] + 1]
    /\ initialized' = [initialized EXCEPT ![v] = TRUE]
    /\ UNCHANGED <<acquireFence, releaseFence, lastYield, seqCstFence,
                   atomicVars, loadStamp, syncOrder, result>>

VarStore(t, v) ==
    /\ Live
    /\ initialized[v] => ~ StoreRaces(t, v)
    /\ StampStore(t, v)

VarStoreRace(t, v) ==
    /\ Live /\ initialized[v] /\ StoreRaces(t, v)
    /\ Fail("data_race")

VarLoad(t, v) ==
    /\ Live
    /\ initialized[v] /\ ~ LoadRaces(t, v)
    /\ clock' = [clock EXCEPT ![t] = Tick(@, t)]
    /\ loadStamp' = [loadStamp EXCEPT ![v][t] = clock[t][t] + 1]
    /\ UNCHANGED <<acquireFence, releaseFence, lastYield, seqCstFence,
                   atomicVars, storeStamp, initialized, syncOrder, result>>

VarLoadRace(t, v) ==
    /\ Live /\ initialized[v] /\ LoadRaces(t, v)
    /\ Fail("data_race")

VarLoadUninitialized(t, v) ==
    /\ Live /\ ~ initialized[v]
    /\ Fail("unitialized_access")

-----------------------------------------------------------------------------
(* sync_var: the clock a blocking primitive carries. *)

SyncAcquire(t, m) ==
    /\ Live
    /\ clock' = [clock EXCEPT ![t] = AssignMax(Tick(@, t), syncOrder[m])]
    /\ UNCHANGED <<acquireFence, releaseFence, lastYield, seqCstFence,
                   atomicVars, plainVars, syncOrder, result>>

(* Mutant of SyncRelease: what earlier releases left is overwritten. *)
SyncReleaseOverwrites(t, m) ==
    LET c == Tick(clock[t], t)
    IN  /\ Live
        /\ clock' = [clock EXCEPT ![t] = c]
        /\ syncOrder' = [syncOrder EXCEPT ![m] = c]
        /\ UNCHANGED <<acquireFence, releaseFence, lastYield, seqCstFence,
                       atomicVars, plainVars, result>>

SyncRelease(t, m) ==
    LET c == Tick(clock[t], t)
    IN  /\ Live
        /\ clock' = [clock EXCEPT ![t] = c]
        /\ syncOrder' = [syncOrder EXCEPT ![m] = AssignMax(@, c)]
        /\ UNCHANGED <<acquireFence, releaseFence, lastYield, seqCstFence,
                       atomicVars, plainVars, result>>

SyncAcqRel(t, m) ==
    LET c == AssignMax(Tick(clock[t], t), syncOrder[m])
    IN  /\ Live
        /\ clock' = [clock EXCEPT ![t] = c]
        /\ syncOrder' = [syncOrder EXCEPT ![m] = AssignMax(@, c)]
        /\ UNCHANGED <<acquireFence, releaseFence, lastYield, seqCstFence,
                       atomicVars, plainVars, result>>

-----------------------------------------------------------------------------
(* context_impl::iteration, and the constructors of the variables. *)

Init ==
    /\ clock = [t \in Threads |-> [i \in Threads |-> IF i = t THEN 1 ELSE 0]]
    /\ acquireFence = [t \in Threads |-> Zero]
    /\ releaseFence = [t \in Threads |-> Zero]
    /\ lastYield = [t \in Threads |-> 0]
    /\ seqCstFence = Zero
    /\ history = [a \in Atomics |-> [s \in Slots |-> Unused]]
    /\ current = [a \in Atomics |-> 0]
    /\ alreadyFailed = [a \in Atomics |-> FALSE]
    /\ storeStamp = [v \in Vars |-> Zero]
    /\ loadStamp = [v \in Vars |-> Zero]
    /\ initialized = [v \in Vars |-> FALSE]
    /\ syncOrder = [m \in SyncVars |-> Zero]
    /\ result = "none"

AtomicStep(t, a) ==
    \/ \E mo \in LoadOrders :
          \/ \E s \in Slots : Load(t, a, mo, s)
          \/ LoadUninitialized(t, a, mo)
    \/ \E mo \in StoreOrders, x \in Values : Store(t, a, mo, x)
    \/ \E mo \in RmwOrders, x \in Values :
          \/ Rmw(t, a, mo, x)
          \/ \E cmp \in Values : CasSuccess(t, a, mo, cmp, x)
    \/ \E mo \in LoadOrders, cmp \in Values, weak \in BOOLEAN :
          CasFail(t, a, mo, cmp, weak)
    \/ RmwUninitialized(t, a)

VarStep(t, v) ==
    \/ VarStore(t, v)
    \/ VarStoreRace(t, v)
    \/ VarLoad(t, v)
    \/ VarLoadRace(t, v)
    \/ VarLoadUninitialized(t, v)

SyncStep(t, m) ==
    \/ SyncAcquire(t, m)
    \/ SyncRelease(t, m)
    \/ SyncAcqRel(t, m)

Next ==
    \/ \E t \in Threads :
          \/ \E a \in Atomics : AtomicStep(t, a)
          \/ \E mo \in FenceOrders : Fence(t, mo)
          \/ Yield(t)
          \/ \E v \in Vars : VarStep(t, v)
          \/ \E m \in SyncVars : SyncStep(t, m)
    \/ GlobalFence

Spec == Init /\ [][Next]_vars

-----------------------------------------------------------------------------
(* Properties. *)

(* Type invariant: every field has the type the code declares for it. *)
TypeOK ==
    /\ clock \in [Threads -> Timestamps]
    /\ acquireFence \in [Threads -> Timestamps]
    /\ releaseFence \in [Threads -> Timestamps]
    /\ lastYield \in [Threads -> Nat]
    /\ seqCstFence \in Timestamps
    /\ history \in [Atomics -> [Slots -> Records]]
    /\ current \in [Atomics -> Slots]
    /\ alreadyFailed \in [Atomics -> BOOLEAN]
    /\ storeStamp \in [Vars -> Timestamps]
    /\ loadStamp \in [Vars -> Timestamps]
    /\ initialized \in [Vars -> BOOLEAN]
    /\ syncOrder \in [SyncVars -> Timestamps]
    /\ result \in {"none", "data_race", "unitialized_access"}

(* v holds nothing a thread has not done yet. *)
Bounded(v) == \A i \in Threads : v[i] <= clock[i][i]

ThreadsBounded ==
    \A t \in Threads :
        /\ Bounded(clock[t])
        /\ Bounded(acquireFence[t])
        /\ Bounded(releaseFence[t])
        /\ lastYield[t] <= clock[t][t]

RecordBounded(rec) ==
    /\ Bounded(rec.order)
    /\ rec.timestamp <= clock[rec.thread][rec.thread]
    /\ Bounded(rec.firstSeen)

(* No clock, fence, history record, race stamp or sync_var knows more of a *)
(* thread than the thread itself has done: a comparison of two timestamps  *)
(* of one thread orders two things that happened, and an access never      *)
(* races with, and a load never misses, what its own thread did before.    *)
KnowledgeBound ==
    /\ ThreadsBounded
    /\ Bounded(seqCstFence)
    /\ \A a \in Atomics, s \in Slots : RecordBounded(history[a][s])
    /\ \A v \in Vars : Bounded(storeStamp[v]) /\ Bounded(loadStamp[v])
    /\ \A m \in SyncVars : Bounded(syncOrder[m])

(* Per-thread coherence: a load never returns a store older than one the   *)
(* same thread made or read before, the fence, yield and history rules of  *)
(* get_load_index notwithstanding.                                         *)
CoherentReads ==
    [][\A t \in Threads, a \in Atomics, mo \in LoadOrders, n \in 0 .. HistorySize - 1 :
          Load(t, a, mo, Older(current[a], n)) =>
              \A k \in 0 .. n - 1 :
                  history[a][Older(current[a], k)].firstSeen[t] = NotSeen]_vars
=============================================================================
