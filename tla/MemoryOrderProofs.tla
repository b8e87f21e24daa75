------------------------- MODULE MemoryOrderProofs -------------------------
(***************************************************************************)
(* Proofs about MemoryOrder, for any set of threads, variables and values  *)
(* and any number of calls.                                                *)
(***************************************************************************)
EXTENDS MemoryOrder, TLAPS

-----------------------------------------------------------------------------
(* The operators on clocks and records. *)

(* The join of two clocks is a clock, no smaller than either and bounded   *)
(* by whatever bounds both (foreach.hpp, assign_max).                      *)
LEMMA AssignMaxFacts ==
    ASSUME NEW v \in Timestamps, NEW w \in Timestamps
    PROVE  /\ AssignMax(v, w) \in Timestamps
           /\ \A i \in Threads : /\ v[i] <= AssignMax(v, w)[i]
                                 /\ AssignMax(v, w)[i] \in {v[i], w[i]}
  BY DEF AssignMax, Timestamps

(* A tick moves the own entry of a clock, by one, and no other. *)
LEMMA TickFacts ==
    ASSUME NEW v \in Timestamps, NEW t \in Threads
    PROVE  /\ Tick(v, t) \in Timestamps
           /\ Tick(v, t)[t] = v[t] + 1
           /\ \A i \in Threads : i # t => Tick(v, t)[i] = v[i]
  BY DEF Tick, Timestamps

(* Marking a record as seen touches one first_seen_order_ entry. *)
LEMMA MarkSeenFacts ==
    ASSUME NEW rec \in Records, NEW t \in Threads, NEW n \in Nat
    PROVE  /\ MarkSeen(rec, t, n) \in Records
           /\ MarkSeen(rec, t, n).order = rec.order
           /\ MarkSeen(rec, t, n).thread = rec.thread
           /\ MarkSeen(rec, t, n).timestamp = rec.timestamp
           /\ \A i \in Threads :
                 MarkSeen(rec, t, n).firstSeen[i] \in {rec.firstSeen[i], n}
           /\ \A i \in Threads :
                 i # t => MarkSeen(rec, t, n).firstSeen[i] = rec.firstSeen[i]
  BY DEF MarkSeen, Records

(* The slots before and after a slot of the ring are slots.              *)
LEMMA SlotFacts ==
    ASSUME NEW s \in Slots
    PROVE  /\ Next1(s) \in Slots
           /\ \A n \in 0 .. HistorySize - 1 : Older(s, n) \in Slots
  BY DEF Slots, Next1, Older, HistorySize

(* The clock after a load: typed, larger, and built from known entries. *)
LEMMA LoadedClockFacts ==
    ASSUME TypeOK, NEW t \in Threads, NEW rec \in Records, NEW mo
    PROVE  /\ LoadedClock(t, rec, mo) \in Timestamps
           /\ LoadedFence(t, rec, mo) \in Timestamps
           /\ \A i \in Threads :
                 /\ Tick(clock[t], t)[i] <= LoadedClock(t, rec, mo)[i]
                 /\ LoadedClock(t, rec, mo)[i] \in {Tick(clock[t], t)[i], rec.order[i]}
                 /\ LoadedFence(t, rec, mo)[i] \in {acquireFence[t][i], rec.order[i]}
  <1>1. /\ clock[t] \in Timestamps /\ acquireFence[t] \in Timestamps
        /\ rec.order \in Timestamps
    BY DEF TypeOK, Records
  <1>2. Tick(clock[t], t) \in Timestamps
    BY <1>1, TickFacts
  <1>3. CASE Acquires(mo)
    BY <1>1, <1>2, <1>3, AssignMaxFacts DEF LoadedClock, LoadedFence
  <1>4. CASE ~ Acquires(mo)
    <2>1. \A i \in Threads : Tick(clock[t], t)[i] \in Nat
      BY <1>2 DEF Timestamps
    <2> QED
      BY <1>1, <1>2, <1>4, <2>1, AssignMaxFacts DEF LoadedClock, LoadedFence
  <1> QED
    BY <1>3, <1>4

(* The record a store leaves: typed, stamped with the storing thread's     *)
(* clock, and carrying only what the clock, the release fence or the       *)
(* previous record carried.                                                *)
LEMMA StoreRecordFacts ==
    ASSUME TypeOK, NEW t \in Threads, NEW c \in Timestamps,
           NEW prev \in Records, NEW mo, NEW rmw \in BOOLEAN, NEW x \in Values
    PROVE  /\ StoreRecord(t, c, prev, mo, rmw, x) \in Records
           /\ StoreRecord(t, c, prev, mo, rmw, x).thread = t
           /\ StoreRecord(t, c, prev, mo, rmw, x).timestamp = c[t]
           /\ \A i \in Threads :
                /\ StoreRecord(t, c, prev, mo, rmw, x).order[i]
                      \in {prev.order[i], c[i], releaseFence[t][i]}
                /\ StoreRecord(t, c, prev, mo, rmw, x).firstSeen[i]
                      = (IF i = t THEN c[t] ELSE NotSeen)
  <1> DEFINE source == IF Releases(mo) THEN c ELSE releaseFence[t]
             order == IF prev.busy /\ (rmw \/ prev.thread = t)
                      THEN AssignMax(prev.order, source) ELSE source
             seen == [i \in Threads |-> IF i = t THEN c[t] ELSE NotSeen]
  <1>1. source \in Timestamps /\ prev.order \in Timestamps
    BY DEF TypeOK, Records
  <1>2. /\ order \in Timestamps
        /\ \A i \in Threads : order[i] \in {prev.order[i], c[i], releaseFence[t][i]}
    BY <1>1, AssignMaxFacts
  <1>3. seen \in [Threads -> Nat \cup {NotSeen}] /\ c[t] \in Nat
    BY DEF Timestamps
  <1>4. StoreRecord(t, c, prev, mo, rmw, x) =
          [busy |-> TRUE, seqCst |-> mo = "seq_cst", thread |-> t,
           timestamp |-> c[t], order |-> order, firstSeen |-> seen,
           value |-> x]
    BY DEF StoreRecord
  <1>5. (mo = "seq_cst") \in BOOLEAN
    OBVIOUS
  <1>6. StoreRecord(t, c, prev, mo, rmw, x) \in Records
    BY <1>2, <1>3, <1>4, <1>5 DEF Records
  <1>7. \A i \in Threads : seen[i] = (IF i = t THEN c[t] ELSE NotSeen)
    OBVIOUS
  <1> HIDE DEF seen, order
  <1> QED
    BY <1>2, <1>4, <1>6, <1>7

-----------------------------------------------------------------------------
(* Type correctness. *)

(* The fresh clocks, records and stamps of an iteration are well typed.  *)
LEMMA InitType == Init => TypeOK
  <1> SUFFICES ASSUME Init PROVE TypeOK
    OBVIOUS
  <1>1. Zero \in Timestamps
    BY DEF Zero, Timestamps
  <1>2. \A t \in Threads : [i \in Threads |-> IF i = t THEN 1 ELSE 0] \in Timestamps
    BY DEF Timestamps
  <1>3. (CHOOSE t \in Threads : TRUE) \in Threads /\ (CHOOSE x \in Values : TRUE) \in Values
    BY MemoryOrderAssumption
  <1>4. [i \in Threads |-> NotSeen] \in [Threads -> Nat \cup {NotSeen}]
    OBVIOUS
  <1>5. Unused \in Records
    BY <1>1, <1>3, <1>4 DEF Unused, Records
  <1>6. 0 \in Slots
    BY DEF Slots, HistorySize
  <1> QED
    BY <1>1, <1>2, <1>5, <1>6 DEF Init, TypeOK

(* Reading a slot keeps the types (atomic_load). *)
LEMMA ReadSlotType ==
    ASSUME TypeOK, NEW t \in Threads, NEW a \in Atomics, NEW mo,
           NEW s \in Slots, ReadSlot(t, a, mo, s)
    PROVE  /\ clock' \in [Threads -> Timestamps]
           /\ acquireFence' \in [Threads -> Timestamps]
           /\ history' \in [Atomics -> [Slots -> Records]]
  <1> DEFINE rec == history[a][s]
  <1>1. rec \in Records /\ clock[t][t] + 1 \in Nat
    BY DEF TypeOK, Timestamps
  <1>2. MarkSeen(rec, t, clock[t][t] + 1) \in Records
    BY <1>1, MarkSeenFacts
  <1>3. LoadedClock(t, rec, mo) \in Timestamps /\ LoadedFence(t, rec, mo) \in Timestamps
    BY <1>1, LoadedClockFacts
  <1>4. history' = [history EXCEPT ![a][s] = MarkSeen(rec, t, clock[t][t] + 1)]
    BY DEF ReadSlot
  <1>5. history' \in [Atomics -> [Slots -> Records]]
    BY <1>2, <1>4 DEF TypeOK
  <1> QED
    BY <1>3, <1>5 DEF ReadSlot, TypeOK

(* Appending to the history keeps the types (atomic_rmw). *)
LEMMA RmwNewestType ==
    ASSUME TypeOK, NEW t \in Threads, NEW a \in Atomics, NEW mo,
           NEW x \in Values, RmwNewest(t, a, mo, x)
    PROVE  /\ clock' \in [Threads -> Timestamps]
           /\ acquireFence' \in [Threads -> Timestamps]
           /\ history' \in [Atomics -> [Slots -> Records]]
           /\ current' \in [Atomics -> Slots]
  <1> DEFINE rec == Newest(a)
             loaded == LoadedClock(t, rec, mo)
             stored == Tick(loaded, t)
             seen == MarkSeen(rec, t, clock[t][t] + 1)
             new == StoreRecord(t, stored, rec, mo, TRUE, x)
  <1>1. current[a] \in Slots /\ Next1(current[a]) \in Slots
    BY SlotFacts DEF TypeOK
  <1>2. rec \in Records /\ clock[t][t] + 1 \in Nat
    BY <1>1 DEF TypeOK, Timestamps, Newest
  <1>3. loaded \in Timestamps /\ LoadedFence(t, rec, mo) \in Timestamps
    BY <1>2, LoadedClockFacts
  <1>4. stored \in Timestamps
    BY <1>3, TickFacts
  <1>5. seen \in Records /\ new \in Records
    BY <1>2, <1>4, MarkSeenFacts, StoreRecordFacts
  <1>6. /\ clock' = [clock EXCEPT ![t] = stored]
        /\ acquireFence' = [acquireFence EXCEPT ![t] = LoadedFence(t, rec, mo)]
        /\ current' = [current EXCEPT ![a] = Next1(current[a])]
        /\ history' = [history EXCEPT ![a][current[a]] = seen,
                                      ![a][Next1(current[a])] = new]
    BY DEF RmwNewest
  <1> HIDE DEF rec, loaded, stored, seen, new
  <1> QED
    BY <1>1, <1>3, <1>4, <1>5, <1>6 DEF TypeOK

(* A store keeps the types (atomic_store).                               *)
LEMMA StoreType ==
    ASSUME TypeOK, NEW t \in Threads, NEW a \in Atomics, NEW mo,
           NEW x \in Values, Store(t, a, mo, x)
    PROVE  TypeOK'
  <1> DEFINE c == Tick(clock[t], t)
             new == StoreRecord(t, c, Newest(a), mo, FALSE, x)
  <1>1. current[a] \in Slots /\ Next1(current[a]) \in Slots
    BY SlotFacts DEF TypeOK
  <1>2. Newest(a) \in Records /\ clock[t] \in Timestamps
    BY <1>1 DEF TypeOK, Newest
  <1>3. c \in Timestamps
    BY <1>2, TickFacts
  <1>4. new \in Records
    BY <1>2, <1>3, StoreRecordFacts
  <1>5. /\ clock' = [clock EXCEPT ![t] = c]
        /\ current' = [current EXCEPT ![a] = Next1(current[a])]
        /\ history' = [history EXCEPT ![a][Next1(current[a])] = new]
        /\ UNCHANGED <<acquireFence, releaseFence, lastYield, seqCstFence,
                       alreadyFailed, plainVars, syncOrder, result>>
    BY DEF Store
  <1> HIDE DEF c, new
  <1> QED
    BY <1>1, <1>3, <1>4, <1>5 DEF TypeOK, plainVars

(* A failed check ends the iteration and changes nothing else. *)
LEMMA FailType ==
    ASSUME TypeOK, Fail("data_race") \/ Fail("unitialized_access")
    PROVE  TypeOK'
  BY DEF TypeOK, Fail, threadVars, atomicVars, plainVars

(* The operations on atomic variables keep the types (generic_atomic).   *)
LEMMA AtomicStepType ==
    ASSUME TypeOK, NEW t \in Threads, NEW a \in Atomics, AtomicStep(t, a)
    PROVE  TypeOK'
  <1>1. ASSUME NEW mo \in LoadOrders, NEW s \in Slots, Load(t, a, mo, s)
        PROVE  TypeOK'
    <2>1. ReadSlot(t, a, mo, s)
      BY <1>1 DEF Load
    <2> QED
      BY <1>1, <2>1, ReadSlotType DEF Load, TypeOK, plainVars
  <1>2. ASSUME NEW mo \in LoadOrders, LoadUninitialized(t, a, mo)
        PROVE  TypeOK'
    BY <1>2, FailType DEF LoadUninitialized
  <1>3. ASSUME NEW mo \in StoreOrders, NEW x \in Values, Store(t, a, mo, x)
        PROVE  TypeOK'
    BY <1>3, StoreType
  <1>4. ASSUME NEW mo \in RmwOrders, NEW x \in Values, Rmw(t, a, mo, x)
        PROVE  TypeOK'
    <2>1. RmwNewest(t, a, mo, x)
      BY <1>4 DEF Rmw
    <2> QED
      BY <1>4, <2>1, RmwNewestType DEF Rmw, TypeOK, plainVars
  <1>5. ASSUME NEW mo \in RmwOrders, NEW x \in Values, NEW cmp \in Values,
               CasSuccess(t, a, mo, cmp, x)
        PROVE  TypeOK'
    BY <1>4, <1>5 DEF CasSuccess
  <1>6. ASSUME NEW mo \in LoadOrders, NEW cmp \in Values, NEW weak \in BOOLEAN,
               CasFail(t, a, mo, cmp, weak)
        PROVE  TypeOK'
    <2>1. ReadSlot(t, a, mo, current[a]) /\ current[a] \in Slots
      BY <1>6 DEF CasFail, TypeOK
    <2>2. alreadyFailed' \in [Atomics -> BOOLEAN]
      BY <1>6 DEF CasFail, TypeOK
    <2> QED
      BY <1>6, <2>1, <2>2, ReadSlotType DEF CasFail, TypeOK, plainVars
  <1>7. CASE RmwUninitialized(t, a)
    BY <1>7, FailType DEF RmwUninitialized
  <1> QED
    BY <1>1, <1>2, <1>3, <1>4, <1>5, <1>6, <1>7 DEF AtomicStep

(* The four fences keep the types (atomic_thread_fence).                 *)
LEMMA FenceType ==
    ASSUME TypeOK, NEW t \in Threads, NEW mo, Fence(t, mo)
    PROVE  TypeOK'
  <1>1. /\ clock[t] \in Timestamps /\ acquireFence[t] \in Timestamps
        /\ seqCstFence \in Timestamps
    BY DEF TypeOK
  <1>2. AssignMax(clock[t], acquireFence[t]) \in Timestamps
    BY <1>1, AssignMaxFacts
  <1>3. AssignMax(AssignMax(clock[t], acquireFence[t]), seqCstFence) \in Timestamps
    BY <1>1, <1>2, AssignMaxFacts
  <1>4. UNCHANGED <<acquireFence, lastYield, atomicVars, plainVars, syncOrder, result>>
    BY DEF Fence
  <1>5. CASE FenceAcquire(t)
    BY <1>2, <1>4, <1>5 DEF FenceAcquire, TypeOK, atomicVars, plainVars
  <1>6. CASE FenceRelease(t)
    BY <1>4, <1>6 DEF FenceRelease, TypeOK, atomicVars, plainVars
  <1>7. CASE FenceAcqRel(t)
    BY <1>2, <1>4, <1>7 DEF FenceAcqRel, TypeOK, atomicVars, plainVars
  <1>8. CASE FenceSeqCst(t)
    BY <1>3, <1>4, <1>8 DEF FenceSeqCst, TypeOK, atomicVars, plainVars
  <1> QED
    BY <1>5, <1>6, <1>7, <1>8 DEF Fence

(* Accesses to plain variables keep the types (var_data_impl).           *)
LEMMA VarStepType ==
    ASSUME TypeOK, NEW t \in Threads, NEW v \in Vars, VarStep(t, v)
    PROVE  TypeOK'
  <1>1. clock[t] \in Timestamps /\ clock[t][t] + 1 \in Nat
    BY DEF TypeOK, Timestamps
  <1>2. Tick(clock[t], t) \in Timestamps
    BY <1>1, TickFacts
  <1>3. CASE VarStore(t, v)
    <2>1. [storeStamp EXCEPT ![v][t] = clock[t][t] + 1] \in [Vars -> Timestamps]
      BY <1>1 DEF TypeOK, Timestamps
    <2> QED
      BY <1>2, <1>3, <2>1 DEF VarStore, StampStore, TypeOK, atomicVars
  <1>4. CASE VarLoad(t, v)
    <2>1. [loadStamp EXCEPT ![v][t] = clock[t][t] + 1] \in [Vars -> Timestamps]
      BY <1>1 DEF TypeOK, Timestamps
    <2> QED
      BY <1>2, <1>4, <2>1 DEF VarLoad, TypeOK, atomicVars
  <1>5. CASE VarStoreRace(t, v) \/ VarLoadRace(t, v) \/ VarLoadUninitialized(t, v)
    BY <1>5, FailType DEF VarStoreRace, VarLoadRace, VarLoadUninitialized
  <1> QED
    BY <1>3, <1>4, <1>5 DEF VarStep

(* The exchanges with a sync_var keep the types (sync_var).              *)
LEMMA SyncStepType ==
    ASSUME TypeOK, NEW t \in Threads, NEW m \in SyncVars, SyncStep(t, m)
    PROVE  TypeOK'
  <1> DEFINE c == Tick(clock[t], t)
             d == AssignMax(c, syncOrder[m])
  <1>1. c \in Timestamps /\ syncOrder[m] \in Timestamps
    BY TickFacts DEF TypeOK
  <1>2. d \in Timestamps /\ AssignMax(syncOrder[m], c) \in Timestamps
    BY <1>1, AssignMaxFacts
  <1>3. AssignMax(syncOrder[m], d) \in Timestamps
    BY <1>1, <1>2, AssignMaxFacts
  <1>4. CASE SyncAcquire(t, m)
    BY <1>2, <1>4 DEF SyncAcquire, TypeOK, atomicVars, plainVars
  <1>5. CASE SyncRelease(t, m)
    BY <1>1, <1>2, <1>5 DEF SyncRelease, TypeOK, atomicVars, plainVars
  <1>6. CASE SyncAcqRel(t, m)
    BY <1>2, <1>3, <1>6 DEF SyncAcqRel, TypeOK, atomicVars, plainVars
  <1> QED
    BY <1>4, <1>5, <1>6 DEF SyncStep

(* The global fence keeps the types (rl_global_fence).                   *)
LEMMA GlobalFenceType ==
    ASSUME TypeOK, GlobalFence
    PROVE  TypeOK'
  <1>1. clock' \in [Threads -> Timestamps]
    BY DEF GlobalFence, TypeOK, Timestamps
  <1> QED
    BY <1>1 DEF GlobalFence, TypeOK, atomicVars, plainVars

(* TypeOK is inductive.                                                  *)
LEMMA TypeStep == TypeOK /\ [Next]_vars => TypeOK'
  <1> SUFFICES ASSUME TypeOK, [Next]_vars PROVE TypeOK'
    OBVIOUS
  <1>1. ASSUME NEW t \in Threads, NEW a \in Atomics, AtomicStep(t, a)
        PROVE  TypeOK'
    BY <1>1, AtomicStepType
  <1>2. ASSUME NEW t \in Threads, NEW mo \in FenceOrders, Fence(t, mo)
        PROVE  TypeOK'
    BY <1>2, FenceType
  <1>3. ASSUME NEW t \in Threads, Yield(t)
        PROVE  TypeOK'
    BY <1>3 DEF Yield, TypeOK, Timestamps, atomicVars, plainVars
  <1>4. ASSUME NEW t \in Threads, NEW v \in Vars, VarStep(t, v)
        PROVE  TypeOK'
    BY <1>4, VarStepType
  <1>5. ASSUME NEW t \in Threads, NEW m \in SyncVars, SyncStep(t, m)
        PROVE  TypeOK'
    BY <1>5, SyncStepType
  <1>6. CASE GlobalFence
    BY <1>6, GlobalFenceType
  <1>7. CASE UNCHANGED vars
    BY <1>7 DEF vars, TypeOK
  <1> QED
    BY <1>1, <1>2, <1>3, <1>4, <1>5, <1>6, <1>7 DEF Next

(* Every reachable state is well typed. *)
THEOREM TypeCorrect == Spec => []TypeOK
  <1>1. Init => TypeOK
    BY InitType
  <1>2. TypeOK /\ [Next]_vars => TypeOK'
    BY TypeStep
  <1> QED
    BY <1>1, <1>2, PTL DEF Spec

-----------------------------------------------------------------------------
(* KnowledgeBound.  The own clock of a thread never goes back, so what was *)
(* bounded stays bounded, and a step only combines what was bounded with   *)
(* the new own clock of the thread that steps.                             *)

(* Bounded and RecordBounded, by the clocks after the step. *)
NextBounded(v) == \A i \in Threads : v[i] <= clock'[i][i]
NextRecordBounded(rec) ==
    /\ NextBounded(rec.order)
    /\ rec.timestamp <= clock'[rec.thread][rec.thread]
    /\ NextBounded(rec.firstSeen)

OwnClocksGrow == \A i \in Threads : clock[i][i] <= clock'[i][i]

(* What was bounded by the own clocks stays so while those only grow.    *)
LEMMA Carry ==
    ASSUME TypeOK, TypeOK', KnowledgeBound, OwnClocksGrow
    PROVE  /\ \A u \in Threads : /\ NextBounded(clock[u])
                                 /\ NextBounded(acquireFence[u])
                                 /\ NextBounded(releaseFence[u])
                                 /\ lastYield[u] <= clock'[u][u]
           /\ NextBounded(seqCstFence)
           /\ \A a \in Atomics, s \in Slots : NextRecordBounded(history[a][s])
           /\ \A v \in Vars : NextBounded(storeStamp[v]) /\ NextBounded(loadStamp[v])
           /\ \A m \in SyncVars : NextBounded(syncOrder[m])
  <1>1. \A i \in Threads : clock[i][i] \in Int /\ clock'[i][i] \in Int
    BY DEF TypeOK, Timestamps
  <1>2. ASSUME NEW v \in [Threads -> Int], Bounded(v)
        PROVE  NextBounded(v)
    BY <1>1, <1>2 DEF Bounded, NextBounded, OwnClocksGrow
  <1>3. ASSUME NEW v \in Timestamps
        PROVE  v \in [Threads -> Int]
    BY DEF Timestamps
  <1>4. ASSUME NEW u \in Threads
        PROVE  /\ NextBounded(clock[u]) /\ NextBounded(acquireFence[u])
               /\ NextBounded(releaseFence[u]) /\ lastYield[u] <= clock'[u][u]
    <2>1. /\ clock[u] \in Timestamps /\ acquireFence[u] \in Timestamps
          /\ releaseFence[u] \in Timestamps /\ lastYield[u] \in Int
      BY DEF TypeOK
    <2>2. /\ Bounded(clock[u]) /\ Bounded(acquireFence[u])
          /\ Bounded(releaseFence[u]) /\ lastYield[u] <= clock[u][u]
      BY DEF KnowledgeBound, ThreadsBounded
    <2>3. lastYield[u] <= clock'[u][u]
      BY <1>1, <2>1, <2>2 DEF OwnClocksGrow
    <2> QED
      BY <1>2, <1>3, <2>1, <2>2, <2>3
  <1>5. NextBounded(seqCstFence)
    BY <1>2, <1>3 DEF TypeOK, KnowledgeBound
  <1>6. ASSUME NEW a \in Atomics, NEW s \in Slots
        PROVE  NextRecordBounded(history[a][s])
    <2> DEFINE rec == history[a][s]
    <2>1. rec \in Records /\ RecordBounded(rec)
      BY DEF TypeOK, KnowledgeBound
    <2>2. /\ rec.order \in Timestamps /\ rec.firstSeen \in [Threads -> Int]
          /\ rec.thread \in Threads /\ rec.timestamp \in Int
      BY <2>1 DEF Records, NotSeen
    <2> HIDE DEF rec
    <2>3. NextBounded(rec.order) /\ NextBounded(rec.firstSeen)
      BY <1>2, <1>3, <2>1, <2>2 DEF RecordBounded
    <2>4. rec.timestamp <= clock'[rec.thread][rec.thread]
      BY <1>1, <2>1, <2>2 DEF RecordBounded, OwnClocksGrow
    <2>5. NextRecordBounded(rec)
      BY <2>3, <2>4 DEF NextRecordBounded
    <2> QED
      BY <2>5 DEF rec
  <1>7. ASSUME NEW v \in Vars
        PROVE  NextBounded(storeStamp[v]) /\ NextBounded(loadStamp[v])
    BY <1>2, <1>3 DEF TypeOK, KnowledgeBound
  <1>8. ASSUME NEW m \in SyncVars
        PROVE  NextBounded(syncOrder[m])
    BY <1>2, <1>3 DEF TypeOK, KnowledgeBound
  <1> QED
    BY <1>4, <1>5, <1>6, <1>7, <1>8

(* Changing the clock of t alone, without going back in its own entry and  *)
(* without overtaking another thread, keeps every clock bounded.           *)
LEMMA ClockStep ==
    ASSUME TypeOK, TypeOK', KnowledgeBound, NEW t \in Threads,
           NEW c \in Timestamps, clock' = [clock EXCEPT ![t] = c],
           clock[t][t] <= c[t],
           \A i \in Threads : i # t => c[i] <= clock[i][i]
    PROVE  /\ OwnClocksGrow
           /\ clock'[t] = c
           /\ \A u \in Threads : NextBounded(clock'[u])
  <1>1. clock \in [Threads -> Timestamps]
    BY DEF TypeOK
  <1>2. clock'[t] = c /\ \A u \in Threads : u # t => clock'[u] = clock[u]
    BY <1>1
  <1>3. \A u, i \in Threads : clock[u][i] \in Nat /\ c[i] \in Nat
    BY <1>1 DEF Timestamps
  <1>4. OwnClocksGrow
    BY <1>2, <1>3 DEF OwnClocksGrow
  <1>5. NextBounded(c)
    BY <1>2, <1>3 DEF NextBounded
  <1>6. \A u \in Threads : NextBounded(clock[u])
    BY <1>4, Carry
  <1> QED
    BY <1>2, <1>4, <1>5, <1>6

(* KnowledgeBound' with its parts spelled out. *)
LEMMA NextKnowledge ==
    ASSUME \A u \in Threads : /\ NextBounded(clock'[u])
                              /\ NextBounded(acquireFence'[u])
                              /\ NextBounded(releaseFence'[u])
                              /\ lastYield'[u] <= clock'[u][u],
           NextBounded(seqCstFence'),
           \A a \in Atomics, s \in Slots : NextRecordBounded(history'[a][s]),
           \A v \in Vars : NextBounded(storeStamp'[v]) /\ NextBounded(loadStamp'[v]),
           \A m \in SyncVars : NextBounded(syncOrder'[m])
    PROVE  KnowledgeBound'
  BY DEF KnowledgeBound, ThreadsBounded, RecordBounded, Bounded,
         NextRecordBounded, NextBounded

(* Reading a slot adds only what its record carried (atomic_load). *)
LEMMA ReadSlotKnowledge ==
    ASSUME TypeOK, TypeOK', KnowledgeBound, NEW t \in Threads,
           NEW a \in Atomics, NEW mo, NEW s \in Slots, ReadSlot(t, a, mo, s),
           UNCHANGED <<releaseFence, lastYield, seqCstFence, plainVars, syncOrder>>
    PROVE  KnowledgeBound'
  <1> DEFINE rec == history[a][s]
             c == LoadedClock(t, rec, mo)
             f == LoadedFence(t, rec, mo)
             seen == MarkSeen(rec, t, clock[t][t] + 1)
  <1>1. rec \in Records /\ RecordBounded(rec)
    BY DEF TypeOK, KnowledgeBound
  <1>2. clock[t] \in Timestamps /\ clock[t][t] \in Nat
    BY DEF TypeOK, Timestamps
  <1>3. /\ c \in Timestamps /\ f \in Timestamps
        /\ \A i \in Threads :
              /\ Tick(clock[t], t)[i] <= c[i]
              /\ c[i] \in {Tick(clock[t], t)[i], rec.order[i]}
              /\ f[i] \in {acquireFence[t][i], rec.order[i]}
    BY <1>1, LoadedClockFacts
  <1>4. /\ clock' = [clock EXCEPT ![t] = c]
        /\ acquireFence' = [acquireFence EXCEPT ![t] = f]
        /\ history' = [history EXCEPT ![a][s] = seen]
    BY DEF ReadSlot
  <1>5. /\ seen.order = rec.order /\ seen.thread = rec.thread
        /\ seen.timestamp = rec.timestamp
        /\ \A i \in Threads : seen.firstSeen[i] \in {rec.firstSeen[i], clock[t][t] + 1}
        /\ \A i \in Threads : i # t => seen.firstSeen[i] = rec.firstSeen[i]
    BY <1>1, <1>2, MarkSeenFacts
  <1>6. Tick(clock[t], t)[t] = clock[t][t] + 1
    BY <1>2, TickFacts
  <1>7. \A i \in Threads : i # t => Tick(clock[t], t)[i] = clock[t][i]
    BY <1>2, TickFacts
  <1>8. \A i \in Threads : /\ clock[t][i] <= clock[i][i]
                           /\ rec.order[i] <= clock[i][i]
    BY <1>1 DEF KnowledgeBound, ThreadsBounded, RecordBounded, Bounded
  <1>9. \A i \in Threads : i # t => c[i] <= clock[i][i]
    BY <1>3, <1>7, <1>8
  <1>10. clock[t][t] + 1 <= c[t]
    BY <1>3, <1>6
  <1>11. clock[t][t] <= c[t]
    BY <1>2, <1>3, <1>10 DEF Timestamps
  <1> HIDE DEF rec, c, f, seen
  <1>12. OwnClocksGrow /\ clock'[t] = c /\ \A u \in Threads : NextBounded(clock'[u])
    <2>1. c \in Timestamps
      BY <1>3
    <2>2. clock' = [clock EXCEPT ![t] = c]
      BY <1>4
    <2> QED
      BY <1>9, <1>11, <2>1, <2>2, ClockStep
  <1>13. NextRecordBounded(rec)
    BY <1>12, Carry DEF rec
  <1>14. NextBounded(f)
    <2>1. NextBounded(acquireFence[t])
      BY <1>12, Carry
    <2> QED
      BY <1>3, <1>13, <2>1 DEF NextBounded, NextRecordBounded
  <1>15. \A u \in Threads : NextBounded(acquireFence'[u])
    BY <1>4, <1>12, <1>14, Carry DEF TypeOK
  <1>16. NextRecordBounded(seen)
    BY <1>5, <1>10, <1>12, <1>13 DEF NextRecordBounded, NextBounded
  <1>17. \A b \in Atomics, r \in Slots : NextRecordBounded(history'[b][r])
    <2> TAKE b \in Atomics, r \in Slots
    <2>1. history'[b][r] = IF b = a /\ r = s THEN seen ELSE history[b][r]
      BY <1>4 DEF TypeOK
    <2>2. NextRecordBounded(history[b][r])
      BY <1>12, Carry
    <2> QED
      BY <1>16, <2>1, <2>2
  <1> QED
    BY <1>12, <1>15, <1>17, Carry, NextKnowledge DEF plainVars

(* The record a store leaves is bounded by the clock of the storing thread *)
(* after the store (atomic_store).                                         *)
LEMMA StoreRecordKnowledge ==
    ASSUME TypeOK, TypeOK', KnowledgeBound, OwnClocksGrow, NEW t \in Threads,
           NEW prev \in Records, NextRecordBounded(prev), NEW mo,
           NEW rmw \in BOOLEAN, NEW x \in Values, NextBounded(clock'[t])
    PROVE  NextRecordBounded(StoreRecord(t, clock'[t], prev, mo, rmw, x))
  <1> DEFINE c == clock'[t]
             rec == StoreRecord(t, c, prev, mo, rmw, x)
  <1>1. c \in Timestamps
    BY DEF TypeOK
  <1>2. /\ rec.thread = t /\ rec.timestamp = c[t]
        /\ \A i \in Threads :
              /\ rec.order[i] \in {prev.order[i], c[i], releaseFence[t][i]}
              /\ rec.firstSeen[i] = (IF i = t THEN c[t] ELSE NotSeen)
    BY <1>1, StoreRecordFacts
  <1>3. NextBounded(releaseFence[t])
    BY Carry
  <1>4. \A i \in Threads : clock'[i][i] \in Nat
    BY DEF TypeOK, Timestamps
  <1> HIDE DEF rec
  <1>5. NextBounded(rec.order)
    BY <1>2, <1>3 DEF NextBounded, NextRecordBounded
  <1>6. NextBounded(rec.firstSeen)
    BY <1>2, <1>4 DEF NextBounded, NotSeen
  <1>7. rec.timestamp <= clock'[rec.thread][rec.thread]
    BY <1>2, <1>4
  <1>8. NextRecordBounded(rec)
    BY <1>5, <1>6, <1>7 DEF NextRecordBounded
  <1> QED
    BY <1>8 DEF rec

(* A store ticks its thread and leaves a record stamped with the new     *)
(* clock (atomic_store).                                                 *)
LEMMA StoreKnowledge ==
    ASSUME TypeOK, TypeOK', KnowledgeBound, NEW t \in Threads,
           NEW a \in Atomics, NEW mo, NEW x \in Values, Store(t, a, mo, x)
    PROVE  KnowledgeBound'
  <1> DEFINE c == Tick(clock[t], t)
             new == StoreRecord(t, c, Newest(a), mo, FALSE, x)
             s == Next1(current[a])
  <1>1. current[a] \in Slots /\ s \in Slots
    BY SlotFacts DEF TypeOK
  <1>2. /\ clock' = [clock EXCEPT ![t] = c]
        /\ history' = [history EXCEPT ![a][s] = new]
        /\ UNCHANGED <<acquireFence, releaseFence, lastYield, seqCstFence,
                       plainVars, syncOrder>>
    BY DEF Store
  <1>3. clock[t] \in Timestamps /\ clock[t][t] \in Nat
    BY DEF TypeOK, Timestamps
  <1>4. /\ c \in Timestamps /\ c[t] = clock[t][t] + 1
        /\ \A i \in Threads : i # t => c[i] = clock[t][i]
    BY <1>3, TickFacts
  <1>5. clock[t][t] <= c[t] /\ \A i \in Threads : i # t => c[i] <= clock[i][i]
    BY <1>3, <1>4 DEF KnowledgeBound, ThreadsBounded, Bounded
  <1> HIDE DEF c, s, new
  <1>6. OwnClocksGrow /\ clock'[t] = c /\ \A u \in Threads : NextBounded(clock'[u])
    BY <1>2, <1>4, <1>5, ClockStep
  <1>7. Newest(a) \in Records /\ NextRecordBounded(Newest(a))
    BY <1>1, <1>6, Carry DEF Newest, TypeOK
  <1>8. NextRecordBounded(new)
    BY <1>6, <1>7, StoreRecordKnowledge DEF new
  <1>9. \A b \in Atomics, r \in Slots : NextRecordBounded(history'[b][r])
    <2> TAKE b \in Atomics, r \in Slots
    <2>1. history'[b][r] = IF b = a /\ r = s THEN new ELSE history[b][r]
      BY <1>1, <1>2 DEF TypeOK
    <2>2. NextRecordBounded(history[b][r])
      BY <1>6, Carry
    <2> QED
      BY <1>8, <2>1, <2>2
  <1> QED
    BY <1>2, <1>6, <1>9, Carry, NextKnowledge DEF plainVars

(* A read-modify-write ticks its thread twice, once for the load and once*)
(* for the store (atomic_rmw).                                           *)
LEMMA RmwKnowledge ==
    ASSUME TypeOK, TypeOK', KnowledgeBound, NEW t \in Threads,
           NEW a \in Atomics, NEW mo, NEW x \in Values, Rmw(t, a, mo, x)
    PROVE  KnowledgeBound'
  <1> DEFINE rec == Newest(a)
             loaded == LoadedClock(t, rec, mo)
             f == LoadedFence(t, rec, mo)
             c == Tick(loaded, t)
             seen == MarkSeen(rec, t, clock[t][t] + 1)
             new == StoreRecord(t, c, rec, mo, TRUE, x)
             cur == current[a]
             s == Next1(current[a])
  <1>1. cur \in Slots /\ s \in Slots
    BY SlotFacts DEF TypeOK
  <1>2. /\ clock' = [clock EXCEPT ![t] = c]
        /\ acquireFence' = [acquireFence EXCEPT ![t] = f]
        /\ history' = [history EXCEPT ![a][cur] = seen, ![a][s] = new]
        /\ UNCHANGED <<releaseFence, lastYield, seqCstFence, plainVars, syncOrder>>
    BY DEF Rmw, RmwNewest
  <1>3. rec \in Records /\ RecordBounded(rec)
    BY <1>1 DEF TypeOK, KnowledgeBound, Newest
  <1>4. clock[t] \in Timestamps /\ clock[t][t] \in Nat
    BY DEF TypeOK, Timestamps
  <1>5. /\ loaded \in Timestamps /\ f \in Timestamps
        /\ \A i \in Threads :
              /\ Tick(clock[t], t)[i] <= loaded[i]
              /\ loaded[i] \in {Tick(clock[t], t)[i], rec.order[i]}
              /\ f[i] \in {acquireFence[t][i], rec.order[i]}
    BY <1>3, LoadedClockFacts
  <1>6. /\ Tick(clock[t], t)[t] = clock[t][t] + 1
        /\ \A i \in Threads : i # t => Tick(clock[t], t)[i] = clock[t][i]
    BY <1>4, TickFacts
  <1>7. \A i \in Threads : clock[t][i] <= clock[i][i] /\ rec.order[i] <= clock[i][i]
    BY <1>3 DEF KnowledgeBound, ThreadsBounded, RecordBounded, Bounded
  <1>8. \A i \in Threads : i # t => loaded[i] <= clock[i][i]
    BY <1>5, <1>6, <1>7
  <1>9. /\ c \in Timestamps /\ c[t] = loaded[t] + 1
        /\ \A i \in Threads : i # t => c[i] = loaded[i]
    BY <1>5, TickFacts
  <1>10. loaded[t] \in Nat /\ clock[t][t] + 1 <= loaded[t]
    BY <1>5, <1>6 DEF Timestamps
  <1>11. /\ clock[t][t] + 1 <= c[t] /\ clock[t][t] <= c[t]
         /\ \A i \in Threads : i # t => c[i] <= clock[i][i]
    BY <1>4, <1>8, <1>9, <1>10
  <1>12. /\ seen.order = rec.order /\ seen.thread = rec.thread
         /\ seen.timestamp = rec.timestamp
         /\ \A i \in Threads : seen.firstSeen[i] \in {rec.firstSeen[i], clock[t][t] + 1}
         /\ \A i \in Threads : i # t => seen.firstSeen[i] = rec.firstSeen[i]
    <2>1. rec \in Records /\ clock[t][t] + 1 \in Nat
      BY <1>3, <1>4
    <2> HIDE DEF rec
    <2> QED
      BY <2>1, MarkSeenFacts
  <1> HIDE DEF rec, loaded, f, c, seen, new, cur, s
  <1>13. OwnClocksGrow /\ clock'[t] = c /\ \A u \in Threads : NextBounded(clock'[u])
    <2>1. c \in Timestamps /\ clock' = [clock EXCEPT ![t] = c]
      BY <1>2, <1>9
    <2>2. clock[t][t] <= c[t] /\ \A i \in Threads : i # t => c[i] <= clock[i][i]
      BY <1>11
    <2>3. /\ OwnClocksGrow /\ clock'[t] = c
          /\ \A u \in Threads : NextBounded(clock'[u])
      BY <2>1, <2>2, ClockStep, Zenon
    <2> QED
      BY <2>3
  <1>14. NextRecordBounded(rec)
    BY <1>1, <1>13, Carry DEF rec, cur, Newest
  <1>15. NextRecordBounded(new)
    BY <1>3, <1>13, <1>14, StoreRecordKnowledge DEF new
  <1>16. NextRecordBounded(seen)
    BY <1>11, <1>12, <1>13, <1>14 DEF NextRecordBounded, NextBounded
  <1>17. NextBounded(f)
    <2>1. NextBounded(acquireFence[t])
      BY <1>13, Carry
    <2> QED
      BY <1>5, <1>14, <2>1 DEF NextBounded, NextRecordBounded
  <1>18. \A u \in Threads : NextBounded(acquireFence'[u])
    BY <1>2, <1>13, <1>17, Carry DEF TypeOK
  <1>19. \A b \in Atomics, r \in Slots : NextRecordBounded(history'[b][r])
    <2> TAKE b \in Atomics, r \in Slots
    <2>1. history'[b][r] = IF b = a /\ r = s THEN new
                           ELSE IF b = a /\ r = cur THEN seen ELSE history[b][r]
      BY <1>1, <1>2 DEF TypeOK
    <2>2. NextRecordBounded(history[b][r])
      BY <1>13, Carry
    <2> QED
      BY <1>15, <1>16, <2>1, <2>2
  <1> QED
    BY <1>2, <1>13, <1>18, <1>19, Carry, NextKnowledge DEF plainVars

(* Fences move clocks, fence clocks and the shared seq_cst fence clock     *)
(* among themselves (atomic_thread_fence).                                      *)
LEMMA FenceKnowledge ==
    ASSUME TypeOK, TypeOK', KnowledgeBound, NEW t \in Threads, NEW mo,
           Fence(t, mo)
    PROVE  KnowledgeBound'
  <1> DEFINE c == clock'[t]
  <1>1. /\ clock[t] \in Timestamps /\ acquireFence[t] \in Timestamps
        /\ seqCstFence \in Timestamps /\ c \in Timestamps
        /\ clock' = [clock EXCEPT ![t] = c]
    <2>1. FenceAcquire(t) \/ FenceRelease(t) \/ FenceAcqRel(t) \/ FenceSeqCst(t)
      BY DEF Fence
    <2> QED
      BY <2>1 DEF TypeOK, FenceAcquire, FenceRelease, FenceAcqRel, FenceSeqCst
  <1>2. \A i \in Threads :
           /\ clock[t][i] <= c[i]
           /\ c[i] \in {clock[t][i], acquireFence[t][i], seqCstFence[i]}
    <2>1. CASE FenceAcquire(t)
      BY <1>1, <2>1, AssignMaxFacts DEF FenceAcquire, TypeOK
    <2>2. CASE FenceRelease(t)
      BY <1>1, <2>2 DEF FenceRelease, Timestamps
    <2>3. CASE FenceAcqRel(t)
      BY <1>1, <2>3, AssignMaxFacts DEF FenceAcqRel, TypeOK
    <2>4. CASE FenceSeqCst(t)
      <3> DEFINE d == AssignMax(clock[t], acquireFence[t])
      <3>1. c = AssignMax(d, seqCstFence)
        BY <2>4 DEF FenceSeqCst, TypeOK
      <3>2. /\ d \in Timestamps
            /\ \A i \in Threads : /\ clock[t][i] <= d[i]
                                  /\ d[i] \in {clock[t][i], acquireFence[t][i]}
        BY <1>1, AssignMaxFacts
      <3> HIDE DEF d
      <3>3. \A i \in Threads : d[i] <= c[i] /\ c[i] \in {d[i], seqCstFence[i]}
        BY <1>1, <3>1, <3>2, AssignMaxFacts
      <3> QED
        BY <1>1, <3>2, <3>3 DEF Timestamps
    <2> QED
      BY <2>1, <2>2, <2>3, <2>4 DEF Fence
  <1>3. \A i \in Threads : c[i] <= clock[i][i]
    BY <1>2 DEF KnowledgeBound, ThreadsBounded, Bounded
  <1>4. OwnClocksGrow /\ \A u \in Threads : NextBounded(clock'[u])
    <2>1. c \in Timestamps /\ clock' = [clock EXCEPT ![t] = c]
      BY <1>1
    <2>2. clock[t][t] <= c[t] /\ \A i \in Threads : i # t => c[i] <= clock[i][i]
      BY <1>2, <1>3
    <2> HIDE DEF c
    <2> QED
      BY <2>1, <2>2, ClockStep, Zenon
  <1>5. \A u \in Threads : releaseFence'[u] = releaseFence[u] \/ releaseFence'[u] = clock'[u]
    BY DEF Fence, FenceAcquire, FenceRelease, FenceAcqRel, FenceSeqCst, TypeOK
  <1>6. seqCstFence' = seqCstFence \/ seqCstFence' = clock'[t]
    BY DEF Fence, FenceAcquire, FenceRelease, FenceAcqRel, FenceSeqCst, TypeOK
  <1>7. /\ \A u \in Threads : NextBounded(releaseFence'[u])
        /\ NextBounded(seqCstFence')
    BY <1>4, <1>5, <1>6, Carry
  <1>8. UNCHANGED <<acquireFence, lastYield, history, storeStamp, loadStamp, syncOrder>>
    BY DEF Fence, atomicVars, plainVars
  <1> QED
    BY <1>4, <1>7, <1>8, Carry, NextKnowledge

(* A yield or a park remembers the own clock (context::schedule).          *)
LEMMA YieldKnowledge ==
    ASSUME TypeOK, TypeOK', KnowledgeBound, NEW t \in Threads, Yield(t)
    PROVE  KnowledgeBound'
  <1>1. clock' = clock
    BY DEF Yield
  <1>2. OwnClocksGrow
    BY <1>1 DEF OwnClocksGrow, TypeOK, Timestamps
  <1>3. \A u \in Threads : lastYield'[u] = lastYield[u] \/ lastYield'[u] = clock'[u][u]
    BY <1>1 DEF Yield, TypeOK
  <1>4. \A u \in Threads : clock'[u][u] \in Nat
    BY DEF TypeOK, Timestamps
  <1>5. \A u \in Threads : lastYield'[u] <= clock'[u][u]
    BY <1>2, <1>3, <1>4, Carry
  <1>6. UNCHANGED <<acquireFence, releaseFence, seqCstFence, history,
                    storeStamp, loadStamp, syncOrder>>
    BY DEF Yield, atomicVars, plainVars
  <1> QED
    BY <1>1, <1>2, <1>5, <1>6, Carry, NextKnowledge

(* Accepted accesses to a plain variable tick the thread and stamp the     *)
(* variable with the new time (var_data_impl).                             *)
LEMMA VarKnowledge ==
    ASSUME TypeOK, TypeOK', KnowledgeBound, NEW t \in Threads, NEW v \in Vars,
           VarStep(t, v)
    PROVE  KnowledgeBound'
  <1>1. CASE StampStore(t, v) \/ VarLoad(t, v)
    <2> DEFINE c == Tick(clock[t], t)
    <2>1. clock[t] \in Timestamps /\ clock[t][t] \in Nat
      BY DEF TypeOK, Timestamps
    <2>2. /\ c \in Timestamps /\ c[t] = clock[t][t] + 1
          /\ \A i \in Threads : i # t => c[i] = clock[t][i]
      BY <2>1, TickFacts
    <2>3. clock[t][t] <= c[t] /\ \A i \in Threads : i # t => c[i] <= clock[i][i]
      BY <2>1, <2>2 DEF KnowledgeBound, ThreadsBounded, Bounded
    <2>4. clock' = [clock EXCEPT ![t] = c]
      BY <1>1 DEF StampStore, VarLoad
    <2> HIDE DEF c
    <2>5. /\ OwnClocksGrow /\ clock'[t] = c
          /\ \A u \in Threads : NextBounded(clock'[u])
      <3>1. c \in Timestamps
        BY <2>2
      <3> QED
        BY <2>3, <2>4, <3>1, ClockStep
    <2>6. UNCHANGED <<acquireFence, releaseFence, lastYield, seqCstFence,
                      history, syncOrder>>
      BY <1>1 DEF StampStore, VarLoad, atomicVars
    <2>7. \A w \in Vars, i \in Threads :
             /\ storeStamp'[w][i] = storeStamp[w][i] \/ (i = t /\ storeStamp'[w][i] = c[t])
             /\ loadStamp'[w][i] = loadStamp[w][i] \/ (i = t /\ loadStamp'[w][i] = c[t])
      <3>1. CASE StampStore(t, v)
        <4>1. storeStamp \in [Vars -> Timestamps]
          BY DEF TypeOK
        <4>2. /\ storeStamp' = [storeStamp EXCEPT ![v][t] = c[t]]
              /\ loadStamp' = loadStamp
          BY <2>2, <3>1 DEF StampStore
        <4> QED
          BY <4>1, <4>2 DEF Timestamps
      <3>2. CASE VarLoad(t, v)
        <4>1. loadStamp \in [Vars -> Timestamps]
          BY DEF TypeOK
        <4>2. /\ loadStamp' = [loadStamp EXCEPT ![v][t] = c[t]]
              /\ storeStamp' = storeStamp
          BY <2>2, <3>2 DEF VarLoad
        <4> QED
          BY <4>1, <4>2 DEF Timestamps
      <3> QED
        BY <1>1, <3>1, <3>2
    <2>8. c[t] <= clock'[t][t]
      BY <2>1, <2>2, <2>5
    <2>9. \A w \in Vars : NextBounded(storeStamp[w]) /\ NextBounded(loadStamp[w])
      BY <2>5, Carry
    <2>10. \A w \in Vars : NextBounded(storeStamp'[w]) /\ NextBounded(loadStamp'[w])
      BY <2>7, <2>8, <2>9 DEF NextBounded
    <2> QED
      BY <2>5, <2>6, <2>10, Carry, NextKnowledge
  <1>2. CASE ~ (StampStore(t, v) \/ VarLoad(t, v))
    <2>1. UNCHANGED <<clock, acquireFence, releaseFence, lastYield, seqCstFence,
                      history, storeStamp, loadStamp, syncOrder>>
      BY <1>2 DEF VarStep, VarStore, VarStoreRace, VarLoadRace,
                  VarLoadUninitialized, Fail, threadVars, atomicVars, plainVars
    <2>2. OwnClocksGrow
      BY <2>1 DEF OwnClocksGrow, TypeOK, Timestamps
    <2> QED
      BY <2>1, <2>2, Carry, NextKnowledge
  <1> QED
    BY <1>1, <1>2

(* A sync_var exchanges clocks with one thread (sync_var).                 *)
LEMMA SyncKnowledge ==
    ASSUME TypeOK, TypeOK', KnowledgeBound, NEW t \in Threads,
           NEW m \in SyncVars, SyncStep(t, m)
    PROVE  KnowledgeBound'
  <1> DEFINE own == Tick(clock[t], t)
             c == clock'[t]
  <1>1. clock[t] \in Timestamps /\ clock[t][t] \in Nat /\ syncOrder[m] \in Timestamps
    BY DEF TypeOK, Timestamps
  <1>2. /\ own \in Timestamps /\ own[t] = clock[t][t] + 1
        /\ \A i \in Threads : i # t => own[i] = clock[t][i]
    BY <1>1, TickFacts
  <1>3. own \in Timestamps
    BY <1>2
  <1>4. clock' = [clock EXCEPT ![t] = c]
    BY DEF SyncStep, SyncAcquire, SyncRelease, SyncAcqRel, TypeOK
  <1>5. c = own \/ c = AssignMax(own, syncOrder[m])
    BY DEF SyncStep, SyncAcquire, SyncRelease, SyncAcqRel, TypeOK
  <1>6. \/ syncOrder' = syncOrder
        \/ syncOrder' = [syncOrder EXCEPT ![m] = AssignMax(@, c)]
    BY DEF SyncStep, SyncAcquire, SyncRelease, SyncAcqRel, TypeOK
  <1> HIDE DEF own
  <1>7. \A i \in Threads : own[i] <= c[i] /\ c[i] \in {own[i], syncOrder[m][i]}
    BY <1>1, <1>3, <1>5, AssignMaxFacts DEF Timestamps
  <1>8. \A i \in Threads : clock[t][i] <= clock[i][i] /\ syncOrder[m][i] <= clock[i][i]
    BY DEF KnowledgeBound, ThreadsBounded, Bounded
  <1>9. c \in Timestamps /\ c[t] \in Nat
    BY DEF TypeOK, Timestamps
  <1>10. clock[t][t] <= c[t]
    BY <1>1, <1>2, <1>7, <1>9
  <1>11. \A i \in Threads : i # t => c[i] <= clock[i][i]
    BY <1>2, <1>7, <1>8
  <1> HIDE DEF c
  <1>12. /\ OwnClocksGrow /\ clock'[t] = c
         /\ \A u \in Threads : NextBounded(clock'[u])
    <2>1. c \in Timestamps
      BY <1>9
    <2> QED
      BY <1>4, <1>10, <1>11, <2>1, ClockStep
  <1>13. \A k \in SyncVars : NextBounded(syncOrder[k])
    BY <1>12, Carry
  <1>14. \A i \in Threads : AssignMax(syncOrder[m], c)[i] \in {syncOrder[m][i], c[i]}
    BY <1>1, <1>9, AssignMaxFacts
  <1>15. NextBounded(AssignMax(syncOrder[m], c))
    BY <1>12, <1>13, <1>14 DEF NextBounded
  <1>16. \A k \in SyncVars : NextBounded(syncOrder'[k])
    BY <1>6, <1>13, <1>15 DEF TypeOK
  <1>17. UNCHANGED <<acquireFence, releaseFence, lastYield, seqCstFence, history,
                     storeStamp, loadStamp>>
    BY DEF SyncStep, SyncAcquire, SyncRelease, SyncAcqRel, atomicVars, plainVars
  <1> QED
    BY <1>12, <1>16, <1>17, Carry, NextKnowledge

(* The global fence raises every entry to the largest own clock.           *)
LEMMA GlobalFenceKnowledge ==
    ASSUME TypeOK, TypeOK', KnowledgeBound, GlobalFence
    PROVE  KnowledgeBound'
  <1>1. PICK m \in {clock[i][i] : i \in Threads} :
           /\ \A i \in Threads : clock[i][i] <= m
           /\ clock' = [i \in Threads |-> [j \in Threads |-> m]]
    BY DEF GlobalFence
  <1>2. m \in Nat
    BY DEF TypeOK, Timestamps
  <1>3. OwnClocksGrow /\ \A u \in Threads : NextBounded(clock'[u])
    BY <1>1, <1>2 DEF OwnClocksGrow, NextBounded
  <1>4. UNCHANGED <<acquireFence, releaseFence, lastYield, seqCstFence, history,
                    storeStamp, loadStamp, syncOrder>>
    BY DEF GlobalFence, atomicVars, plainVars
  <1> QED
    BY <1>3, <1>4, Carry, NextKnowledge

(* A step that moves no clock keeps KnowledgeBound: a failed access, and   *)
(* stuttering.                                                             *)
LEMMA StillKnowledge ==
    ASSUME TypeOK, TypeOK', KnowledgeBound,
           UNCHANGED <<threadVars, atomicVars, plainVars, syncOrder>>
    PROVE  KnowledgeBound'
  <1>1. UNCHANGED <<clock, acquireFence, releaseFence, lastYield, seqCstFence,
                    history, storeStamp, loadStamp, syncOrder>>
    BY DEF threadVars, atomicVars, plainVars
  <1>2. OwnClocksGrow
    BY <1>1 DEF OwnClocksGrow, TypeOK, Timestamps
  <1> QED
    BY <1>1, <1>2, Carry, NextKnowledge

(* The operations on atomic variables keep KnowledgeBound.                 *)
LEMMA AtomicKnowledge ==
    ASSUME TypeOK, TypeOK', KnowledgeBound, NEW t \in Threads,
           NEW a \in Atomics, AtomicStep(t, a)
    PROVE  KnowledgeBound'
  <1>1. ASSUME NEW mo \in LoadOrders, NEW s \in Slots, Load(t, a, mo, s)
        PROVE  KnowledgeBound'
    BY <1>1, ReadSlotKnowledge DEF Load
  <1>2. ASSUME NEW mo \in LoadOrders, LoadUninitialized(t, a, mo)
        PROVE  KnowledgeBound'
    BY <1>2, StillKnowledge DEF LoadUninitialized, Fail
  <1>3. ASSUME NEW mo \in StoreOrders, NEW x \in Values, Store(t, a, mo, x)
        PROVE  KnowledgeBound'
    BY <1>3, StoreKnowledge
  <1>4. ASSUME NEW mo \in RmwOrders, NEW x \in Values, Rmw(t, a, mo, x)
        PROVE  KnowledgeBound'
    BY <1>4, RmwKnowledge
  <1>5. ASSUME NEW mo \in RmwOrders, NEW x \in Values, NEW cmp \in Values,
               CasSuccess(t, a, mo, cmp, x)
        PROVE  KnowledgeBound'
    BY <1>5, RmwKnowledge DEF CasSuccess
  <1>6. ASSUME NEW mo \in LoadOrders, NEW cmp \in Values, NEW weak \in BOOLEAN,
               CasFail(t, a, mo, cmp, weak)
        PROVE  KnowledgeBound'
    <2>1. current[a] \in Slots
      BY DEF TypeOK
    <2>2. ReadSlot(t, a, mo, current[a])
      BY <1>6 DEF CasFail
    <2>3. UNCHANGED <<releaseFence, lastYield, seqCstFence, plainVars, syncOrder>>
      BY <1>6 DEF CasFail
    <2> QED
      BY <2>1, <2>2, <2>3, ReadSlotKnowledge
  <1>7. CASE RmwUninitialized(t, a)
    BY <1>7, StillKnowledge DEF RmwUninitialized, Fail
  <1> QED
    BY <1>1, <1>2, <1>3, <1>4, <1>5, <1>6, <1>7 DEF AtomicStep

(* KnowledgeBound is inductive, relative to the types.                     *)
LEMMA KnowledgeStep ==
    TypeOK /\ TypeOK' /\ KnowledgeBound /\ [Next]_vars => KnowledgeBound'
  <1> SUFFICES ASSUME TypeOK, TypeOK', KnowledgeBound, [Next]_vars
               PROVE  KnowledgeBound'
    OBVIOUS
  <1>1. ASSUME NEW t \in Threads, NEW a \in Atomics, AtomicStep(t, a)
        PROVE  KnowledgeBound'
    BY <1>1, AtomicKnowledge
  <1>2. ASSUME NEW t \in Threads, NEW mo \in FenceOrders, Fence(t, mo)
        PROVE  KnowledgeBound'
    BY <1>2, FenceKnowledge
  <1>3. ASSUME NEW t \in Threads, Yield(t)
        PROVE  KnowledgeBound'
    BY <1>3, YieldKnowledge
  <1>4. ASSUME NEW t \in Threads, NEW v \in Vars, VarStep(t, v)
        PROVE  KnowledgeBound'
    BY <1>4, VarKnowledge
  <1>5. ASSUME NEW t \in Threads, NEW m \in SyncVars, SyncStep(t, m)
        PROVE  KnowledgeBound'
    BY <1>5, SyncKnowledge
  <1>6. CASE GlobalFence
    BY <1>6, GlobalFenceKnowledge
  <1>7. CASE UNCHANGED vars
    BY <1>7, StillKnowledge DEF vars, threadVars, atomicVars, plainVars
  <1> QED
    BY <1>1, <1>2, <1>3, <1>4, <1>5, <1>6, <1>7 DEF Next

(* At the start no thread knows of anything but its own first tick.        *)
LEMMA InitKnowledge == Init => KnowledgeBound
  <1> SUFFICES ASSUME Init PROVE KnowledgeBound
    OBVIOUS
  <1>1. \A i \in Threads : /\ clock[i][i] = 1
                           /\ 0 <= clock[i][i] /\ -1 <= clock[i][i]
    <2>1. clock = [t \in Threads |-> [i \in Threads |-> IF i = t THEN 1 ELSE 0]]
      BY DEF Init
    <2>2. ASSUME NEW i \in Threads PROVE clock[i][i] = 1
      BY <2>1
    <2>3. ASSUME NEW i \in Threads PROVE 0 <= clock[i][i] /\ -1 <= clock[i][i]
      <3>1. clock[i][i] = 1
        BY <2>2
      <3> QED
        BY <3>1
    <2> QED
      BY <2>2, <2>3
  <1>2. Bounded(Zero)
    BY <1>1 DEF Bounded, Zero
  <1>3. ThreadsBounded
    <2>1. \A t \in Threads : Bounded(clock[t])
      BY <1>1 DEF Init, Bounded
    <2>2. \A t \in Threads : acquireFence[t] = Zero /\ releaseFence[t] = Zero
      BY DEF Init
    <2>3. \A t \in Threads : lastYield[t] = 0
      BY DEF Init
    <2>4. \A t \in Threads : lastYield[t] <= clock[t][t]
      BY <1>1, <2>3
    <2> QED
      BY <1>2, <2>4, <2>1, <2>2, <2>3 DEF ThreadsBounded
  <1>4. RecordBounded(Unused)
    <2>1. Unused.thread \in Threads
      BY MemoryOrderAssumption DEF Unused
    <2>2. Unused.order = Zero /\ Unused.timestamp = 0
      BY DEF Unused
    <2>3. \A i \in Threads : Unused.firstSeen[i] = -1
      BY DEF Unused, NotSeen
    <2>4. Bounded(Unused.firstSeen)
      BY <1>1, <2>3 DEF Bounded
    <2> QED
      BY <1>1, <1>2, <2>1, <2>2, <2>4 DEF RecordBounded
  <1>5. \A a \in Atomics, s \in Slots : history[a][s] = Unused
    BY DEF Init
  <1>6. /\ seqCstFence = Zero
        /\ \A v \in Vars : storeStamp[v] = Zero /\ loadStamp[v] = Zero
        /\ \A m \in SyncVars : syncOrder[m] = Zero
    BY DEF Init
  <1> QED
    BY <1>2, <1>3, <1>4, <1>5, <1>6 DEF KnowledgeBound

(* No piece of state ever knows more of a thread than the thread has done. *)
THEOREM KnowledgeCorrect == Spec => []KnowledgeBound
  <1>1. Init => KnowledgeBound
    BY InitKnowledge
  <1>2. TypeOK /\ TypeOK' /\ KnowledgeBound /\ [Next]_vars => KnowledgeBound'
    BY KnowledgeStep
  <1> QED
    BY <1>1, <1>2, TypeCorrect, PTL DEF Spec

-----------------------------------------------------------------------------
(* CoherentReads.  What a thread has seen it knows, by KnowledgeBound, and *)
(* get_load_index never goes past a store the thread knows.                *)

(* The three slots a load can go back to are different.                    *)
LEMMA OlderInjective ==
    ASSUME NEW s \in Slots, NEW n \in 0 .. HistorySize - 1,
           NEW k \in 0 .. HistorySize - 1, Older(s, n) = Older(s, k)
    PROVE  n = k
  BY DEF Slots, Older, HistorySize

(* A store the thread has made or read ends the search (get_load_index).   *)
LEMMA SeenStops ==
    ASSUME TypeOK, KnowledgeBound, NEW t \in Threads, NEW a \in Atomics, NEW mo,
           NEW s \in Slots, history[a][s].firstSeen[t] # NotSeen
    PROVE  ~ MaySkip(t, a, mo, s)
  <1>1. RecordBounded(history[a][s])
    BY DEF KnowledgeBound
  <1>2. SeenBy(history[a][s], t, clock[t][t])
    BY <1>1 DEF RecordBounded, Bounded, SeenBy
  <1> QED
    BY <1>2 DEF MaySkip, Knows

(* Loads respect coherence, whatever the orders, fences and yields are.    *)
THEOREM ReadsCoherent == Spec => CoherentReads
  <1>1. ASSUME TypeOK, KnowledgeBound, NEW t \in Threads, NEW a \in Atomics,
               NEW mo \in LoadOrders, NEW n \in 0 .. HistorySize - 1,
               Load(t, a, mo, Older(current[a], n)), NEW k \in 0 .. n - 1
        PROVE  history[a][Older(current[a], k)].firstSeen[t] = NotSeen
    <2>1. current[a] \in Slots
      BY <1>1 DEF TypeOK
    <2>2. LoadLimit \in 0 .. HistorySize - 1 /\ k \in 0 .. HistorySize - 1
      BY DEF LoadLimit, HistorySize
    <2>3. PICK j \in 0 .. LoadLimit :
             /\ Older(current[a], n) = Older(current[a], j)
             /\ \A i \in 0 .. j - 1 : MaySkip(t, a, mo, Older(current[a], i))
      BY <1>1 DEF Load, LoadSlots
    <2>4. j \in 0 .. HistorySize - 1
      BY <2>2 DEF HistorySize
    <2>5. j = n
      BY <2>1, <2>3, <2>4, OlderInjective
    <2>6. MaySkip(t, a, mo, Older(current[a], k))
      BY <2>3, <2>5
    <2>7. Older(current[a], k) \in Slots
      BY <2>1, <2>2, SlotFacts
    <2> QED
      BY <1>1, <2>6, <2>7, SeenStops
  <1>2. TypeOK /\ KnowledgeBound =>
          \A t \in Threads, a \in Atomics, mo \in LoadOrders, n \in 0 .. HistorySize - 1 :
             Load(t, a, mo, Older(current[a], n)) =>
                \A k \in 0 .. n - 1 :
                   history[a][Older(current[a], k)].firstSeen[t] = NotSeen
    BY <1>1
  <1> QED
    BY <1>2, TypeCorrect, KnowledgeCorrect, PTL DEF CoherentReads
=============================================================================
