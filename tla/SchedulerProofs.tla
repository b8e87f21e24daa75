-------------------------- MODULE SchedulerProofs --------------------------
(***************************************************************************)
(* Theorems about Scheduler, for any finite set of threads, any yields and *)
(* any context bound: the accounts of the reasons for which threads are    *)
(* blocked, the thread that continues, and the verdicts.                   *)
(***************************************************************************)
EXTENDS Scheduler, FiniteSetTheorems, TLAPS

States == {"running", "blocked", "finished"}

TableSet ==
    [state : [Threads -> States], blockCount : [Threads -> Int],
     priority : [Threads -> [Threads -> 0 .. MaxYield]],
     schedCount : [Threads -> [Threads -> 0 .. MaxYield]],
     timed : SUBSET Threads, spurious : SUBSET Threads]

(* A thread is running exactly if nothing blocks it, and nobody waits for  *)
(* itself or for a finished thread, which waits for nobody.                *)
Consistent(s) ==
    /\ \A t \in Threads : s.state[t] = "running" <=> s.blockCount[t] = 0
    /\ \A t \in Threads : s.priority[t][t] = 0
    /\ \A t, y \in Threads : s.state[t] = "finished" =>
           s.priority[t][y] = 0 /\ s.priority[y][t] = 0

(* The tables add up, n[t] being the number of reasons other than yields   *)
(* for which t is blocked.                                                 *)
Accounted(s, n) ==
    /\ Consistent(s)
    /\ \A t \in Threads : s.blockCount[t] = Cardinality(WaitsFor(s, t)) + n[t]

Numbers == [Threads -> Nat]

(* r is what a function of the scheduler makes of s: no debt is added, and *)
(* the lists, and who has finished, are left alone.                        *)
Settles(s, r, n) ==
    /\ r \in TableSet /\ Accounted(r, n)
    /\ r.timed = s.timed /\ r.spurious = s.spurious
    /\ \A t \in Threads : r.state[t] = "finished" <=> s.state[t] = "finished"
    /\ \A t \in Threads : WaitsFor(r, t) \subseteq WaitsFor(s, t)

Keeps(s, r) == Running(s) \subseteq Running(r)

-----------------------------------------------------------------------------
LEMMA MaxYieldNat == MaxYield \in Nat /\ 0 \in 0 .. MaxYield
BY SchedulerAssumption

LEMMA WaitsForFinite ==
    ASSUME NEW s, NEW t \in Threads
    PROVE  /\ IsFiniteSet(WaitsFor(s, t))
           /\ Cardinality(WaitsFor(s, t)) \in Nat
           /\ Cardinality(WaitsFor(s, t)) = 0 <=> WaitsFor(s, t) = {}
<1>1. IsFiniteSet(WaitsFor(s, t))
    BY SchedulerAssumption, FS_Subset DEF WaitsFor
<1>2. QED
    BY <1>1, FS_CardinalityType, FS_EmptySet

LEMMA UnblockAllType ==
    ASSUME NEW s \in TableSet, NEW U \in SUBSET Threads
    PROVE  /\ UnblockAll(s, U) \in TableSet
           /\ UnblockAll(s, U).priority = s.priority
           /\ UnblockAll(s, U).schedCount = s.schedCount
           /\ UnblockAll(s, U).timed = s.timed
           /\ UnblockAll(s, U).spurious = s.spurious
           /\ \A t \in Threads :
                 /\ UnblockAll(s, U).blockCount[t] =
                       IF t \in U THEN s.blockCount[t] - 1 ELSE s.blockCount[t]
                 /\ UnblockAll(s, U).state[t] =
                       IF t \in U /\ s.blockCount[t] = 1 THEN "running" ELSE s.state[t]
<1> DEFINE bc == [t \in Threads |-> IF t \in U THEN s.blockCount[t] - 1 ELSE s.blockCount[t]]
           st == [t \in Threads |-> IF t \in U /\ s.blockCount[t] = 1 THEN "running" ELSE s.state[t]]
<1>1. bc \in [Threads -> Int] /\ st \in [Threads -> States]
    BY DEF TableSet, States
<1>2. UnblockAll(s, U) = [s EXCEPT !.blockCount = bc, !.state = st]
    BY DEF UnblockAll, TableSet
<1>3. /\ \A t \in Threads : bc[t] = IF t \in U THEN s.blockCount[t] - 1 ELSE s.blockCount[t]
      /\ \A t \in Threads : st[t] = IF t \in U /\ s.blockCount[t] = 1 THEN "running" ELSE s.state[t]
    OBVIOUS
<1> HIDE DEF bc, st
<1>4. /\ UnblockAll(s, U) \in TableSet
      /\ UnblockAll(s, U).priority = s.priority
      /\ UnblockAll(s, U).schedCount = s.schedCount
      /\ UnblockAll(s, U).timed = s.timed
      /\ UnblockAll(s, U).spurious = s.spurious
      /\ UnblockAll(s, U).blockCount = bc /\ UnblockAll(s, U).state = st
    BY <1>1, <1>2 DEF TableSet
<1>5. QED
    BY <1>3, <1>4

-----------------------------------------------------------------------------
(* t pays to others: its row becomes row, and those whose entry becomes 0  *)
(* are unblocked.                                                          *)
LEMMA RowPaid ==
    ASSUME NEW s \in TableSet, NEW n \in Numbers, NEW t \in Threads, Accounted(s, n),
           NEW row \in [Threads -> 0 .. MaxYield],
           \A i \in Threads : row[i] <= s.priority[t][i],
           NEW s0 \in TableSet,
           s0.priority = [s.priority EXCEPT ![t] = row],
           NEW U \in SUBSET Threads,
           \A i \in Threads : i \in U <=> s.priority[t][i] > 0 /\ row[i] = 0,
           s0.blockCount = s.blockCount, s0.state = s.state,
           s0.timed = s.timed, s0.spurious = s.spurious
    PROVE  /\ Settles(s, UnblockAll(s0, U), n)
           /\ Keeps(s, UnblockAll(s0, U))
           /\ UnblockAll(s0, U).priority = s0.priority
<1> DEFINE q == UnblockAll(s0, U)
<1>1. /\ q \in TableSet
      /\ q.priority = s0.priority
      /\ q.timed = s.timed
      /\ q.spurious = s.spurious
      /\ \A i \in Threads :
            /\ q.blockCount[i] = IF i \in U THEN s.blockCount[i] - 1 ELSE s.blockCount[i]
            /\ q.state[i] = IF i \in U /\ s.blockCount[i] = 1 THEN "running" ELSE s.state[i]
    BY UnblockAllType
<1>2. s.priority \in [Threads -> [Threads -> 0 .. MaxYield]]
    BY DEF TableSet
<1>3. /\ \A y \in Threads \ {t} : q.priority[y] = s.priority[y]
      /\ q.priority[t] = row
    BY <1>1, <1>2
<1> HIDE DEF q
<1>4. \A y, i \in Threads : /\ s.priority[y][i] \in Nat /\ q.priority[y][i] \in Nat
                            /\ q.priority[y][i] <= s.priority[y][i]
                            /\ y # t => q.priority[y][i] = s.priority[y][i]
                            /\ s.blockCount[i] \in Int /\ s.state[i] \in States
                            /\ n[i] \in Nat
  <2>1. /\ s.priority \in [Threads -> [Threads -> 0 .. MaxYield]]
        /\ q.priority \in [Threads -> [Threads -> 0 .. MaxYield]]
        /\ s.blockCount \in [Threads -> Int] /\ s.state \in [Threads -> States]
        /\ n \in [Threads -> Nat]
    BY <1>1 DEF TableSet, Numbers
  <2>2. QED
    BY <2>1, <1>3, MaxYieldNat
<1>5. \A i \in Threads : /\ i \in U => s.priority[t][i] > 0 /\ q.priority[t][i] = 0
                         /\ i \notin U => s.priority[t][i] = 0 \/ q.priority[t][i] > 0
    BY <1>4, <1>3
<1>6. ASSUME NEW i \in Threads
      PROVE  /\ i \in U => t \in WaitsFor(s, i) /\ WaitsFor(q, i) = WaitsFor(s, i) \ {t}
             /\ i \notin U => WaitsFor(q, i) = WaitsFor(s, i)
  <2>1. \A y \in Threads : y \in WaitsFor(q, i) <=> y \in WaitsFor(s, i) /\ ~ (y = t /\ i \in U)
    BY <1>4, <1>5 DEF WaitsFor
  <2>2. i \in U => t \in WaitsFor(s, i)
    BY <1>5 DEF WaitsFor
  <2>3. WaitsFor(q, i) \subseteq Threads /\ WaitsFor(s, i) \subseteq Threads
    BY DEF WaitsFor
  <2>4. QED
    BY <2>1, <2>2, <2>3
<1>7. \A i \in Threads :
            /\ q.blockCount[i] = IF i \in U THEN s.blockCount[i] - 1 ELSE s.blockCount[i]
            /\ q.state[i] = IF i \in U /\ s.blockCount[i] = 1 THEN "running" ELSE s.state[i]
    BY <1>1
<1>8. ASSUME NEW i \in Threads
      PROVE  q.blockCount[i] = Cardinality(WaitsFor(q, i)) + n[i]
  <2>1. s.blockCount[i] = Cardinality(WaitsFor(s, i)) + n[i]
    BY DEF Accounted
  <2>2. CASE i \in U
    <3>1. Cardinality(WaitsFor(q, i)) = Cardinality(WaitsFor(s, i)) - 1
        BY <1>6, <2>2, WaitsForFinite, FS_RemoveElement
    <3>2. QED
        BY <2>1, <2>2, <3>1, <1>4, <1>7, WaitsForFinite
  <2>3. CASE i \notin U
    BY <1>6, <2>1, <2>3, <1>7
  <2>4. QED
    BY <2>2, <2>3
<1>9. ASSUME NEW i \in Threads, i \in U
      PROVE  s.blockCount[i] > 0 /\ s.state[i] # "finished"
  <2>1. Cardinality(WaitsFor(s, i)) > 0
    BY <1>6, <1>9, WaitsForFinite
  <2>2. s.blockCount[i] = Cardinality(WaitsFor(s, i)) + n[i]
    BY DEF Accounted
  <2>3. s.state[i] # "finished"
    BY <1>9, <1>4 DEF Accounted, Consistent
  <2>4. QED
    BY <2>1, <2>2, <2>3, <1>4, WaitsForFinite
<1>10. \A i \in Threads : q.state[i] = "finished" <=> s.state[i] = "finished"
    BY <1>9, <1>7
<1>11. \A i \in Threads : s.state[i] = "running" <=> s.blockCount[i] = 0
    BY DEF Accounted, Consistent
<1>12. Running(s) \subseteq Running(q)
    BY <1>9, <1>11, <1>7 DEF Running
<1>13. \A i \in Threads : q.state[i] = "running" <=> q.blockCount[i] = 0
    BY <1>4, <1>9, <1>11, <1>7
<1>14. Consistent(q)
  <2>1. \A i \in Threads : s.priority[i][i] = 0
    BY DEF Accounted, Consistent
  <2>2. \A i, y \in Threads : s.state[i] = "finished" =>
            s.priority[i][y] = 0 /\ s.priority[y][i] = 0
    BY DEF Accounted, Consistent
  <2>3. \A y, i \in Threads : s.priority[y][i] = 0 => q.priority[y][i] = 0
    BY <1>4
  <2>4. QED
    BY <1>10, <1>13, <2>1, <2>2, <2>3 DEF Consistent
<1>15. Accounted(q, n)
    BY <1>8, <1>14 DEF Accounted
<1>16. Settles(s, q, n)
    BY <1>1, <1>6, <1>10, <1>15 DEF Settles
<1>17. QED
    BY <1>1, <1>12, <1>16 DEF Keeps, q

LEMMA OnThreadBlockSettles ==
    ASSUME NEW s \in TableSet, NEW n \in Numbers, NEW t \in Threads, Accounted(s, n)
    PROVE  /\ Settles(s, OnThreadBlock(s, t), n)
           /\ Keeps(s, OnThreadBlock(s, t))
           /\ \A i \in Threads : OnThreadBlock(s, t).priority[t][i] = 0
<1> DEFINE row == [i \in Threads |-> 0]
           s0 == [s EXCEPT !.priority[t] = row]
           U == {i \in Threads : s.priority[t][i] > 0}
<1>1. row \in [Threads -> 0 .. MaxYield]
    BY MaxYieldNat
<1>2. s.priority \in [Threads -> [Threads -> 0 .. MaxYield]]
    BY DEF TableSet
<1>3. \A i \in Threads : s.priority[t][i] \in Nat /\ row[i] <= s.priority[t][i]
    BY <1>2, MaxYieldNat
<1>4. OnThreadBlock(s, t) = UnblockAll(s0, U)
    BY DEF OnThreadBlock
<1>5. \A i \in Threads : row[i] = 0
    OBVIOUS
<1> HIDE DEF row
<1>6. /\ s0 \in TableSet
      /\ s0.priority = [s.priority EXCEPT ![t] = row]
      /\ s0.blockCount = s.blockCount /\ s0.state = s.state
      /\ s0.timed = s.timed /\ s0.spurious = s.spurious
    BY <1>1 DEF TableSet
<1> HIDE DEF s0
<1>7. U \in SUBSET Threads /\ \A i \in Threads : i \in U <=> s.priority[t][i] > 0 /\ row[i] = 0
    BY <1>5
<1> HIDE DEF U
<1>8. /\ Settles(s, UnblockAll(s0, U), n)
      /\ Keeps(s, UnblockAll(s0, U))
      /\ UnblockAll(s0, U).priority = s0.priority
    BY <1>1, <1>3, <1>6, <1>7, RowPaid
<1>9. QED
    BY <1>2, <1>4, <1>5, <1>6, <1>8

LEMMA CountStepSettles ==
    ASSUME NEW s \in TableSet, NEW n \in Numbers, NEW t \in Threads, Accounted(s, n)
    PROVE  Settles(s, CountStep(s, t), n) /\ Keeps(s, CountStep(s, t))
<1> DEFINE row == [i \in Threads |-> IF s.priority[t][i] > 0 THEN s.priority[t][i] - 1 ELSE 0]
           counts == [i \in Threads |-> IF s.schedCount[t][i] < MaxYield
                                        THEN s.schedCount[t][i] + 1 ELSE s.schedCount[t][i]]
           s0 == [s EXCEPT !.priority[t] = row, !.schedCount[t] = counts]
           U == {i \in Threads : s.priority[t][i] = 1}
<1>1. /\ s.priority \in [Threads -> [Threads -> 0 .. MaxYield]]
      /\ s.schedCount \in [Threads -> [Threads -> 0 .. MaxYield]]
    BY DEF TableSet
<1>2. row \in [Threads -> 0 .. MaxYield] /\ counts \in [Threads -> 0 .. MaxYield]
    BY <1>1, MaxYieldNat
<1>3. \A i \in Threads : /\ s.priority[t][i] \in Nat /\ row[i] <= s.priority[t][i]
                         /\ i \in U <=> s.priority[t][i] > 0 /\ row[i] = 0
    BY <1>1, MaxYieldNat
<1>4. CountStep(s, t) = s \/ CountStep(s, t) = UnblockAll(s0, U)
    BY <1>1 DEF CountStep, TableSet
<1> HIDE DEF row, counts
<1>5. /\ s0 \in TableSet
      /\ s0.priority = [s.priority EXCEPT ![t] = row]
      /\ s0.blockCount = s.blockCount /\ s0.state = s.state
      /\ s0.timed = s.timed /\ s0.spurious = s.spurious
    BY <1>2 DEF TableSet
<1>6. U \in SUBSET Threads
    OBVIOUS
<1> HIDE DEF s0, U
<1>7. Settles(s, UnblockAll(s0, U), n) /\ Keeps(s, UnblockAll(s0, U))
    BY <1>2, <1>3, <1>5, <1>6, RowPaid
<1>8. Settles(s, s, n) /\ Keeps(s, s)
    BY DEF Settles, Keeps
<1>9. QED
    BY <1>4, <1>7, <1>8

(* No debts are left: whoever is blocked is blocked for another reason.    *)
LEMMA PurgeSettles ==
    ASSUME NEW s \in TableSet, NEW n \in Numbers, Accounted(s, n)
    PROVE  /\ Settles(s, Purge(s), n) /\ Keeps(s, Purge(s))
           /\ \A i \in Threads : Purge(s).state[i] = "running" <=> n[i] = 0
           /\ \A i \in Threads : WaitsFor(Purge(s), i) = {}
<1> DEFINE none == [y \in Threads |-> [i \in Threads |-> 0]]
           bc == [i \in Threads |-> s.blockCount[i] - Cardinality(WaitsFor(s, i))]
           st == [i \in Threads |->
                    IF WaitsFor(s, i) # {} /\ s.blockCount[i] = Cardinality(WaitsFor(s, i))
                    THEN "running" ELSE s.state[i]]
           r == Purge(s)
<1>1. /\ s.blockCount \in [Threads -> Int] /\ s.state \in [Threads -> States]
      /\ \A i \in Threads : n[i] \in Nat
      /\ \A i \in Threads : s.blockCount[i] = Cardinality(WaitsFor(s, i)) + n[i]
      /\ \A i \in Threads : s.state[i] = "running" <=> s.blockCount[i] = 0
    BY DEF TableSet, Numbers, Accounted, Consistent
<1>2. /\ none \in [Threads -> [Threads -> 0 .. MaxYield]]
      /\ bc \in [Threads -> Int] /\ st \in [Threads -> States]
    BY <1>1, MaxYieldNat, WaitsForFinite DEF States
<1>3. \A i \in Threads : bc[i] = n[i]
    BY <1>1, WaitsForFinite
<1>4. \A i \in Threads : st[i] = "running" <=> n[i] = 0
    BY <1>1, WaitsForFinite
<1>5. \A i \in Threads : s.state[i] = "finished" => WaitsFor(s, i) = {}
    BY DEF Accounted, Consistent, WaitsFor
<1>6. \A i \in Threads : st[i] = "finished" <=> s.state[i] = "finished"
    BY <1>1, <1>5, WaitsForFinite
<1>7. \A i \in Threads : s.state[i] = "running" => st[i] = "running"
    OBVIOUS
<1>8. \A y, i \in Threads : none[y][i] = 0
    OBVIOUS
<1>9. r = [s EXCEPT !.priority = none, !.blockCount = bc, !.state = st]
    BY DEF Purge, TableSet
<1> HIDE DEF none, bc, st, r
<1>10. /\ r \in TableSet
       /\ r.priority = none /\ r.blockCount = bc /\ r.state = st
       /\ r.timed = s.timed /\ r.spurious = s.spurious
    BY <1>2, <1>9 DEF TableSet
<1>11. \A i \in Threads : WaitsFor(r, i) = {}
    BY <1>8, <1>10 DEF WaitsFor
<1>12. Consistent(r)
    BY <1>3, <1>4, <1>8, <1>10 DEF Consistent
<1>13. Accounted(r, n)
  <2>1. ASSUME NEW i \in Threads
        PROVE  r.blockCount[i] = Cardinality(WaitsFor(r, i)) + n[i]
    <3>1. Cardinality(WaitsFor(r, i)) = 0
        BY <1>11, FS_EmptySet
    <3>2. r.blockCount[i] = n[i] /\ n[i] \in Nat
        BY <1>1, <1>3, <1>10
    <3>3. QED
        BY <3>1, <3>2
  <2>2. QED
    BY <1>12, <2>1 DEF Accounted
<1>14. Settles(s, r, n)
    BY <1>6, <1>10, <1>11, <1>13 DEF Settles
<1>15. Keeps(s, r)
    BY <1>7, <1>10 DEF Keeps, Running
<1>16. QED
    BY <1>4, <1>10, <1>11, <1>14, <1>15 DEF r

(* block_thread of t for k reasons that the accounts have already: t runs, *)
(* or something else blocks it.                                            *)
LEMMA BlockThreadAccounts ==
    ASSUME NEW s \in TableSet, NEW n \in Numbers, NEW t \in Threads, NEW k \in Nat,
           Consistent(s), s.state[t] # "finished", s.blockCount[t] \in Nat,
           \A i \in Threads \ {t} : s.blockCount[i] = Cardinality(WaitsFor(s, i)) + n[i],
           s.blockCount[t] + k = Cardinality(WaitsFor(s, t)) + n[t]
    PROVE  /\ Settles(s, BlockThread(s, t, k), n)
           /\ Running(s) \subseteq Running(BlockThread(s, t, k)) \cup {t}
           /\ s.blockCount[t] > 0 => Keeps(s, BlockThread(s, t, k))
           /\ s.blockCount[t] = 0 /\ k > 0 =>
                 \A i \in Threads : BlockThread(s, t, k).priority[t][i] = 0
<1> DEFINE bc == [s.blockCount EXCEPT ![t] = @ + k]
           counted == [s EXCEPT !.blockCount[t] = @ + k]
           s0 == [counted EXCEPT !.state[t] = "blocked"]
<1>1. /\ s.blockCount \in [Threads -> Int] /\ s.state \in [Threads -> States]
      /\ \A i \in Threads : s.state[i] = "running" <=> s.blockCount[i] = 0
    BY DEF TableSet, Consistent
<1>2. /\ counted \in TableSet
      /\ counted.blockCount = bc /\ counted.state = s.state
      /\ counted.priority = s.priority
      /\ counted.timed = s.timed /\ counted.spurious = s.spurious
  <2>1. bc \in [Threads -> Int]
    BY <1>1
  <2>2. counted = [s EXCEPT !.blockCount = bc]
    BY DEF TableSet
  <2> HIDE DEF bc, counted
  <2>3. QED
    BY <2>1, <2>2 DEF TableSet
<1>3. \A i \in Threads : bc[i] = IF i = t THEN s.blockCount[t] + k ELSE s.blockCount[i]
    BY <1>1
<1> HIDE DEF counted, bc
<1>4. /\ s0 \in TableSet
      /\ s0.blockCount = bc /\ s0.state = [s.state EXCEPT ![t] = "blocked"]
      /\ s0.priority = s.priority
      /\ s0.timed = s.timed /\ s0.spurious = s.spurious
    BY <1>2 DEF TableSet, States
<1> HIDE DEF s0
<1>5. \A i \in Threads : WaitsFor(counted, i) = WaitsFor(s, i) /\ WaitsFor(s0, i) = WaitsFor(s, i)
    BY <1>2, <1>4 DEF WaitsFor
<1>6. \A i \in Threads : bc[i] = Cardinality(WaitsFor(s, i)) + n[i]
    BY <1>3
<1>7. CASE k = 0 \/ s.blockCount[t] > 0
  <2>1. BlockThread(s, t, k) = counted
    BY <1>7 DEF BlockThread, counted
  <2>2. \A i \in Threads : s.state[i] = "running" <=> bc[i] = 0
    BY <1>1, <1>3, <1>7
  <2>3. Consistent(counted)
    BY <1>2, <2>2 DEF Consistent
  <2>4. Accounted(counted, n)
    BY <1>2, <1>5, <1>6, <2>3 DEF Accounted
  <2>5. Settles(s, counted, n)
    BY <1>2, <1>5, <2>4 DEF Settles
  <2>6. Keeps(s, counted)
    BY <1>2 DEF Keeps, Running
  <2>7. QED
    BY <1>7, <2>1, <2>5, <2>6 DEF Keeps
<1>8. CASE k # 0 /\ s.blockCount[t] = 0
  <2>1. BlockThread(s, t, k) = OnThreadBlock(s0, t)
    BY <1>8 DEF BlockThread, s0, counted
  <2>2. \A i \in Threads : s0.state[i] = "running" <=> bc[i] = 0
    BY <1>1, <1>3, <1>4, <1>8
  <2>3. \A i \in Threads : s0.state[i] = "finished" <=> s.state[i] = "finished"
    BY <1>1, <1>4
  <2>4. Consistent(s0)
    BY <1>4, <2>2, <2>3 DEF Consistent
  <2>5. Accounted(s0, n)
    BY <1>4, <1>5, <1>6, <2>4 DEF Accounted
  <2>6. /\ Settles(s0, OnThreadBlock(s0, t), n) /\ Keeps(s0, OnThreadBlock(s0, t))
        /\ \A i \in Threads : OnThreadBlock(s0, t).priority[t][i] = 0
    BY <1>4, <2>5, OnThreadBlockSettles
  <2>7. Settles(s, OnThreadBlock(s0, t), n)
    BY <1>4, <1>5, <2>3, <2>6 DEF Settles
  <2>8. Running(s) \subseteq Running(s0) \cup {t}
    BY <1>1, <1>4 DEF Running
  <2>9. QED
    BY <1>8, <2>1, <2>6, <2>7, <2>8 DEF Keeps
<1>9. QED
    BY <1>7, <1>8

(* yield_priority of a thread that waits for nobody: it owes its steps, and *)
(* somebody runs if somebody ran.                                           *)
LEMMA YieldAccounts ==
    ASSUME NEW s \in TableSet, NEW n \in Numbers, NEW t \in Threads, NEW k \in 1 .. MaxYield,
           Accounted(s, n), WaitsFor(s, t) = {}, s.state[t] # "finished"
    PROVE  /\ YieldPriority(s, t, k) \in TableSet
           /\ Accounted(YieldPriority(s, t, k), n)
           /\ YieldPriority(s, t, k).timed = s.timed
           /\ YieldPriority(s, t, k).spurious = s.spurious
           /\ \A i \in Threads :
                 YieldPriority(s, t, k).state[i] = "finished" <=> s.state[i] = "finished"
           /\ Running(s) # {} => Running(YieldPriority(s, t, k)) # {}
<1> DEFINE behind == {y \in Threads \ {t} : s.schedCount[y][t] < k /\ s.state[y] # "finished"}
           prio == [y \in Threads |-> IF y \in behind THEN [s.priority[y] EXCEPT ![t] = k]
                                      ELSE s.priority[y]]
           counts == [y \in Threads |-> [s.schedCount[y] EXCEPT ![t] = 0]]
           owed == [s EXCEPT !.priority = prio, !.schedCount = counts]
           blocked == BlockThread(owed, t, Cardinality(behind))
           r == YieldPriority(s, t, k)
<1>1. /\ s.priority \in [Threads -> [Threads -> 0 .. MaxYield]]
      /\ s.schedCount \in [Threads -> [Threads -> 0 .. MaxYield]]
      /\ s.blockCount \in [Threads -> Int] /\ s.state \in [Threads -> States]
      /\ \A i \in Threads : n[i] \in Nat
    BY DEF TableSet, Numbers
<1>2. r = IF Running(blocked) = {} THEN Purge(blocked) ELSE blocked
    BY DEF YieldPriority, TableSet
<1>3. behind \subseteq Threads /\ IsFiniteSet(behind) /\ Cardinality(behind) \in Nat
    BY SchedulerAssumption, FS_Subset, FS_CardinalityType
<1>4. t \notin behind /\ \A y \in behind : s.state[y] # "finished"
    OBVIOUS
<1> HIDE DEF behind
<1>5. /\ prio \in [Threads -> [Threads -> 0 .. MaxYield]]
      /\ counts \in [Threads -> [Threads -> 0 .. MaxYield]]
    BY <1>1, MaxYieldNat
<1>6. \A y, i \in Threads : prio[y][i] = IF y \in behind /\ i = t THEN k ELSE s.priority[y][i]
    BY <1>1
<1> HIDE DEF prio, counts
<1>7. /\ owed \in TableSet
      /\ owed.priority = prio /\ owed.blockCount = s.blockCount /\ owed.state = s.state
      /\ owed.timed = s.timed /\ owed.spurious = s.spurious
    BY <1>5 DEF TableSet
<1> HIDE DEF owed
<1>8. WaitsFor(owed, t) = behind
    BY <1>3, <1>6, <1>7, MaxYieldNat DEF WaitsFor
<1>9. \A i \in Threads \ {t} : WaitsFor(owed, i) = WaitsFor(s, i)
    BY <1>6, <1>7 DEF WaitsFor
<1>10. Consistent(owed)
  <2>1. /\ \A i \in Threads : s.state[i] = "running" <=> s.blockCount[i] = 0
        /\ \A i \in Threads : s.priority[i][i] = 0
        /\ \A i, y \in Threads : s.state[i] = "finished" =>
              s.priority[i][y] = 0 /\ s.priority[y][i] = 0
    BY DEF Accounted, Consistent
  <2>2. \A i \in Threads : prio[i][i] = 0
    BY <1>4, <1>6, <2>1
  <2>3. \A i, y \in Threads : s.state[i] = "finished" => prio[i][y] = 0 /\ prio[y][i] = 0
    BY <1>4, <1>6, <2>1
  <2>4. QED
    BY <1>7, <2>1, <2>2, <2>3 DEF Consistent
<1>11. s.blockCount[t] = n[t]
  <2>1. s.blockCount[t] = Cardinality(WaitsFor(s, t)) + n[t]
    BY DEF Accounted
  <2>2. Cardinality(WaitsFor(s, t)) = 0
    BY FS_EmptySet
  <2>3. QED
    BY <1>1, <2>1, <2>2
<1>12. \A i \in Threads \ {t} :
            owed.blockCount[i] = Cardinality(WaitsFor(owed, i)) + n[i]
    BY <1>7, <1>9 DEF Accounted
<1>13. owed.blockCount[t] + Cardinality(behind) = Cardinality(WaitsFor(owed, t)) + n[t]
    BY <1>1, <1>3, <1>7, <1>8, <1>11
<1>14. /\ Settles(owed, blocked, n)
       /\ Running(owed) \subseteq Running(blocked) \cup {t}
       /\ owed.blockCount[t] > 0 => Keeps(owed, blocked)
    BY <1>1, <1>3, <1>7, <1>10, <1>11, <1>12, <1>13, BlockThreadAccounts
<1>15. Running(owed) = Running(s)
    BY <1>7 DEF Running
<1> HIDE DEF blocked, r
<1>16. CASE Running(blocked) # {}
    BY <1>2, <1>7, <1>14, <1>16 DEF Settles, r
<1>17. CASE Running(blocked) = {}
  <2>1. r = Purge(blocked)
    BY <1>2, <1>17
  <2>2. /\ Settles(blocked, r, n)
        /\ \A i \in Threads : r.state[i] = "running" <=> n[i] = 0
    BY <1>14, <2>1, PurgeSettles DEF Settles
  <2>3. Running(s) # {} => n[t] = 0
    BY <1>1, <1>7, <1>11, <1>14, <1>15, <1>17 DEF Keeps
  <2>4. Running(s) # {} => t \in Running(r)
    BY <2>2, <2>3 DEF Running
  <2>5. QED
    BY <1>7, <1>14, <2>2, <2>4 DEF Settles, r
<1>18. QED
    BY <1>16, <1>17

(* unblock_thread, for a reason other than a yield.                        *)
LEMMA UnblockAccounts ==
    ASSUME NEW s \in TableSet, NEW n \in Numbers, NEW m \in Numbers,
           NEW U \in SUBSET Threads, Accounted(s, n),
           \A i \in Threads : n[i] = IF i \in U THEN m[i] + 1 ELSE m[i],
           \A i \in U : s.state[i] # "finished"
    PROVE  /\ Settles(s, UnblockAll(s, U), m) /\ Keeps(s, UnblockAll(s, U))
           /\ \A i \in U : s.blockCount[i] = 1 => UnblockAll(s, U).state[i] = "running"
<1> DEFINE r == UnblockAll(s, U)
<1>1. /\ r \in TableSet /\ r.priority = s.priority
      /\ r.timed = s.timed /\ r.spurious = s.spurious
      /\ \A i \in Threads :
            /\ r.blockCount[i] = IF i \in U THEN s.blockCount[i] - 1 ELSE s.blockCount[i]
            /\ r.state[i] = IF i \in U /\ s.blockCount[i] = 1 THEN "running" ELSE s.state[i]
    BY UnblockAllType
<1> HIDE DEF r
<1>2. /\ \A i \in Threads : s.blockCount[i] \in Int /\ n[i] \in Nat /\ m[i] \in Nat
      /\ \A i \in Threads : s.blockCount[i] = Cardinality(WaitsFor(s, i)) + n[i]
      /\ \A i \in Threads : s.state[i] = "running" <=> s.blockCount[i] = 0
    BY DEF TableSet, Numbers, Accounted, Consistent
<1>3. \A i \in Threads : WaitsFor(r, i) = WaitsFor(s, i)
    BY <1>1 DEF WaitsFor
<1>4. \A i \in Threads : i \in U => s.blockCount[i] > 0
    BY <1>2, WaitsForFinite
<1>5. \A i \in Threads : r.blockCount[i] = Cardinality(WaitsFor(r, i)) + m[i]
    BY <1>1, <1>2, <1>3, WaitsForFinite
<1>6. \A i \in Threads : r.state[i] = "running" <=> r.blockCount[i] = 0
    BY <1>1, <1>2, <1>4
<1>7. \A i \in Threads : r.state[i] = "finished" <=> s.state[i] = "finished"
    BY <1>1
<1>8. Consistent(r)
    BY <1>1, <1>6, <1>7 DEF Accounted, Consistent
<1>9. Accounted(r, m)
    BY <1>5, <1>8 DEF Accounted
<1>10. Settles(s, r, m)
    BY <1>1, <1>3, <1>7, <1>9 DEF Settles
<1>11. Keeps(s, r)
    BY <1>1 DEF Keeps, Running
<1>12. QED
    BY <1>1, <1>10, <1>11 DEF r

-----------------------------------------------------------------------------
(* The reasons other than yields: not created, parked, finished.           *)
Reasons(s, wt, dyn) ==
    [t \in Threads |-> Count(t \in wt) + Count(t \in dyn) + Count(s.state[t] = "finished")]

(* The tables are in order, when the threads of wt are parked and those of *)
(* dyn were not created.                                                   *)
Ordered(s, wt, dyn) ==
    /\ s \in TableSet /\ wt \subseteq Threads /\ dyn \subseteq DynamicThreads
    /\ s.timed \cup s.spurious \subseteq wt /\ wt \cap dyn = {}
    /\ \A t \in wt \cup dyn : s.state[t] # "finished"
    /\ Accounted(s, Reasons(s, wt, dyn))

NoDebts(s) == \A t \in Threads : WaitsFor(s, t) = {}

LEMMA ReasonsType ==
    ASSUME NEW s, NEW wt, NEW dyn
    PROVE  Reasons(s, wt, dyn) \in Numbers
BY DEF Reasons, Numbers, Count

(* What settles, keeps the order. *)
LEMMA SettledOrdered ==
    ASSUME NEW s, NEW wt, NEW dyn, Ordered(s, wt, dyn), NEW r \in TableSet,
           Accounted(r, Reasons(s, wt, dyn)),
           r.timed = s.timed, r.spurious = s.spurious,
           \A t \in Threads : r.state[t] = "finished" <=> s.state[t] = "finished"
    PROVE  Ordered(r, wt, dyn)
<1>1. Reasons(r, wt, dyn) = Reasons(s, wt, dyn)
    BY DEF Reasons, Count
<1>2. \A t \in wt \cup dyn : r.state[t] # "finished"
    BY SchedulerAssumption DEF Ordered
<1>3. QED
    BY <1>1, <1>2 DEF Ordered

LEMMA AfterYieldOrdered ==
    ASSUME NEW s, NEW wt, NEW dyn, Ordered(s, wt, dyn), NEW t \in Threads,
           NEW k \in 0 .. MaxYield,
           k > 0 => WaitsFor(s, t) = {} /\ s.state[t] # "finished",
           policy = "random" => NoDebts(s)
    PROVE  /\ Ordered(AfterYield(s, t, k), wt, dyn)
           /\ AfterYield(s, t, k).timed = s.timed
           /\ Running(s) # {} => Running(AfterYield(s, t, k)) # {}
           /\ policy = "random" => NoDebts(AfterYield(s, t, k))
<1> DEFINE n == Reasons(s, wt, dyn)
           c == CountStep(s, t)
           y == YieldPriority(c, t, k)
<1>1. s \in TableSet /\ n \in Numbers /\ Accounted(s, n)
    BY ReasonsType DEF Ordered
<1> HIDE DEF n
<1>2. Settles(s, c, n) /\ Keeps(s, c)
    BY <1>1, CountStepSettles
<1>3. Ordered(c, wt, dyn) /\ c.timed = s.timed /\ Accounted(c, n) /\ c \in TableSet
    BY <1>2, SettledOrdered DEF Settles, n
<1>4. Running(s) # {} => Running(c) # {}
    BY <1>2 DEF Keeps
<1>5. CASE policy = "random"
    BY <1>5 DEF AfterYield
<1>6. CASE policy # "random" /\ k = 0
    BY <1>3, <1>4, <1>6 DEF AfterYield
<1>7. CASE policy # "random" /\ k # 0
  <2>1. AfterYield(s, t, k) = y
    BY <1>7 DEF AfterYield
  <2>2. k \in 1 .. MaxYield /\ WaitsFor(c, t) = {} /\ c.state[t] # "finished"
    BY <1>2, <1>7, MaxYieldNat DEF Settles
  <2> HIDE DEF c, y
  <2>3. /\ y \in TableSet /\ Accounted(y, n)
        /\ y.timed = c.timed /\ y.spurious = c.spurious
        /\ \A i \in Threads : y.state[i] = "finished" <=> c.state[i] = "finished"
        /\ Running(c) # {} => Running(y) # {}
    BY <1>1, <1>3, <2>2, YieldAccounts DEF y
  <2>4. Ordered(y, wt, dyn)
    BY <1>2, <2>3, SettledOrdered DEF Settles, n
  <2>5. QED
    BY <1>3, <1>4, <1>7, <2>1, <2>3, <2>4
<1>8. QED
    BY <1>5, <1>6, <1>7

(* is_deadlock *)
LEMMA PurgedOrdered ==
    ASSUME NEW s, NEW wt, NEW dyn, Ordered(s, wt, dyn)
    PROVE  /\ Ordered(Purged(s), wt, dyn)
           /\ Purged(s).timed = s.timed
           /\ \A t \in Threads : /\ Purged(s).state[t] = "finished" <=> s.state[t] = "finished"
                                 /\ WaitsFor(Purged(s), t) \subseteq WaitsFor(s, t)
           /\ ~ IsDeadlock(s) => Running(Purged(s)) # {} \/ s.timed # {}
           /\ IsDeadlock(s) =>
                 /\ s.timed = {} /\ NoDebts(Purged(s))
                 /\ \A t \in Threads : t \in wt \cup dyn \/ s.state[t] = "finished"
<1> DEFINE n == Reasons(s, wt, dyn)
           p == Purge(s)
<1>1. s \in TableSet /\ n \in Numbers /\ Accounted(s, n)
    BY ReasonsType DEF Ordered
<1>2. /\ Settles(s, p, n)
      /\ \A i \in Threads : p.state[i] = "running" <=> n[i] = 0
      /\ \A i \in Threads : WaitsFor(p, i) = {}
    BY <1>1, PurgeSettles
<1> HIDE DEF p
<1>3. Ordered(p, wt, dyn) /\ p.timed = s.timed
    BY <1>2, SettledOrdered DEF Settles
<1>4. CASE ~ NoneReady(s)
    BY <1>4 DEF Purged, IsDeadlock, NoneReady
<1>5. CASE NoneReady(s)
  <2>1. Purged(s) = p /\ s.timed = {}
    BY <1>5 DEF Purged, NoneReady, p
  <2>2. IsDeadlock(s) <=> Running(p) = {}
    BY <1>3, <2>1 DEF IsDeadlock, NoneReady
  <2>3. Running(p) = {} => \A t \in Threads : t \in wt \cup dyn \/ s.state[t] = "finished"
    BY <1>2 DEF Running, Reasons, Count
  <2>4. QED
    BY <1>2, <1>3, <2>1, <2>2, <2>3 DEF Settles, NoDebts
<1>6. QED
    BY <1>4, <1>5

LEMMA UnparkOrdered ==
    ASSUME NEW s, NEW wt, NEW dyn, Ordered(s, wt, dyn), NEW u \in wt
    PROVE  /\ Ordered(UnparkThread(s, u), wt \ {u}, dyn)
           /\ Keeps(s, UnparkThread(s, u))
           /\ \A t \in Threads : WaitsFor(UnparkThread(s, u), t) \subseteq WaitsFor(s, t)
           /\ s.blockCount[u] = 1 => u \in Running(UnparkThread(s, u))
           /\ \A t \in Threads \ {u} : UnparkThread(s, u).state[t] = s.state[t]
<1> DEFINE n == Reasons(s, wt, dyn)
           m == Reasons(s, wt \ {u}, dyn)
           q == UnblockAll(s, {u})
           r == UnparkThread(s, u)
<1>1. s \in TableSet /\ n \in Numbers /\ m \in Numbers /\ Accounted(s, n) /\ u \in Threads
    BY ReasonsType DEF Ordered
<1>2. \A i \in Threads : n[i] = IF i \in {u} THEN m[i] + 1 ELSE m[i]
    BY DEF Reasons, Count
<1>3. \A i \in {u} : s.state[i] # "finished"
    BY DEF Ordered
<1> HIDE DEF n, m
<1>4. /\ Settles(s, q, m) /\ Keeps(s, q)
      /\ \A i \in {u} : s.blockCount[i] = 1 => q.state[i] = "running"
    BY <1>1, <1>2, <1>3, UnblockAccounts
<1>5. \A t \in Threads \ {u} : q.state[t] = s.state[t]
    BY <1>1, UnblockAllType
<1>6. r = [q EXCEPT !.timed = q.timed \ {u}, !.spurious = q.spurious \ {u}]
    BY <1>4 DEF UnparkThread, Settles, TableSet
<1> HIDE DEF q, r
<1>7. /\ r \in TableSet /\ r.state = q.state /\ r.blockCount = q.blockCount
      /\ r.priority = q.priority
      /\ r.timed = s.timed \ {u} /\ r.spurious = s.spurious \ {u}
    BY <1>4, <1>6 DEF Settles, TableSet
<1>8. \A t \in Threads : WaitsFor(r, t) = WaitsFor(q, t)
    BY <1>7 DEF WaitsFor
<1>9. Accounted(r, m)
    BY <1>4, <1>7, <1>8 DEF Settles, Accounted, Consistent
<1>10. Reasons(r, wt \ {u}, dyn) = m
    BY <1>4, <1>7 DEF Reasons, Count, Settles, m
<1>11. Ordered(r, wt \ {u}, dyn)
  <2>1. \A t \in (wt \ {u}) \cup dyn : r.state[t] # "finished"
    BY <1>4, <1>7, SchedulerAssumption DEF Ordered, Settles
  <2>2. QED
    BY <1>7, <1>9, <1>10, <2>1 DEF Ordered
<1>12. QED
    BY <1>1, <1>4, <1>5, <1>7, <1>8, <1>11 DEF Settles, Keeps, Running, r

LEMMA CreateOrdered ==
    ASSUME NEW s, NEW wt, NEW dyn, Ordered(s, wt, dyn), NEW U \in SUBSET dyn
    PROVE  /\ Ordered(UnblockAll(s, U), wt, dyn \ U)
           /\ Keeps(s, UnblockAll(s, U))
           /\ UnblockAll(s, U).timed = s.timed
           /\ \A t \in Threads : WaitsFor(UnblockAll(s, U), t) \subseteq WaitsFor(s, t)
           /\ NoDebts(s) /\ U # {} => Running(UnblockAll(s, U)) # {}
<1> DEFINE n == Reasons(s, wt, dyn)
           m == Reasons(s, wt, dyn \ U)
           r == UnblockAll(s, U)
<1>1. /\ s \in TableSet /\ n \in Numbers /\ m \in Numbers /\ Accounted(s, n)
      /\ U \in SUBSET Threads /\ dyn \subseteq Threads
    BY ReasonsType, SchedulerAssumption DEF Ordered
<1>2. \A i \in Threads : n[i] = IF i \in U THEN m[i] + 1 ELSE m[i]
    BY DEF Reasons, Count
<1>3. \A i \in U : s.state[i] # "finished"
    BY DEF Ordered
<1>4. \A i \in U : n[i] = 1
    BY <1>1, <1>3 DEF Reasons, Count, Ordered
<1> HIDE DEF n, m
<1>5. /\ Settles(s, r, m) /\ Keeps(s, r)
      /\ \A i \in U : s.blockCount[i] = 1 => r.state[i] = "running"
    BY <1>1, <1>2, <1>3, UnblockAccounts
<1> HIDE DEF r
<1>6. Reasons(r, wt, dyn \ U) = m
    BY <1>5 DEF Reasons, Count, Settles, m
<1>7. \A t \in wt \cup (dyn \ U) : r.state[t] # "finished"
    BY <1>1, <1>5 DEF Ordered, Settles
<1>8. Ordered(r, wt, dyn \ U)
    BY <1>5, <1>6, <1>7 DEF Ordered, Settles
<1>9. ASSUME NoDebts(s), NEW i \in U
      PROVE  i \in Running(r)
  <2>1. s.blockCount[i] = Cardinality(WaitsFor(s, i)) + n[i]
    BY <1>1 DEF Accounted
  <2>2. Cardinality(WaitsFor(s, i)) = 0
    BY <1>1, <1>9, FS_EmptySet DEF NoDebts
  <2>3. s.blockCount[i] = 1
    BY <1>4, <2>1, <2>2
  <2>4. QED
    BY <1>1, <1>5, <2>3 DEF Running
<1>10. QED
    BY <1>5, <1>8, <1>9 DEF Settles, r

-----------------------------------------------------------------------------
(* The inductive invariant. *)
SchedInv ==
    /\ Ordered(Tables, waiting, dynamic)
    /\ policy = "random" => NoDebts(Tables)
    /\ thread \in Threads /\ policy \in Policies /\ switches \in Nat
    /\ verdict \in {"none", "last", "deadlock", "verify_failed"}
    /\ CurrentRuns /\ DeadlockIsReal /\ StallOnlyTimed

(* The step of PreemptionsPaid. *)
Paid ==
    thread' # thread /\ state'[thread] = "running" /\ Bounded
        => switches # 0 /\ switches' = switches - 1

LEMMA TablesSet ==
    ASSUME NEW s \in TableSet, SetTables(s)
    PROVE  Tables' = s
BY DEF SetTables, Tables, TableSet

(* A thread goes on that is ready to. *)
LEMMA SwitchStep ==
    ASSUME SchedInv, Live, NEW r, NEW u, SwitchTo(r, u), Ordered(r, waiting', dynamic'),
           u \in Running(r), policy = "random" => NoDebts(r),
           u # thread /\ r.state[thread] = "running" /\ Bounded => switches # 0
    PROVE  SchedInv' /\ Paid
<1>1. Tables' = r
    BY TablesSet DEF SwitchTo, Ordered
<1>2. state' = r.state
    BY DEF SwitchTo, SetTables
<1>3. switches' \in Nat
    BY DEF SwitchTo, SchedInv
<1>4. verdict' = "none" /\ thread' = u /\ policy' = policy
    BY DEF SwitchTo, Live
<1>5. CurrentRuns' /\ u \in Threads
    BY <1>2, <1>4 DEF CurrentRuns, Live, Running
<1>6. NoDebts(Tables)' <=> NoDebts(r)
    BY <1>1 DEF NoDebts
<1>7. Ordered(Tables, waiting, dynamic)'
    BY <1>1
<1>8. DeadlockIsReal' /\ StallOnlyTimed'
    BY <1>4 DEF DeadlockIsReal, StallOnlyTimed
<1>9. Paid
    BY <1>2, <1>4 DEF SwitchTo, Paid
<1>10. QED
    BY <1>3, <1>4, <1>5, <1>6, <1>7, <1>8, <1>9 DEF SchedInv

LEMMA FailStep ==
    ASSUME SchedInv, NEW s, AssertionFails(s), Ordered(s, waiting', dynamic'),
           s.timed # {}, policy # "random"
    PROVE  SchedInv' /\ Paid
<1>1. Tables' = s
    BY TablesSet DEF AssertionFails, Ordered
<1>2. timed' = s.timed
    BY DEF AssertionFails, SetTables
<1>3. /\ verdict' = "verify_failed" /\ policy' = policy
      /\ thread' = thread /\ switches' = switches
    BY DEF AssertionFails
<1>4. Ordered(Tables, waiting, dynamic)'
    BY <1>1
<1>5. QED
    BY <1>2, <1>3, <1>4 DEF SchedInv, CurrentRuns, Live, DeadlockIsReal, StallOnlyTimed, Paid

LEMMA ScheduleStep ==
    ASSUME SchedInv, Live, NEW s, NEW wt, Ordered(s, wt, dynamic'),
           Running(s) # {} \/ s.timed # {},
           policy = "random" => NoDebts(s),
           Schedule(s, wt)
    PROVE  SchedInv' /\ Paid
<1>1. ASSUME NEW u \in wt
      PROVE  /\ Ordered(UnparkThread(s, u), wt \ {u}, dynamic')
             /\ s.blockCount[u] = 1 => u \in Running(UnparkThread(s, u))
             /\ \A t \in Threads \ {u} : UnparkThread(s, u).state[t] = s.state[t]
             /\ NoDebts(s) => NoDebts(UnparkThread(s, u))
    BY <1>1, UnparkOrdered DEF NoDebts
<1>2. thread \in Threads
    BY DEF SchedInv
<1>3. CASE policy = "random"
  <2>1. ~ Bounded
    BY <1>3 DEF Bounded
  <2>2. Drawn(s) \subseteq wt
    BY DEF Drawn, Ordered
  <2>3. \A u \in Drawn(s) : s.blockCount[u] = 1
    <3>1. TAKE u \in Drawn(s)
    <3>2. u \in Threads /\ s.blockCount[u] = Cardinality(WaitsFor(s, u)) + Reasons(s, wt, dynamic')[u]
        BY <2>2 DEF Ordered, Accounted
    <3>3. Cardinality(WaitsFor(s, u)) = 0
        BY <1>3, <3>2, FS_EmptySet DEF NoDebts
    <3>4. Reasons(s, wt, dynamic')[u] = 1
        BY <2>2, <3>2 DEF Ordered, Reasons, Count
    <3>5. QED
        BY <3>2, <3>3, <3>4
  <2>4. Drawn(s) \cup Running(s) # {}
    BY DEF Drawn
  <2>5. RandomSchedule(s, wt)
    BY <1>3 DEF Schedule
  <2>6. CASE \E u \in Drawn(s) : SwitchTo(UnparkThread(s, u), u) /\ waiting' = wt \ {u}
    <3>1. PICK u \in Drawn(s) : SwitchTo(UnparkThread(s, u), u) /\ waiting' = wt \ {u}
        BY <2>6
    <3>2. QED
        BY <1>1, <1>3, <2>1, <2>2, <2>3, <3>1, SwitchStep
  <2>7. CASE \E u \in Running(s) : SwitchTo(s, u) /\ waiting' = wt
    BY <1>3, <2>1, <2>7, SwitchStep
  <2>8. QED
    BY <2>3, <2>4, <2>5, <2>6, <2>7 DEF RandomSchedule
<1>4. CASE policy # "random"
  <2>1. CASE ResumeRunning(s) /\ waiting' = wt
    <3>1. PICK u : u \in (IF MayLeave(s) THEN Running(s) ELSE {thread}) /\ SwitchTo(s, u)
        BY <2>1 DEF ResumeRunning
    <3>2. u \in Running(s)
        BY <1>2, <3>1 DEF MayLeave, Running
    <3>3. u # thread /\ s.state[thread] = "running" /\ Bounded => switches # 0
        BY <3>1 DEF MayLeave
    <3>4. QED
        BY <1>4, <2>1, <3>1, <3>2, <3>3, SwitchStep
  <2>2. CASE \E u \in wt : ResumeParked(s, u) /\ waiting' = wt \ {u}
    <3>1. PICK u \in wt : ResumeParked(s, u) /\ waiting' = wt \ {u}
        BY <2>2
    <3>2. u # thread => UnparkThread(s, u).state[thread] = s.state[thread]
        BY <1>1, <1>2
    <3>3. QED
        BY <1>1, <1>4, <3>1, <3>2, SwitchStep DEF ResumeParked, MayLeave
  <2>3. CASE NobodyRuns(s) /\ waiting' = wt
    BY <1>4, <2>3, FailStep DEF NobodyRuns
  <2>4. QED
    BY <1>4, <2>1, <2>2, <2>3 DEF Schedule
<1>5. QED
    BY <1>3, <1>4

-----------------------------------------------------------------------------
(* Nothing blocks the current thread.                                      *)
LEMMA CurrentFree ==
    ASSUME SchedInv, Live
    PROVE  /\ thread \in Threads /\ thread \in Running(Tables)
           /\ blockCount[thread] = 0 /\ WaitsFor(Tables, thread) = {}
           /\ thread \notin waiting \cup dynamic /\ state[thread] = "running"
           /\ Reasons(Tables, waiting, dynamic)[thread] = 0
           /\ Tables \in TableSet
           /\ Accounted(Tables, Reasons(Tables, waiting, dynamic))
<1>1. /\ thread \in Threads /\ state[thread] = "running" /\ Tables \in TableSet
      /\ Accounted(Tables, Reasons(Tables, waiting, dynamic))
    BY DEF SchedInv, CurrentRuns, Ordered
<1>2. Tables.state = state /\ Tables.blockCount = blockCount
    BY DEF Tables
<1>3. /\ blockCount[thread] = 0
      /\ blockCount[thread] = Cardinality(WaitsFor(Tables, thread))
                                + Reasons(Tables, waiting, dynamic)[thread]
    BY <1>1, <1>2 DEF Accounted, Consistent
<1>4. Reasons(Tables, waiting, dynamic)[thread] \in Nat
    BY <1>1, ReasonsType DEF Numbers
<1>5. WaitsFor(Tables, thread) = {} /\ Reasons(Tables, waiting, dynamic)[thread] = 0
    BY <1>1, <1>3, <1>4, WaitsForFinite
<1>6. thread \notin waiting \cup dynamic
    BY <1>1, <1>5 DEF Reasons, Count
<1>7. QED
    BY <1>1, <1>2, <1>3, <1>5, <1>6 DEF Running

LEMMA InitInv == Init => SchedInv
<1> SUFFICES ASSUME Init PROVE SchedInv
    OBVIOUS
<1>1. DynamicThreads \subseteq Threads /\ ContextBound \in Nat
    BY SchedulerAssumption
<1>2. /\ Tables.state = state /\ Tables.blockCount = blockCount
      /\ Tables.priority = priority /\ Tables.timed = {} /\ Tables.spurious = {}
    BY DEF Tables, Init
<1>3. Tables \in TableSet
    BY MaxYieldNat DEF Tables, TableSet, Init, States
<1>4. \A t \in Threads : WaitsFor(Tables, t) = {}
    BY <1>2 DEF Init, WaitsFor
<1>5. ASSUME NEW t \in Threads
      PROVE  Tables.blockCount[t] = Cardinality(WaitsFor(Tables, t))
                                      + Reasons(Tables, waiting, dynamic)[t]
  <2>1. Cardinality(WaitsFor(Tables, t)) = 0
    BY <1>4, FS_EmptySet
  <2>2. Reasons(Tables, waiting, dynamic)[t] = IF t \in DynamicThreads THEN 1 ELSE 0
    BY <1>2 DEF Init, Reasons, Count
  <2>3. QED
    BY <1>2, <2>1, <2>2 DEF Init
<1>6. Consistent(Tables)
    BY <1>2 DEF Init, Consistent
<1>7. Ordered(Tables, waiting, dynamic)
    BY <1>1, <1>2, <1>3, <1>5, <1>6 DEF Ordered, Accounted, Init
<1>8. QED
    BY <1>1, <1>4, <1>7 DEF SchedInv, NoDebts, Init, CurrentRuns, DeadlockIsReal, StallOnlyTimed

LEMMA YieldStep ==
    ASSUME SchedInv, Live, NEW k \in 0 .. MaxYield,
           Schedule(AfterYield(Tables, thread, k), waiting), UNCHANGED dynamic
    PROVE  SchedInv' /\ Paid
<1>1. /\ thread \in Threads /\ WaitsFor(Tables, thread) = {} /\ Running(Tables) # {}
      /\ Tables.state[thread] # "finished"
    BY CurrentFree DEF Tables
<1>2. Ordered(Tables, waiting, dynamic) /\ (policy = "random" => NoDebts(Tables))
    BY DEF SchedInv
<1> DEFINE r == AfterYield(Tables, thread, k)
<1>3. /\ Ordered(r, waiting, dynamic) /\ Running(r) # {}
      /\ policy = "random" => NoDebts(r)
    BY <1>1, <1>2, AfterYieldOrdered
<1> HIDE DEF r
<1>4. Ordered(r, waiting, dynamic') /\ Schedule(r, waiting)
    BY <1>3 DEF r
<1>5. QED
    BY <1>3, <1>4, ScheduleStep

LEMMA UnparkStep ==
    ASSUME SchedInv, NEW u \in Threads, Unpark(u)
    PROVE  SchedInv' /\ Paid
<1> DEFINE r == UnparkThread(Tables, u)
<1>1. /\ Live /\ u \in waiting /\ SetTables(r) /\ waiting' = waiting \ {u}
      /\ UNCHANGED <<dynamic, thread, policy, switches, verdict>>
    BY DEF Unpark
<1>2. Ordered(Tables, waiting, dynamic) /\ (policy = "random" => NoDebts(Tables))
    BY DEF SchedInv
<1>3. /\ Ordered(r, waiting \ {u}, dynamic) /\ Keeps(Tables, r)
      /\ \A t \in Threads : WaitsFor(r, t) \subseteq WaitsFor(Tables, t)
    BY <1>1, <1>2, UnparkOrdered
<1>4. thread \in Running(Tables)
    BY <1>1, CurrentFree
<1> HIDE DEF r
<1>5. Tables' = r /\ state' = r.state
    BY <1>1, <1>3, TablesSet DEF Ordered, SetTables
<1>6. Ordered(Tables, waiting, dynamic)' /\ (policy = "random" => NoDebts(Tables))'
    BY <1>1, <1>2, <1>3, <1>5 DEF NoDebts
<1>7. CurrentRuns'
    BY <1>1, <1>3, <1>4, <1>5 DEF Keeps, Running, CurrentRuns
<1>8. QED
    BY <1>1, <1>6, <1>7 DEF SchedInv, Live, DeadlockIsReal, StallOnlyTimed, Paid

LEMMA CreateStep ==
    ASSUME SchedInv, NEW u \in DynamicThreads, CreateThread(u)
    PROVE  SchedInv' /\ Paid
<1> DEFINE r == UnblockAll(Tables, {u})
<1>1. /\ Live /\ u \in dynamic /\ SetTables(r) /\ dynamic' = dynamic \ {u}
      /\ UNCHANGED <<thread, policy, switches, waiting, verdict>>
    BY DEF CreateThread
<1>2. Ordered(Tables, waiting, dynamic) /\ (policy = "random" => NoDebts(Tables))
    BY DEF SchedInv
<1>3. {u} \in SUBSET dynamic
    BY <1>1
<1>4. /\ Ordered(r, waiting, dynamic \ {u}) /\ Keeps(Tables, r)
      /\ \A t \in Threads : WaitsFor(r, t) \subseteq WaitsFor(Tables, t)
    BY <1>2, <1>3, CreateOrdered
<1>5. thread \in Running(Tables)
    BY <1>1, CurrentFree
<1> HIDE DEF r
<1>6. Tables' = r /\ state' = r.state
    BY <1>1, <1>4, TablesSet DEF Ordered, SetTables
<1>7. Ordered(Tables, waiting, dynamic)' /\ (policy = "random" => NoDebts(Tables))'
    BY <1>1, <1>2, <1>4, <1>6 DEF NoDebts
<1>8. CurrentRuns'
    BY <1>1, <1>4, <1>5, <1>6 DEF Keeps, Running, CurrentRuns
<1>9. QED
    BY <1>1, <1>7, <1>8 DEF SchedInv, Live, DeadlockIsReal, StallOnlyTimed, Paid

(* The iteration ends.                                                     *)
LEMMA EndStep ==
    ASSUME SchedInv, NEW s, NEW v \in {"last", "deadlock"}, End(s, v),
           Ordered(s, waiting', dynamic'), policy = "random" => NoDebts(s),
           v = "deadlock" =>
                /\ waiting' # {} /\ s.timed = {}
                /\ \A t \in Threads : t \in waiting' \cup dynamic' \/ s.state[t] = "finished"
    PROVE  SchedInv' /\ Paid
<1>1. Tables' = s /\ state' = s.state /\ timed' = s.timed
    BY TablesSet DEF End, Ordered, SetTables
<1>2. verdict' = v /\ UNCHANGED <<dynamic, thread, policy, switches>>
    BY DEF End
<1>3. Ordered(Tables, waiting, dynamic)' /\ (policy = "random" => NoDebts(Tables))'
    BY <1>1, <1>2 DEF NoDebts
<1>4. DeadlockIsReal'
    BY <1>1, <1>2 DEF DeadlockIsReal
<1>5. QED
    BY <1>2, <1>3, <1>4 DEF SchedInv, CurrentRuns, Live, StallOnlyTimed, Paid

(* park_current_thread up to the question whether that is a deadlock.      *)
LEMMA ParkOrdered ==
    ASSUME SchedInv, Live, NEW tm, NEW sp,
           tm = timed \/ tm = timed \cup {thread},
           sp = spurious \/ sp = spurious \cup {thread},
           NEW s, s = BlockThread([Tables EXCEPT !.timed = tm, !.spurious = sp], thread, 1)
    PROVE  /\ Ordered(s, waiting \cup {thread}, dynamic)
           /\ WaitsFor(s, thread) = {} /\ s.state[thread] # "finished"
           /\ policy = "random" => NoDebts(s)
<1> DEFINE listed == [Tables EXCEPT !.timed = tm, !.spurious = sp]
           n == Reasons(listed, waiting \cup {thread}, dynamic)
<1>1. /\ thread \in Threads /\ WaitsFor(Tables, thread) = {}
      /\ blockCount[thread] = 0 /\ thread \notin waiting \cup dynamic
      /\ state[thread] = "running" /\ Tables \in TableSet
      /\ Accounted(Tables, Reasons(Tables, waiting, dynamic))
    BY CurrentFree
<1>2. /\ Tables.timed = timed /\ Tables.spurious = spurious /\ Tables.state = state
      /\ Tables.blockCount = blockCount
    BY DEF Tables
<1>3. Ordered(Tables, waiting, dynamic)
    BY DEF SchedInv
<1>4. tm \cup sp \subseteq waiting \cup {thread} /\ tm \subseteq Threads /\ sp \subseteq Threads
    BY <1>1, <1>2, <1>3 DEF Ordered
<1>5. /\ listed \in TableSet /\ listed.timed = tm /\ listed.spurious = sp
      /\ listed.state = state /\ listed.blockCount = blockCount
      /\ listed.priority = Tables.priority
    BY <1>1, <1>2, <1>4 DEF TableSet
<1> HIDE DEF listed
<1>6. \A i \in Threads : WaitsFor(listed, i) = WaitsFor(Tables, i)
    BY <1>5 DEF WaitsFor
<1>7. Consistent(listed)
    BY <1>1, <1>2, <1>5 DEF Accounted, Consistent
<1>8. n \in Numbers
    BY ReasonsType
<1>9. /\ n[thread] = 1
      /\ \A i \in Threads \ {thread} : n[i] = Reasons(Tables, waiting, dynamic)[i]
    BY <1>1, <1>2, <1>5 DEF Reasons, Count
<1> HIDE DEF n
<1>10. \A i \in Threads \ {thread} :
            listed.blockCount[i] = Cardinality(WaitsFor(listed, i)) + n[i]
    BY <1>1, <1>2, <1>5, <1>6, <1>9 DEF Accounted
<1>11. listed.blockCount[thread] + 1 = Cardinality(WaitsFor(listed, thread)) + n[thread]
    BY <1>1, <1>5, <1>6, <1>9, FS_EmptySet
<1>12. Settles(listed, s, n)
  <2>1. s = BlockThread(listed, thread, 1) /\ 1 \in Nat
    BY DEF listed
  <2>2. listed.state[thread] # "finished" /\ listed.blockCount[thread] \in Nat
    BY <1>1, <1>5
  <2>3. QED
    BY <1>1, <1>5, <1>7, <1>8, <1>10, <1>11, <2>1, <2>2, BlockThreadAccounts
<1>13. Reasons(s, waiting \cup {thread}, dynamic) = n
    BY <1>12 DEF Settles, Reasons, Count, n
<1>14. /\ \A t \in (waiting \cup {thread}) \cup dynamic : state[t] # "finished"
       /\ (waiting \cup {thread}) \cap dynamic = {}
       /\ (waiting \cup {thread}) \cup dynamic \subseteq Threads
    BY <1>1, <1>2, <1>3, SchedulerAssumption DEF Ordered
<1>15. Ordered(s, waiting \cup {thread}, dynamic)
    BY <1>3, <1>4, <1>5, <1>12, <1>13, <1>14 DEF Ordered, Settles
<1>16. WaitsFor(s, thread) = {} /\ s.state[thread] # "finished"
    BY <1>1, <1>5, <1>6, <1>12 DEF Settles
<1>17. NoDebts(Tables) => NoDebts(s)
    BY <1>6, <1>12 DEF NoDebts, Settles
<1>18. QED
    BY <1>15, <1>16, <1>17 DEF SchedInv

LEMMA ParkStep ==
    ASSUME SchedInv, NEW isTimed \in BOOLEAN, NEW allowSpurious \in BOOLEAN,
           Park(isTimed, allowSpurious)
    PROVE  SchedInv' /\ Paid
<1> DEFINE tm == IF isTimed THEN timed \cup {thread} ELSE timed
           sp == IF allowSpurious THEN spurious \cup {thread} ELSE spurious
           blocked == BlockThread([Tables EXCEPT !.timed = tm, !.spurious = sp], thread, 1)
           parked == Purged(blocked)
           wt == waiting \cup {thread}
           r == AfterYield(parked, thread, 1)
<1>1. [Tables EXCEPT !.timed = tm, !.spurious = sp] =
          [Tables EXCEPT !.timed = IF isTimed THEN @ \cup {thread} ELSE @,
                         !.spurious = IF allowSpurious THEN @ \cup {thread} ELSE @]
    BY DEF Tables
<1>2. /\ Live
      /\ \/ IsDeadlock(blocked) /\ End(parked, "deadlock") /\ waiting' = wt
         \/ ~ IsDeadlock(blocked) /\ Schedule(r, wt) /\ UNCHANGED dynamic
    BY <1>1 DEF Park
<1>3. /\ Ordered(blocked, wt, dynamic)
      /\ WaitsFor(blocked, thread) = {} /\ blocked.state[thread] # "finished"
      /\ policy = "random" => NoDebts(blocked)
    BY <1>2, ParkOrdered
<1>4. thread \in Threads
    BY DEF SchedInv
<1> HIDE DEF blocked
<1> HIDE DEF wt
<1>5a. /\ Ordered(parked, wt, dynamic) /\ parked.timed = blocked.timed
       /\ \A t \in Threads : /\ parked.state[t] = "finished" <=> blocked.state[t] = "finished"
                             /\ WaitsFor(parked, t) \subseteq WaitsFor(blocked, t)
       /\ ~ IsDeadlock(blocked) => Running(parked) # {} \/ blocked.timed # {}
       /\ IsDeadlock(blocked) =>
            /\ blocked.timed = {}
            /\ \A t \in Threads : t \in wt \cup dynamic \/ blocked.state[t] = "finished"
  <2>1. Ordered(blocked, wt, dynamic)
    BY <1>3
  <2>2. parked = Purged(blocked)
    OBVIOUS
  <2> HIDE DEF parked
  <2>3. QED
    BY ONLY <2>1, <2>2, PurgedOrdered
<1> HIDE DEF parked
<1>5b. NoDebts(blocked) => NoDebts(parked)
    BY <1>5a DEF NoDebts
<1>5c. WaitsFor(parked, thread) = {} /\ parked.state[thread] # "finished"
    BY <1>3, <1>4, <1>5a
<1>5d. \A t \in Threads : t \in wt \cup dynamic \/ blocked.state[t] = "finished"
                            => t \in wt \cup dynamic \/ parked.state[t] = "finished"
    BY <1>5a
<1>5. /\ Ordered(parked, wt, dynamic) /\ parked.timed = blocked.timed
      /\ WaitsFor(parked, thread) = {} /\ parked.state[thread] # "finished"
      /\ policy = "random" => NoDebts(parked)
      /\ ~ IsDeadlock(blocked) => Running(parked) # {} \/ parked.timed # {}
      /\ IsDeadlock(blocked) =>
            /\ parked.timed = {}
            /\ \A t \in Threads : t \in wt \cup dynamic \/ parked.state[t] = "finished"
    BY <1>3, <1>5a, <1>5b, <1>5c, <1>5d
<1>6. CASE IsDeadlock(blocked) /\ End(parked, "deadlock") /\ waiting' = wt
  <2>1. dynamic' = dynamic /\ wt # {}
    BY <1>6 DEF End, wt
  <2>2. QED
    BY <1>5, <1>6, <2>1, EndStep
<1>7. CASE ~ IsDeadlock(blocked) /\ Schedule(r, wt) /\ UNCHANGED dynamic
  <2>1. 1 \in 0 .. MaxYield
    BY SchedulerAssumption
  <2>2. /\ Ordered(r, wt, dynamic) /\ r.timed = parked.timed
        /\ Running(parked) # {} => Running(r) # {}
        /\ policy = "random" => NoDebts(r)
    BY <1>4, <1>5, <2>1, AfterYieldOrdered
  <2> HIDE DEF r
  <2>3. QED
    BY <1>2, <1>5, <1>7, <2>2, ScheduleStep
<1>8. QED
    BY <1>2, <1>6, <1>7

(* thread_finished up to the question whether that is a deadlock.          *)
LEMMA FinishOrdered ==
    ASSUME SchedInv, Live, NEW s,
           s = [BlockThread(Tables, thread, 1) EXCEPT !.state[thread] = "finished"]
    PROVE  /\ Ordered(s, waiting, dynamic)
           /\ policy = "random" => NoDebts(s)
<1> DEFINE b == BlockThread(Tables, thread, 1)
           n == [t \in Threads |-> IF t = thread THEN 1
                                   ELSE Reasons(Tables, waiting, dynamic)[t]]
<1>1. /\ thread \in Threads /\ WaitsFor(Tables, thread) = {}
      /\ blockCount[thread] = 0 /\ thread \notin waiting \cup dynamic
      /\ state[thread] = "running" /\ Tables \in TableSet
      /\ Accounted(Tables, Reasons(Tables, waiting, dynamic))
    BY CurrentFree
<1>2. Tables.state = state /\ Tables.blockCount = blockCount
    BY DEF Tables
<1>3. Ordered(Tables, waiting, dynamic)
    BY DEF SchedInv
<1>4. /\ n \in Numbers /\ n[thread] = 1
      /\ \A i \in Threads \ {thread} : n[i] = Reasons(Tables, waiting, dynamic)[i]
    BY <1>1, ReasonsType DEF Numbers
<1> HIDE DEF n
<1>5. /\ Settles(Tables, b, n)
      /\ \A i \in Threads : b.priority[thread][i] = 0
  <2>1. Tables.state[thread] # "finished" /\ Tables.blockCount[thread] = 0
    BY <1>1, <1>2
  <2>2. \A i \in Threads \ {thread} :
            Tables.blockCount[i] = Cardinality(WaitsFor(Tables, i)) + n[i]
    BY <1>1, <1>4 DEF Accounted
  <2>3. Tables.blockCount[thread] + 1 = Cardinality(WaitsFor(Tables, thread)) + n[thread]
    BY <1>1, <1>4, <2>1, FS_EmptySet
  <2>4. Consistent(Tables) /\ 1 \in Nat /\ 0 \in Nat
    BY <1>1 DEF Accounted
  <2>5. Tables \in TableSet /\ n \in Numbers /\ thread \in Threads /\ Tables.blockCount[thread] \in Nat
    BY <1>1, <1>4, <2>1
  <2> DEFINE a == Tables
  <2>6. /\ a \in TableSet /\ n \in Numbers /\ thread \in Threads
        /\ a.state[thread] # "finished" /\ a.blockCount[thread] = 0 /\ a.blockCount[thread] \in Nat
        /\ \A i \in Threads \ {thread} : a.blockCount[i] = Cardinality(WaitsFor(a, i)) + n[i]
        /\ a.blockCount[thread] + 1 = Cardinality(WaitsFor(a, thread)) + n[thread]
        /\ Consistent(a) /\ 1 \in Nat
    BY <2>1, <2>2, <2>3, <2>4, <2>5
  <2>7. b = BlockThread(a, thread, 1)
    OBVIOUS
  <2> HIDE DEF a, b
  <2>8. /\ Settles(a, b, n)
        /\ a.blockCount[thread] = 0 /\ 1 > 0 => \A i \in Threads : b.priority[thread][i] = 0
    BY <2>6, <2>7, BlockThreadAccounts
  <2>9. QED
    BY <2>6, <2>8 DEF a
<1> HIDE DEF b
<1>6. /\ b \in TableSet /\ Accounted(b, n)
      /\ \A t \in Threads : b.state[t] = "finished" <=> state[t] = "finished"
      /\ \A t \in Threads : WaitsFor(b, t) \subseteq WaitsFor(Tables, t)
    BY <1>2, <1>5 DEF Settles
<1>7. /\ s \in TableSet /\ s.state = [b.state EXCEPT ![thread] = "finished"]
      /\ s.blockCount = b.blockCount /\ s.priority = b.priority
      /\ s.timed = timed /\ s.spurious = spurious
    BY <1>1, <1>5, <1>6 DEF TableSet, States, Settles, Tables, b
<1>8. \A i \in Threads : WaitsFor(s, i) = WaitsFor(b, i)
    BY <1>7 DEF WaitsFor
<1>9. \A t \in Threads : s.state[t] = IF t = thread THEN "finished" ELSE b.state[t]
    BY <1>6, <1>7 DEF TableSet
<1>10. \A y \in Threads : s.priority[y][thread] = 0 /\ s.priority[thread][y] = 0
  <2>1. \A y \in Threads : b.priority[y][thread] \in Nat
    BY <1>1, <1>6, MaxYieldNat DEF TableSet
  <2>2. \A y \in Threads : ~ b.priority[y][thread] > 0
    BY <1>1, <1>6 DEF WaitsFor
  <2>3. QED
    BY <1>5, <1>7, <2>1, <2>2
<1>11. s.blockCount[thread] # 0
  <2>1. s.blockCount[thread] = Cardinality(WaitsFor(b, thread)) + n[thread]
    BY <1>1, <1>6, <1>7 DEF Accounted
  <2>2. QED
    BY <1>1, <1>4, <2>1, WaitsForFinite
<1>12. Consistent(s)
    BY <1>6, <1>7, <1>9, <1>10, <1>11 DEF Accounted, Consistent
<1>13. Accounted(s, n)
    BY <1>6, <1>7, <1>8, <1>12 DEF Accounted
<1>14. Reasons(s, waiting, dynamic) = n
  <2>1. \A t \in Threads : Reasons(s, waiting, dynamic)[t] = n[t]
    BY <1>1, <1>2, <1>4, <1>6, <1>9 DEF Reasons, Count
  <2>2. QED
    BY <2>1 DEF Reasons, n
<1>15. \A t \in waiting \cup dynamic : s.state[t] # "finished"
    BY <1>1, <1>2, <1>3, <1>6, <1>9, SchedulerAssumption DEF Ordered
<1>16. Ordered(s, waiting, dynamic)
    BY <1>3, <1>7, <1>13, <1>14, <1>15 DEF Ordered, Tables
<1>17. NoDebts(Tables) => NoDebts(s)
    BY <1>6, <1>8 DEF NoDebts
<1>18. QED
    BY <1>16, <1>17 DEF SchedInv

LEMMA FinishStep ==
    ASSUME SchedInv, Finish
    PROVE  SchedInv' /\ Paid
<1> DEFINE finished == [BlockThread(Tables, thread, 1) EXCEPT !.state[thread] = "finished"]
           last == \A t \in Threads : finished.state[t] = "finished"
           asked == Purged(finished)
           released == UnblockAll(asked, dynamic)
<1>1. /\ Live
      /\ \/ last /\ End(finished, "last") /\ UNCHANGED waiting
         \/ /\ ~ last /\ IsDeadlock(finished) /\ dynamic = {}
            /\ End(asked, "deadlock") /\ UNCHANGED waiting
         \/ /\ ~ last /\ IsDeadlock(finished) /\ dynamic # {}
            /\ Schedule(AfterYield(released, thread, 0), waiting) /\ dynamic' = {}
         \/ /\ ~ last /\ ~ IsDeadlock(finished)
            /\ Schedule(AfterYield(asked, thread, 0), waiting) /\ UNCHANGED dynamic
    BY DEF Finish
<1>2. /\ Ordered(finished, waiting, dynamic)
      /\ policy = "random" => NoDebts(finished)
    BY <1>1, FinishOrdered
<1>3. thread \in Threads /\ 0 \in 0 .. MaxYield
    BY MaxYieldNat DEF SchedInv
<1> HIDE DEF finished
<1>4a. /\ Ordered(asked, waiting, dynamic) /\ asked.timed = finished.timed
       /\ \A t \in Threads : /\ asked.state[t] = "finished" <=> finished.state[t] = "finished"
                             /\ WaitsFor(asked, t) \subseteq WaitsFor(finished, t)
       /\ ~ IsDeadlock(finished) => Running(asked) # {} \/ finished.timed # {}
       /\ IsDeadlock(finished) =>
            /\ finished.timed = {} /\ NoDebts(asked)
            /\ \A t \in Threads : t \in waiting \cup dynamic \/ finished.state[t] = "finished"
    BY <1>2, PurgedOrdered
<1> HIDE DEF asked
<1>4b. NoDebts(finished) => NoDebts(asked)
    BY <1>4a DEF NoDebts
<1>4c. \A t \in Threads : t \in waiting \cup dynamic \/ finished.state[t] = "finished"
                            => t \in waiting \cup dynamic \/ asked.state[t] = "finished"
    BY <1>4a
<1>4. /\ Ordered(asked, waiting, dynamic) /\ asked.timed = finished.timed
      /\ \A t \in Threads : asked.state[t] = "finished" <=> finished.state[t] = "finished"
      /\ policy = "random" => NoDebts(asked)
      /\ ~ IsDeadlock(finished) => Running(asked) # {} \/ asked.timed # {}
      /\ IsDeadlock(finished) =>
            /\ asked.timed = {} /\ NoDebts(asked)
            /\ \A t \in Threads : t \in waiting \cup dynamic \/ asked.state[t] = "finished"
    BY <1>2, <1>4a, <1>4b, <1>4c
<1>5. CASE last /\ End(finished, "last") /\ UNCHANGED waiting
  <2>1. dynamic' = dynamic
    BY <1>5 DEF End
  <2>2. QED
    BY <1>2, <1>5, <2>1, EndStep
<1>6. CASE /\ ~ last /\ IsDeadlock(finished) /\ dynamic = {}
           /\ End(asked, "deadlock") /\ UNCHANGED waiting
  <2>1. dynamic' = dynamic
    BY <1>6 DEF End
  <2>2. waiting # {}
    BY <1>4, <1>6
  <2>3. QED
    BY <1>4, <1>6, <2>1, <2>2, EndStep
<1>7. CASE /\ ~ last /\ IsDeadlock(finished) /\ dynamic # {}
           /\ Schedule(AfterYield(released, thread, 0), waiting) /\ dynamic' = {}
  <2>1. dynamic \in SUBSET dynamic /\ dynamic \ dynamic = {}
    OBVIOUS
  <2>2. Ordered(released, waiting, {}) /\ Running(released) # {} /\ NoDebts(released)
    BY <1>4, <1>7, <2>1, CreateOrdered DEF NoDebts
  <2> HIDE DEF released
  <2> DEFINE r == AfterYield(released, thread, 0)
  <2>3. Ordered(r, waiting, {}) /\ Running(r) # {} /\ (policy = "random" => NoDebts(r))
    BY <1>3, <2>2, AfterYieldOrdered
  <2> HIDE DEF r
  <2>4. Schedule(r, waiting) /\ Ordered(r, waiting, dynamic')
    BY <1>7, <2>3 DEF r
  <2>5. QED
    BY <1>1, <2>3, <2>4, ScheduleStep
<1>8. CASE /\ ~ last /\ ~ IsDeadlock(finished)
           /\ Schedule(AfterYield(asked, thread, 0), waiting) /\ UNCHANGED dynamic
  <2> DEFINE r == AfterYield(asked, thread, 0)
  <2>1. /\ Ordered(r, waiting, dynamic) /\ r.timed = asked.timed
        /\ Running(asked) # {} => Running(r) # {}
        /\ policy = "random" => NoDebts(r)
    BY <1>3, <1>4, AfterYieldOrdered
  <2> HIDE DEF r
  <2>2. Schedule(r, waiting) /\ Ordered(r, waiting, dynamic')
    BY <1>8, <2>1 DEF r
  <2>3. QED
    BY <1>1, <1>4, <1>8, <2>1, <2>2, ScheduleStep
<1>9. QED
    BY <1>1, <1>5, <1>6, <1>7, <1>8

-----------------------------------------------------------------------------
LEMMA NextInv == SchedInv /\ [Next]_vars => SchedInv' /\ Paid
<1> SUFFICES ASSUME SchedInv, [Next]_vars PROVE SchedInv' /\ Paid
    OBVIOUS
<1>1. CASE Sched
    BY <1>1, MaxYieldNat, YieldStep DEF Sched
<1>2. ASSUME NEW k \in 1 .. MaxYield, Yield(k) PROVE SchedInv' /\ Paid
  <2>1. k \in 0 .. MaxYield
    BY MaxYieldNat
  <2>2. QED
    BY <1>2, <2>1, YieldStep DEF Yield
<1>3. ASSUME NEW isTimed \in BOOLEAN, NEW allowSpurious \in BOOLEAN,
             Park(isTimed, allowSpurious)
      PROVE  SchedInv' /\ Paid
    BY <1>3, ParkStep
<1>4. ASSUME NEW u \in Threads, Unpark(u) PROVE SchedInv' /\ Paid
    BY <1>4, UnparkStep
<1>5. ASSUME NEW u \in DynamicThreads, CreateThread(u) PROVE SchedInv' /\ Paid
    BY <1>5, CreateStep
<1>6. CASE Finish
    BY <1>6, FinishStep
<1>7. CASE UNCHANGED vars
  <2>1. /\ Tables' = Tables /\ UNCHANGED vars
        /\ UNCHANGED <<state, timed, dynamic, thread, policy, switches, waiting, verdict>>
    BY <1>7 DEF vars, Tables
  <2>2. (NoDebts(Tables))' <=> NoDebts(Tables)
    BY <2>1 DEF NoDebts
  <2>3. (Ordered(Tables, waiting, dynamic))' <=> Ordered(Tables, waiting, dynamic)
    BY <2>1
  <2>4. QED
    BY <2>1, <2>2, <2>3 DEF SchedInv, CurrentRuns, Live, DeadlockIsReal, StallOnlyTimed, Paid
<1>8. QED
    BY <1>1, <1>2, <1>3, <1>4, <1>5, <1>6, <1>7 DEF Next

(* The inductive invariant holds of every reachable state: the tables of   *)
(* scheduler.hpp are in order, and the verdicts are right.                 *)
THEOREM SchedCorrect == Spec => []SchedInv
BY InitInv, NextInv, PTL DEF Spec

LEMMA TablesInv ==
    ASSUME SchedInv
    PROVE  BlockAccounting /\ ListsAreCurrent
<1>1. /\ Tables.state = state /\ Tables.blockCount = blockCount
      /\ Tables.priority = priority /\ Tables.schedCount = schedCount
      /\ Tables.timed = timed /\ Tables.spurious = spurious
    BY DEF Tables
<1>2. /\ state \in [Threads -> States] /\ blockCount \in [Threads -> Int]
      /\ priority \in [Threads -> [Threads -> 0 .. MaxYield]]
      /\ schedCount \in [Threads -> [Threads -> 0 .. MaxYield]]
      /\ timed \subseteq Threads /\ spurious \subseteq Threads
  <2>1. Tables \in TableSet
    BY DEF SchedInv, Ordered
  <2>2. QED
    BY <1>1, <2>1 DEF TableSet
<1>3. /\ waiting \subseteq Threads /\ dynamic \subseteq DynamicThreads
      /\ timed \cup spurious \subseteq waiting /\ waiting \cap dynamic = {}
      /\ Accounted(Tables, Reasons(Tables, waiting, dynamic))
    BY <1>1 DEF SchedInv, Ordered
<1>4. ASSUME NEW t \in Threads
      PROVE  /\ blockCount[t] = Cardinality(WaitsFor(Tables, t)) + Count(t \in dynamic)
                    + Count(t \in waiting) + Count(state[t] = "finished")
             /\ blockCount[t] \in Nat
             /\ state[t] = "running" <=> blockCount[t] = 0
  <2>1. blockCount[t] = Cardinality(WaitsFor(Tables, t)) + Reasons(Tables, waiting, dynamic)[t]
    BY <1>1, <1>3 DEF Accounted
  <2>2. Reasons(Tables, waiting, dynamic)[t] =
            Count(t \in waiting) + Count(t \in dynamic) + Count(state[t] = "finished")
    BY <1>1 DEF Reasons
  <2>3. /\ Count(t \in waiting) \in Nat /\ Count(t \in dynamic) \in Nat
        /\ Count(state[t] = "finished") \in Nat
    BY DEF Count
  <2>4. state[t] = "running" <=> blockCount[t] = 0
    BY <1>1, <1>3 DEF Accounted, Consistent
  <2>5. Cardinality(WaitsFor(Tables, t)) \in Nat
    BY WaitsForFinite
  <2> DEFINE c == Cardinality(WaitsFor(Tables, t))
             w == Count(t \in waiting)
             d == Count(t \in dynamic)
             f == Count(state[t] = "finished")
  <2>6. c \in Nat /\ w \in Nat /\ d \in Nat /\ f \in Nat /\ blockCount[t] = c + (w + d + f)
    BY <2>1, <2>2, <2>3, <2>5
  <2> HIDE DEF c, w, d, f
  <2>7. blockCount[t] = c + d + w + f /\ blockCount[t] \in Nat
    BY <2>6
  <2>8. QED
    BY <2>4, <2>7 DEF c, w, d, f
<1>5. blockCount \in [Threads -> Nat]
    BY <1>2, <1>4
<1>6. TypeOK
    BY <1>2, <1>3, <1>5 DEF SchedInv, TypeOK, States
<1>7. ListsAreCurrent
    BY <1>1, <1>3 DEF ListsAreCurrent, Accounted, Consistent
<1>8. QED
    BY <1>4, <1>6, <1>7 DEF BlockAccounting

(* block_count_ is the number of reasons for which a thread cannot run     *)
(* after any sequence of calls of block_thread, unblock_thread, yields and *)
(* purges, so that no thread is ever let go too early or kept for ever.    *)
THEOREM AccountsCorrect == Spec => []BlockAccounting
BY SchedCorrect, TablesInv, PTL

(* timed_threads_ and spurious_threads_ hold threads that are parked, and  *)
(* yield_priority_ names nobody who has finished.                          *)
THEOREM ListsCorrect == Spec => []ListsAreCurrent
BY SchedCorrect, TablesInv, PTL

(* The thread that continues after schedule is ready to: the RL_VERIFY of  *)
(* scheduler.hpp, line 123, never fails.                                   *)
THEOREM CurrentCorrect == Spec => []CurrentRuns
<1>1. SchedInv => CurrentRuns
    BY DEF SchedInv
<1>2. QED
    BY <1>1, SchedCorrect, PTL

(* is_deadlock answers yes only when no thread can ever go on.             *)
THEOREM DeadlockCorrect == Spec => []DeadlockIsReal
<1>1. SchedInv => DeadlockIsReal
    BY DEF SchedInv
<1>2. QED
    BY <1>1, SchedCorrect, PTL

(* The RL_VERIFY that some thread runs can fail only with a timed wait in  *)
(* the tree search: full_search_scheduler.hpp, line 189.                   *)
THEOREM StallCorrect == Spec => []StallOnlyTimed
<1>1. SchedInv => StallOnlyTimed
    BY DEF SchedInv
<1>2. QED
    BY <1>1, SchedCorrect, PTL

(* The context bound holds: a thread that is ready is left for another one *)
(* at most context_bound times in an iteration, each time at the cost of   *)
(* one of switches_remain_.                                                *)
THEOREM PreemptionsCorrect == Spec => PreemptionsPaid
<1>1. SchedInv /\ [Next]_vars => [Paid]_vars
    BY NextInv
<1>2. Spec => [][Paid]_vars
    BY <1>1, SchedCorrect, PTL DEF Spec
<1>3. QED
    BY <1>2 DEF Paid, PreemptionsPaid
=============================================================================
