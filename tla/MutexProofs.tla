---------------------------- MODULE MutexProofs ----------------------------
(***************************************************************************)
(* Proofs about Mutex, for any set of threads and any depth of recursion,  *)
(* and about CondVar, for any finite set of threads and any limit of the   *)
(* spurious wake-ups.                                                      *)
(***************************************************************************)
EXTENDS CondVar, FiniteSetTheorems, TLAPS

-----------------------------------------------------------------------------
(* The invariant. *)

(* A parked thread is in the loop that parked it, and a thread in a loop   *)
(* is no reader; only the facades with a timeout have timed waits, and     *)
(* only the others have readers.                                           *)
WaitsAgree ==
    /\ \A t \in exclusiveWaitset : loop[t] \in {"exclusive", "timed"}
    /\ \A t \in sharedWaitset : loop[t] = "shared"
    /\ \A t \in Threads : /\ loop[t] = "timed" => kind.timed
                          /\ loop[t] = "shared" => kind.isRw
                          /\ loop[t] # "none" => sharedOwner[t] = 0

(* A thread has seen the ends of its own sections. *)
OwnSeen == \A t \in Threads, m \in Modes : <<t, m>> \notin unseen[t]

(* sync_ has always been told of the end of every section. *)
MutexInv ==
    /\ TypeOK
    /\ IsFiniteSet(SharedHolds) /\ CountsAgree
    /\ syncUnseen = {} /\ OwnSeen
    /\ WaitsAgree
    /\ NoLostWakeup

(* No facade has both readers and timeouts. *)
LEMMA FacadeFacts ==
    ASSUME NEW k \in Facades
    PROVE  ~ (k.isRw /\ k.timed)
<1>1. CASE k \in StdMutexes
    <2>1. PICK recursive \in BOOLEAN : k = Kind(FALSE, recursive, FALSE, TRUE, FALSE)
        BY <1>1 DEF StdMutexes
    <2>2. k.isRw = FALSE
        BY <2>1 DEF Kind
    <2> QED
        BY <2>2
<1>2. CASE k \in PthreadMutexes
    <2>1. PICK recursive \in BOOLEAN : k = Kind(FALSE, recursive, FALSE, FALSE, TRUE)
        BY <1>2 DEF PthreadMutexes
    <2>2. k.isRw = FALSE
        BY <2>1 DEF Kind
    <2> QED
        BY <2>2
<1>3. CASE k \in {PthreadRwlock, SRWLock}
    <2>1. k.timed = FALSE
        BY <1>3 DEF PthreadRwlock, SRWLock, Kind
    <2> QED
        BY <2>1
<1>4. CASE k \in {CriticalSection, WinMutex}
    <2>1. k.isRw = FALSE
        BY <1>4 DEF CriticalSection, WinMutex, Kind
    <2> QED
        BY <2>1
<1> QED
    BY <1>1, <1>2, <1>3, <1>4 DEF Facades

-----------------------------------------------------------------------------
(* What a step does.  Every operation comes down to one of these moves.    *)

Move(t) ==
    \/ \E r \in Results : Fail(r)
    \/ TakeExclusive(t)
    \/ /\ loop[t] \in {"none", "shared"} /\ kind.isRw /\ ~ HoldsShared(t)
       /\ TakeShared(t) \/ ParkShared(t)
    \/ ~ HoldsShared(t) /\ ParkExclusive(t, "exclusive")
    \/ kind.timed /\ ~ HoldsShared(t) /\ ParkExclusive(t, "timed")
    \/ RelockExclusive(t)
    \/ loop[t] = "none" /\ RelockShared(t)
    \/ FailSpuriously
    \/ Timeout(t)
    \/ UnlockNested(t)
    \/ FreeExclusive(t)
    \/ UnlockOne(t)
    \/ FreeShared(t)
    \/ UNCHANGED vars

(* The thread that moves is not parked, unless it times out.               *)
LEMMA StepMoves ==
    ASSUME MutexInv, NEW t \in Threads, Step(t)
    PROVE  /\ Move(t)
           /\ t \notin exclusiveWaitset \cup sharedWaitset \/ Timeout(t)
<1> USE DEF Results, Calls
<1>1. Calls(t) => t \notin exclusiveWaitset \cup sharedWaitset
    BY DEF MutexInv, WaitsAgree
<1>2. ASSUME NEW isTimed \in BOOLEAN, LockExclusive(t, isTimed)
      PROVE  Move(t) /\ Calls(t)
    BY <1>2 DEF LockExclusive, AttemptExclusive, LoopExclusive, Move
<1>3. CASE TryLockExclusive(t)
    BY <1>1, <1>3 DEF TryLockExclusive, AttemptExclusive, Move
<1>4. CASE LockShared(t)
    BY <1>1, <1>4 DEF LockShared, AttemptShared, LoopShared, Move
<1>5. CASE TryLockShared(t)
    BY <1>1, <1>5 DEF TryLockShared, AttemptShared, Move
<1>6. CASE Resume(t)
    <2>1. ~ HoldsShared(t)
        BY <1>6 DEF Resume, MutexInv, WaitsAgree, HoldsShared
    <2> QED
        BY <1>6, <2>1 DEF Resume, LoopExclusive, LoopShared, MutexInv, WaitsAgree, Move
<1>7. CASE Timeout(t)
    BY <1>7 DEF Move
<1>8. ASSUME UnlockExclusive(t)
      PROVE  Move(t) /\ Calls(t)
    BY <1>8 DEF UnlockExclusive, Move
<1>9. ASSUME UnlockShared(t)
      PROVE  Move(t) /\ Calls(t)
    BY <1>9 DEF UnlockShared, Move
<1>10. CASE UnlockExclusiveOrShared(t)
    BY <1>1, <1>8, <1>9, <1>10 DEF UnlockExclusiveOrShared
<1>11. CASE Destroy(t)
    BY <1>1, <1>11 DEF Destroy, Move
<1> QED
    BY <1>1, <1>2, <1>3, <1>4, <1>5, <1>6, <1>7, <1>8, <1>9, <1>10, <1>11 DEF Step

-----------------------------------------------------------------------------
(* The types. *)

(* Ending a section keeps the clocks typed, and sync_ up to date.          *)
LEMMA EndSectionFacts ==
    ASSUME TypeOK, syncUnseen = {}, OwnSeen, NEW t \in Threads, NEW mode \in Modes,
           EndSection(t, mode)
    PROVE  /\ unseen' \in [Threads -> SUBSET (Threads \X Modes)]
           /\ syncUnseen' = {}
           /\ OwnSeen'
<1>1. unseen' \in [Threads -> SUBSET (Threads \X Modes)] /\ unseen'[t] = unseen[t]
    BY DEF TypeOK, EndSection
<1>2. syncUnseen' = {}
    BY <1>1 DEF EndSection, OwnSeen
<1>3. ASSUME NEW u \in Threads, NEW m \in Modes
      PROVE  <<u, m>> \notin unseen'[u]
    <2>1. CASE u = t
        BY <1>1, <2>1 DEF OwnSeen
    <2>2. CASE u # t
        <3>1. unseen'[u] = unseen[u] \cup {<<t, mode>>}
            BY <2>2 DEF EndSection
        <3> QED
            BY <2>2, <3>1 DEF OwnSeen
    <2> QED
        BY <2>1, <2>2
<1> QED
    BY <1>1, <1>2, <1>3 DEF OwnSeen

(* So does an acquire, after which the thread has seen every end.          *)
LEMMA AcquireFacts ==
    ASSUME TypeOK, syncUnseen = {}, OwnSeen, NEW t \in Threads, Acquire(t)
    PROVE  /\ unseen' = [unseen EXCEPT ![t] = {}]
           /\ unseen' \in [Threads -> SUBSET (Threads \X Modes)]
           /\ syncUnseen' = {}
           /\ OwnSeen'
<1>1. unseen' = [unseen EXCEPT ![t] = {}] /\ syncUnseen' = {}
    BY DEF Acquire
<1> QED
    BY <1>1 DEF TypeOK, OwnSeen

ClocksGood == /\ unseen \in [Threads -> SUBSET (Threads \X Modes)]
              /\ syncUnseen = {} /\ OwnSeen

(* Every move keeps the abstracted clocks good. *)
LEMMA ClocksKept ==
    ASSUME MutexInv, NEW t \in Threads, Move(t)
    PROVE  ClocksGood'
<1> USE DEF ClocksGood
<1>1. TypeOK /\ syncUnseen = {} /\ OwnSeen
    BY DEF MutexInv
<1>2. CASE UNCHANGED clocks
    BY <1>1, <1>2 DEF clocks, TypeOK, OwnSeen
<1>3. CASE Acquire(t)
    BY <1>1, <1>3, AcquireFacts
<1>4. CASE \E mode \in Modes : EndSection(t, mode)
    BY <1>1, <1>4, EndSectionFacts
<1>5. UNCHANGED clocks \/ Acquire(t) \/ \E mode \in Modes : EndSection(t, mode)
    BY DEF Move, Fail, TakeExclusive, TakeShared, ParkExclusive, ParkShared,
           RelockExclusive, RelockShared, FailSpuriously, Timeout, UnlockNested,
           FreeExclusive, UnlockOne, FreeShared, vars, Modes
<1> QED
    BY <1>2, <1>3, <1>4, <1>5

(* TypeOK but for the clocks. *)
RestTyped ==
    /\ kind \in Facades
    /\ owner \in Threads \cup {"free", "shared"}
    /\ recursion \in Nat
    /\ sharedOwner \in [Threads -> Nat]
    /\ sharedCount \in Nat
    /\ tryLockFailed \in BOOLEAN
    /\ exclusiveWaitset \subseteq Threads /\ sharedWaitset \subseteq Threads
    /\ loop \in [Threads -> {"none", "exclusive", "timed", "shared"}]
    /\ result \in Results

(* A reader's hold is counted: shared_lock_count_ is not zero. *)
LEMMA HolderCounted ==
    ASSUME MutexInv, owner = "shared"
    PROVE  sharedCount > 0
    BY DEF MutexInv, CountsAgree

(* Every move keeps the fields typed. *)
LEMMA RestKept ==
    ASSUME MutexInv, NEW t \in Threads, Move(t)
    PROVE  RestTyped'
<1>1. RestTyped
    BY DEF MutexInv, TypeOK, RestTyped
<1>2. CASE \E r \in Results : Fail(r)
    BY <1>1, <1>2 DEF Fail, RestTyped, holds, waits
<1>3. CASE TakeExclusive(t) \/ TakeShared(t)
    BY <1>1, <1>3 DEF TakeExclusive, TakeShared, RestTyped
<1>4. CASE \E how \in {"exclusive", "timed"} : ParkExclusive(t, how)
    BY <1>1, <1>4 DEF ParkExclusive, RestTyped, holds
<1>5. CASE ParkShared(t)
    BY <1>1, <1>5 DEF ParkShared, RestTyped, holds
<1>6. CASE RelockExclusive(t) \/ RelockShared(t) \/ UnlockNested(t)
    BY <1>1, <1>6 DEF RelockExclusive, RelockShared, UnlockNested, RestTyped, waits
<1>7. CASE FailSpuriously
    BY <1>1, <1>7 DEF FailSpuriously, RestTyped, holds, waits
<1>8. CASE Timeout(t)
    BY <1>1, <1>8 DEF Timeout, RestTyped, holds
<1>9. CASE FreeExclusive(t)
    BY <1>1, <1>9 DEF FreeExclusive, Wake, WakeWriter, RestTyped
<1>10. CASE UnlockOne(t) \/ FreeShared(t)
    <2>1. GiveBackShared(t) /\ (UNCHANGED exclusiveWaitset \/ WakeWriter)
          /\ owner' \in {owner, "free"}
        BY <1>10 DEF UnlockOne, FreeShared
    <2>2. sharedOwner[t] > 0 /\ sharedCount > 0
        BY <2>1, HolderCounted DEF GiveBackShared, HoldsShared
    <2> QED
        BY <1>1, <2>1, <2>2 DEF GiveBackShared, WakeWriter, RestTyped
<1>11. CASE UNCHANGED vars
    BY <1>1, <1>11 DEF vars, holds, waits, RestTyped
<1> QED
    BY <1>2, <1>3, <1>4, <1>5, <1>6, <1>7, <1>8, <1>9, <1>10, <1>11 DEF Move

-----------------------------------------------------------------------------
(* The holders. *)

(* A mutex that is not shared has no readers: their holds are counted, and *)
(* the count is 0.                                                         *)
LEMMA NoReaders ==
    ASSUME MutexInv, owner # "shared"
    PROVE  \A u \in Threads : sharedOwner[u] = 0
<1>1. sharedCount = 0
    BY DEF MutexInv, TypeOK, CountsAgree
<1>2. SharedHolds = {}
    BY <1>1, FS_EmptySet DEF MutexInv, CountsAgree
<1>3. ASSUME NEW u \in Threads, sharedOwner[u] # 0
      PROVE  FALSE
    <2>1. sharedOwner[u] \in Nat /\ 1 \in 1 .. sharedOwner[u]
        BY <1>3 DEF MutexInv, TypeOK
    <2>2. <<u, 1>> \in SharedHolds
        BY <2>1 DEF SharedHolds
    <2> QED
        BY <1>2, <2>2
<1> QED
    BY <1>3

(* The last of all the holds is the last of its reader, who is alone.      *)
LEMMA LastReader ==
    ASSUME MutexInv, NEW t \in Threads, sharedOwner[t] > 0, sharedCount = 1
    PROVE  sharedOwner[t] = 1 /\ \A u \in Threads \ {t} : sharedOwner[u] = 0
<1>1. IsFiniteSet(SharedHolds) /\ Cardinality(SharedHolds) = 1
    BY DEF MutexInv, CountsAgree
<1>2. sharedOwner \in [Threads -> Nat]
    BY DEF MutexInv, TypeOK
<1>3. <<t, 1>> \in SharedHolds
    BY <1>2 DEF SharedHolds
<1>4. SharedHolds \ {<<t, 1>>} = {}
    <2> DEFINE rest == SharedHolds \ {<<t, 1>>}
    <2>1. IsFiniteSet(rest) /\ Cardinality(rest) = 1 - 1
        BY <1>1, <1>3, FS_RemoveElement
    <2>2. Cardinality(rest) = 0
        BY <2>1
    <2> QED
        BY <2>1, <2>2, FS_EmptySet
<1>5. ASSUME NEW u \in Threads, NEW n \in 1 .. sharedOwner[u]
      PROVE  u = t /\ n = 1
    <2>1. <<u, n>> \in SharedHolds
        BY DEF SharedHolds
    <2>2. <<u, n>> = <<t, 1>>
        BY <1>4, <2>1
    <2> QED
        BY <2>2
<1>6. sharedOwner[t] = 1
    <2>1. sharedOwner[t] \in 1 .. sharedOwner[t]
        BY <1>2
    <2> QED
        BY <2>1, <1>5
<1>7. ASSUME NEW u \in Threads \ {t}, sharedOwner[u] # 0
      PROVE  FALSE
    <2>1. 1 \in 1 .. sharedOwner[u]
        BY <1>2, <1>7
    <2> QED
        BY <2>1, <1>5
<1> QED
    BY <1>6, <1>7

(* One more hold of a reader is one more in the sum. *)
LEMMA AddHold ==
    ASSUME MutexInv, NEW t \in Threads,
           sharedOwner' = [sharedOwner EXCEPT ![t] = @ + 1]
    PROVE  IsFiniteSet(SharedHolds') /\ Cardinality(SharedHolds') = sharedCount + 1
<1> DEFINE new == <<t, sharedOwner[t] + 1>>
<1>1. sharedOwner \in [Threads -> Nat]
    BY DEF MutexInv, TypeOK
<1>2. 1 .. (sharedOwner[t] + 1) = (1 .. sharedOwner[t]) \cup {sharedOwner[t] + 1}
    BY <1>1
<1>3. SharedHolds' = SharedHolds \cup {new}
    BY <1>1, <1>2 DEF SharedHolds
<1>4. new \notin SharedHolds
    BY <1>1 DEF SharedHolds
<1> QED
    BY <1>3, <1>4, FS_AddElement DEF MutexInv, CountsAgree

(* One less is one less. *)
LEMMA RemoveHold ==
    ASSUME MutexInv, NEW t \in Threads, sharedOwner[t] > 0,
           sharedOwner' = [sharedOwner EXCEPT ![t] = @ - 1]
    PROVE  IsFiniteSet(SharedHolds') /\ Cardinality(SharedHolds') = sharedCount - 1
<1> DEFINE old == <<t, sharedOwner[t]>>
<1>1. sharedOwner \in [Threads -> Nat]
    BY DEF MutexInv, TypeOK
<1>2. 1 .. (sharedOwner[t] - 1) = (1 .. sharedOwner[t]) \ {sharedOwner[t]}
    BY <1>1
<1>3. SharedHolds' = SharedHolds \ {old}
    BY <1>1, <1>2 DEF SharedHolds
<1>4. old \in SharedHolds
    BY <1>1 DEF SharedHolds
<1> QED
    BY <1>3, <1>4, FS_RemoveElement DEF MutexInv, CountsAgree

(* Every move keeps the fields that say who holds the mutex in agreement.  *)
LEMMA CountsKept ==
    ASSUME MutexInv, NEW t \in Threads, Move(t)
    PROVE  (IsFiniteSet(SharedHolds) /\ CountsAgree)'
<1>1. /\ TypeOK /\ IsFiniteSet(SharedHolds) /\ CountsAgree
      /\ owner = t => owner # "free" /\ owner # "shared"
      /\ {"free", "shared"} \cap Threads = {}
    BY MutexAssumption DEF MutexInv
<1>2. CASE UNCHANGED holds
    BY <1>1, <1>2 DEF holds, SharedHolds, CountsAgree
<1>3. CASE UNCHANGED <<sharedOwner, sharedCount>> /\ owner # "shared" /\ owner' # "shared"
           /\ (owner' \in Threads <=> recursion' > 0)
    <2>1. SharedHolds' = SharedHolds
        BY <1>3 DEF SharedHolds
    <2> QED
        BY <1>1, <1>3, <2>1 DEF CountsAgree
<1>4. CASE TakeExclusive(t)
    BY <1>1, <1>3, <1>4 DEF TakeExclusive
<1>5. CASE RelockExclusive(t) \/ UnlockNested(t) \/ FreeExclusive(t)
    BY <1>1, <1>3, <1>5 DEF RelockExclusive, UnlockNested, FreeExclusive, TypeOK
<1>6. CASE TakeShared(t) \/ RelockShared(t)
    <2>1. sharedOwner' = [sharedOwner EXCEPT ![t] = @ + 1]
          /\ sharedCount' = sharedCount + 1 /\ owner' = "shared" /\ recursion' = recursion
        BY <1>6 DEF TakeShared, RelockShared, HoldsShared
    <2>2. owner \notin Threads
        BY <1>1, <1>6 DEF TakeShared, Admits, RelockShared, HoldsShared
    <2>3. IsFiniteSet(SharedHolds') /\ Cardinality(SharedHolds') = sharedCount'
        BY <2>1, AddHold
    <2>4. sharedCount' > 0 /\ owner' \notin Threads /\ ~ (recursion' > 0)
        BY <1>1, <2>1, <2>2 DEF CountsAgree, TypeOK
    <2> QED
        BY <2>1, <2>3, <2>4 DEF CountsAgree
<1>7. CASE UnlockOne(t) \/ FreeShared(t)
    <2>1. GiveBackShared(t)
        BY <1>7 DEF UnlockOne, FreeShared
    <2>2. owner = "shared" /\ sharedCount > 0 /\ sharedOwner[t] > 0
        BY <2>1, HolderCounted DEF GiveBackShared, HoldsShared
    <2>3. owner' = IF sharedCount = 1 THEN "free" ELSE "shared"
        BY <1>7, <2>2 DEF UnlockOne, FreeShared
    <2>4. IsFiniteSet(SharedHolds') /\ Cardinality(SharedHolds') = sharedCount'
        BY <2>1, <2>2, RemoveHold DEF GiveBackShared
    <2>5. /\ owner' = "shared" <=> sharedCount' > 0
          /\ owner' \notin Threads /\ ~ (recursion' > 0)
        BY <1>1, <2>1, <2>2, <2>3 DEF GiveBackShared, CountsAgree, TypeOK
    <2> QED
        BY <2>4, <2>5 DEF CountsAgree
<1>8. UNCHANGED holds \/ TakeExclusive(t) \/ RelockExclusive(t) \/ UnlockNested(t)
      \/ FreeExclusive(t) \/ TakeShared(t) \/ RelockShared(t) \/ UnlockOne(t)
      \/ FreeShared(t)
    BY DEF Move, Fail, ParkExclusive, ParkShared, FailSpuriously, Timeout, vars
<1> QED
    BY <1>2, <1>4, <1>5, <1>6, <1>7, <1>8

-----------------------------------------------------------------------------
(* The waiters. *)

(* Every move keeps the waitsets and the loops in agreement. *)
LEMMA WaitsKept ==
    ASSUME MutexInv, NEW t \in Threads, Move(t),
           t \notin exclusiveWaitset \cup sharedWaitset \/ Timeout(t)
    PROVE  WaitsAgree'
<1>1. WaitsAgree /\ TypeOK
    BY DEF MutexInv
<1>2. ~ HoldsShared(t) => sharedOwner[t] = 0
    BY NoReaders DEF MutexInv, TypeOK, HoldsShared
<1>3. CASE UNCHANGED <<kind, waits, sharedOwner>>
    BY <1>1, <1>3 DEF waits, WaitsAgree
<1>4. CASE Timeout(t)
    BY <1>1, <1>4 DEF Timeout, holds, WaitsAgree, TypeOK
<1>5. ASSUME t \notin exclusiveWaitset \cup sharedWaitset
      PROVE  WaitsAgree'
    <2>1. CASE TakeExclusive(t) \/ TakeShared(t)
        BY <1>1, <1>5, <2>1 DEF TakeExclusive, TakeShared, WaitsAgree, TypeOK
    <2>2. CASE ~ HoldsShared(t) /\ ParkExclusive(t, "exclusive")
        BY <1>1, <1>2, <1>5, <2>2 DEF ParkExclusive, holds, WaitsAgree, TypeOK
    <2>3. CASE ~ HoldsShared(t) /\ kind.timed /\ ParkExclusive(t, "timed")
        BY <1>1, <1>2, <1>5, <2>3 DEF ParkExclusive, holds, WaitsAgree, TypeOK
    <2>4. CASE ~ HoldsShared(t) /\ kind.isRw /\ ParkShared(t)
        BY <1>1, <1>2, <1>5, <2>4 DEF ParkShared, holds, WaitsAgree, TypeOK
    <2>5. CASE FreeExclusive(t)
        BY <1>1, <2>5 DEF FreeExclusive, Wake, WakeWriter, WaitsAgree
    <2>6. CASE UnlockOne(t) \/ FreeShared(t)
        <3>1. /\ GiveBackShared(t)
              /\ exclusiveWaitset' \subseteq exclusiveWaitset
            BY <2>6 DEF UnlockOne, FreeShared, WakeWriter
        <3>2. loop[t] = "none"
            BY <1>1, <3>1 DEF GiveBackShared, HoldsShared, WaitsAgree
        <3> QED
            BY <1>1, <3>1, <3>2 DEF GiveBackShared, WaitsAgree, TypeOK
    <2>7. CASE loop[t] = "none" /\ RelockShared(t)
        BY <1>1, <2>7 DEF RelockShared, waits, WaitsAgree, TypeOK
    <2> QED
        BY <1>3, <1>4, <2>1, <2>2, <2>3, <2>4, <2>5, <2>6, <2>7
        DEF Move, Fail, holds, RelockExclusive, FailSpuriously, UnlockNested, vars
<1> QED
    BY <1>4, <1>5

(* Every move leaves somebody to wake for each waiter. *)
LEMMA WakeupsKept ==
    ASSUME MutexInv, NEW t \in Threads, Move(t)
    PROVE  NoLostWakeup'
<1>1. NoLostWakeup /\ WaitsAgree /\ TypeOK
    BY DEF MutexInv
<1>2. CASE UNCHANGED <<owner, waits>>
    BY <1>1, <1>2 DEF waits, NoLostWakeup, WokenWriters
<1>3. CASE TakeExclusive(t)
    BY <1>3, MutexAssumption DEF TakeExclusive, NoLostWakeup
<1>4. CASE loop[t] \in {"none", "shared"} /\ TakeShared(t)
    <2>1. WokenWriters \subseteq WokenWriters'
        BY <1>1, <1>4 DEF TakeShared, WokenWriters, TypeOK
    <2> QED
        BY <1>1, <1>4, <2>1, MutexAssumption DEF TakeShared, Admits, NoLostWakeup
<1>5. CASE \E how \in {"exclusive", "timed"} : ParkExclusive(t, how)
    BY <1>5 DEF ParkExclusive, NoLostWakeup, holds
<1>6. CASE loop[t] \in {"none", "shared"} /\ ParkShared(t)
    BY <1>1, <1>6 DEF ParkShared, Admits, NoLostWakeup, TypeOK, holds
<1>7. CASE Timeout(t)
    <2>1. kind.timed
        BY <1>1, <1>7 DEF Timeout, WaitsAgree
    <2>2. sharedWaitset = {}
        BY <1>1, <2>1, FacadeFacts DEF WaitsAgree, TypeOK
    <2>3. WokenWriters \subseteq WokenWriters'
        BY <1>1, <1>7 DEF Timeout, WokenWriters, TypeOK
    <2> QED
        BY <1>1, <1>7, <2>2, <2>3 DEF Timeout, NoLostWakeup, holds
<1>8. CASE WakeWriter /\ UNCHANGED loop /\ exclusiveWaitset # {}
    <2>1. PICK u \in exclusiveWaitset : exclusiveWaitset' = exclusiveWaitset \ {u}
        BY <1>8 DEF WakeWriter
    <2>2. u \in WokenWriters'
        BY <1>1, <1>8, <2>1 DEF WokenWriters, WaitsAgree, TypeOK
    <2> QED
        BY <2>2 DEF NoLostWakeup
<1>9. CASE FreeExclusive(t) /\ exclusiveWaitset = {}
    BY <1>9 DEF FreeExclusive, Wake, WakeWriter, NoLostWakeup
<1>10. CASE FreeShared(t) /\ exclusiveWaitset = {}
    <2>1. exclusiveWaitset' = {} /\ sharedWaitset' = sharedWaitset
          /\ WokenWriters' = WokenWriters /\ owner = "shared"
        BY <1>10 DEF FreeShared, GiveBackShared, HoldsShared, WakeWriter, WokenWriters
    <2> QED
        BY <1>1, <1>10, <2>1, MutexAssumption DEF NoLostWakeup
<1> QED
    BY <1>2, <1>3, <1>4, <1>5, <1>6, <1>7, <1>8, <1>9, <1>10
    DEF Move, Fail, holds, RelockExclusive, RelockShared, FailSpuriously, UnlockNested,
        UnlockOne, GiveBackShared, waits, FreeExclusive, FreeShared, Wake, vars

-----------------------------------------------------------------------------
(* The theorems about the invariant. *)

(* MutexInv is inductive. *)
LEMMA MutexStep == MutexInv /\ [Next]_vars => MutexInv'
<1> SUFFICES ASSUME MutexInv, [Next]_vars
             PROVE  MutexInv'
    OBVIOUS
<1>1. ASSUME NEW t \in Threads, Step(t)
      PROVE  MutexInv'
    <2>1. Move(t) /\ (t \notin exclusiveWaitset \cup sharedWaitset \/ Timeout(t))
        BY <1>1, StepMoves
    <2>2. ClocksGood' /\ RestTyped'
        BY <2>1, ClocksKept, RestKept
    <2>3. (IsFiniteSet(SharedHolds) /\ CountsAgree)'
        BY <2>1, CountsKept
    <2>4. WaitsAgree' /\ NoLostWakeup'
        BY <2>1, WaitsKept, WakeupsKept
    <2> QED
        BY <2>2, <2>3, <2>4 DEF MutexInv, ClocksGood, RestTyped, TypeOK
<1>2. CASE UNCHANGED vars
    BY <1>2 DEF vars, holds, waits, clocks, MutexInv, TypeOK, CountsAgree, SharedHolds,
                OwnSeen, WaitsAgree, NoLostWakeup, WokenWriters
<1> QED
    BY <1>1, <1>2 DEF Next

(* It holds of a new mutex. *)
LEMMA MutexInit == Init => MutexInv
<1> SUFFICES ASSUME Init
             PROVE  MutexInv
    OBVIOUS
<1>1. SharedHolds = {}
    BY DEF Init, SharedHolds
<1>2. IsFiniteSet(SharedHolds) /\ CountsAgree
    BY <1>1, FS_EmptySet, MutexAssumption DEF Init, CountsAgree
<1> QED
    BY <1>2 DEF Init, MutexInv, TypeOK, Results, OwnSeen, WaitsAgree, NoLostWakeup

(* It holds of every mutex at all times. *)
LEMMA MutexAlways == Spec => []MutexInv
    BY MutexInit, MutexStep, PTL DEF Spec

(* The fields of the mutex keep their types. *)
THEOREM TypeCorrect == Spec => []TypeOK
<1>1. MutexInv => TypeOK
    BY DEF MutexInv
<1> QED
    BY <1>1, MutexAlways, PTL

(* The fields that say who holds the mutex agree (the RL_VERIFYs of        *)
(* mutex.hpp).                                                             *)
THEOREM CountsCorrect == Spec => []CountsAgree
<1>1. MutexInv => CountsAgree
    BY DEF MutexInv
<1> QED
    BY <1>1, MutexAlways, PTL

(* No wake-up is lost. *)
THEOREM WakeupsCorrect == Spec => []NoLostWakeup
<1>1. MutexInv => NoLostWakeup
    BY DEF MutexInv
<1> QED
    BY <1>1, MutexAlways, PTL

-----------------------------------------------------------------------------
(* Mutex implements Lock. *)

Writes == [t \in Threads |-> IF owner = t THEN recursion ELSE 0]

(* A step of Lock for t, over the fields of the mutex. *)
LockMoves(t) ==
    \/ Abstract!LockWrite(t) \/ Abstract!RelockWrite(t) \/ Abstract!UnlockWrite(t)
    \/ Abstract!LockRead(t) \/ Abstract!RelockRead(t) \/ Abstract!UnlockRead(t)
    \/ Abstract!GiveUp(t)

(* A move that leaves the holders and the clocks alone is a stutter.       *)
LEMMA Stutters ==
    ASSUME UNCHANGED <<holds, unseen>>
    PROVE  UNCHANGED Abstract!vars
    BY DEF holds, Abstract!vars

(* What Lock sees when the owner unlocks once. *)
LEMMA WritesDrop ==
    ASSUME NEW t \in Threads, owner = t, recursion \in Nat,
           \/ owner' = t /\ recursion > 1 /\ recursion' = recursion - 1
           \/ owner' \notin Threads /\ recursion = 1
    PROVE  /\ Writes[t] = recursion
           /\ Writes' = [Writes EXCEPT ![t] = @ - 1]
<1>1. Writes[t] = recursion /\ \A u \in Threads : u # t => Writes[u] = 0
    BY DEF Writes
<1>2. CASE owner' = t /\ recursion' = recursion - 1
    <2>1. Writes' = [u \in Threads |-> IF u = t THEN recursion - 1 ELSE 0]
        BY <1>2 DEF Writes
    <2> QED
        BY <1>1, <2>1 DEF Writes
<1>3. CASE owner' \notin Threads /\ recursion = 1
    <2>1. Writes' = [u \in Threads |-> 0]
        BY <1>3 DEF Writes
    <2>2. Writes = [u \in Threads |-> IF u = t THEN 1 ELSE 0]
        BY <1>3 DEF Writes
    <2>3. Writes[t] - 1 = 0
        BY <2>2
    <2>4. [Writes EXCEPT ![t] = 0] = [u \in Threads |-> 0]
        BY <2>2
    <2> QED
        BY <1>1, <2>1, <2>3, <2>4
<1> QED
    BY <1>1, <1>2, <1>3

(* Each move is a step of Lock or a stutter. *)
LEMMA MoveImplements ==
    ASSUME MutexInv, NEW t \in Threads, Move(t)
    PROVE  LockMoves(t) \/ UNCHANGED Abstract!vars
<1>1. /\ TypeOK /\ syncUnseen = {} /\ OwnSeen /\ CountsAgree
      /\ "free" \notin Threads /\ "shared" \notin Threads
    BY MutexAssumption DEF MutexInv
<1>2. owner # "shared" => \A u \in Threads : sharedOwner[u] = 0
    BY NoReaders
<1>3. \A u \in Threads : EndSection(u, "write") => Abstract!EndSection(u, "write")
    BY DEF EndSection, Abstract!EndSection
<1>4. \A u \in Threads : EndSection(u, "read") => Abstract!EndSection(u, "read")
    BY DEF EndSection, Abstract!EndSection
<1>5. CASE TakeExclusive(t)
    <2>1. unseen' = [unseen EXCEPT ![t] = {}]
        BY <1>1, <1>5, AcquireFacts DEF TakeExclusive
    <2>2. Abstract!LockWrite(t)
        BY <1>1, <1>2, <1>5, <2>1 DEF TakeExclusive, Abstract!LockWrite
    <2> QED
        BY <2>2 DEF LockMoves
<1>6. CASE ~ HoldsShared(t) /\ TakeShared(t)
    <2>1. unseen' = [unseen EXCEPT ![t] = {}]
        BY <1>1, <1>6, AcquireFacts DEF TakeShared
    <2>2. sharedOwner[t] = 0
        BY <1>1, <1>2, <1>6 DEF HoldsShared, TypeOK
    <2>3. sharedOwner' = [sharedOwner EXCEPT ![t] = 1] /\ owner \notin Threads
          /\ owner' \notin Threads
        BY <1>1, <1>6, <2>2 DEF TakeShared, Admits, TypeOK
    <2>4. Abstract!LockRead(t)
        BY <2>1, <2>2, <2>3 DEF Abstract!LockRead
    <2> QED
        BY <2>4 DEF LockMoves
<1>7. CASE RelockExclusive(t)
    <2>1. Abstract!RelockWrite(t)
        BY <1>1, <1>7 DEF RelockExclusive, CountsAgree, TypeOK, clocks, Abstract!RelockWrite
    <2> QED
        BY <2>1 DEF LockMoves
<1>8. CASE RelockShared(t)
    <2>1. Abstract!RelockRead(t)
        BY <1>1, <1>8 DEF RelockShared, HoldsShared, TypeOK, clocks, Abstract!RelockRead
    <2> QED
        BY <2>1 DEF LockMoves
<1>9. CASE Timeout(t)
    <2>1. unseen' = [unseen EXCEPT ![t] = {}]
        BY <1>1, <1>9, AcquireFacts DEF Timeout
    <2>2. Abstract!GiveUp(t)
        BY <1>9, <2>1 DEF Timeout, holds, Abstract!GiveUp
    <2> QED
        BY <2>2 DEF LockMoves
<1>10. CASE UnlockNested(t)
    <2>1. Writes[t] = recursion /\ Writes' = [Writes EXCEPT ![t] = @ - 1]
        BY <1>1, <1>10, WritesDrop DEF UnlockNested, TypeOK
    <2>2. Abstract!UnlockWrite(t)
        <3>1. Writes[t] > 0 /\ Writes[t] # 1
            BY <1>1, <1>10, <2>1 DEF UnlockNested, TypeOK
        <3>2. UNCHANGED <<sharedOwner, unseen>>
            BY <1>10 DEF UnlockNested, clocks
        <3> QED
            BY <2>1, <3>1, <3>2 DEF Writes, Abstract!UnlockWrite
    <2> QED
        BY <2>2 DEF LockMoves
<1>11. CASE FreeExclusive(t)
    <2>1. Abstract!EndSection(t, "write")
        BY <1>3, <1>11 DEF FreeExclusive
    <2>2. Writes[t] = recursion /\ Writes' = [Writes EXCEPT ![t] = @ - 1]
        BY <1>1, <1>11, WritesDrop DEF FreeExclusive, TypeOK
    <2>3. Abstract!UnlockWrite(t)
        BY <1>11, <2>1, <2>2 DEF FreeExclusive, Writes, Abstract!UnlockWrite
    <2> QED
        BY <2>3 DEF LockMoves
<1>12. CASE UnlockOne(t)
    <2>1. IF sharedOwner[t] = 1 THEN Abstract!EndSection(t, "read") ELSE UNCHANGED unseen
        BY <1>4, <1>12 DEF UnlockOne, clocks
    <2>2. Abstract!UnlockRead(t)
        BY <1>1, <1>12, <2>1
        DEF UnlockOne, GiveBackShared, HoldsShared, TypeOK, Abstract!UnlockRead
    <2> QED
        BY <2>2 DEF LockMoves
<1>13. CASE FreeShared(t)
    <2>1. sharedOwner[t] = 1
        BY <1>13, LastReader DEF FreeShared, GiveBackShared, HoldsShared
    <2>2. Abstract!EndSection(t, "read")
        BY <1>4, <1>13 DEF FreeShared
    <2>3. Abstract!UnlockRead(t)
        BY <1>1, <1>13, <2>1, <2>2
        DEF FreeShared, GiveBackShared, HoldsShared, TypeOK, Abstract!UnlockRead
    <2> QED
        BY <2>3 DEF LockMoves
<1> QED
    BY <1>5, <1>6, <1>7, <1>8, <1>9, <1>10, <1>11, <1>12, <1>13, Stutters
    DEF Move, Fail, ParkExclusive, ParkShared, FailSpuriously, clocks, vars

(* The mutex is a lock: every behaviour of it is one of Lock. *)
THEOREM MutexIsLock == Spec => ImplementsLock
<1>1. Init => Abstract!Init
    BY MutexAssumption DEF Init, Abstract!Init
<1>2. MutexInv /\ [Next]_vars => [Abstract!Next]_(Abstract!vars)
    <2> SUFFICES ASSUME MutexInv, [Next]_vars
                 PROVE  [Abstract!Next]_(Abstract!vars)
        OBVIOUS
    <2>1. ASSUME NEW t \in Threads, Step(t)
          PROVE  Abstract!Next \/ UNCHANGED Abstract!vars
        <3>1. Move(t)
            BY <2>1, StepMoves
        <3>2. LockMoves(t) \/ UNCHANGED Abstract!vars
            BY <3>1, MoveImplements
        <3> QED
            BY <3>2 DEF LockMoves, Abstract!Next
    <2>2. CASE UNCHANGED vars
        BY <2>2, Stutters DEF vars, clocks
    <2> QED
        BY <2>1, <2>2 DEF Next
<1> QED
    BY <1>1, <1>2, MutexAlways, PTL DEF Spec, ImplementsLock, Abstract!Spec

(* So the holders of a mutex exclude each other and are ordered after the  *)
(* sections before them: LockSafe holds of the lock that it implements.    *)
THEOREM MutexSafe == Spec => []HoldersSafe
<1>1. Abstract!Exclusion /\ Abstract!Ordered => HoldersSafe
    BY DEF HoldersSafe, Writes, Abstract!Exclusion, Abstract!Ordered
<1> QED
    BY <1>1, MutexIsLock, Abstract!LockSafe, PTL DEF ImplementsLock

-----------------------------------------------------------------------------
(* The mutex of a condition variable. *)

(* What a step of CondVar does to the mutex is one of its operations.      *)
LEMMA CvStepOfMutex ==
    ASSUME [CvNext]_<<vars, cvVars>>
    PROVE  [Next]_vars /\ UNCHANGED kind
<1>1. ASSUME NEW t \in Threads, LockExclusive(t, FALSE)
      PROVE  Step(t) /\ UNCHANGED kind
    BY <1>1 DEF Step, LockExclusive, AttemptExclusive, Fail, RelockExclusive, LoopExclusive,
                TakeExclusive, ParkExclusive
<1>2. ASSUME NEW t \in Threads, TryLockExclusive(t)
      PROVE  Step(t) /\ UNCHANGED kind
    BY <1>2 DEF Step, TryLockExclusive, AttemptExclusive, Fail, RelockExclusive,
                TakeExclusive, FailSpuriously, vars
<1>3. ASSUME NEW t \in Threads, Resume(t)
      PROVE  Step(t) /\ UNCHANGED kind
    BY <1>3 DEF Step, Resume, LoopExclusive, LoopShared, TakeExclusive, ParkExclusive,
                TakeShared, ParkShared
<1>4. ASSUME NEW t \in Threads, UnlockExclusive(t)
      PROVE  Step(t) /\ UNCHANGED kind
    BY <1>4 DEF Step, UnlockExclusive, Fail, UnlockNested, FreeExclusive
<1>5. UNCHANGED vars => UNCHANGED kind
    BY DEF vars
<1>6. (\E t \in Threads : Step(t) /\ UNCHANGED kind) \/ UNCHANGED vars
    BY <1>1, <1>2, <1>3, <1>4
    DEF CvNext, Wait, UnlockAndPark, NotifyOne, NotifyAll, TimesOut, WakesSpuriously,
        WakeFrom, Relock, SetFlag, UseMutex
<1> QED
    BY <1>5, <1>6 DEF Next

(* A condition variable uses its mutex by its operations only: the life of *)
(* that mutex is one that Mutex describes.                                 *)
THEOREM CondVarUsesMutex == CvSpec => Spec
<1>1. CvInit => Init
    BY DEF CvInit
<1>2. [CvNext]_<<vars, cvVars>> => [Next]_vars
    BY CvStepOfMutex
<1> QED
    BY <1>1, <1>2, PTL DEF CvSpec, Spec

-----------------------------------------------------------------------------
(* The invariant. *)

(* The types of what CondVar adds. *)
CvTypes ==
    /\ waitset \subseteq Threads /\ allowed \subseteq waitset
    /\ limit \in Int /\ limit <= SpuriousLimit
    /\ stage \in [Threads -> Stages]
    /\ call \in [Threads -> Calls_] /\ reason \in [Threads -> Reasons]
    /\ flag \in BOOLEAN /\ told \in BOOLEAN

(* The parked threads are those in the waitset, and a wait is in the loop  *)
(* of the lock only when it relocks.                                       *)
StagesAgree ==
    \A t \in Threads :
        /\ t \in waitset <=> stage[t] = "parked"
        /\ stage[t] \in {"leaving", "parked", "woken"} => loop[t] = "none"

(* Who looked at the flag and is about to park holds the mutex, so the     *)
(* flag is still down.                                                     *)
LeavingSafe ==
    Live => \A t \in Threads :
        stage[t] = "leaving" /\ call[t].pred => owner = t /\ ~ flag

(* Once the limit is used up, whoever may still wake up spuriously parked  *)
(* before that; the thread that used it up is not one of them.             *)
LimitBound ==
    limit <= 0 => limit - Cardinality(allowed) >= 1 - Cardinality(Threads)

CvInv ==
    /\ ~ kind.isRw
    /\ CvTypes
    /\ StagesAgree
    /\ LeavingSafe
    /\ LimitBound
    /\ NoMissedNotify

(* How many threads there are. *)
LEMMA ThreadCount ==
    /\ Cardinality(Threads) \in Nat \ {0}
    /\ \A S \in SUBSET Threads :
           IsFiniteSet(S) /\ Cardinality(S) \in Nat /\ Cardinality(S) <= Cardinality(Threads)
<1>1. IsFiniteSet(Threads) /\ Threads # {}
    BY CondVarAssumption
<1>2. Cardinality(Threads) \in Nat /\ Cardinality(Threads) # 0
    BY <1>1, FS_CardinalityType, FS_EmptySet
<1>3. ASSUME NEW S \in SUBSET Threads
      PROVE  IsFiniteSet(S) /\ Cardinality(S) \in Nat /\ Cardinality(S) <= Cardinality(Threads)
    <2>1. IsFiniteSet(S) /\ Cardinality(S) <= Cardinality(Threads)
        BY <1>1, FS_Subset
    <2> QED
        BY <2>1, FS_CardinalityType
<1> QED
    BY <1>2, <1>3

-----------------------------------------------------------------------------
(* What the operations on the mutex leave for CondVar to know. *)

(* lock ends the iteration, or t gets the mutex, or waits for it in the    *)
(* loop; the other threads keep what they hold and where they are.         *)
Locked(t) ==
    /\ \/ result' # "none" /\ loop' = loop
       \/ result' = "none" /\ owner' = t /\ loop'[t] = "none"
       \/ result' = "none" /\ owner \notin {"free", t} /\ loop'[t] # "none"
    /\ owner' \in {owner, t} /\ (owner' # owner => owner = "free")
    /\ \A u \in Threads \ {t} : loop'[u] = loop[u]

(* lock, from its scheduling point. *)
LEMMA LockExclusiveLocks ==
    ASSUME TypeOK, NEW t \in Threads, LockExclusive(t, FALSE)
    PROVE  Locked(t)
<1>1. CASE \E r \in {"mutex_read_to_write_upgrade", "recursion_on_nonrecursive_mutex"} : Fail(r)
    BY <1>1 DEF Fail, holds, waits, Locked
<1>2. CASE RelockExclusive(t) /\ Calls(t)
    BY <1>2 DEF RelockExclusive, waits, Calls, Live, Locked
<1>3. CASE TakeExclusive(t) /\ Calls(t)
    BY <1>3 DEF TakeExclusive, Calls, Live, Locked, TypeOK
<1>4. CASE ParkExclusive(t, "exclusive") /\ Calls(t)
    BY <1>4 DEF ParkExclusive, holds, Calls, Live, Locked, TypeOK
<1> QED
    BY <1>1, <1>2, <1>3, <1>4 DEF LockExclusive, AttemptExclusive, LoopExclusive

(* lock, from where its thread parked. *)
LEMMA ResumeLocks ==
    ASSUME TypeOK, WaitsAgree, ~ kind.isRw, NEW t \in Threads, Resume(t)
    PROVE  Locked(t)
<1>1. loop[t] \in {"exclusive", "timed"} /\ LoopExclusive(t, loop[t]) /\ result = "none"
    BY DEF Resume, WaitsAgree, Live
<1>2. CASE TakeExclusive(t)
    BY <1>1, <1>2 DEF TakeExclusive, Locked, TypeOK
<1>3. CASE ParkExclusive(t, loop[t])
    BY <1>1, <1>3 DEF ParkExclusive, holds, Locked, TypeOK
<1> QED
    BY <1>1, <1>2, <1>3 DEF LoopExclusive

(* unlock ends the iteration, or is the owner's; loops stay as they are.   *)
LEMMA UnlockExclusiveUnlocks ==
    ASSUME NEW t \in Threads, UnlockExclusive(t)
    PROVE  loop' = loop /\ (result' = "none" => owner = t)
<1>1. CASE Fail("unlocking_mutex_wo_ownership")
    BY <1>1 DEF Fail, waits
<1>2. CASE UnlockNested(t) \/ FreeExclusive(t)
    BY <1>2 DEF UnlockNested, FreeExclusive, Wake, waits
<1> QED
    BY <1>1, <1>2 DEF UnlockExclusive

(* Whichever of the operations UseMutex makes, a thread that owns the      *)
(* mutex keeps it while others use it.                                     *)
LEMMA UseMutexFacts ==
    ASSUME TypeOK, WaitsAgree, ~ kind.isRw, NEW t \in Threads, UseMutex(t), result' = "none"
    PROVE  /\ \A u \in Threads \ {t} : loop'[u] = loop[u] /\ (owner = u => owner' = u)
           /\ result = "none"
<1>1. "free" \notin Threads
    BY MutexAssumption
<1>2. CASE LockExclusive(t, FALSE)
    BY <1>1, <1>2, LockExclusiveLocks
    DEF Locked, LockExclusive, AttemptExclusive, Calls, Live
<1>3. CASE Resume(t)
    BY <1>1, <1>3, ResumeLocks DEF Locked, Resume, Live
<1>4. CASE UnlockExclusive(t)
    BY <1>4, UnlockExclusiveUnlocks DEF UnlockExclusive, Calls, Live
<1>5. CASE TryLockExclusive(t)
    <2>1. CASE \E r \in {"mutex_read_to_write_upgrade", "recursion_on_nonrecursive_mutex"} : Fail(r)
        BY <1>5, <2>1 DEF Fail, TryLockExclusive, AttemptExclusive, Calls, Live
    <2>2. CASE RelockExclusive(t)
        BY <1>5, <2>2 DEF RelockExclusive, waits, TryLockExclusive, AttemptExclusive, Calls, Live
    <2>3. CASE TakeExclusive(t)
        BY <1>1, <1>5, <2>3
        DEF TakeExclusive, TypeOK, TryLockExclusive, AttemptExclusive, Calls, Live
    <2>4. CASE FailSpuriously \/ UNCHANGED vars
        BY <1>5, <2>4 DEF FailSpuriously, vars, holds, waits, TryLockExclusive,
                          AttemptExclusive, Calls, Live
    <2> QED
        BY <1>5, <2>1, <2>2, <2>3, <2>4 DEF TryLockExclusive, AttemptExclusive
<1> QED
    BY <1>2, <1>3, <1>4, <1>5 DEF UseMutex

-----------------------------------------------------------------------------
(* Every action keeps the invariant. *)

(* A wait begins. *)
LEMMA WaitKeeps ==
    ASSUME TypeOK, CvInv, NEW t \in Threads, NEW c \in Calls_, Wait(t, c)
    PROVE  CvInv'
<1>1. /\ Live /\ stage[t] = "none" /\ loop[t] = "none"
      /\ c.pred => owner = t /\ ~ flag
      /\ call' = [call EXCEPT ![t] = c] /\ stage' = [stage EXCEPT ![t] = "leaving"]
      /\ UNCHANGED <<kind, owner, loop, result, waitset, limit, allowed, reason, flag, told>>
    BY DEF Wait, Outside, vars, holds, waits
<1>2. CvTypes'
    BY <1>1 DEF CvInv, CvTypes, Stages
<1>3. StagesAgree'
    BY <1>1 DEF CvInv, CvTypes, StagesAgree
<1>4. LeavingSafe'
    BY <1>1 DEF CvInv, CvTypes, LeavingSafe, Live
<1>5. LimitBound' /\ ~ kind'.isRw
    BY <1>1 DEF CvInv, LimitBound
<1>6. NoMissedNotify'
    BY <1>1 DEF CvInv, CvTypes, StagesAgree, NoMissedNotify, Live
<1> QED
    BY <1>2, <1>3, <1>4, <1>5, <1>6 DEF CvInv

(* A wait unlocks the mutex and parks: if it looks for the flag, the flag  *)
(* is down when it parks.                                                  *)
LEMMA UnlockAndParkKeeps ==
    ASSUME TypeOK, CvInv, NEW t \in Threads, UnlockAndPark(t), UNCHANGED kind
    PROVE  CvInv'
<1>1. /\ Live /\ stage[t] = "leaving" /\ t \notin waitset
      /\ loop' = loop /\ (result' = "none" => owner = t)
      /\ UNCHANGED <<limit, call, reason, flag, told>>
    BY UnlockExclusiveUnlocks DEF UnlockAndPark, CvInv, StagesAgree
<1>2. CASE result' = "none"
    <2>1. /\ owner = t
          /\ waitset' = waitset \cup {t} /\ stage' = [stage EXCEPT ![t] = "parked"]
          /\ allowed' = IF limit > 0 THEN allowed \cup {t} ELSE allowed
        BY <1>1, <1>2 DEF UnlockAndPark
    <2>2. CvTypes'
        BY <1>1, <2>1 DEF CvInv, CvTypes, Stages
    <2>3. StagesAgree'
        BY <1>1, <2>1 DEF CvInv, CvTypes, StagesAgree
    <2>4. LeavingSafe'
        BY <1>1, <2>1 DEF CvInv, CvTypes, LeavingSafe
    <2>5. LimitBound'
        BY <1>1, <2>1 DEF CvInv, CvTypes, LimitBound
    <2>6. NoMissedNotify'
        BY <1>1, <2>1 DEF CvInv, LeavingSafe, NoMissedNotify
    <2> QED
        BY <2>2, <2>3, <2>4, <2>5, <2>6 DEF CvInv
<1>3. CASE result' # "none"
    <2>1. UNCHANGED <<waitset, stage, allowed>>
        BY <1>3 DEF UnlockAndPark
    <2>2. CvTypes' /\ StagesAgree' /\ LimitBound' /\ ~ kind'.isRw
        BY <1>1, <2>1 DEF CvInv, CvTypes, StagesAgree, LimitBound
    <2>3. LeavingSafe' /\ NoMissedNotify'
        BY <1>3 DEF LeavingSafe, NoMissedNotify, Live
    <2> QED
        BY <2>2, <2>3 DEF CvInv
<1> QED
    BY <1>2, <1>3

(* Threads of the waitset are unparked. *)
LEMMA WakingKeeps ==
    ASSUME TypeOK, CvInv, NEW T \in SUBSET waitset, NEW r \in Reasons, WakeFrom(T, r),
           \/ limit' = limit
           \/ limit' = limit - 1 /\ \E t \in allowed : T = {t},
           told' = told \/ (told' = TRUE /\ waitset' = {})
    PROVE  CvInv'
<1>1. /\ waitset' = waitset \ T /\ allowed' = allowed \ T
      /\ UNCHANGED <<kind, owner, loop, result, call, flag>>
      /\ stage' = [t \in Threads |-> IF t \in T THEN "woken" ELSE stage[t]]
    BY DEF WakeFrom, vars, holds, waits
<1>2. CvTypes'
    <2>1. reason' \in [Threads -> Reasons]
        BY DEF WakeFrom, CvInv, CvTypes
    <2>2. stage' \in [Threads -> Stages]
        BY <1>1 DEF CvInv, CvTypes, Stages
    <2>3. limit' \in Int /\ limit' <= SpuriousLimit
        BY CondVarAssumption DEF CvInv, CvTypes
    <2>4. waitset' \subseteq Threads /\ allowed' \subseteq waitset'
        BY <1>1 DEF CvInv, CvTypes
    <2> QED
        BY <1>1, <2>1, <2>2, <2>3, <2>4 DEF CvInv, CvTypes
<1>3. StagesAgree'
    BY <1>1 DEF CvInv, CvTypes, StagesAgree
<1>4. LeavingSafe'
    BY <1>1 DEF CvInv, CvTypes, LeavingSafe, Live
<1>5. LimitBound'
    <2>1. allowed \subseteq Threads /\ limit \in Int
        BY DEF CvInv, CvTypes
    <2>2. /\ Cardinality(Threads) \in Nat
          /\ Cardinality(allowed) \in Nat /\ IsFiniteSet(allowed)
          /\ Cardinality(allowed) <= Cardinality(Threads)
        BY <2>1, ThreadCount
    <2>3. CASE limit' = limit
        <3>1. Cardinality(allowed') <= Cardinality(allowed) /\ Cardinality(allowed') \in Nat
            BY <1>1, <2>2, FS_Subset, FS_CardinalityType
        <3> QED
            BY <2>1, <2>2, <2>3, <3>1 DEF CvInv, LimitBound
    <2>4. ASSUME NEW t \in allowed, T = {t}, limit' = limit - 1
          PROVE  LimitBound'
        <3>1. Cardinality(allowed') = Cardinality(allowed) - 1
            BY <1>1, <2>2, <2>4, FS_RemoveElement
        <3>2. CASE limit = 1
            BY <2>1, <2>2, <2>4, <3>1, <3>2 DEF LimitBound
        <3>3. CASE limit # 1
            BY <2>1, <2>2, <2>4, <3>1, <3>3 DEF CvInv, LimitBound
        <3> QED
            BY <3>2, <3>3
    <2> QED
        BY <2>3, <2>4
<1>6. NoMissedNotify'
    BY <1>1 DEF CvInv, NoMissedNotify, Live
<1> QED
    BY <1>1, <1>2, <1>3, <1>4, <1>5, <1>6 DEF CvInv

(* The lock is back or not, after a turn of its loop. *)
LEMMA RelockKeeps ==
    ASSUME TypeOK, CvInv, NEW t \in Threads, Relock(t), Locked(t), UNCHANGED kind
    PROVE  CvInv'
<1> DEFINE next == IF loop'[t] = "none" THEN AfterLock(t) ELSE "relocking"
<1>1. /\ Live /\ stage[t] \in {"woken", "relocking"} /\ t \notin waitset
      /\ stage' = [stage EXCEPT ![t] = next]
      /\ call' = IF next = "none" THEN [call EXCEPT ![t] = NoCall] ELSE call
      /\ reason' = IF next = "relocking" THEN reason ELSE [reason EXCEPT ![t] = "normal"]
      /\ UNCHANGED <<waitset, limit, allowed, flag, told>>
    BY DEF Relock, Returns, CvInv, StagesAgree
<1>2. /\ next \in {"none", "leaving", "relocking"}
      /\ loop'[t] = "none" <=> next # "relocking"
      /\ next = "leaving" => ~ flag
    BY DEF AfterLock
<1>3. \A u \in Threads : call'[u].pred => call[u].pred
    BY <1>1 DEF CvInv, CvTypes, NoCall
<1> HIDE DEF next
<1>4. CvTypes'
    BY <1>1, <1>2 DEF CvInv, CvTypes, Stages, Reasons, NoCall, Calls_
<1>5. StagesAgree'
    BY <1>1, <1>2 DEF CvInv, CvTypes, StagesAgree, Locked
<1>6. LeavingSafe'
    <2> SUFFICES ASSUME NEW u \in Threads, stage'[u] = "leaving", call'[u].pred, Live'
                 PROVE  owner' = u /\ ~ flag'
        BY DEF LeavingSafe
    <2>1. result' = "none"
        BY DEF Live
    <2>2. CASE u = t
        BY <1>1, <1>2, <2>1, <2>2 DEF Locked, CvInv, CvTypes
    <2>3. CASE u # t
        <3>1. owner = u /\ ~ flag
            BY <1>1, <1>3, <2>3 DEF CvInv, CvTypes, LeavingSafe
        <3>2. owner # "free"
            BY <3>1, MutexAssumption
        <3> QED
            BY <1>1, <3>1, <3>2 DEF Locked
    <2> QED
        BY <2>2, <2>3
<1>7. LimitBound' /\ ~ kind'.isRw
    BY <1>1 DEF CvInv, LimitBound
<1>8. NoMissedNotify'
    BY <1>1, <1>3 DEF CvInv, CvTypes, NoMissedNotify
<1> QED
    BY <1>4, <1>5, <1>6, <1>7, <1>8 DEF CvInv

(* The holder of the mutex changes the flag: nobody else is about to park. *)
LEMMA SetFlagKeeps ==
    ASSUME TypeOK, CvInv, NEW t \in Threads, NEW b \in BOOLEAN, SetFlag(t, b)
    PROVE  CvInv'
<1>1. /\ Live /\ stage[t] = "none" /\ owner = t /\ flag' = b /\ told' = FALSE
      /\ UNCHANGED <<kind, owner, loop, result, waitset, limit, allowed, stage, call, reason>>
    BY DEF SetFlag, Outside, vars, holds, waits
<1>2. CvTypes' /\ StagesAgree' /\ LimitBound' /\ ~ kind'.isRw
    BY <1>1 DEF CvInv, CvTypes, StagesAgree, LimitBound
<1>3. LeavingSafe' /\ NoMissedNotify'
    BY <1>1 DEF CvInv, LeavingSafe, NoMissedNotify, Live
<1> QED
    BY <1>2, <1>3 DEF CvInv

(* A thread that is not in a wait uses the mutex. *)
LEMMA UseMutexKeeps ==
    ASSUME TypeOK, WaitsAgree, CvInv, NEW t \in Threads, UseMutex(t), UNCHANGED kind
    PROVE  CvInv'
<1>1. stage[t] = "none" /\ UNCHANGED <<waitset, limit, allowed, stage, call, reason, flag, told>>
    BY DEF UseMutex, cvVars
<1>2. CvTypes' /\ LimitBound' /\ ~ kind'.isRw
    BY <1>1 DEF CvInv, CvTypes, LimitBound
<1>3. \A u \in Threads \ {t} : loop'[u] = loop[u]
    <2>1. CASE LockExclusive(t, FALSE) \/ Resume(t)
        BY <2>1, LockExclusiveLocks, ResumeLocks DEF Locked, CvInv
    <2>2. CASE UnlockExclusive(t)
        BY <2>2, UnlockExclusiveUnlocks
    <2>3. CASE TryLockExclusive(t)
        BY <2>3 DEF TryLockExclusive, AttemptExclusive, Fail, RelockExclusive, TakeExclusive,
                    FailSpuriously, vars, waits, TypeOK
    <2> QED
        BY <2>1, <2>2, <2>3 DEF UseMutex
<1>4. StagesAgree'
    BY <1>1, <1>3 DEF CvInv, StagesAgree
<1>5. LeavingSafe'
    <2> SUFFICES ASSUME NEW u \in Threads, stage'[u] = "leaving", call'[u].pred, Live'
                 PROVE  owner' = u /\ ~ flag'
        BY DEF LeavingSafe
    <2>1. u # t /\ stage[u] = "leaving" /\ call[u].pred
        BY <1>1
    <2>2. result = "none" /\ (owner = u => owner' = u)
        BY <2>1, UseMutexFacts DEF Live, CvInv
    <2> QED
        BY <1>1, <2>1, <2>2 DEF CvInv, LeavingSafe, Live
<1>6. NoMissedNotify'
    <2>1. Live' => Live
        BY UseMutexFacts DEF Live, CvInv
    <2> QED
        BY <1>1, <2>1 DEF CvInv, NoMissedNotify
<1> QED
    BY <1>2, <1>4, <1>5, <1>6 DEF CvInv

(* CvInv is inductive, given what is known of the mutex. *)
LEMMA CvStep == MutexInv /\ CvInv /\ [CvNext]_<<vars, cvVars>> => CvInv'
<1> SUFFICES ASSUME MutexInv, CvInv, [CvNext]_<<vars, cvVars>>
             PROVE  CvInv'
    OBVIOUS
<1>1. TypeOK /\ WaitsAgree /\ UNCHANGED kind
    BY CvStepOfMutex DEF MutexInv
<1>2. CASE UNCHANGED <<vars, cvVars>>
    BY <1>2 DEF vars, cvVars, holds, waits, CvInv, CvTypes, StagesAgree, LeavingSafe,
                LimitBound, NoMissedNotify, Live
<1>3. ASSUME NEW t \in Threads, NEW c \in Calls_, Wait(t, c)
      PROVE  CvInv'
    BY <1>1, <1>3, WaitKeeps
<1>4. ASSUME NEW t \in Threads, UnlockAndPark(t)
      PROVE  CvInv'
    BY <1>1, <1>4, UnlockAndParkKeeps
<1>5. ASSUME NEW t \in Threads, NotifyOne(t)
      PROVE  CvInv'
    <2>1. CASE waitset = {} /\ UNCHANGED <<vars, cvVars>>
        BY <1>2, <2>1
    <2>2. ASSUME NEW u \in waitset, WakeFrom({u}, "normal"), UNCHANGED <<limit, told>>
          PROVE  CvInv'
        <3>1. {u} \in SUBSET waitset /\ "normal" \in Reasons
            BY DEF Reasons
        <3> QED
            BY <1>1, <2>2, <3>1, WakingKeeps
    <2> QED
        BY <1>5, <2>1, <2>2 DEF NotifyOne
<1>6. ASSUME NEW t \in Threads, NotifyAll(t)
      PROVE  CvInv'
    <2>1. waitset' = {} /\ "normal" \in Reasons /\ waitset \in SUBSET waitset
        BY <1>6 DEF NotifyAll, WakeFrom, Reasons
    <2> QED
        BY <1>1, <1>6, <2>1, WakingKeeps DEF NotifyAll
<1>7. ASSUME NEW t \in Threads, TimesOut(t)
      PROVE  CvInv'
    <2>1. {t} \in SUBSET waitset /\ "timeout" \in Reasons
        BY <1>7 DEF TimesOut, Reasons
    <2> QED
        BY <1>1, <1>7, <2>1, WakingKeeps DEF TimesOut
<1>8. ASSUME NEW t \in Threads, WakesSpuriously(t)
      PROVE  CvInv'
    <2>1. {t} \in SUBSET waitset /\ "spurious" \in Reasons
        BY <1>8 DEF WakesSpuriously, Reasons, CvInv, CvTypes
    <2> QED
        BY <1>1, <1>8, <2>1, WakingKeeps DEF WakesSpuriously
<1>9. ASSUME NEW t \in Threads, Relock(t)
      PROVE  CvInv'
    <2>1. Locked(t)
        BY <1>1, <1>9, LockExclusiveLocks, ResumeLocks DEF Relock, CvInv
    <2> QED
        BY <1>1, <1>9, <2>1, RelockKeeps
<1>10. ASSUME NEW t \in Threads, NEW b \in BOOLEAN, SetFlag(t, b)
       PROVE  CvInv'
    BY <1>1, <1>10, SetFlagKeeps
<1>11. ASSUME NEW t \in Threads, UseMutex(t)
       PROVE  CvInv'
    BY <1>1, <1>11, UseMutexKeeps
<1> QED
    BY <1>2, <1>3, <1>4, <1>5, <1>6, <1>7, <1>8, <1>9, <1>10, <1>11 DEF CvNext

(* It holds of a new condition variable. *)
LEMMA CvInitial == CvInit => CvInv
<1> SUFFICES ASSUME CvInit
             PROVE  CvInv
    OBVIOUS
<1>1. CvTypes
    <2>1. NoCall \in Calls_
        BY DEF NoCall, Calls_
    <2>2. limit \in Int /\ limit <= SpuriousLimit
        BY CondVarAssumption DEF CvInit
    <2>3. stage \in [Threads -> Stages] /\ reason \in [Threads -> Reasons]
        BY DEF CvInit, Stages, Reasons
    <2> QED
        BY <2>1, <2>2, <2>3 DEF CvInit, CvTypes
<1>2. LimitBound
    <2>1. limit \in Nat /\ Cardinality(allowed) = 0 /\ Cardinality(Threads) \in Nat \ {0}
        BY CondVarAssumption, ThreadCount, FS_EmptySet DEF CvInit
    <2> QED
        BY <2>1 DEF LimitBound
<1> QED
    BY <1>1, <1>2 DEF CvInit, CvInv, StagesAgree, LeavingSafe, NoMissedNotify

(* Both invariants hold at all times. *)
LEMMA CvAlways == CvSpec => [](MutexInv /\ CvInv)
<1>1. CvSpec => []MutexInv
    BY CondVarUsesMutex, MutexAlways, PTL
<1> QED
    BY <1>1, CvInitial, CvStep, PTL DEF CvSpec

-----------------------------------------------------------------------------
(* The theorems. *)

(* The fields of the condition variable keep their types, and its limit is *)
(* overdrawn by less than the number of the threads.                       *)
THEOREM CvTypesCorrect == CvSpec => []CvTypeOK
<1>1. MutexInv /\ CvInv => CvTypeOK
    <2> SUFFICES ASSUME MutexInv, CvInv
                 PROVE  CvTypeOK
        OBVIOUS
    <2>1. TypeOK /\ CvTypes /\ StagesAgree
        BY DEF MutexInv, CvInv
    <2>2. limit \in 1 - Cardinality(Threads) .. SpuriousLimit
        <3>1. allowed \subseteq Threads /\ limit \in Int /\ limit <= SpuriousLimit
              /\ SpuriousLimit \in Int
            BY <2>1, CondVarAssumption DEF CvTypes
        <3>2. Cardinality(allowed) \in Nat /\ Cardinality(Threads) \in Nat \ {0}
            BY <3>1, ThreadCount
        <3>3. 1 - Cardinality(Threads) <= limit
            BY <3>1, <3>2 DEF CvInv, LimitBound
        <3> QED
            BY <3>1, <3>2, <3>3
    <2> QED
        BY <2>1, <2>2 DEF CvTypeOK, CvTypes, StagesAgree
<1> QED
    BY <1>1, CvAlways, PTL

(* No notification is missed. *)
THEOREM NotificationsArrive == CvSpec => []NoMissedNotify
<1>1. MutexInv /\ CvInv => NoMissedNotify
    BY DEF CvInv
<1> QED
    BY <1>1, CvAlways, PTL

(* Who returns from a wait holds the mutex, and what it waited for with a  *)
(* predicate holds.                                                        *)
THEOREM WaitsReturnHolding == CvSpec => ReturnsHolding
<1> DEFINE Holding ==
        \A t \in Threads :
            stage[t] \in {"woken", "relocking"} /\ stage'[t] \in {"none", "leaving"}
            /\ result' = "none" =>
                /\ owner' = t
                /\ call[t].pred /\ stage'[t] = "none" /\ reason[t] # "timeout" => flag'
<1>1. MutexInv /\ CvInv /\ [CvNext]_<<vars, cvVars>> => [Holding]_<<vars, cvVars>>
    <2> SUFFICES ASSUME MutexInv, CvInv, CvNext,
                        NEW t \in Threads,
                        stage[t] \in {"woken", "relocking"},
                        stage'[t] \in {"none", "leaving"}, result' = "none"
                 PROVE  /\ owner' = t
                        /\ call[t].pred /\ stage'[t] = "none" /\ reason[t] # "timeout" => flag'
        OBVIOUS
    <2>1. stage \in [Threads -> Stages]
        BY DEF CvInv, CvTypes
    <2>2. PICK u \in Threads : Relock(u) \/ UnlockAndPark(u) \/ \E c \in Calls_ : Wait(u, c)
        BY <2>1 DEF CvNext, NotifyOne, NotifyAll, TimesOut, WakesSpuriously, WakeFrom, SetFlag,
                    UseMutex, cvVars
    <2>3. u = t /\ Relock(t)
        BY <2>1, <2>2 DEF Relock, Returns, UnlockAndPark, Wait, Outside
    <2>4. Locked(t)
        BY <2>3, LockExclusiveLocks, ResumeLocks DEF Relock, MutexInv, CvInv
    <2>5. stage'[t] = IF loop'[t] = "none" THEN AfterLock(t) ELSE "relocking"
        BY <2>1, <2>3 DEF Relock, Returns
    <2>6. loop'[t] = "none" /\ stage'[t] = AfterLock(t) /\ flag' = flag
        BY <2>3, <2>5 DEF Relock, Returns
    <2>7. owner' = t
        BY <2>4, <2>6 DEF Locked
    <2> QED
        BY <2>6, <2>7 DEF AfterLock
<1> QED
    BY <1>1, CvAlways, PTL DEF CvSpec, ReturnsHolding
=============================================================================
