------------------------------- MODULE Mutex -------------------------------
(***************************************************************************)
(* The mutex of the simulated programs: generic_mutex_data_impl of         *)
(* stdlib/mutex.hpp, behind std::mutex, the pthread mutex and rwlock, the  *)
(* Windows critical section, SRW lock and mutex handle.  One behaviour is  *)
(* the life of one mutex.  Each operation passes a scheduling point and    *)
(* then runs to its end or to the point where its thread parks; a step is  *)
(* one such run.  Any thread that is not parked may make the next step.    *)
(*                                                                         *)
(* The clocks are abstracted to what the lock is responsible for: of which *)
(* ended sections a thread, or sync_, does not know the latest end.        *)
(***************************************************************************)
EXTENDS Naturals, FiniteSets

CONSTANTS
    Threads,    \* the threads of the test
    MaxDepth    \* how deep a recursive mutex is locked

ASSUME MutexAssumption ==
    /\ {"free", "shared"} \cap Threads = {}
    /\ MaxDepth \in Nat \ {0}

VARIABLES
    kind,               \* the arguments of the constructor, and the facade
    owner,              \* exclusive_owner_: "free", "shared" or a thread
    recursion,          \* exclusive_recursion_count_
    sharedOwner,        \* shared_owner_
    sharedCount,        \* shared_lock_count_
    tryLockFailed,      \* try_lock_failed_
    exclusiveWaitset,   \* the threads in exclusive_waitset_
    sharedWaitset,      \* the threads in shared_waitset_
    loop,               \* the loop of lock_exclusive or lock_shared a thread is in
    unseen,             \* acq_rel_order_ of each thread, abstracted
    syncUnseen,         \* sync_, abstracted
    result              \* "none" while the iteration goes on and the mutex lives

holds == <<owner, recursion, sharedOwner, sharedCount>>
waits == <<exclusiveWaitset, sharedWaitset, loop>>
clocks == <<unseen, syncUnseen>>
vars == <<kind, tryLockFailed, result, holds, waits, clocks>>

Kind(isRw, exclusiveRecursive, sharedRecursive, failingTryLock, timed) ==
    [isRw |-> isRw, exclusiveRecursive |-> exclusiveRecursive,
     sharedRecursive |-> sharedRecursive, failingTryLock |-> failingTryLock,
     timed |-> timed]

(* How the facades construct their mutex, and whether they lock with a     *)
(* timeout.                                                                *)
StdMutexes == {Kind(FALSE, recursive, FALSE, TRUE, FALSE) : recursive \in BOOLEAN}
PthreadMutexes == {Kind(FALSE, recursive, FALSE, FALSE, TRUE) : recursive \in BOOLEAN}
PthreadRwlock == Kind(TRUE, FALSE, TRUE, FALSE, FALSE)
CriticalSection == Kind(FALSE, TRUE, FALSE, FALSE, FALSE)
SRWLock == Kind(TRUE, FALSE, FALSE, FALSE, FALSE)
WinMutex == Kind(FALSE, TRUE, FALSE, FALSE, TRUE)

Facades == StdMutexes \cup PthreadMutexes
           \cup {PthreadRwlock, CriticalSection, SRWLock, WinMutex}

-----------------------------------------------------------------------------
(* sync_ *)

(* sync_var::acquire *)
Acquire(t) ==
    /\ unseen' = [unseen EXCEPT ![t] = @ \cap syncUnseen]
    /\ UNCHANGED syncUnseen

(* Mutant of EndSection: the last section is not released. *)
EndSectionNoRelease(t, mode) ==
    /\ unseen' = [u \in Threads |->
                     IF u = t THEN unseen[u] ELSE unseen[u] \cup {<<t, mode>>}]
    /\ syncUnseen' = syncUnseen \cup {<<t, mode>>}

(* A section of t ends with sync_var::release: sync_ learns of the end and *)
(* of what t knows, the other threads have not seen it.                    *)
EndSection(t, mode) ==
    /\ unseen' = [u \in Threads |->
                     IF u = t THEN unseen[u] ELSE unseen[u] \cup {<<t, mode>>}]
    /\ syncUnseen' = (syncUnseen \cup {<<t, mode>>}) \cap unseen'[t]

-----------------------------------------------------------------------------
(* Parts of the operations. *)

Live == result = "none"

(* t may call an operation: it is not in one. *)
Calls(t) == Live /\ loop[t] = "none"

(* A failed RL_ASSERT_IMPL ends the iteration. *)
Fail(r) ==
    /\ result' = r
    /\ UNCHANGED <<kind, tryLockFailed, holds, waits, clocks>>

HoldsShared(t) == owner = "shared" /\ sharedOwner[t] > 0

(* t takes a free mutex and leaves the loop. *)
TakeExclusive(t) ==
    /\ owner = "free"
    /\ Acquire(t)
    /\ owner' = t
    /\ recursion' = 1
    /\ loop' = [loop EXCEPT ![t] = "none"]
    /\ UNCHANGED <<kind, tryLockFailed, result, sharedOwner, sharedCount,
                   exclusiveWaitset, sharedWaitset>>

(* Mutant of Admits: readers pass the writers that wait. *)
AdmitsAnyReader == owner \in {"free", "shared"}

(* Readers get in while there are only readers and no writer waits. *)
Admits == owner = "free" \/ (owner = "shared" /\ exclusiveWaitset = {})

(* Mutant of TakeShared: a reader is not ordered after the writers. *)
TakeSharedNoAcquire(t) ==
    /\ Admits
    /\ sharedOwner' = [sharedOwner EXCEPT ![t] = @ + 1]
    /\ sharedCount' = sharedCount + 1
    /\ owner' = "shared"
    /\ loop' = [loop EXCEPT ![t] = "none"]
    /\ UNCHANGED <<kind, tryLockFailed, result, recursion,
                   exclusiveWaitset, sharedWaitset, clocks>>

(* t joins the readers and leaves the loop. *)
TakeShared(t) ==
    /\ Admits
    /\ Acquire(t)
    /\ sharedOwner' = [sharedOwner EXCEPT ![t] = @ + 1]
    /\ sharedCount' = sharedCount + 1
    /\ owner' = "shared"
    /\ loop' = [loop EXCEPT ![t] = "none"]
    /\ UNCHANGED <<kind, tryLockFailed, result, recursion,
                   exclusiveWaitset, sharedWaitset>>

(* waitset::park_current in the two loops; how says whether it is timed.   *)
ParkExclusive(t, how) ==
    /\ owner \notin {"free", t}
    /\ exclusiveWaitset' = exclusiveWaitset \cup {t}
    /\ loop' = [loop EXCEPT ![t] = how]
    /\ UNCHANGED <<kind, tryLockFailed, result, holds, sharedWaitset, clocks>>

ParkShared(t) ==
    /\ ~ Admits
    /\ owner # t
    /\ sharedWaitset' = sharedWaitset \cup {t}
    /\ loop' = [loop EXCEPT ![t] = "shared"]
    /\ UNCHANGED <<kind, tryLockFailed, result, holds, exclusiveWaitset, clocks>>

(* One turn of the loops of lock_exclusive and lock_shared. *)
LoopExclusive(t, how) == TakeExclusive(t) \/ ParkExclusive(t, how)
LoopShared(t) == TakeShared(t) \/ ParkShared(t)

(* The owner locks again. *)
RelockExclusive(t) ==
    /\ owner = t /\ kind.exclusiveRecursive
    /\ recursion < MaxDepth
    /\ recursion' = recursion + 1
    /\ UNCHANGED <<kind, tryLockFailed, result, owner, sharedOwner, sharedCount,
                   waits, clocks>>

(* A reader locks shared again. *)
RelockShared(t) ==
    /\ HoldsShared(t) /\ kind.sharedRecursive
    /\ sharedOwner[t] < MaxDepth
    /\ sharedOwner' = [sharedOwner EXCEPT ![t] = @ + 1]
    /\ sharedCount' = sharedCount + 1
    /\ UNCHANGED <<kind, tryLockFailed, result, owner, recursion, waits, clocks>>

(* The checks before an attempt to lock, and the attempt. *)
AttemptExclusive(t, attempt) ==
    /\ Calls(t)
    /\ \/ HoldsShared(t) /\ Fail("mutex_read_to_write_upgrade")
       \/ RelockExclusive(t)
       \/ /\ owner = t /\ ~ kind.exclusiveRecursive
          /\ Fail("recursion_on_nonrecursive_mutex")
       \/ ~ HoldsShared(t) /\ owner # t /\ attempt

AttemptShared(t, attempt) ==
    /\ Calls(t)
    /\ kind.isRw
    /\ \/ owner = t /\ Fail("mutex_write_to_read_upgrade")
       \/ RelockShared(t)
       \/ /\ HoldsShared(t) /\ ~ kind.sharedRecursive
          /\ Fail("recursion_on_nonrecursive_mutex")
       \/ ~ HoldsShared(t) /\ owner # t /\ attempt

(* try_lock of a mutex that is free fails once if the draw says so. *)
FailSpuriously ==
    /\ kind.failingTryLock /\ ~ tryLockFailed
    /\ tryLockFailed' = TRUE
    /\ UNCHANGED <<kind, result, holds, waits, clocks>>

(* waitset::unpark_one of the writers takes whichever the draw says.       *)
WakeWriter ==
    \/ \E u \in exclusiveWaitset : exclusiveWaitset' = exclusiveWaitset \ {u}
    \/ exclusiveWaitset = {} /\ UNCHANGED exclusiveWaitset

(* Mutant of Wake: the readers stay parked. *)
WakeNoReaders == WakeWriter /\ UNCHANGED <<sharedWaitset, loop>>

(* A writer is unparked or, if none is parked, all the readers. *)
Wake ==
    /\ WakeWriter
    /\ sharedWaitset' = IF exclusiveWaitset = {} THEN {} ELSE sharedWaitset
    /\ UNCHANGED loop

(* The owner gives back a recursive lock. *)
UnlockNested(t) ==
    /\ owner = t /\ recursion > 1
    /\ recursion' = recursion - 1
    /\ UNCHANGED <<kind, tryLockFailed, result, owner, sharedOwner, sharedCount,
                   waits, clocks>>

(* The owner frees the mutex. *)
FreeExclusive(t) ==
    /\ owner = t /\ recursion = 1
    /\ recursion' = 0
    /\ EndSection(t, "write")
    /\ owner' = "free"
    /\ Wake
    /\ UNCHANGED <<kind, tryLockFailed, result, sharedOwner, sharedCount>>

GiveBackShared(t) ==
    /\ HoldsShared(t)
    /\ sharedOwner' = [sharedOwner EXCEPT ![t] = @ - 1]
    /\ sharedCount' = sharedCount - 1
    /\ UNCHANGED <<kind, tryLockFailed, result, recursion, sharedWaitset, loop>>

(* Mutant of FreeShared: a reader that leaves frees the mutex. *)
FreeSharedEarly(t) ==
    /\ GiveBackShared(t)
    /\ sharedOwner[t] = 1
    /\ EndSection(t, "read")
    /\ owner' = "free"
    /\ WakeWriter

(* A shared hold is given back and others remain; with its last one a      *)
(* reader ends its section.                                                *)
UnlockOne(t) ==
    /\ GiveBackShared(t)
    /\ sharedCount # 1
    /\ IF sharedOwner[t] = 1 THEN EndSection(t, "read") ELSE UNCHANGED clocks
    /\ UNCHANGED <<owner, exclusiveWaitset>>

(* The last shared hold frees the mutex and wakes a writer. *)
FreeShared(t) ==
    /\ GiveBackShared(t)
    /\ sharedCount = 1
    /\ EndSection(t, "read")
    /\ owner' = "free"
    /\ WakeWriter

-----------------------------------------------------------------------------
(* The operations. *)

LockExclusive(t, isTimed) ==
    /\ isTimed => kind.timed
    /\ AttemptExclusive(t, LoopExclusive(t, IF isTimed THEN "timed" ELSE "exclusive"))

(* A failed attempt acquires nothing. *)
TryLockExclusive(t) ==
    AttemptExclusive(t, \/ TakeExclusive(t)
                        \/ owner = "free" /\ FailSpuriously
                        \/ owner # "free" /\ UNCHANGED vars)

LockShared(t) == AttemptShared(t, LoopShared(t))

TryLockShared(t) ==
    AttemptShared(t, \/ TakeShared(t)
                     \/ Admits /\ FailSpuriously
                     \/ ~ Admits /\ UNCHANGED vars)

(* An unparked thread goes on in its loop. *)
Resume(t) ==
    /\ Live
    /\ t \notin exclusiveWaitset \cup sharedWaitset
    /\ \/ loop[t] \in {"exclusive", "timed"} /\ LoopExclusive(t, loop[t])
       \/ loop[t] = "shared" /\ LoopShared(t)

(* The wait of lock_exclusive times out. *)
Timeout(t) ==
    /\ Live
    /\ loop[t] = "timed" /\ t \in exclusiveWaitset
    /\ exclusiveWaitset' = exclusiveWaitset \ {t}
    /\ loop' = [loop EXCEPT ![t] = "none"]
    /\ Acquire(t)
    /\ UNCHANGED <<kind, tryLockFailed, result, holds, sharedWaitset>>

UnlockExclusive(t) ==
    /\ Calls(t)
    /\ \/ owner # t /\ Fail("unlocking_mutex_wo_ownership")
       \/ UnlockNested(t)
       \/ FreeExclusive(t)

UnlockShared(t) ==
    /\ Calls(t)
    /\ kind.isRw
    /\ \/ ~ HoldsShared(t) /\ Fail("unlocking_mutex_wo_ownership")
       \/ UnlockOne(t)
       \/ FreeShared(t)

UnlockExclusiveOrShared(t) ==
    IF owner = t THEN UnlockExclusive(t) ELSE UnlockShared(t)

(* The destructor, run by a thread that is not in an operation. *)
Destroy(t) ==
    /\ Calls(t)
    /\ Fail(IF owner = "free" /\ exclusiveWaitset = {} /\ sharedWaitset = {}
            THEN "destroyed" ELSE "destroying_owned_mutex")

Init ==
    /\ kind \in Facades
    /\ owner = "free" /\ recursion = 0
    /\ sharedOwner = [t \in Threads |-> 0] /\ sharedCount = 0
    /\ tryLockFailed = FALSE
    /\ exclusiveWaitset = {} /\ sharedWaitset = {}
    /\ loop = [t \in Threads |-> "none"]
    /\ unseen = [t \in Threads |-> {}] /\ syncUnseen = {}
    /\ result = "none"

Step(t) ==
    \/ \E isTimed \in BOOLEAN : LockExclusive(t, isTimed)
    \/ TryLockExclusive(t)
    \/ LockShared(t)
    \/ TryLockShared(t)
    \/ Resume(t)
    \/ Timeout(t)
    \/ UnlockExclusive(t)
    \/ UnlockShared(t)
    \/ UnlockExclusiveOrShared(t)
    \/ Destroy(t)

Next == \E t \in Threads : Step(t)

Spec == Init /\ [][Next]_vars

(* Every reader gives its holds back and does not lock again for ever      *)
(* before the last of them.                                                *)
Leave(t) == HoldsShared(t) /\ UnlockShared(t)
LeaveLast(t) == sharedOwner[t] = 1 /\ Leave(t)

FairSpec == Spec /\ \A t \in Threads : WF_vars(Leave(t)) /\ SF_vars(LeaveLast(t))

-----------------------------------------------------------------------------
(* Properties. *)

Modes == {"write", "read"}

Results == {"none", "destroyed", "destroying_owned_mutex",
            "unlocking_mutex_wo_ownership", "recursion_on_nonrecursive_mutex",
            "mutex_read_to_write_upgrade", "mutex_write_to_read_upgrade"}

(* Type invariant. *)
TypeOK ==
    /\ kind \in Facades
    /\ owner \in Threads \cup {"free", "shared"}
    /\ recursion \in Nat
    /\ sharedOwner \in [Threads -> Nat]
    /\ sharedCount \in Nat
    /\ tryLockFailed \in BOOLEAN
    /\ exclusiveWaitset \subseteq Threads /\ sharedWaitset \subseteq Threads
    /\ loop \in [Threads -> {"none", "exclusive", "timed", "shared"}]
    /\ unseen \in [Threads -> SUBSET (Threads \X Modes)]
    /\ syncUnseen \subseteq Threads \X Modes
    /\ result \in Results

(* Each hold of each reader. *)
SharedHolds == UNION {{t} \X (1 .. sharedOwner[t]) : t \in Threads}

(* The four fields that say who holds the mutex agree, as the RL_VERIFYs   *)
(* of mutex.hpp want: shared_lock_count_ is the sum of shared_owner_, the  *)
(* owner is state_shared while it is not 0, a thread while                 *)
(* exclusive_recursion_count_ is not 0, and state_free otherwise.          *)
CountsAgree ==
    /\ Cardinality(SharedHolds) = sharedCount
    /\ owner = "shared" <=> sharedCount > 0
    /\ owner \in Threads <=> recursion > 0

WokenWriters ==
    {t \in Threads : loop[t] \in {"exclusive", "timed"} /\ t \notin exclusiveWaitset}

(* No wake-up is lost: writers are parked at a free mutex only if another  *)
(* one has been woken and will look at it; readers are parked only while a *)
(* writer owns the mutex, is parked or has been woken.  (unlock_shared     *)
(* never wakes readers, and barging threads may take the mutex before the  *)
(* woken one.)                                                             *)
NoLostWakeup ==
    /\ exclusiveWaitset # {} /\ owner = "free" => WokenWriters # {}
    /\ sharedWaitset # {} =>
           owner \in Threads \/ exclusiveWaitset # {} \/ WokenWriters # {}

(* Readers make way for a parked writer: as long as each of them leaves    *)
(* some day, the mutex does not stay shared, however many readers arrive.  *)
(* That is all the check of exclusive_waitset_ gives a writer.  Once it    *)
(* has been unparked, it is in no waitset, newcomers of either kind may    *)
(* take the mutex before it runs, and it may park again, any number of     *)
(* times.                                                                  *)
ReadersMakeWay ==
    exclusiveWaitset # {} /\ owner = "shared" ~> owner # "shared" \/ ~ Live

(* What Lock calls writes is in exclusive_owner_ and the recursion count.  *)
Abstract == INSTANCE Lock WITH
    writes <- [t \in Threads |-> IF owner = t THEN recursion ELSE 0],
    reads <- sharedOwner

(* Whoever holds the mutex exclusively is alone with it, and a holder is   *)
(* ordered after the sections it must come after: no race is reported on   *)
(* what the mutex protects.                                                *)
HoldersSafe == Abstract!Exclusion /\ Abstract!Ordered

(* The mutex is a lock: its operations keep the exclusion and order the    *)
(* sections that Lock promises, whoever waits, is woken, barges in, times  *)
(* out or fails spuriously.                                                *)
ImplementsLock == Abstract!Spec
=============================================================================
