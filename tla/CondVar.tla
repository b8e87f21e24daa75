------------------------------ MODULE CondVar ------------------------------
(***************************************************************************)
(* Condition variables (stdlib/condition_variable.hpp) behind              *)
(* std::condition_variable, pthread_cond_t and CONDITION_VARIABLE, over    *)
(* the mutex of Mutex.tla.  A wait unlocks the mutex and parks without a   *)
(* scheduling point in between; once it is unparked it locks the mutex     *)
(* with the scheduling points of any lock, so that others may get in       *)
(* first.                                                                  *)
(*                                                                         *)
(* The program that waits is the usual one: a flag is guarded by the       *)
(* mutex, and some threads wait until it is set.                           *)
(***************************************************************************)
EXTENDS Mutex, Integers

CONSTANT SpuriousLimit  \* spurious_wakeup_limit_ at the beginning, 10

(* A test has at least one thread and is compiled for their number. *)
ASSUME CondVarAssumption ==
    /\ SpuriousLimit \in Nat
    /\ IsFiniteSet(Threads) /\ Threads # {}

VARIABLES
    waitset,    \* ws_ of the condition variable
    limit,      \* spurious_wakeup_limit_; 0 unless the search is random
    allowed,    \* the threads that parked while it was positive
    stage,      \* where a thread is in wait
    call,       \* the arguments of its wait: the predicate, the timeout
    reason,     \* why it was unparked
    flag,       \* the flag: ready, or not
    told        \* notify_all was called since the flag was last set

cvVars == <<waitset, limit, allowed, stage, call, reason, flag, told>>

Calls_ == [pred : BOOLEAN, timed : BOOLEAN]
NoCall == [pred |-> FALSE, timed |-> FALSE]
Stages == {"none", "leaving", "parked", "woken", "relocking"}
Reasons == {"normal", "timeout", "spurious"}

(* t is outside of a wait and may call something. *)
Outside(t) == Live /\ stage[t] = "none" /\ loop[t] = "none"

(* wait is called.  With a predicate, the loop looks at it first, and the  *)
(* caller holds the mutex.                                                 *)
Wait(t, c) ==
    /\ Outside(t)
    /\ c.pred => owner = t
    /\ ~ (c.pred /\ flag)
    /\ call' = [call EXCEPT ![t] = c]
    /\ stage' = [stage EXCEPT ![t] = "leaving"]
    /\ UNCHANGED <<vars, waitset, limit, allowed, reason, flag, told>>

(* lock.unlock, and park_current with no scheduling point in between. *)
UnlockAndPark(t) ==
    /\ Live /\ stage[t] = "leaving"
    /\ UnlockExclusive(t)
    /\ IF result' = "none"
       THEN /\ waitset' = waitset \cup {t}
            /\ stage' = [stage EXCEPT ![t] = "parked"]
            /\ allowed' = IF limit > 0 THEN allowed \cup {t} ELSE allowed
       ELSE UNCHANGED <<waitset, stage, allowed>>
    /\ UNCHANGED <<limit, call, reason, flag, told>>

(* Mutant of WakeFrom: who is unparked stays in the waitset. *)
WakeFromKeeps(T, r) ==
    /\ waitset' = waitset
    /\ stage' = [t \in Threads |-> IF t \in T THEN "woken" ELSE stage[t]]
    /\ reason' = [t \in Threads |-> IF t \in T THEN r ELSE reason[t]]
    /\ allowed' = allowed \ T
    /\ UNCHANGED <<vars, call, flag>>

(* The threads of T leave the waitset for the reason r. *)
WakeFrom(T, r) ==
    /\ waitset' = waitset \ T
    /\ stage' = [t \in Threads |-> IF t \in T THEN "woken" ELSE stage[t]]
    /\ reason' = [t \in Threads |-> IF t \in T THEN r ELSE reason[t]]
    /\ allowed' = allowed \ T
    /\ UNCHANGED <<vars, call, flag>>

(* notify_one, by a thread that holds the mutex or not. *)
NotifyOne(t) ==
    /\ Outside(t)
    /\ \/ waitset = {} /\ UNCHANGED <<vars, cvVars>>
       \/ \E u \in waitset : WakeFrom({u}, "normal") /\ UNCHANGED <<limit, told>>

(* Mutant of NotifyAll: only one thread is unparked. *)
NotifyAllWakesOne(t) ==
    /\ Outside(t)
    /\ \E u \in waitset : WakeFrom({u}, "normal")
    /\ told' = TRUE
    /\ UNCHANGED limit

NotifyAll(t) ==
    /\ Outside(t)
    /\ WakeFrom(waitset, "normal")
    /\ told' = TRUE
    /\ UNCHANGED limit

TimesOut(t) ==
    /\ Live /\ t \in waitset /\ call[t].timed
    /\ WakeFrom({t}, "timeout")
    /\ UNCHANGED <<limit, told>>

WakesSpuriously(t) ==
    /\ Live /\ t \in allowed
    /\ WakeFrom({t}, "spurious")
    /\ limit' = limit - 1
    /\ UNCHANGED told

(* The lock is back: wait returns, or its loop goes on while the predicate *)
(* does not hold.  A timeout ends the loop whatever the predicate says.    *)
AfterLock(t) ==
    IF call[t].pred /\ ~ flag /\ reason[t] # "timeout" THEN "leaving" ELSE "none"

(* What is next in wait after a turn of the lock. *)
Returns(t) ==
    LET next == IF loop'[t] = "none" THEN AfterLock(t) ELSE "relocking"
    IN  /\ stage' = [stage EXCEPT ![t] = next]
        /\ call' = IF next = "none" THEN [call EXCEPT ![t] = NoCall] ELSE call
        /\ reason' = IF next = "relocking" THEN reason ELSE [reason EXCEPT ![t] = "normal"]
        /\ UNCHANGED <<waitset, limit, allowed, flag, told>>

(* Mutant of Relock: a wait that times out returns at once. *)
RelockUnlessTimeout(t) ==
    /\ Live /\ stage[t] = "woken"
    /\ IF reason[t] = "timeout" THEN UNCHANGED vars ELSE LockExclusive(t, FALSE)
    /\ Returns(t)

(* lock.lock *)
Relock(t) ==
    /\ Live
    /\ \/ stage[t] = "woken" /\ LockExclusive(t, FALSE)
       \/ stage[t] = "relocking" /\ Resume(t)
    /\ Returns(t)

(* The holder of the mutex changes the flag. *)
SetFlag(t, b) ==
    /\ Outside(t) /\ owner = t /\ flag # b
    /\ flag' = b
    /\ told' = FALSE
    /\ UNCHANGED <<vars, waitset, limit, allowed, stage, call, reason>>

(* The other operations of the mutex. *)
UseMutex(t) ==
    /\ stage[t] = "none"
    /\ LockExclusive(t, FALSE) \/ TryLockExclusive(t) \/ Resume(t) \/ UnlockExclusive(t)
    /\ UNCHANGED cvVars

CvInit ==
    /\ Init /\ ~ kind.isRw
    /\ waitset = {} /\ limit \in {0, SpuriousLimit} /\ allowed = {}
    /\ stage = [t \in Threads |-> "none"]
    /\ call = [t \in Threads |-> NoCall]
    /\ reason = [t \in Threads |-> "normal"]
    /\ flag = FALSE /\ told = FALSE

CvNext ==
    \E t \in Threads :
        \/ \E c \in Calls_ : Wait(t, c)
        \/ UnlockAndPark(t)
        \/ NotifyOne(t) \/ NotifyAll(t)
        \/ TimesOut(t) \/ WakesSpuriously(t)
        \/ Relock(t)
        \/ \E b \in BOOLEAN : SetFlag(t, b)
        \/ UseMutex(t)

CvSpec == CvInit /\ [][CvNext]_<<vars, cvVars>>

-----------------------------------------------------------------------------
(* Properties. *)

(* Type invariant.  Every thread that parked while there were spurious     *)
(* wake-ups left may use one, so the last of them can be overdrawn.        *)
CvTypeOK ==
    /\ TypeOK
    /\ waitset \subseteq Threads /\ allowed \subseteq waitset
    /\ limit \in 1 - Cardinality(Threads) .. SpuriousLimit
    /\ stage \in [Threads -> Stages]
    /\ call \in [Threads -> Calls_] /\ reason \in [Threads -> Reasons]
    /\ flag \in BOOLEAN /\ told \in BOOLEAN
    /\ \A t \in Threads : t \in waitset <=> stage[t] = "parked"

(* No notification is missed: once the flag is set and notify_all has been *)
(* called after that, no thread stays parked that waits for the flag with  *)
(* a predicate, although it looked at the flag before it parked and the    *)
(* notifier may hold the mutex or not (condvar_data_impl::wait).           *)
NoMissedNotify ==
    Live /\ flag /\ told => \A t \in waitset : ~ call[t].pred

(* A wait returns with the mutex held, after a notification, a timeout or  *)
(* a spurious wake-up, whoever took the mutex in between; and if it waits  *)
(* with a predicate and did not time out, the predicate holds then.        *)
ReturnsHolding ==
    [][\A t \in Threads :
          stage[t] \in {"woken", "relocking"} /\ stage'[t] \in {"none", "leaving"}
          /\ result' = "none" =>
              /\ owner' = t
              /\ call[t].pred /\ stage'[t] = "none" /\ reason[t] # "timeout" => flag']_
        <<vars, cvVars>>
=============================================================================
