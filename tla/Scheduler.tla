----------------------------- MODULE Scheduler -----------------------------
(***************************************************************************)
(* The scheduler of the simulated threads: scheduler.hpp, with the tree    *)
(* search of full_search_scheduler.hpp and context_bound_scheduler.hpp, or *)
(* with random_scheduler.hpp, and the calls context.hpp makes to it.  One  *)
(* behaviour is one iteration of a test.  Each action is one call made by  *)
(* the current thread, up to the moment the next thread continues.         *)
(*                                                                         *)
(* The tree search explores every result of rand(), the random scheduler   *)
(* draws it; here every result is a behaviour.  The simulated program is   *)
(* any program: the current thread makes any call, in any order.           *)
(***************************************************************************)
EXTENDS Integers, FiniteSets

CONSTANTS
    Threads,        \* all threads, static and dynamic
    DynamicThreads, \* those the test creates while it runs
    MaxYield,       \* largest argument of yield; caps yield_sched_count_
    Policies,       \* the schedulers looked at, of AllPolicies
    ContextBound    \* params_.context_bound of the context bound scheduler

AllPolicies == {"full search", "context bound", "random"}

ASSUME SchedulerAssumption ==
    /\ IsFiniteSet(Threads)
    /\ DynamicThreads \subseteq Threads /\ DynamicThreads # Threads
    /\ MaxYield \in Nat \ {0}
    /\ ContextBound \in Nat /\ Policies \subseteq AllPolicies

VARIABLES
    state,          \* state_: running, blocked or finished
    blockCount,     \* block_count_: the reasons for which a thread is blocked
    priority,       \* yield_priority_[t] of y: steps y is owed since t yielded
    schedCount,     \* yield_sched_count_[t] of y, up to MaxYield
    timed,          \* timed_threads_: parked threads that can time out
    spurious,       \* spurious_threads_: parked threads that can wake at will
    dynamic,        \* dynamic_threads_: threads not created yet
    thread,         \* thread_: the current thread
    policy,         \* the class of the scheduler
    switches,       \* switches_remain_
    waiting,        \* the threads in a waitset (waitset.hpp)
    verdict         \* none while the iteration goes on

vars == <<state, blockCount, priority, schedCount, timed, spurious, dynamic,
          thread, policy, switches, waiting, verdict>>

-----------------------------------------------------------------------------
(* The tables of the scheduler, s: what its functions read and write.      *)

Tables == [state |-> state, blockCount |-> blockCount, priority |-> priority,
           schedCount |-> schedCount, timed |-> timed, spurious |-> spurious]

SetTables(s) ==
    /\ state' = s.state /\ blockCount' = s.blockCount
    /\ priority' = s.priority /\ schedCount' = s.schedCount
    /\ timed' = s.timed /\ spurious' = s.spurious

Running(s) == {t \in Threads : s.state[t] = "running"}

(* unblock_thread, once for each thread of U. *)
UnblockAll(s, U) ==
    [s EXCEPT !.blockCount = [t \in Threads |-> IF t \in U THEN @[t] - 1 ELSE @[t]],
              !.state = [t \in Threads |->
                  IF t \in U /\ s.blockCount[t] = 1 THEN "running" ELSE @[t]]]

(* Mutant of UnparkThread: the thread stays in the list of spurious waits. *)
UnparkKeepsSpurious(s, u) == [UnblockAll(s, {u}) EXCEPT !.timed = @ \ {u}]

(* scheduler::unpark_thread *)
UnparkThread(s, u) ==
    [UnblockAll(s, {u}) EXCEPT !.timed = @ \ {u}, !.spurious = @ \ {u}]

(* Mutant of OnThreadBlock: the steps owed are forgotten, not forgiven. *)
OnThreadBlockForgets(s, t) == [s EXCEPT !.priority[t] = [i \in Threads |-> 0]]

(* on_thread_block: nobody who yielded has to wait for t any longer. *)
OnThreadBlock(s, t) ==
    UnblockAll([s EXCEPT !.priority[t] = [i \in Threads |-> 0]],
               {i \in Threads : s.priority[t][i] > 0})

(* block_thread, n times. *)
BlockThread(s, t, n) ==
    LET counted == [s EXCEPT !.blockCount[t] = @ + n]
    IN  IF n = 0 \/ s.blockCount[t] > 0
        THEN counted
        ELSE OnThreadBlock([counted EXCEPT !.state[t] = "blocked"], t)

(* The threads whose steps t waits for since it yielded. *)
WaitsFor(s, t) == {y \in Threads : s.priority[y][t] > 0}

(* purge_blocked_threads: every yield is over. *)
Purge(s) ==
    [s EXCEPT
       !.priority = [y \in Threads |-> [t \in Threads |-> 0]],
       !.blockCount = [t \in Threads |-> @[t] - Cardinality(WaitsFor(s, t))],
       !.state = [t \in Threads |->
           IF WaitsFor(s, t) # {} /\ s.blockCount[t] = Cardinality(WaitsFor(s, t))
           THEN "running" ELSE @[t]]]

(* Mutant of NoneReady: timeouts are not considered. *)
NoneRunning(s) == Running(s) = {}

(* is_deadlock, and the tables it leaves. *)
NoneReady(s) == Running(s) = {} /\ s.timed = {}
Purged(s) == IF NoneReady(s) THEN Purge(s) ELSE s
IsDeadlock(s) == NoneReady(Purged(s))

-----------------------------------------------------------------------------
(* schedule_impl. *)

(* The current thread t pays a step to the threads that wait for it. *)
CountStep(s, t) ==
    IF \A i \in Threads : s.priority[t][i] = 0
    THEN s
    ELSE UnblockAll([s EXCEPT
             !.priority[t] = [i \in Threads |-> IF @[i] > 0 THEN @[i] - 1 ELSE 0],
             !.schedCount[t] = [i \in Threads |->
                 IF @[i] < MaxYield THEN @[i] + 1 ELSE @[i]]],
             {i \in Threads : s.priority[t][i] = 1})

(* Mutant of YieldPriority: yield_sched_count_ is not reset. *)
YieldPriorityKeepsCounts(s, t, k) ==
    LET behind == {y \in Threads \ {t} : /\ s.schedCount[y][t] < k
                                         /\ s.state[y] # "finished"}
        owed == [s EXCEPT !.priority = [y \in Threads |->
                    IF y \in behind THEN [@[y] EXCEPT ![t] = k] ELSE @[y]]]
        blocked == BlockThread(owed, t, Cardinality(behind))
    IN  IF Running(blocked) = {} THEN Purge(blocked) ELSE blocked

(* yield_priority: t waits for every thread that has paid it fewer than k  *)
(* steps since it last yielded.                                            *)
YieldPriority(s, t, k) ==
    LET behind == {y \in Threads \ {t} : /\ s.schedCount[y][t] < k
                                         /\ s.state[y] # "finished"}
        owed == [s EXCEPT
            !.priority = [y \in Threads |->
                IF y \in behind THEN [@[y] EXCEPT ![t] = k] ELSE @[y]],
            !.schedCount = [y \in Threads |-> [@[y] EXCEPT ![t] = 0]]]
        blocked == BlockThread(owed, t, Cardinality(behind))
    IN  IF Running(blocked) = {} THEN Purge(blocked) ELSE blocked

(* Mutant of AfterYield: the random scheduler keeps account of the yields. *)
AfterYieldAlways(s, t, k) ==
    LET counted == CountStep(s, t)
    IN  IF k > 0 THEN YieldPriority(counted, t, k) ELSE counted

(* The random scheduler takes no notice of yields. *)
AfterYield(s, t, k) ==
    LET counted == CountStep(s, t)
    IN  IF policy = "random"
        THEN s
        ELSE IF k > 0 THEN YieldPriority(counted, t, k) ELSE counted

Bounded == policy = "context bound"

(* Mutants of MayLeave: a blocked thread cannot be left, or any thread can. *)
MayLeaveBound(s) == Bounded => switches # 0
MayLeaveAlways(s) == TRUE

(* can_switch, or the current thread has to be left anyway. *)
MayLeave(s) == Bounded => switches # 0 \/ s.state[thread] # "running"

(* on_switch, and the switch to the fiber of u. *)
SwitchTo(s, u) ==
    /\ SetTables(s)
    /\ thread' = u
    /\ switches' = IF u # thread /\ s.state[thread] = "running" /\ Bounded
                   THEN switches - 1 ELSE switches
    /\ UNCHANGED <<policy, verdict>>

ResumeRunning(s) ==
    \E u \in IF MayLeave(s) THEN Running(s) ELSE {thread} : SwitchTo(s, u)

(* A parked thread that nothing else blocks times out, or wakes spuriously. *)
ResumeParked(s, u) ==
    /\ MayLeave(s)
    /\ s.blockCount[u] = 1
    /\ u \in s.timed \/ (u \in s.spurious /\ Running(s) # {})
    /\ SwitchTo(UnparkThread(s, u), u)

AssertionFails(s) ==
    /\ SetTables(s)
    /\ verdict' = "verify_failed"
    /\ UNCHANGED <<thread, policy, switches>>

(* RL_VERIFY(running_thread_count) does not hold: no thread is ready, and  *)
(* the timed one that was drawn is blocked by a yield as well.             *)
NobodyRuns(s) ==
    /\ Running(s) = {}
    /\ s.timed = {} \/ \E u \in s.timed : s.blockCount[u] # 1
    /\ AssertionFails(s)

(* Those random_scheduler draws from first, by a chance of its own each:   *)
(* the timed threads, and the spurious ones while somebody runs.           *)
Drawn(s) == s.timed \cup IF Running(s) = {} THEN {} ELSE s.spurious

(* random_scheduler::schedule_impl; it asserts that nothing but its wait   *)
(* blocks the thread it draws, and that a thread runs if none is drawn.    *)
RandomSchedule(s, wt) ==
    \/ \E u \in Drawn(s) :
          /\ s.blockCount[u] = 1
          /\ SwitchTo(UnparkThread(s, u), u)
          /\ waiting' = wt \ {u}
    \/ /\ \E u \in Running(s) : SwitchTo(s, u)
       /\ waiting' = wt
    \/ /\ Drawn(s) \cup Running(s) = {} \/ \E u \in Drawn(s) : s.blockCount[u] # 1
       /\ AssertionFails(s)
       /\ waiting' = wt

(* context::schedule.  A thread that resumes for another reason than an    *)
(* unpark takes itself out of its waitset (waitset::park_current).         *)
Schedule(s, wt) ==
    \/ policy = "random" /\ RandomSchedule(s, wt)
    \/ /\ policy # "random"
       /\ \/ (ResumeRunning(s) \/ NobodyRuns(s)) /\ waiting' = wt
          \/ \E u \in wt : ResumeParked(s, u) /\ waiting' = wt \ {u}

End(s, v) ==
    /\ SetTables(s)
    /\ verdict' = v
    /\ UNCHANGED <<dynamic, thread, policy, switches>>

-----------------------------------------------------------------------------
(* The calls of the current thread. *)

Live == verdict = "none"

(* context::sched: a scheduling point before an operation. *)
Sched ==
    /\ Live
    /\ Schedule(AfterYield(Tables, thread, 0), waiting)
    /\ UNCHANGED dynamic

(* context::yield *)
Yield(k) ==
    /\ Live
    /\ Schedule(AfterYield(Tables, thread, k), waiting)
    /\ UNCHANGED dynamic

(* context::park_current_thread, from waitset::park_current. *)
Park(isTimed, allowSpurious) ==
    LET listed == [Tables EXCEPT
            !.timed = IF isTimed THEN @ \cup {thread} ELSE @,
            !.spurious = IF allowSpurious THEN @ \cup {thread} ELSE @]
        blocked == BlockThread(listed, thread, 1)
        parked == Purged(blocked)
    IN  /\ Live
        /\ \/ /\ IsDeadlock(blocked)
              /\ End(parked, "deadlock")
              /\ waiting' = waiting \cup {thread}
           \/ /\ ~ IsDeadlock(blocked)
              /\ Schedule(AfterYield(parked, thread, 1), waiting \cup {thread})
              /\ UNCHANGED dynamic

(* context::unpark_thread of a waiting thread: no switch. *)
Unpark(u) ==
    /\ Live
    /\ u \in waiting
    /\ SetTables(UnparkThread(Tables, u))
    /\ waiting' = waiting \ {u}
    /\ UNCHANGED <<dynamic, thread, policy, switches, verdict>>

(* context::create_thread *)
CreateThread(u) ==
    /\ Live
    /\ u \in dynamic
    /\ SetTables(UnblockAll(Tables, {u}))
    /\ dynamic' = dynamic \ {u}
    /\ UNCHANGED <<thread, policy, switches, waiting, verdict>>

(* thread_finished: on a deadlock the threads never created are let go and *)
(* the question is asked again.                                            *)
Finish ==
    LET blocked == BlockThread(Tables, thread, 1)
        finished == [blocked EXCEPT !.state[thread] = "finished"]
        last == \A t \in Threads : finished.state[t] = "finished"
        asked == Purged(finished)
        released == UnblockAll(asked, dynamic)
    IN  /\ Live
        /\ \/ last /\ End(finished, "last") /\ UNCHANGED waiting
           \/ /\ ~ last /\ IsDeadlock(finished) /\ dynamic = {}
              /\ End(asked, "deadlock")
              /\ UNCHANGED waiting
           \/ /\ ~ last /\ IsDeadlock(finished) /\ dynamic # {}
              /\ Schedule(AfterYield(released, thread, 0), waiting)
              /\ dynamic' = {}
           \/ /\ ~ last /\ ~ IsDeadlock(finished)
              /\ Schedule(AfterYield(asked, thread, 0), waiting)
              /\ UNCHANGED dynamic

(* iteration_begin *)
Init ==
    /\ state = [t \in Threads |-> IF t \in DynamicThreads THEN "blocked" ELSE "running"]
    /\ blockCount = [t \in Threads |-> IF t \in DynamicThreads THEN 1 ELSE 0]
    /\ priority = [y \in Threads |-> [t \in Threads |-> 0]]
    /\ schedCount = [y \in Threads |-> [t \in Threads |-> 0]]
    /\ timed = {} /\ spurious = {}
    /\ dynamic = DynamicThreads
    /\ thread \in Threads \ DynamicThreads
    /\ policy \in Policies
    /\ switches = ContextBound
    /\ waiting = {}
    /\ verdict = "none"

Next ==
    \/ Sched
    \/ \E k \in 1 .. MaxYield : Yield(k)
    \/ \E isTimed, allowSpurious \in BOOLEAN : Park(isTimed, allowSpurious)
    \/ \E u \in Threads : Unpark(u)
    \/ \E u \in DynamicThreads : CreateThread(u)
    \/ Finish

Spec == Init /\ [][Next]_vars

(* Every thread that goes on for ever gives way again and again: its loops *)
(* yield, or wait.  Without that the execution depth limit of context.hpp  *)
(* ends the iteration as a livelock.                                       *)
GiveWay ==
    \/ \E k \in 1 .. MaxYield : Yield(k)
    \/ \E isTimed, allowSpurious \in BOOLEAN : Park(isTimed, allowSpurious)

FairSpec == Spec /\ ([]<><<GiveWay>>_vars \/ []<>(~ Live))

-----------------------------------------------------------------------------
(* Properties. *)

(* Type invariant, a part of BlockAccounting. *)
TypeOK ==
    /\ state \in [Threads -> {"running", "blocked", "finished"}]
    /\ blockCount \in [Threads -> Nat]
    /\ priority \in [Threads -> [Threads -> 0 .. MaxYield]]
    /\ schedCount \in [Threads -> [Threads -> 0 .. MaxYield]]
    /\ timed \subseteq Threads /\ spurious \subseteq Threads
    /\ dynamic \subseteq DynamicThreads
    /\ thread \in Threads
    /\ policy \in Policies
    /\ switches \in Nat
    /\ waiting \subseteq Threads
    /\ verdict \in {"none", "last", "deadlock", "verify_failed"}

Count(p) == IF p THEN 1 ELSE 0

(* block_count_ counts each reason for which a thread cannot run once: not *)
(* created, parked, finished, and every thread it yielded to; and a thread *)
(* is running exactly if no reason is left (block_thread, unblock_thread). *)
BlockAccounting ==
    /\ TypeOK
    /\ \A t \in Threads :
        /\ blockCount[t] = Cardinality(WaitsFor(Tables, t)) + Count(t \in dynamic)
              + Count(t \in waiting) + Count(state[t] = "finished")
        /\ state[t] = "running" <=> blockCount[t] = 0

(* Only threads in a waitset can time out or wake spuriously, and nobody   *)
(* waits for a step of its own or of a thread that has finished.           *)
ListsAreCurrent ==
    /\ timed \cup spurious \subseteq waiting
    /\ waiting \cap dynamic = {}
    /\ \A y, t \in Threads : y = t \/ state[y] = "finished" => priority[y][t] = 0

(* RL_VERIFY(threads_[th].state_ == thread_state_running), scheduler.hpp,  *)
(* line 123: the thread that continues is ready to.                        *)
CurrentRuns == Live => state[thread] = "running"

(* A deadlock is reported only if it is one: some thread waits, and all    *)
(* threads have finished, wait without a timeout, or were never created.   *)
DeadlockIsReal ==
    verdict = "deadlock" =>
        /\ waiting # {} /\ timed = {}
        /\ \A t \in Threads : t \in waiting \cup dynamic \/ state[t] = "finished"

(* RL_VERIFY(running_thread_count), full_search_scheduler.hpp, line 189:   *)
(* there is a thread to continue with whenever one is asked for.           *)
SomebodyRuns == verdict # "verify_failed"

(* That assertion fails only in the tree search, and when a thread waits   *)
(* with a timeout: without timeouts the deadlock test and the purge of     *)
(* yields come first, and without yields whoever is timed is ready.        *)
StallOnlyTimed == verdict = "verify_failed" => timed # {} /\ policy # "random"

(* A thread that is ready is left for another one only while the context   *)
(* bound allows, and each time costs one switch (context_bound_scheduler). *)
PreemptionsPaid ==
    [][thread' # thread /\ state'[thread] = "running" /\ Bounded
          => switches # 0 /\ switches' = switches - 1]_vars

(* The fair schedulers (fair_full_search_scheduler_type and                *)
(* fair_context_bound_scheduler_type) keep no thread waiting for ever for  *)
(* the yields of others: a thread that is not parked goes on, whether or   *)
(* not the others pass scheduling points in between.                       *)
NoStarvation ==
    \A t \in Threads :
        (Live /\ policy # "random" /\ t \notin waiting \cup dynamic /\ state[t] # "finished")
            ~> (thread = t \/ ~ Live)
=============================================================================
