------------------------------- MODULE Fibers -------------------------------
(***************************************************************************)
(* The fibers of context.hpp.  Every simulated thread has a fiber that     *)
(* lives as long as the context: it runs its thread function once in every *)
(* iteration and meanwhile stays inside the call that left it              *)
(* (switch_to_fiber).  A step is what the current fiber does up to the     *)
(* next switch; which fiber continues is up to the scheduler, any ready    *)
(* one here.                                                               *)
(*                                                                         *)
(* While a library call may not be interrupted it disables preemption      *)
(* (preemption_disabler).  disable_preemption_ is one counter for all the  *)
(* fibers: whoever parks takes its own level along, and a fiber that is    *)
(* handed the processor by its waker (do_switch) gets its level back only  *)
(* after it has given the processor back (switch_back).                    *)
(***************************************************************************)
EXTENDS Integers

CONSTANTS
    Fibers,     \* the fibers of the threads
    Static,     \* those of static threads, which run in every iteration
    MaxLevel    \* bounds the nesting of preemption_disablers

MainFiber == "main"
None == -1      \* no saved level
NoFiber == "none"

ASSUME FibersAssumption ==
    /\ Static \subseteq Fibers /\ Static # {}
    /\ MainFiber \notin Fibers /\ NoFiber \notin Fibers
    /\ MaxLevel \in Nat

VARIABLES
    current,    \* threadx_: the fiber that runs, or main
    at,         \* the call in which a fiber is
    disable,    \* disable_preemption_
    saved,      \* saved_disable_preemption_
    from,       \* temp_switch_from_
    dp,         \* dp of park_current_thread
    handOver,   \* do_switch of the last park_current_thread
    normal,     \* unpark_reason_ is unpark_reason_normal
    first,      \* first_thread_
    func,       \* dynamic_thread_func_ is set
    ready,      \* the threads that the scheduler may choose
    waiting,    \* the parked threads
    timed,      \* those with a timeout
    absent,     \* the dynamic threads that were not created
    level,      \* ghost: the preemption_disablers a fiber is inside of
    created,    \* ghost: the threads created in this iteration
    began,      \* ghost: before() has run in this iteration
    outcome     \* "none" while the simulation goes on

fiberVars == <<current, at, disable, saved, from, dp, handOver, normal, first,
               func, ready, waiting, timed, absent, level, created, began, outcome>>

switching == <<disable, saved, from, dp, handOver, level>>
iterating == <<first, func, absent, created, began>>
scheduling == <<ready, waiting, timed>>

(* Between two iterations a fiber is at the top of its loop, which it      *)
(* reaches from the sched() after its end, or from its last switch to main.*)
LoopTop == {"top", "exit", "last"}
InTest == {"user", "sched", "parked", "handed", "unparking", "switched"}

RunsIn(t, call) == outcome = "none" /\ current = t /\ at[t] = call

(* RL_VERIFY: the step goes on, or the simulation ends. *)
Verify(p) == outcome' = IF p THEN outcome ELSE "verify_failed"

Go(t, call) == at' = [at EXCEPT ![t] = call]

-----------------------------------------------------------------------------
(* Mutant of ForgetThreads: the functions of dynamic threads are kept. *)
ForgetThreadsNot ==
    /\ saved' = [t \in Fibers |-> None] /\ from' = [t \in Fibers |-> NoFiber]
    /\ UNCHANGED func

(* thread_info::iteration_begin *)
ForgetThreads ==
    /\ saved' = [t \in Fibers |-> None] /\ from' = [t \in Fibers |-> NoFiber]
    /\ func' = [t \in Fibers |-> FALSE]

(* context_impl::iteration, called by simulate2 on the main fiber. *)
Iterate ==
    /\ outcome = "none" /\ current = MainFiber
    /\ first' = TRUE /\ disable' = 0
    /\ ForgetThreads
    /\ ready' = Static /\ waiting' = {} /\ timed' = {}
    /\ absent' = Fibers \ Static
    /\ created' = {} /\ began' = FALSE
    /\ current' \in Static
    /\ UNCHANGED <<at, dp, handOver, normal, level, outcome>>

(* Whether the fiber has something to run: a dynamic thread that was never *)
(* created has not.                                                        *)
HasBody(t) == t \in Static \/ func[t]

OnStart(t) ==
    /\ Verify(from[t] = NoFiber /\ saved[t] = None)
    /\ Go(t, IF HasBody(t) THEN "user" ELSE "done")

(* The top of the loop of fiber_proc_impl; the first fiber of an iteration *)
(* runs before().                                                          *)
EnterLoop(t) ==
    /\ outcome = "none" /\ current = t /\ at[t] \in LoopTop
    /\ IF first THEN Go(t, "before") /\ UNCHANGED outcome ELSE OnStart(t)
    /\ first' = FALSE
    /\ UNCHANGED <<current, switching, normal, func, absent, created, began, scheduling>>

BeforeEnds(t) ==
    /\ RunsIn(t, "before")
    /\ began' = TRUE
    /\ OnStart(t)
    /\ UNCHANGED <<current, switching, normal, first, func, absent, created, scheduling>>

-----------------------------------------------------------------------------
(* context_impl::schedule, called in call by t, of the threads r and w:    *)
(* some ready thread goes on, or a timed one whose timeout comes.          *)
Schedule_(t, call, r, w, tm, level0) ==
    /\ Verify(from[t] = NoFiber /\ level0 = 0)
    /\ Go(t, call)
    /\ \/ /\ current' \in r
          /\ ready' = r /\ waiting' = w /\ timed' = tm
          /\ normal' = [normal EXCEPT ![current'] = TRUE]
       \/ /\ current' \in tm
          /\ ready' = r \cup {current'}
          /\ waiting' = w \ {current'} /\ timed' = tm \ {current'}
          /\ normal' = [normal EXCEPT ![current'] = FALSE]

(* context_impl::sched: nothing while preemption is disabled. *)
SchedulingPoint(t) ==
    /\ RunsIn(t, "user") /\ disable = 0
    /\ Schedule_(t, "sched", ready, waiting, timed, disable)
    /\ UNCHANGED <<switching, iterating>>

ReturnFromSched(t) ==
    /\ RunsIn(t, "sched")
    /\ Verify(disable = 0)
    /\ Go(t, "user")
    /\ UNCHANGED <<current, switching, normal, iterating, scheduling>>

(* preemption_disabler; a wait for several objects uses one when it has    *)
(* been handed the processor, too.                                         *)
Disable(t) ==
    /\ RunsIn(t, "user") \/ RunsIn(t, "handed")
    /\ level[t] < MaxLevel
    /\ disable' = disable + 1
    /\ level' = [level EXCEPT ![t] = @ + 1]
    /\ UNCHANGED <<current, at, saved, from, dp, handOver, normal, iterating, scheduling, outcome>>

(* ~preemption_disabler, of those constructed since the fiber was handed   *)
(* the processor if it was.                                                *)
Enable(t) ==
    /\ RunsIn(t, "user") \/ (RunsIn(t, "handed") /\ level[t] > saved[t])
    /\ level[t] > 0
    /\ disable' = disable - 1
    /\ level' = [level EXCEPT ![t] = @ - 1]
    /\ UNCHANGED <<current, at, saved, from, dp, handOver, normal, iterating, scheduling, outcome>>

-----------------------------------------------------------------------------
NobodyLeft(r, tm) == r = {} /\ tm = {}

(* context_impl::park_current_thread up to the switch. *)
Park_(t, isTimed, doSwitch) ==
    LET r == ready \ {t}
        tm == IF isTimed THEN timed \cup {t} ELSE timed
    IN  /\ RunsIn(t, "user")
        /\ dp' = [dp EXCEPT ![t] = disable]
        /\ disable' = 0
        /\ handOver' = [handOver EXCEPT ![t] = doSwitch]
        /\ IF NobodyLeft(r, tm)
           THEN /\ outcome' = "deadlock" /\ current' = MainFiber
                /\ UNCHANGED <<at, normal, scheduling>>
           ELSE Schedule_(t, "parked", r, waiting \cup {t}, tm, 0)
        /\ UNCHANGED <<saved, from, level, iterating>>

(* Mutant of TakesLevel: who is handed the processor has its level, too. *)
TakesLevelAlways(t) ==
    /\ disable' = dp[t]
    /\ IF handOver[t] /\ normal[t]
       THEN saved' = [saved EXCEPT ![t] = dp[t]] /\ Go(t, "handed")
       ELSE UNCHANGED saved /\ Go(t, "user")

(* The level is restored now, or in switch_back. *)
TakesLevel(t) ==
    IF handOver[t] /\ normal[t]
    THEN /\ saved' = [saved EXCEPT ![t] = dp[t]]
         /\ Go(t, "handed")
         /\ UNCHANGED disable
    ELSE /\ disable' = dp[t]
         /\ Go(t, "user")
         /\ UNCHANGED saved

(* park_current_thread after the switch, and the RL_VERIFYs of schedule    *)
(* and of waitset::park_current.                                           *)
ReturnFromPark(t) ==
    /\ RunsIn(t, "parked")
    /\ Verify(/\ disable = 0 /\ saved[t] = None
              /\ normal[t] => (handOver[t] <=> from[t] # NoFiber))
    /\ TakesLevel(t)
    /\ UNCHANGED <<current, from, dp, handOver, normal, level, iterating, scheduling>>

(* context_impl::unpark_thread.  Whoever wakes does not disable preemption.*)
UnparkFiber(t, u) ==
    /\ RunsIn(t, "user") /\ disable = 0
    /\ u \in waiting
    /\ ready' = ready \cup {u} /\ waiting' = waiting \ {u} /\ timed' = timed \ {u}
    /\ IF handOver[u]
       THEN /\ normal' = [normal EXCEPT ![u] = TRUE]
            /\ from' = [from EXCEPT ![u] = t]
            /\ current' = u
            /\ Go(t, "unparking")
       ELSE UNCHANGED <<normal, from, current, at>>
    /\ UNCHANGED <<disable, saved, dp, handOver, level, iterating, outcome>>

ReturnFromUnpark(t) ==
    /\ RunsIn(t, "unparking")
    /\ Go(t, "user")
    /\ UNCHANGED <<current, switching, normal, iterating, scheduling, outcome>>

(* context_impl::switch_back, before and after the switch; what disabled   *)
(* preemption since the hand-over is gone.                                 *)
SwitchBack(t) ==
    /\ RunsIn(t, "handed") /\ disable = 0
    /\ Verify(saved[t] # None /\ from[t] # NoFiber)
    /\ current' = from[t]
    /\ from' = [from EXCEPT ![t] = NoFiber]
    /\ Go(t, "switched")
    /\ UNCHANGED <<disable, saved, dp, handOver, normal, level, iterating, scheduling>>

ReturnFromSwitchBack(t) ==
    /\ RunsIn(t, "switched")
    /\ Verify(saved[t] # None)
    /\ disable' = saved[t]
    /\ saved' = [saved EXCEPT ![t] = None]
    /\ Go(t, "user")
    /\ UNCHANGED <<current, from, dp, handOver, normal, level, iterating, scheduling>>

-----------------------------------------------------------------------------
(* context_impl::create_thread *)
CreateFiberThread(t, u) ==
    /\ RunsIn(t, "user")
    /\ u \in absent
    /\ func' = [func EXCEPT ![u] = TRUE]
    /\ absent' = absent \ {u}
    /\ created' = created \cup {u}
    /\ ready' = ready \cup {u}
    /\ UNCHANGED <<current, at, switching, normal, first, began, waiting, timed, outcome>>

(* The end of a thread in fiber_proc_impl: dynamic threads that nobody     *)
(* creates any more are let go, the last thread runs after().              *)
FinishThread(t) ==
    LET r == ready \ {t}
        released == IF NobodyLeft(r, timed) THEN absent ELSE {}
    IN  /\ RunsIn(t, "user") \/ RunsIn(t, "done")
        /\ level[t] = 0
        /\ absent' = absent \ released
        /\ IF ~ NobodyLeft(r \cup released, timed)
           THEN Schedule_(t, "exit", r \cup released, waiting, timed, disable)
           ELSE /\ ready' = r
                /\ UNCHANGED <<waiting, timed, normal>>
                /\ IF waiting = {}
                   THEN Go(t, "after") /\ UNCHANGED <<current, outcome>>
                   ELSE current' = MainFiber /\ outcome' = "deadlock" /\ UNCHANGED at
        /\ UNCHANGED <<switching, first, func, created, began>>

AfterEnds(t) ==
    /\ RunsIn(t, "after")
    /\ Go(t, "last")
    /\ current' = MainFiber
    /\ UNCHANGED <<switching, normal, iterating, scheduling, outcome>>

(* context_impl::fail_test and rl_until: whatever the fibers are in, the   *)
(* main fiber goes on and deletes the context.                             *)
FailTest(t) ==
    /\ outcome = "none" /\ current = t
    /\ at[t] \in {"before", "user", "after"}
    /\ outcome' = "failed" /\ current' = MainFiber
    /\ UNCHANGED <<at, switching, normal, iterating, scheduling>>

FibersInit ==
    /\ current = MainFiber
    /\ at = [t \in Fibers |-> "top"]
    /\ disable = 0 /\ level = [t \in Fibers |-> 0]
    /\ saved = [t \in Fibers |-> None] /\ from = [t \in Fibers |-> NoFiber]
    /\ dp = [t \in Fibers |-> 0] /\ handOver = [t \in Fibers |-> FALSE]
    /\ normal = [t \in Fibers |-> TRUE]
    /\ first = TRUE /\ func = [t \in Fibers |-> FALSE]
    /\ ready = {} /\ waiting = {} /\ timed = {} /\ absent = {}
    /\ created = {} /\ began = FALSE
    /\ outcome = "none"

FiberStep(t) ==
    \/ EnterLoop(t) \/ BeforeEnds(t)
    \/ SchedulingPoint(t) \/ ReturnFromSched(t)
    \/ Disable(t) \/ Enable(t)
    \/ \E isTimed, doSwitch \in BOOLEAN : Park_(t, isTimed, doSwitch)
    \/ ReturnFromPark(t)
    \/ \E u \in Fibers : UnparkFiber(t, u) \/ CreateFiberThread(t, u)
    \/ ReturnFromUnpark(t) \/ SwitchBack(t) \/ ReturnFromSwitchBack(t)
    \/ FinishThread(t) \/ AfterEnds(t) \/ FailTest(t)

FibersNext == Iterate \/ \E t \in Fibers : FiberStep(t)

FibersSpec == FibersInit /\ [][FibersNext]_fiberVars

-----------------------------------------------------------------------------
(* Properties. *)

(* The counter of disabled preemptions is that of the fiber that runs,     *)
(* although it is one for all of them: whoever was parked, timed out, or   *)
(* was handed the processor and gave it back, goes on at its own level.    *)
(* And the RL_VERIFYs about temp_switch_from_, saved_disable_preemption_   *)
(* and disable_preemption_ hold at every switch.                           *)
LevelsAreOwn ==
    /\ outcome # "verify_failed"
    /\ outcome = "none" => \A t \in Fibers :
           /\ RunsIn(t, "user") => disable = level[t]
           /\ RunsIn(t, "handed") => disable + saved[t] = level[t]

(* Iterations do not mix although the fibers live on: a thread is inside   *)
(* its function only after before() of its own iteration, a dynamic one    *)
(* only if it was created in it, and while before() or after() runs every  *)
(* other fiber is at the top of its loop (fiber_proc_impl).                *)
IterationsApart ==
    outcome = "none" => \A t \in Fibers :
        /\ at[t] \in InTest => began /\ t \in Static \cup created
        /\ at[t] \in {"before", "after"} => \A u \in Fibers \ {t} : at[u] \in LoopTop
=============================================================================
