------------------------------- MODULE Litmus -------------------------------
(***************************************************************************)
(* Test programs on the memory engine: what Relacy does with a small test  *)
(* (context.hpp: before, a global fence, the threads, a global fence), the *)
(* calls of the test being the actions of MemoryOrder.  A program is data: *)
(* a sequence of instructions for each thread.  A step is one operation,   *)
(* from its scheduling point on, with the branch that follows it.  futex   *)
(* (stdlib/pthread.hpp) makes several calls of the engine with no          *)
(* scheduling point in between.                                            *)
(***************************************************************************)
EXTENDS MemoryOrder, Sequences

CONSTANTS
    Registers,      \* the local variables of the programs
    Programs,
    MaxClock        \* bounds the calls of a thread: programs spin

VARIABLES
    prog,           \* the program that is run
    stage,          \* "before", "thread" or "end"
    pc,             \* where each thread is
    reg,            \* the registers, each of one thread
    data,           \* the values of the plain variables
    started,        \* the threads that exist
    futex,          \* where each thread is in a futex call
    sleepers,       \* futex_ws_ of each atomic
    freed,          \* the object of the program has been deleted
    broken          \* an assertion of the program has failed

litmusVars == <<vars, prog, stage, pc, reg, data, started, futex, sleepers,
                freed, broken>>

-----------------------------------------------------------------------------
(* Instructions.  The result of an instruction is what it loads. *)

Instr(op, at, mo, x) ==
    [op |-> op, at |-> at, mo |-> mo, x |-> x, reg |-> "none",
     when |-> {}, to |-> 0, expect |-> Values, from |-> "none", plus |-> 0,
     was |-> 0, fail |-> "none", weak |-> TRUE]

Init_(a) == Instr("init", a, "none", 0)
St(a, x, mo) == Instr("store", a, mo, x)
Ld(a, mo) == Instr("load", a, mo, 0)
Add(a, x, mo) == Instr("add", a, mo, x)
Xchg(a, x, mo) == Instr("exchange", a, mo, x)

(* compare_exchange with one order: the order of the load if it fails. *)
FailureOrder(mo) ==
    CASE mo = "release" -> "relaxed" [] mo = "acq_rel" -> "acquire" [] OTHER -> mo

(* From was to x; the result is 0, or 1 if it fails.  Failing: the failure *)
(* order is given as well.                                                 *)
CasWeak(a, was, x, mo) ==
    [Instr("cas", a, mo, x) EXCEPT !.was = was, !.fail = FailureOrder(mo)]
CasStrong(a, was, x, mo) == [CasWeak(a, was, x, mo) EXCEPT !.weak = FALSE]
Failing(i, mo) == [i EXCEPT !.fail = mo]

Fence_(mo) == Instr("fence", "none", mo, 0)
Wr(v, x) == Instr("write", v, "none", x)
Rd(v) == Instr("read", v, "none", 0)
Yield_ == Instr("yield", "none", "none", 0)
Lock_(m) == Instr("acquire", m, "none", 0)
Unlock_(m) == Instr("release", m, "none", 0)
Start_(m, u) == Instr("start", m, "none", u)
Delete_(v) == Instr("delete", v, "none", 0)
Set_(r, x) == [Instr("set", "none", "none", 0) EXCEPT !.reg = r, !.plus = x]
FutexWait(a) == Instr("wait", a, "none", 0) \* while the value is 0
FutexWake(a) == Instr("wake", a, "none", 1) \* one thread

(* The result goes to a register, must be in xs, or decides on a jump. *)
Into(i, r) == [i EXCEPT !.reg = r]
Expect(i, xs) == [i EXCEPT !.expect = xs]
(* A store of a register plus x; a result to which n is added. *)
From(i, r) == [i EXCEPT !.from = r]
Plus(i, n) == [i EXCEPT !.plus = n]
Goto(i, xs, to) == [i EXCEPT !.when = xs, !.to = to]
Finish == 99        \* a jump behind the last instruction: return

(* ordered: the values of register "r" with which an execution has no      *)
(* data race.  forbidden: what registers must not hold in the end.         *)
Prog(before, threads, ordered) ==
    [before |-> before, threads |-> threads, ordered |-> ordered,
     forbidden |-> {}, dynamic |-> {}, heap |-> {}]
Never == Values
Always == {}

-----------------------------------------------------------------------------
(* Results of a futex call. *)
Success == 0
WouldBlock == 1
Interrupted == 2

Code(t) == IF stage = "before" THEN prog.before ELSE prog.threads[t + 1]
First == 0          \* the first thread the scheduler runs constructs the test
Exists(t) == t < Len(prog.threads)
Ends(t) == pc[t] > Len(Code(t))

(* Nobody else is between two calls of a futex, without a scheduling point. *)
Held(t) == \E u \in Threads \ {t} : futex[u] \in {"fenced", "equal"}

MayRun(t) ==
    /\ Live /\ Exists(t) /\ stage # "end"
    /\ stage = "before" => t = First
    /\ t \in started /\ ~ Held(t) /\ futex[t] # "asleep"
    /\ ~ Ends(t) /\ clock[t][t] < MaxClock

(* After the instruction i of t with result v. *)
Goes(t, i, v) ==
    /\ pc' = [pc EXCEPT ![t] = IF v \in i.when THEN i.to ELSE @ + 1]
    /\ reg' = IF i.reg = "none" THEN reg ELSE [reg EXCEPT ![i.reg] = v + i.plus]
    /\ broken' = (broken \/ v + i.plus \notin i.expect
                         \/ (freed /\ i.at \in prog.heap))
    /\ UNCHANGED <<prog, stage>>

Operand(i) == IF i.from = "none" THEN i.x ELSE reg[i.from] + i.x

(* perform_rmw: v is the value found. *)
PerformRmw(i, v) == IF i.op = "exchange" THEN i.x ELSE v + i.x

(* generic_atomic and its strong_init: a store without a scheduling point  *)
(* that everybody knows of.  first_seen_order_ is what the memory holds.   *)
AtomicInit(t, a) ==
    LET s == Next1(current[a])
    IN  /\ Live
        /\ current' = [current EXCEPT ![a] = s]
        /\ \E n \in {NotSeen, 0} :
              history' = [history EXCEPT ![a][s] =
                  [Unused EXCEPT !.busy = TRUE, !.thread = t, !.value = 0,
                                 !.firstSeen = [i \in Threads |-> n]]]
        /\ UNCHANGED <<threadVars, alreadyFailed, plainVars, syncOrder, result>>

(* The test fails in the middle of the instruction. *)
Stays == UNCHANGED <<prog, stage, pc, reg, broken>>

AtomicOp(t, i) ==
    \/ i.op = "init" /\ AtomicInit(t, i.at) /\ Goes(t, i, 0)
    \/ i.op = "store" /\ Store(t, i.at, i.mo, Operand(i)) /\ Goes(t, i, Operand(i))
    \/ /\ i.op = "load"
       /\ \E s \in Slots : Load(t, i.at, i.mo, s) /\ Goes(t, i, history[i.at][s].value)
    \/ i.op = "load" /\ LoadUninitialized(t, i.at, i.mo) /\ Stays
    \/ /\ i.op \in {"add", "exchange"}
       /\ Rmw(t, i.at, i.mo, PerformRmw(i, Newest(i.at).value))
       /\ Goes(t, i, Newest(i.at).value)
    \/ i.op = "cas" /\ CasSuccess(t, i.at, i.mo, i.was, i.x) /\ Goes(t, i, 0)
    \/ i.op = "cas" /\ CasFail(t, i.at, i.fail, i.was, i.weak) /\ Goes(t, i, 1)
    \/ i.op \in {"add", "exchange", "cas"} /\ RmwUninitialized(t, i.at) /\ Stays

OrderOp(t, i) ==
    \/ i.op = "fence" /\ Fence(t, i.mo)
    \/ i.op = "yield" /\ Yield(t)
    \/ i.op \in {"delete", "set"} /\ UNCHANGED vars
    \/ i.op = "acquire" /\ SyncAcquire(t, i.at)
    \/ i.op \in {"release", "start"} /\ SyncRelease(t, i.at)

PlainOp(t, i) ==
    \/ /\ i.op = "write"
       /\ VarStore(t, i.at) \/ VarStoreRace(t, i.at)
       /\ data' = [data EXCEPT ![i.at] = Operand(i)]
       /\ Goes(t, i, Operand(i))
    \/ /\ i.op = "read"
       /\ VarLoad(t, i.at) \/ VarLoadRace(t, i.at)
       /\ UNCHANGED data
       /\ Goes(t, i, data[i.at])
    \/ i.op = "read" /\ VarLoadUninitialized(t, i.at) /\ Stays /\ UNCHANGED data

Execute(t) ==
    LET i == Code(t)[pc[t]]
    IN  /\ MayRun(t) /\ futex[t] = "out"
        /\ \/ AtomicOp(t, i) /\ UNCHANGED data
           \/ OrderOp(t, i) /\ Goes(t, i, 0) /\ UNCHANGED data
           \/ PlainOp(t, i)
        /\ started' = IF i.op = "start" THEN started \cup {i.x} ELSE started
        /\ freed' = (freed \/ i.op = "delete")
        /\ UNCHANGED <<futex, sleepers>>

-----------------------------------------------------------------------------
(* rl_int_futex_impl: the calls of the engine it makes, one after another. *)

At(t, where) == futex' = [futex EXCEPT ![t] = where]

(* Mutant of FutexFence: only a wake has the fence. *)
FutexFenceWake(t, i) ==
    /\ futex[t] = "out" /\ i.op \in {"wait", "wake"}
    /\ IF i.op = "wake" THEN Fence(t, "seq_cst") ELSE UNCHANGED vars
    /\ At(t, "fenced") /\ Stays /\ UNCHANGED sleepers

FutexFence(t, i) ==
    /\ futex[t] = "out" /\ i.op \in {"wait", "wake"}
    /\ Fence(t, "seq_cst")
    /\ At(t, "fenced") /\ Stays /\ UNCHANGED sleepers

(* The load of FUTEX_WAIT, and its comparison. *)
FutexCompare(t, i) ==
    /\ futex[t] = "fenced" /\ i.op = "wait"
    /\ \/ \E s \in Slots :
             /\ Load(t, i.at, "acquire", s)
             /\ IF history[i.at][s].value = i.x
                THEN At(t, "equal") /\ Stays
                ELSE At(t, "out") /\ Goes(t, i, WouldBlock)
       \/ LoadUninitialized(t, i.at, "acquire") /\ At(t, "out") /\ Stays
    /\ UNCHANGED sleepers

FutexPark(t, i) ==
    /\ futex[t] = "equal"
    /\ Yield(t)
    /\ sleepers' = [sleepers EXCEPT ![i.at] = @ \cup {t}]
    /\ At(t, "asleep") /\ Stays

(* FUTEX_WAKE: unpark_one, and the release if there was one. *)
FutexUnpark(t, i) ==
    /\ futex[t] = "fenced" /\ i.op = "wake"
    /\ \/ /\ sleepers[i.at] = {}
          /\ UNCHANGED <<vars, sleepers>> /\ At(t, "out") /\ Goes(t, i, 0)
       \/ \E u \in sleepers[i.at] :
             /\ SyncRelease(t, "futex")
             /\ sleepers' = [sleepers EXCEPT ![i.at] = @ \ {u}]
             /\ futex' = [futex EXCEPT ![t] = "out", ![u] = "woken"]
             /\ Goes(t, i, 1)

(* The woken thread continues. *)
FutexWoken(t, i) ==
    /\ futex[t] = "woken"
    /\ SyncAcquire(t, "futex")
    /\ At(t, "out") /\ Goes(t, i, Success)
    /\ UNCHANGED sleepers

(* A parked thread wakes spuriously, while somebody else runs. *)
FutexSpurious(t) ==
    LET i == Code(t)[pc[t]]
    IN  /\ Live /\ futex[t] = "asleep" /\ ~ Held(t)
        /\ \E u \in started \ {t} : Exists(u) /\ ~ Ends(u) /\ futex[u] # "asleep"
        /\ sleepers' = [sleepers EXCEPT ![i.at] = @ \ {t}]
        /\ At(t, "out") /\ Goes(t, i, Interrupted)
        /\ UNCHANGED vars

Futex(t) ==
    /\ \/ FutexSpurious(t)
       \/ /\ MayRun(t)
          /\ LET i == Code(t)[pc[t]]
             IN  \/ FutexFence(t, i) \/ FutexCompare(t, i) \/ FutexPark(t, i)
                 \/ FutexUnpark(t, i) \/ FutexWoken(t, i)
    /\ UNCHANGED <<data, started, freed>>

-----------------------------------------------------------------------------
(* fiber_proc_impl *)

BeginThreads ==
    /\ stage = "before" /\ Ends(First)
    /\ GlobalFence
    /\ stage' = "thread"
    /\ pc' = [t \in Threads |-> 1]
    /\ UNCHANGED <<prog, reg, data, started, futex, sleepers, freed, broken>>

EndThreads ==
    /\ stage = "thread"
    /\ \A t \in Threads : Exists(t) => Ends(t)
    /\ GlobalFence
    /\ stage' = "end"
    /\ UNCHANGED <<prog, pc, reg, data, started, futex, sleepers, freed, broken>>

LitmusInit ==
    /\ Init
    /\ prog \in Programs
    /\ stage = "before"
    /\ pc = [t \in Threads |-> 1]
    /\ reg = [r \in Registers |-> 0]
    /\ data = [v \in Vars |-> 0]
    /\ started = Threads \ prog.dynamic
    /\ futex = [t \in Threads |-> "out"] /\ sleepers = [a \in Atomics |-> {}]
    /\ freed = FALSE /\ broken = FALSE

LitmusNext ==
    \/ \E t \in Threads : Execute(t) \/ Futex(t)
    \/ BeginThreads
    \/ EndThreads

LitmusSpec == LitmusInit /\ [][LitmusNext]_litmusVars

-----------------------------------------------------------------------------
(* Properties. *)

(* The verdict is the one the program is written to show: an execution     *)
(* that ends without a data race has none, and one that is reported has    *)
(* one.  Most programs have a race in every execution or in none, whatever *)
(* the interleaving and whatever the loads return; of the others it        *)
(* depends on a load.                                                      *)
RacesAsDocumented ==
    /\ stage = "end" => reg["r"] \in prog.ordered
    /\ result = "data_race" => reg["r"] \notin prog.ordered

(* No assertion of a program fails, that of its after() included, and no   *)
(* execution ends with an outcome its text excludes; no program reads a    *)
(* variable nobody has written yet, and what a program has deleted it      *)
(* never touches again.                                                    *)
OutcomesAllowed ==
    /\ ~ broken
    /\ result # "unitialized_access"
    /\ stage = "end" =>
           \A f \in prog.forbidden : \E r \in DOMAIN f : reg[r] # f[r]

(* A thread that waits for a value sleeps only while another thread has    *)
(* still to wake it: the fences of futex keep a wait from missing both the *)
(* new value and the wake.                                                 *)
NoMissedWake ==
    \A t \in Threads :
        futex[t] = "asleep" => \E u \in Threads \ {t} : Exists(u) /\ ~ Ends(u)
=============================================================================
