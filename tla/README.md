# The Relacy engine of lock_free_debug_tools_comparison, in TLA+

The repository compares tools that find data races and memory-ordering bugs in
lock-free C++ programs. One of the tools is inside it: Relacy
(`src/code/relacy/relacy`), a race detector that runs a small multi-threaded
test again and again under its own scheduler and its own relaxed memory. The
programs it is compared on (`src/code/aba`, `prod_cons`, `memory_ordering`,
`data_race`, `atomic`) are short clients. The logic whose errors nobody would
see is Relacy's: a detector that misses an execution, or reports one the C++
memory model forbids, misleads every test written with it. These modules model
it, and run the sample programs and Relacy's own litmus tests on the model.

Paths below are relative to `src/code/relacy/relacy/` unless they start with
`src/`, `example/` or `test/` (the last two are in `src/code/relacy/`).

## 1. The system

Relacy runs every simulated thread as a fiber of one OS thread. Before an
operation a fiber calls the scheduler (`context::sched`), which picks the fiber
that continues; then the operation itself runs to its end. So the concurrency
is that of the simulated program, at the granularity of engine calls; the
engine's own calls are atomic.

| Part | State | Operations | Hard because |
|---|---|---|---|
| Memory engine: `thread.hpp`, `atomic.hpp`, `foreach.hpp` | a vector clock, an acquire-fence clock and a release-fence clock per thread, the time of its last yield; per atomic a ring of three stores with clocks and first-seen stamps; one seq_cst-fence clock | load, store, read-modify-write, strong and weak CAS, atomic_init, four fences, global fence | a load may return one of several old stores; which ones depends on everything the threads exchanged before |
| Race detection: `var.hpp` | two arrays of stamps per plain variable | initialise, load, store | an error is a missed race or a false one |
| `sync_var.hpp` | a clock | acquire, release, acq_rel | carries the ordering of every mutex, event, thread object |
| Scheduler: `scheduler.hpp`, `full_search_scheduler.hpp`, `context_bound_scheduler.hpp`, `random_scheduler.hpp` | state and block count of each thread, yield debts, lists of timed and spurious waits, dynamic threads, switches left | schedule, yield, park, unpark, create, finish | several reasons block a thread at once; timeouts, spurious wake-ups and yields meet; the verdict "deadlock" |
| Tree search: `full_search_scheduler.hpp` | the tree of choices, kept from one iteration to the next | draw, end of an iteration, save and restore for the second run | replays a prefix each time; must visit every leaf once |
| Context: `context.hpp` | the current fiber, its call, saved preemption levels, the fiber that handed over, verdict | iteration, schedule, park, unpark, hand-over and switch back, create, finish, fail | fibers outlive iterations; one preemption counter serves them all |
| Waitset and blocking primitives: `waitset.hpp`, `stdlib/*.hpp` | waiters, owner, counters, a `sync_var` each | lock, wait, notify, signal, pulse, timed and multiple waits | lost wake-ups, hand-over of the fiber, wait for several objects |
| Memory manager: `memory.hpp`, `slab_allocator.hpp` | live blocks, caches by size, ring of deferred frees, free list of slabs | alloc, free, leak check | address reuse decides which ABA can be shown |
| Thread locals and hashes: `thread_local.hpp`, `thread_local_ctx.hpp`, `context_addr_hash.hpp` | entries per thread, an index and a context number in each object, hashes | create, get, set, destroy, hash | static objects live through iterations and contexts |
| Facades: `java_*.hpp`, `cli_*.hpp`, proxies of `atomic.hpp`, `var.hpp` | none of their own | each operator is one or several engine calls | which memory order, one read-modify-write or a load and a store |
| Samples and tests: `src/code/aba`, `prod_cons`, `memory_ordering`, `data_race`, `atomic`, `test/`, `example/` | stacks, deques, eventcounts, flags | push, pop, steal, wait, notify, publish | ABA, a last item taken twice, a lost or spurious post, missing release/acquire |
| Execution history, platform code, scripts | small | output | little |

What makes each part correct:

- memory engine: the clocks are happens-before, no more and no less; loads are
  coherent; seq_cst loads do not miss seq_cst stores; stamps stay comparable;
- race detection: a race is reported exactly if two conflicting accesses are
  unordered;
- scheduler: each block is taken back once; the thread that continues is ready;
  a deadlock is reported only if there is one; preemptions stay in their bound;
  nobody starves because others yield;
- tree search: every execution is visited, none twice, and a failure fails again
  in the second run;
- context: whoever runs has its own preemption level; iterations do not mix;
- blocking primitives: no wake-up lost, mutual exclusion, a timeout and a
  notification never both count, who passes comes after who let it pass;
- memory manager: a block is in one place; handles do not share state;
- thread locals: what a thread reads is what it has set, in this iteration;
- samples: the stack is a stack, or shows its ABA; every item is taken once; a
  notified thread wakes; the races and outcomes are those the texts name.

## 2. The modules

| Module | Models | Kind |
|---|---|---|
| `MemoryOrder` | `thread.hpp`, `atomic.hpp`, `var.hpp`, `sync_var.hpp`, fences | state machine |
| `HappensBefore` | extends `MemoryOrder` with a log of calls and happens-before computed from the log | the reference the clocks are compared with |
| `Litmus` | runs small programs on `MemoryOrder`: before, threads, after; `atomic_init`; the futex | interpreter |
| `ToolPrograms` | `src/code/data_race`, `atomic`, `prod_cons`, `memory_ordering` | programs (data) for `Litmus` |
| `TestPrograms` | `test/memory_order.hpp`, `fence.hpp`, `futex.hpp`, `iriw.cpp`, `example/peterson`, `example/ref_counting` | programs |
| `Facades` | the operators of `rl::var`, `rl::atomic` and the Java and CLI types; tests of `jtest.cpp`, `ntest.cpp` | programs and the compilation of operators to engine calls |
| `Scheduler` | the schedulers and the calls `context.hpp` makes to them | state machine, safety and liveness |
| `Fibers` | the fibers of `context.hpp`, hand-overs, preemption levels, iterations | state machine |
| `TreeSearch` | the enumeration of executions and the second run | state machine |
| `Lock` | what a readers-writer lock promises to its users | abstract specification |
| `Mutex` | `stdlib/mutex.hpp` as the facades construct it | state machine; implements `Lock` |
| `CondVar` | `stdlib/condition_variable.hpp` over `Mutex` | composition |
| `WaitObjects` | events, semaphores, the mutex handle, thread objects, waits for one and for several | state machine |
| `Memory` | `memory.hpp`, `slab_allocator.hpp` | state machine |
| `ThreadLocal` | thread locals and hashes of addresses | state machine |
| `Samples` | what the sample programs below share | |
| `AbaStack`, `WsDeque`, `EventCount` | the stack of `src/code/aba` and `example/stack`; the work-stealing deques; the eventcounts and their clients | state machines of sample programs |
| `MCMemoryOrder`, `MCHappensBefore`, `MCWaitObjects`, `MCCondVar`, `MCServices`, `MCPrograms` | instances for TLC: bounds, symmetry; `MCServices` and `MCPrograms` each check several unrelated parts in one run, a behaviour being one of them | |
| `MemoryOrderProofs`, `HappensBeforeProofs`, `MutexProofs`, `WaitObjectsProofs`, `SchedulerProofs`, `ServicesProofs`, `SamplesProofs` | theorems about the modules they extend; `MutexProofs` those about `Mutex` and `CondVar`, `ServicesProofs` those about `Memory`, `TreeSearch`, `ThreadLocal` and `Fibers`; `Lock` holds its own | TLAPS |

The mutated operators that `PROJECT.json` names stand beside the originals, with
a comment that says so; nothing uses them.

### MemoryOrder

One behaviour is one iteration of a test. The simulated program and the
scheduler are left open: any thread may make any call of the engine in any
state, which is more than any one test does. `Next` has one action per engine
call. The variables have the names of the fields without the trailing
underscore or prefix: `clock` is `acq_rel_order_`, `acquireFence` and
`releaseFence` the two fence clocks, `history` the ring of
`history_record`s, `storeStamp`/`loadStamp` the arrays of `var_data_impl`.

- `LoadSlots` is the loop of `get_load_index`: `MaySkip` collects its early
  exits in their order, and the draw `c.rand(2)` becomes the choice of a slot
  among those the loop can reach. `LoadLimit` is 2 steps back under the random
  scheduler and 1 otherwise, as in the code.
- `Rmw` is `atomic_load<mo, true>` and `atomic_store<mo, true>` in one step, so
  the thread ticks twice. `CasFail` covers the expected mismatch and the
  spurious failure, with its once-per-variable budget (`alreadyFailed`) when
  the scheduler is not random.
- The value of a weak CAS's comparison is the value of the newest record:
  `value_` in the code is always that of `history_[last_index_]`.
- A failed check (`RL_ASSERT_IMPL`) ends the iteration: `result` becomes the
  verdict and nothing happens after it.
- `current` is `current_index_` modulo 3: the code uses it in no other way.
- `mo_consume` is not listed because every entry point of the code turns it
  into an acquire.

### HappensBefore

`Predecessors` computes what a call comes directly after: the earlier calls of
its thread, the releases (stores, or fences before a store) at the head of the
release sequence of the store it reads from, when it acquires (or, for an
acquire fence, when an earlier read of its thread did), the releases of its
`sync_var`, the earlier seq_cst fences. `past` closes it transitively. Nothing
in it reads a clock. The rule for release sequences is the engine's: the
sequence goes on through any read-modify-write and through a store by the
thread of the store just before (`Cxx0xSequences = FALSE`). With
`Cxx0xSequences = TRUE` it is the rule of C++0x, see section 5.

The engine orders seq_cst fences by happens-before, which the standard does
not; the reference says so too, and a test can therefore not see a race that a
pair of seq_cst fences hides.

### Litmus, ToolPrograms, TestPrograms

A program is data: instructions before the threads, a sequence for each thread,
and what its text promises (`ordered`: the results with which there is no race;
`forbidden`: a final state that must not occur; `expect`: the values an
assertion allows). `Litmus` runs one, each instruction being an action of
`MemoryOrder`, between the two global fences of `fiber_proc_impl`. So the runs
answer two questions at once: whether the engine shows every race and outcome
the texts name, and whether it shows no other.

- The main function of a sample becomes a test of Relacy: what it does before it
  makes its threads is `before`. A string or a map is one plain variable.
- The ticks that `on_start` and `on_finish` of a static thread make are left
  out: the global fence follows or precedes them at once.
- `AtomicInit` is `strong_init`. It leaves `first_seen_order_` of the record as
  the memory holds it, hence the choice of `NotSeen` or 0. A comment of
  `jtest.cpp` calls `test_unitialized_var<0>` broken, which fits.
- The futex makes several engine calls with no scheduling point in between:
  `FutexFence`, `FutexCompare` and `FutexPark` are steps of their own so that
  each engine call keeps its clock, and `Held` keeps everybody else out.
- An access to an atomic or a variable that has no value ends the test
  (`LoadUninitialized`, `RmwUninitialized`, `VarLoadUninitialized`); the instruction
  then has no result.
- A loop that spins is cut by `MaxClock`.

### Facades

`Kind` is a row of a table: the memory orders a type uses for its constructor,
its loads and its stores, and whether `++`, `+=` and the like are one
read-modify-write. `Facades` turns uses of an operator into instructions, as
the operators do: an assignment from another volatile returns `*this` and loads
it again; `++` of a volatile is a load and a store; `a++` of an `rl::var` returns
the new value, since it increments the copy it returns (`var.hpp:109`). `operator -=` of an atomic
proxy returns `fetch_sub(value) + value` (`atomic.hpp:166`), which is not the
value stored; `SubtractAssign` does the same. `test_seq_cst_volatiles2`
(`test/jtest.cpp:159`) stores 0 into variables that are 0, so that its assertion
cannot fail; it is left out of the set.

### Scheduler

One behaviour is one iteration. An action is one call of the current thread,
up to the moment the next thread continues. `Tables` gathers the tables that
`scheduler.hpp` and `full_search_scheduler.hpp` update in place, and each
function is an operator from tables to tables: `BlockThread`, `UnblockAll`,
`OnThreadBlock`, `UnparkThread`, `Purge`, `CountStep`, `YieldPriority`.
`Schedule` is `schedule_impl` from the draw of a timed thread on. Every draw of
`rand` is an existential: the tree search visits all of them (`TreeSearch`).

- `policy` is the class of the scheduler. `RandomSchedule` is
  `random_scheduler.hpp`: it draws the timed and the spurious threads first, each
  by a chance of its own, and takes no notice of yields. What the generator
  returns is a choice.
- `priority[y][t]` is `threads_[y].yield_priority_[t]`, the steps `y` owes to
  `t`; `total_yield_priority_` is the sum of a row (which the code checks in
  debug builds) and is not kept apart.
- `schedCount` stops at `MaxYield`: it is only ever compared with the argument
  of a yield.
- `waiting` is the union of the waitsets. A thread that resumes for another
  reason than an unpark removes itself (`waitset::park_current`), which is why
  `ResumeParked` takes it out.
- The order inside the lists of running, timed and dynamic threads is
  abstracted: the lists are sets. `create_thread` takes the last dynamic thread
  and the model any one; dynamic threads are alike until they are created.
- `verdict` is `last`, `deadlock`, or `verify_failed` for the assertion of
  `full_search_scheduler.hpp:189`.

### Fibers

What `context.hpp` does around the scheduler: a fiber of a thread lives as long
as the context and is inside a call (`at`) whenever it does not run. A step goes
from one switch to the next. The scheduler's choice is any ready thread; what
makes a thread ready is in `Scheduler`.

- `disable` is `disable_preemption_`, one counter for all the fibers. `Park_`
  saves it in `dp`, a local of `park_current_thread`; `TakesLevel` restores it at
  once or, for a fiber that its waker handed the processor to (`do_switch`),
  leaves it to `switch_back`, which is `SwitchBack` and `ReturnFromSwitchBack`.
- `from` is `temp_switch_from_`, `saved` is `saved_disable_preemption_`.
- `Iterate` is `iteration`, `EnterLoop` and `BeforeEnds` the top of the loop of
  `fiber_proc_impl`, `FinishThread` and `AfterEnds` its end. `level`, `created`
  and `began` are ghosts: what the properties compare the counters with.

### TreeSearch

What a test draws next depends on its draws so far: a test is a function from
the sequences of results that its draws can have to the limit of the next draw, 0
where it ends (`IsTest`; it may have any number of executions, of any length).
`Rand` is `rand_impl` (follow the saved node or add one), `IterationEnd` is
`iteration_end_impl`, `Fail` the end of the first run and the beginning of the
second with `get_state` and `set_state` (`simulate2`). `TLC` checks every test
up to its bound with every place of failure. A test that is not deterministic
goes on as any other test may, and then the `RL_VERIFY`s may fail, as their
comments say. The estimate of the number of iterations is only printed.

### Mutex and Lock

One behaviour is the life of one mutex (`generic_mutex_data_impl`), from its
construction by one of the facades to its destructor or to the first failed
check. `kind` holds the arguments of the constructor, and whether the facade
can lock with a timeout; `Facades` (a set in this module) lists the combinations
that exist. An action is one operation of a thread, from its scheduling point to
its return or to the point where its thread parks; `Resume` and `Timeout` are the
rest of an operation that parked. Threads barge: an unparked writer may find the
mutex taken again by a thread that never waited, and parks again. That is the
code's behaviour, so no thread is promised the mutex it was woken for.

- `owner` is `exclusive_owner_`, with "free" and "shared" for `state_free` and
  `state_shared`; `recursion`, `sharedOwner`, `sharedCount`, `tryLockFailed` and
  the two waitsets are the fields of those names.
- `loop` says in which loop a thread is, and whether its waits are timed. A
  thread in a loop and outside the waitsets has been unparked and has not run
  since.
- `TakeExclusive`/`ParkExclusive` and `TakeShared`/`ParkShared` are the two
  outcomes of a turn of the loops. Their guards are the loops' conditions;
  `Admits` keeps new readers out while a writer is parked.
- `AttemptExclusive` and `AttemptShared` are the checks before the loops:
  an upgrade or a forbidden recursion fails and ends the iteration.
- `Wake` follows `unlock_exclusive`: a writer is unparked if one is parked,
  else all the readers. `FreeShared` wakes a writer only, as `unlock_shared` does.
- A `try_lock` that fails on a held mutex changes nothing. One that fails
  spuriously uses up `tryLockFailed`.
- `unlock_shared` is `RL_VERIFY`d to be called on a readers-writer mutex only,
  hence its guard; the facades call it on no other.
- The clocks. `MemoryOrder` has the vector clocks; what a mutex adds is which
  ends of sections its `sync_var` passes on. So `unseen[t]` is the set of ended
  sections <<thread, mode>> whose latest end `t` does not come after, and
  `syncUnseen` those that `sync_` does not know. `Acquire` intersects the two
  (a join of clocks); `EndSection` makes the end known to `sync_` and to the
  thread, and unknown to the others.

`Lock` has two counters per thread and the same `unseen`. `ImplementsLock` maps
`exclusive_owner_` and the recursion count to `writes`, and `shared_owner_` to
`reads`.

### CondVar

`condition_variable.hpp` over `Mutex`: a wait is `Wait`, `UnlockAndPark` (one
step: there is no scheduling point between the two), a wake-up (`NotifyOne`,
`NotifyAll`, `TimesOut`, `WakesSpuriously`) and `Relock`, which takes the turns
of any lock. With a predicate, the loop of `wait` goes round again. The program
is the usual one, a flag that the mutex guards.

- `limit` is `spurious_wakeup_limit_`, read before the park and paid for after
  it: several threads that parked with the last one may all use it, so it can
  go below zero, down to 1 - |Threads|. `CvTypeOK` says that this is all.
- `wait_until` without a predicate returns its `unpark_reason` as a `bool`
  (`condition_variable.hpp:339`); the value is not modelled.

### WaitObjects

The objects that are waited for through handles, with the order of the waiters
in each waitset. A call is an operator from tables to tables, or to a set of
them when it draws, because a call that signals runs its waiters inside its own
step: `Serve` is what a thread with `do_switch` does between the hand-over and
`switch_back`. A mutex and a thread object wake without a hand-over; the woken
thread goes on in `Continue`.

- `TryRemovable` is `try_remove` of a wait for all: it refuses while an object
  is missing. `Leave` takes a thread out of every waitset.
- The loops (`unpark_all`, the `unpark_one`s of a post, the acquisitions of a
  wait for all) are recursive functions of how often they have gone round.
- `End` is `on_finish`: the object of the thread is signaled and its waiters
  are unparked.
- `astray` is a ghost: the events and semaphores whose signal woke a thread that
  took another object. See section 5. `took` is another: the objects that the
  waits of each thread have taken in the latest step, also those of a thread
  that was served in the step of another. `PassersOrdered` looks at it.
- Timeouts may come in every wait: one without a timeout is one whose timeout
  does not come.
- The handle is locked at most once by a thread here; recursion is in `Mutex`.

### Memory

`Alloc`, `Free` and `Defer` are `memory_mgr::alloc`, `free` and the ring of
deferred frees, which hands out a block late to a test that waits for its
address. The caches survive an iteration. The second part is the handles of the
primitives: `InitHandle`, `DeinitHandle` and `UseHandle` are the wrappers around
`slab_allocator` and the checks for double initialisation and use before it.
A closed handle of a thread is freed although nobody allocated it, which is
the verdict `double_free` (`rl_CloseHandle`).

### ThreadLocal

`entries` of the context, and the two kinds of objects that keep an index into
them. A static `thread_local_var` outlives iterations and contexts: `Stale` is
its comparison of `ctx_seq_`. `BeginContext` is the second run. `stored` is a
ghost: what each thread has set since the iteration began.

### Samples: AbaStack, WsDeque, EventCount

Lock-free programs whose correctness does not depend on memory orders alone:
interleavings of their accesses, at sequential consistency (the orders are
`Litmus`'s business). `mem` is the shared memory, `label` and `loc` where a
thread is and its locals, `todo` the calls it still makes.

- `AbaStack`: nodes are addresses and the allocator may reuse one. `aba.cpp`
  and `aba_detect.cpp` free a popped node, `aba_fixed.cpp` counts references, so
  an ABA is possible in the first two. `abs` is the stack the calls have built; the ABA itself is the ghost
  `aba`, set when an exchange takes an address for the node that lived there
  before. `AbaMain` stands for both stacks of `aba_sync.cpp` 62-100, too.
  `ReachedFrom` is what counted references keep alive: the least set of nodes
  that holds the referred ones and what its nodes refer to. `StackSpec` has any
  threads that push and pop; the programs of the code start as it does.
- `WsDeque`: the owner pops and pushes at one end, thieves steal at the other
  under a lock. `DequeSpec` is the C++ version with any calls of the owner and
  any thieves; the tests of the code are some of these. The test `tail <= head +
  mask` of the Java and CLI versions admits one item more than the C++ version
  does: a third push overwrites a slot that a thief is reading (section 5).
  `JavaSpec` is their test with a push more.
- `EventCount`: `example/tbb_eventcount` and `example/eventcount` with their
  queue, condition variable and pool. `spurious` and `sema` are the fields of
  `ec_thread`. `is_permanently_open_` is never initialised in the code; the model
  takes it for 0, which the test needs to make progress. `EcSpec` has any threads
  that wait and notify in these ways, with a queue of any size: so a waitset may
  be empty when the notifier gets the mutex, and `remain_to_signal_`, a `size_t`,
  goes below zero if more preferred threads wait than there are tasks
  (`eventcount.cpp:653`): then everybody further down the list is woken.

## 3. The runs

| Run | Checks | Instance |
|---|---|---|
| `engine` | `TypeOK`, `KnowledgeBound`, `CoherentReads` | 2 threads, an atomic, a plain variable, a sync_var, 4 calls, all actions |
| `hb` | `ClockIsHappensBefore`, `RaceIffUnordered`, `CoherentHistory`, `SeqCstReads` | five mixes of calls (`MCProfiles`), 2 or 3 threads, 5 or 6 calls |
| `hb_cxx0x` | `RaceIffUnordered`, violated | 6 calls |
| `sched` | seven properties of the schedulers, `NoStarvation` among them | 2 static and 1 dynamic thread, yields of 1, 1 switch, the three policies |
| `sched_timed` | `SomebodyRuns`, violated | 3 static threads |
| `mutex` | five properties of the mutex | 3 threads, recursion up to 2, every facade |
| `objects` | `NoLostWakeup`, `PassersOrdered`, `VerifiesFailOnlyIf` | 3 threads, eight pairs of objects |
| `objects_lost` | `SignaledHasNoWaiter`, violated | 4 threads, an event and a mutex |
| `condvar` | `CvTypeOK`, `NoMissedNotify`, `ReturnsHolding` | 3 threads, a critical section |
| `services` | `MemoryHasOnePlace`, `SearchIsExhaustive`, `FailureIsReplayed`, `LocalsAreOwn`, `LevelsAreOwn`, `IterationsApart` | one of memory, handles, search, thread locals, fibers |
| `programs` | `RacesAsDocumented`, `OutcomesAllowed`, `NoMissedWake`, `StackIsIntact`, `EachItemOnce`, `PostsAreAccounted`, `NobodySleepsForEver`, `WakesAsMany`, `PopsFindItems` | every program of `ToolPrograms`, `TestPrograms`, `Facades` and the samples |
| `deque_java` | `EachItemOnce`, violated | the Java deque, three pushes and one thief |

The properties:

- `KnowledgeBound`: no piece of state knows more of a thread than the thread
  has done. This is what makes `>=` between two stamps of a thread mean order.
- `CoherentReads`: a load never returns a store older than one its thread made
  or read. `CoherentHistory` says the same across threads, along
  happens-before.
- `ClockIsHappensBefore`: the clock of `t` has reached the stamp of a call
  exactly if the call happens before what `t` does next.
- `RaceIffUnordered`: the race verdict is sound and complete, relative to the
  engine's happens-before.
- `SeqCstReads`: a seq_cst load does not return a store older than the last
  seq_cst store.
- `BlockAccounting`: `block_count_` is the number of reasons for which a thread
  is blocked, and a thread is ready exactly if there is none.
- `ListsAreCurrent`: only a waiting thread can time out or wake spuriously;
  nobody is owed a step by itself or by a finished thread.
- `CurrentRuns`, `StallOnlyTimed`, `SomebodyRuns`: the assertions at
  `scheduler.hpp:123` and `full_search_scheduler.hpp:189`.
- `DeadlockIsReal`, `PreemptionsPaid`, `NoStarvation`: the verdict, the bound
  and the fairness of the search.
- `CountsAgree`: the four fields that say who holds the mutex agree. They are
  updated in different branches of five functions; the `RL_VERIFY`s of
  `mutex.hpp` rely on it.
- `NoLostWakeup` of `Mutex`: a parked thread always has somebody who will wake
  it. It is delicate because `unlock_shared` wakes no reader: readers parked
  behind a parked writer depend on that writer.
- `ImplementsLock`, `HoldersSafe`: the mutex is a lock. A writer is alone and
  comes after every section, a reader after every exclusive one, so the race
  detector reports nothing on data the mutex protects.
- `ReadersMakeWay`: while a writer is parked, readers that come one after another
  cannot keep the mutex shared for ever; it is free or a writer's some day. It
  does not say that the parked writer is the one that gets it: `WakeWriter` takes it
  out of the waitset, readers look only at the waitset, and so readers and writers
  may be in again before the woken writer runs, which then parks again. The
  code promises no more, and a writer may be overtaken for ever.
- `NoLostWakeup` of `WaitObjects`: a thread stays parked only while something it
  waits for is missing, unless a thread woken for that mutex is on its way to
  take it, or the signal went astray.
- `PassersOrdered`: whatever a thread takes, it comes after the latest signal of
  that object, of each of them in a wait for all. That covers a wait or a try of
  a running thread that passes at once, a waiter that is served in its waker's
  step and one that goes on by itself; and a wait that ends otherwise than by
  giving up has taken one of its objects, or all.
- `VerifiesFailOnlyIf`: the `RL_VERIFY`s of events and semaphores fail only when
  an auto-reset event with several waiters is pulsed, or in the situations of
  section 5 and of the comments of `event.hpp`.
- `NoMissedNotify`, `ReturnsHolding`: a wait for the flag ends once the flag is
  set and everybody has been notified; a wait returns with the mutex, and with
  the predicate true unless it timed out.
- `MemoryHasOnePlace`: a block or a slab element is with the test, in a cache or
  in the ring, once.
- `SearchIsExhaustive`, `FailureIsReplayed`: every execution once, no other; the
  failure found is the failure replayed.
- `LocalsAreOwn`: what a thread reads from a thread local is what it has set in
  this iteration; a deleted key destroys every value once; hashes of addresses
  are the order of their use, so that a replay gets the same ones.
- `LevelsAreOwn`, `IterationsApart`: whoever runs has its own preemption level
  and no assertion about hand-overs fails; nobody runs a test function before
  `before()` or after the iteration ended.
- `RacesAsDocumented`, `OutcomesAllowed`: a program races only with the results
  its text says; its assertions hold, those of `after()` among them, its forbidden
  outcomes do not occur, and it never reads an atomic or a variable that has no
  value yet (`unitialized_access`), which is what `test_unitialized_var` is for.
- `NoMissedWake`: a futex waiter sleeps only while somebody has still to wake it.
- `StackIsIntact`, `EachItemOnce`: the stack is what its calls made of it, up to
  an ABA; no item of a deque is taken twice or lost, thieves take the oldest.
- `PopsFindItems`: a pop of the owner comes back without an item only if every
  item pushed so far has been taken, although thieves move the head before they
  know whether there is anything to steal.
- `PostsAreAccounted`, `NobodySleepsForEver`, `WakesAsMany`: the eventcount posts
  each thread it took out exactly once, and its clients finish. A notification
  wakes every preferred thread that waits, and as many threads as there are tasks
  unless more preferred threads wait than that: then `remain_to_signal_` wraps
  and whoever is behind in the waitset is woken too. The pool runs both cases,
  two tasks with one preferred thread and one task with two.

### Bounds

- `MaxCalls`, and `calls` of a profile, bound the calls of an iteration. Four
  calls are enough to initialise an atomic, fill its history, read an old store
  and read again. Five are enough for a release, a read-modify-write by another
  thread, an acquire and two accesses to a plain variable, or a write, its read
  by a second thread, that thread's release, a third thread's acquire. The
  shortest history in which a load of one thread keeps another from reading an
  older store has six: two stores, a load, two fences, the other load. Every
  property of every passing run is violated under these bounds by a one-line
  change of the code (the `mutants` of `PROJECT.json`), so the cases do occur.
- `Values`: the clocks never look at the values. One value suffices except for
  the CAS, which compares: the engine run has two; the programs have four.
- `MaxYield` is 1: what a liveness check costs leaves no room for 2. A thread
  that yields to two others still owes two steps, and the theorems about the
  scheduler are for any `MaxYield`. `ContextBound` is 1: a switch left and none
  left are both reached.
- Three threads are enough for a thread that is blocked by a yield to two
  others, by a wait and by a yield at once, and to be starved by two others.
- `mutex`: three threads give a writer that waits for two readers, a reader
  parked behind a writer, and two parked writers. `MaxDepth` 2 is one nested
  lock. Nothing else is bounded.
- `objects`: `MaxCount` 2 lets a semaphore be posted twice at once. `MCKinds`
  has a pair for each two kinds that meet in a different way; a wait for several
  objects needs two.
- `condvar`: `SpuriousLimit` 1 instead of 10, so that the last one is reached;
  the mutex is a critical section, since all the exclusive mutexes differ only
  in their checks.
- `services`: `DeferredCount` 3 instead of 64 and `BatchSize` 2 instead of 128,
  so that the ring comes round and a second batch is made; 4 blocks of two
  sizes; the 182 tests of up to 3 draws with limits up to 2, and one
  that is not deterministic (its draws do not depend on which one); 2 contexts; `MaxLevel` 2.
- `programs`: `MaxClock` 22 lets each spinning loop turn several times after
  everything else is done; 3 of the 4 threads of `example/stack` and a stack of
  3 nodes instead of 5 still have a pop overtaken by two pops and a push.
- `CHECK_DEADLOCK FALSE` everywhere: an iteration ends (a verdict, or the bound
  on calls; a destroyed mutex; a program that has run).

### Fairness

`FairSpec` of `Scheduler` adds that the current thread yields or parks again and
again unless the iteration has ended (`GiveWay`). It does not say which thread
continues: that is the scheduler's choice and any choice is allowed. The code
justifies the assumption in two ways. A test whose thread spins without a yield
is stopped by `execution_depth_limit` (`context.hpp:554` and `561`) as a
livelock. And `src/code/relacy/test/advanced.txt:20` asks for it: with these
schedulers, "in order to ensure fairness of scheduler, you must use 'yield' calls
in all 'spin-loops', otherwise simulation will report non-terminating execution".
`NoStarvation` then says that the yield debts do the rest: every thread that is
not parked runs again.

`Mutex` assumes only that its users leave: `Leave` says that a thread that
holds the mutex shared unlocks it, `LeaveLast` that it does not for ever lock
again before it gives its last hold back. Nothing is assumed of the threads that
are parked, or of new readers, who may keep coming. That is a condition on the
program under test, as for any lock; a test that breaks it hangs by its own
fault.

## 4. What is proved

Eight modules of proofs, each about the modules it extends. A run shows the same
property on a small instance; the theorems hold for every value of the constants.

`MemoryOrderProofs` proves, for any sets of threads, atomics, variables and
values, any choice of memory orders and any number of calls:

- `TypeCorrect`: `Spec => []TypeOK`;
- `KnowledgeCorrect`: `Spec => []KnowledgeBound`;
- `ReadsCoherent`: `Spec => CoherentReads`.

The only assumption is `MemoryOrderAssumption`: threads and values are not
empty and each kind of operation is given orders the code accepts
(its `RL_VERIFY`s). The set of threads need not be finite.

The argument. `TypeOK` is inductive by itself. `KnowledgeBound` is inductive
relative to `TypeOK`: a step changes the clock of one thread `t`
(`ClockStep`), or of all of them (the global fence); own clocks only grow, so
everything bounded before stays bounded (`Carry`); and every value written is a
join of values that were bounded, or `t`'s new time. `CoherentReads` is not an
invariant but an action property; it needs `KnowledgeBound`: a store `t` has
seen carries a first-seen stamp of `t`, the stamp is at most `t`'s own clock
(that is `KnowledgeBound`), hence `Knows` holds and the loop of
`get_load_index` stops there (`SeenStops`), wherever the yield and seq_cst rules
would have led. Without the bound a stamp could lie ahead of the clock and the
loop would pass it.

`HappensBeforeProofs` proves, for any such sets, any orders and any number of
calls, that the clocks are happens-before and what follows from it:

- `ClocksAreHappensBefore`: `HBSpec => []ClockIsHappensBefore`;
- `RaceDetectionIsExact`: `HBSpec => []RaceIffUnordered`;
- `ReadsAreCoherent`: `HBSpec => []CoherentHistory`;
- `SeqCstReadsAreRecent`: `HBSpec => []SeqCstReads`.

Besides the assumptions of `MemoryOrder` and `HappensBefore` (the profiles are
profiles) each theorem has the hypothesis `~ Cxx0xSequences`: happens-before with
the release sequences of the code. With those of C++0x they are false, which the
run `hb_cxx0x` shows.

The argument. A clock of the engine stands for a set of calls (`Stands(c, S)`): of
the calls that have a stamp it has reached those of `S`, and no others. The clock
of a thread stands for what happens before its next call; that clock joined with
`acquireFence`, for that and the pasts of the releases its reads read from;
`releaseFence`, for the pasts of its release fences; `seqCstFence` and a
`sync_var`, for the pasts of the seq_cst fences and of the releases of that
`sync_var`; a record, for the releases at the head of its store's release
sequence. An access to a plain variable leaves a stamp, and the latest one of each
thread is enough: if the clock of a thread has reached that, it has reached the
earlier ones. `AllStand` says all this, and each call preserves it: a join of
clocks stands for the union of what they stand for, and `Predecessors` adds these
sets and nothing else. `HasRace` is then equivalent to the stamp test that ends
the iteration. For `CoherentHistory` the invariant says that whoever made or read
a store left a stamp in its record, as long as the ring has it (`RecordStands`);
if that call happens before a load, the loop of `get_load_index` stops there or
before. Two things stood in the way of a proof. `ReleasedBy` chooses the store
just before with a CHOOSE in a recursive function; the proof uses a relation
instead (`Chain`). And clocks bound nothing until it is known that they are not
ahead of the threads, so that the invariant is `TypeOK`, `KnowledgeBound` and
`HBInv` together (`HBFull`). TLC has checked `HBFull` on the profiles of
`MCHappensBefore`.

`SchedulerProofs` proves, for any finite set of threads, static and dynamic, any
yields, any context bound and all three schedulers:

- `AccountsCorrect`, `ListsCorrect`: `BlockAccounting`, `ListsAreCurrent`;
- `CurrentCorrect`, `DeadlockCorrect`, `StallCorrect`: `CurrentRuns`,
  `DeadlockIsReal`, `StallOnlyTimed`;
- `PreemptionsCorrect`: `Spec => PreemptionsPaid`.

The only assumption is `SchedulerAssumption`.

The argument. The scheduler's functions are operators from tables to tables, and
so are the lemmas. `Accounted(s, n)` says that in the tables `s` the block count
of a thread is the number of threads it waits for since it yielded, plus `n` of
it: the reasons that are no yields. Each function is shown to turn accounted
tables into accounted ones. `on_thread_block` and the step counted by
`schedule_impl` are both a payment of one row of `yield_priority_` (`RowPaid`):
those whose entry becomes 0 lose one element of `WaitsFor` and one of their
count. `block_thread`, for `k` reasons that the accounts have already, is
`BlockThreadAccounts`; a purge leaves no debts (`PurgeSettles`);
`unblock_thread` for another reason than a yield takes one of `n`
(`UnblockAccounts`). `Settles` collects what callers need, among it that no
debt is added. `Ordered` fixes `n` to what the lists say (parked, not created,
finished), and `SchedInv` adds the verdicts and that the current thread runs.
The accounts must be exact there, not bounds: since the current thread runs
nothing blocks it, so it waits for nobody and is not in a list (`CurrentFree`),
which is what a park, a yield and a finish start from. After that, one fact
about `is_deadlock` carries the verdicts (`PurgedOrdered`): unless there is a
deadlock, somebody runs or somebody is timed; and if there is one, there are no
debts and all the others are parked or were never created. Under the random
scheduler there are never debts, so whoever it draws is blocked by its wait
alone, and neither of its assertions can fail.

`ServicesProofs` proves four things that have nothing to do with one another.
About `Fibers`, for any sets of static and dynamic threads and any nesting of
preemption disablers:

- `LevelsCorrect`: `FibersSpec => []LevelsAreOwn`;
- `IterationsCorrect`: `FibersSpec => []IterationsApart`.

`FibersInv` has four parts besides the types. `Listed`: where a
fiber is decides in which lists of the scheduler it can be. `HandedOver`: only
the current fiber is in the middle of something, except that a waker inside
`unpark_thread` may be joined to the fiber it handed the processor to, which
then is the current one and has not switched back. So there is at most one
hand-over at a time, and `temp_switch_from_` names its waker. `Levels`: the
shared counter is 0 at every switch, and the level of a fiber that does not run
is where it left it, in the local `dp` or in `saved_disable_preemption_`. These
two need each other: `switch_back` restores the level of the right fiber because
of the first, and the `RL_VERIFY`s of `schedule` hold because of the second.
`Apart`: while `before` or `after` runs every other fiber is at the top of its
loop. The only assumption is `FibersAssumption`: some thread is static, and the
main fiber is no thread.

About `Memory`, for any sizes, lengths of the ring and of a batch, and any number
of blocks (`MemoryCorrect`: `MemorySpec => []MemoryHasOnePlace`): the property is
inductive with the types, `HeapInv` for the blocks and `HandleInv` for the handles.
A cache is a stack: what is pushed was in the ring or with the test, so it was
not in the cache (`Push`), and what is popped was there once (`Pop`).

About `TreeSearch`, for any tests, finite or not:

- `SearchCorrect`: `SearchSpec => []SearchIsExhaustive`;
- `SearchReplays`: `SearchSpec => []FailureIsReplayed`.

`SearchInv` holds of a deterministic test. The saved nodes are a branch of it: each
has the limit that the test draws there and an index below it, and the iteration
follows the branch (`FollowsBranch`); so a draw finds its own node, and an
execution ends where the branch does (`EndOfBranch`). What has been visited are
the executions before the branch, in the order in which the first result that
differs decides (`Before`, `VisitedBefore`). Two executions differ somewhere in
the result of one draw, as neither goes on where the other ends (`LeavesPart`).
So the step of `iteration_end_impl` to the next branch leaves out only the
execution it ends (`NextBranch`), and where no node has a branch left there are
no others (`NothingLeft`). The failing execution has not been visited, and in the
second run it is the branch (`FailureAhead`). That the search ends for a finite
test follows from the first theorem, as no execution comes twice, but is not
stated. The only assumption is that the tests are tests.

About `ThreadLocal`, for any sets of objects and threads and any number of
iterations and contexts (`LocalsCorrect`: `LocalSpec => []LocalsAreOwn`).
`LocalInv` adds to the property that an object that has an entry in this context
(`Has`) is the only one, that the entry is alive and holds what the threads have
set, and that an object without one has not been set (`EntriesOwn`). An object
whose index is of an older context has none, wherever the index points; that is
why an entry that is given again is never shared. `HashesCounted` keeps
`hash_seq_` at the number of hashed addresses. `ThreadLocalAssumption` says that
the three kinds of objects are different objects.

`MutexProofs` proves, for any set of threads (infinite ones too) and any depth of
recursion:

- `TypeCorrect`, `CountsCorrect`, `WakeupsCorrect`: `TypeOK`, `CountsAgree`,
  `NoLostWakeup`;
- `MutexIsLock`: `Spec => ImplementsLock`;
- `MutexSafe`: `Spec => []HoldersSafe`.

`Lock` proves `LockSafe`, that a lock excludes and orders, which is inductive with
its types. The only assumption is `MutexAssumption`: the two special owners are no
threads, and `MaxDepth` is positive.

The argument. `CountsAgree` compares `shared_lock_count_` with the number of
pairs <<reader, hold>>, so that a hold taken or given back adds or removes one
element of a finite set; it is inductive with the types. `MutexInv` adds what the
refinement needs: a thread has seen the ends of its own sections (`OwnSeen`);
`syncUnseen` is empty, because every section ends with a release and the
releasing thread knows of that end; a thread in a waitset is in the loop of that
waitset and holds nothing shared (`WaitsAgree`); and `NoLostWakeup`, whose proof
uses that no facade has both readers and timeouts (`FacadeFacts`). With
`syncUnseen` empty, `Acquire` is the abstract `unseen[t] = {}`, and each
operation is one step of `Lock` or a stutter: an operation that parks, wakes or
fails changes none of what `Lock` sees. `MutexSafe` then needs nothing more of
the code: it is `LockSafe` under the refinement mapping.

`MutexProofs` also proves of `CondVar`, for any finite set of threads, any of the exclusive
mutexes, any depth of recursion and any limit of spurious wake-ups:

- `CondVarUsesMutex`: `CvSpec => Spec`, the specification of `Mutex`;
- `CvTypesCorrect`, `NotificationsArrive`: `CvTypeOK`, `NoMissedNotify`;
- `WaitsReturnHolding`: `CvSpec => ReturnsHolding`.

The argument. Whatever a condition variable does to its mutex is an operation of
the mutex, so the mutex's invariants hold of it and need no second proof.
`CvInv` adds three facts. `StagesAgree`: who waits is in no loop of the mutex
until it relocks. `LeavingSafe`: who looked at the flag, found it down and is
about to park still holds the mutex, so nobody raised the flag; that is why
`NoMissedNotify`, which speaks of the parked, survives a park. `LimitBound`:
once the limit is used up, the limit less the number of those that may still use
it does not go below 1 - |Threads|, because who parks then may not. The code
reads the limit before the park and pays for it after, so a bound of the limit
alone is not inductive. The threads must be finite and at least one for that bound
to mean anything (`CondVarAssumption`); a test is compiled for their number.

`WaitObjectsProofs` proves, for any sets of threads and objects, infinite ones
too, any kinds of objects and any largest count:

- `WakeupsArrive`: `Spec => []NoLostWakeup`, which includes the types;
- `PassersAreOrdered`: `Spec => PassersOrdered`;
- `ChecksHold`: `Spec => VerifiesFailOnlyIf`.

The assumptions are `WaitObjectsAssumption` (counts are bounded, and no thread
is called like a kind of objects or like nobody) and `KindsAssumption` (each
object is of one of the kinds). A wait for several objects is for a pair of
different ones, as in the model.

The argument. `Placed` says that the parked threads are once in each of the
waitsets they wait in and nobody else is, and that only a waiter without a
hand-over is ever woken before it is served. The rest of the invariant is about
pleas. A plea of a waiter is a set of objects that would end its wait: all of
them together, or each of them alone. It is met when they are signaled, and it
is heard if one of them is excused, which are the two exceptions of
`NoLostWakeup`; `AllHeard` says that every plea that is met is heard. This is
`NoLostWakeup` in a form that speaks of one object at a time, and it is
inductive together with `Placed`: a call on an object touches the pleas for that
object only (`Touching`), and whatever a woken thread does inside the call only
takes, so no other plea is met by it that was not before (`Calmer`). What is
left is the object that is signaled. `unpark_all` leaves no plea for it met
(`UnparkingAll`); `unpark_one` either finds a waiter, who takes the signal or
whose leaving excuses it, or leaves nobody to complain (`UnparkingOne`); n posts
are n times that (`UnparkingMany`).

For the two action properties one fact is added, `SyncOwn`: `sync_` of an object
is after the latest signal of it. Who takes a signal acquires `sync_` and so is
after it, whoever made it, and in a wait for all of each object in turn; that is
the second part of `SyncOwn`, about `took`. In a step the signal comes first,
when nothing is taken yet (`NoneTook`), and from then on nobody sees less than
before (`Later`), whoever is served and whatever the caller then waits for. The
checks hold because a thread is woken for an object that is signaled at that
moment, and the hand-over lets nobody in between (`ServedWaker`).

A signal goes through a waitset of any length, so these lemmas are inductions
over its length. Library theorems of induction take an operator as a parameter;
`Climb` is one for a set of naturals instead, which every such lemma instantiates
with the set of lengths for which it holds. To make this possible the loops of
the model are recursive functions of a number.

`SamplesProofs` proves of the deque of `ws_deque.cpp`, for any number of thieves
and an owner that pushes and pops as it likes (the array begins with two slots,
as in the code, and doubles when it is full, any number of times):

- `DequeDeliversEachItemOnce`: `DequeSpec => []EachItemOnce`;
- `DequePopsFindItems`: `DequeSpec => PopsFindItems`;
- `TestsAreClients`: the tests that TLC runs start as `DequeSpec` does.

The assumptions are `SamplesAssumption` (`main` is a caller) and
`DequeAssumption` (the owner is one).

The argument. The head and the tail are not the ends of the deque while a call is
under way: a thief moves the head before it knows whether it may, and so does the
owner with the tail in a pop; the owner writes a slot before it moves the tail.
`First` and `Past` are the ends as they would be if every such announcement
were taken back or the write completed, and `Held` is what is between them. `EndsAgree` says how far the
variables can be from these ends, given who holds the lock; that `Past - First`
never exceeds the size of the array is what keeps a push from the item a thief
has announced, and is what the Java version loses. Two indexes in such a range
have different remainders (`SlotsDiffer`), so a push overwrites none of `Held`,
and growing the array moves each item to the slot of its index (`GrowKeepsItems`).
`ItemsAgree` then says that what was taken and what is held are the items pushed,
each once, and that what was stolen is older than what is held.

The same module proves of the eventcounts, in both versions, for any threads that
wait, notify, use the queue, the condition variable or the pool in any order:

- `EventcountPostsOnce`: `EcSpec => []PostsAreAccounted`;
- `EventcountTestsAreClients`: the tests that TLC runs start as `EcSpec` does.

The argument. `PostsAreAccounted` counts notifiers, and a sum is not inductive:
a post that moves from a list to a semaphore must leave the total alone. `Account`
says it in cases instead: whoever is owed nothing has an empty semaphore and is on
no list of posts; whoever is owed a post (`Owed`: it is out of the waitset and
waits, or its `spurious_` is set) has it in its semaphore and is on no list, or
has an empty semaphore and is on the list of exactly one notifier. A notifier
takes threads out that are in the waitset, to whom nothing was owed, so at most one
has any thread on its list; it has each once, as the list has no repetitions
(`ThoseFacts`, `ReverseFacts`). That a thread is in the waitset exactly if its
`in_waitset_` says so is `WaitsetAgrees`; `AtLabel` says where it may be then. A
thread that leaves the waitset although it has been taken out sets `spurious_`
and so keeps its account. The lists are built by recursive functions over the
waitset; what they have in common (a sublist, in order, without repetitions) is
proved by induction with `Climb`. How many threads a predicate picks, and which, does not
matter for this theorem and is `WakesAsMany`, which stays with TLC.

And of the stacks, for any threads that push and pop, any number of nodes and a
stack that may hold nodes to begin with:

- `StackStaysIntact`: `StackSpec => []StackIsIntact`;
- `StackTestsAreClients`: the programs that TLC runs start as `StackSpec` does.

`StackAssumption` says that `nullptr` and a wild pointer are no nodes. The
invariant `StackInv` has a part for each claim. As long as no ABA has happened,
the stack is linked and without repetitions (`StackIsLinked`), a node that is being
pushed is alive, not in the stack and pushed by nobody else (`PushersOwn`), and
what a thread has read of the head is still true if the head is still that
node in the same life (`PoppersSaw`): the exchange of a pop then removes the
first element. With counted references (`CountsHold`), what a thread refers to is
alive, so its address cannot have been handed out again, and `aba` stays false:
that is a consequence of the reference counts, not an assumption. After every
step of the counted version the nodes that are alive are those that can be
reached; that this loses none that matters is `SettleFacts` and `RewireKeeps`.

Only model-checked: the programs of
`Litmus`, which are finite, so that TLC decides them; and `NobodySleepsForEver`
and `WakesAsMany` of `EventCount`, the first of which is about clients that match
one another.
`NoStarvation` and `ReadersMakeWay` are liveness properties under fairness and stay
with TLC, as temporal reasoning with ENABLED is beyond the prover used. So does
what is computed by recursion over data: the programs that `Facades` compiles.

## 5. Four disagreements between the code and what is said of it

**A push over an item** (`deque_java`). `push` of the Java and CLI deques takes
the path without the lock if `tail <= head + mask` (`java_ws_deque.cpp:38`);
`ws_deque.cpp:44` has `<`. A thief that has moved the head still has to read its
slot, so with an array of two slots a third push goes to the slot the thief
reads: it gets item 3, item 1 is lost, and `pop` delivers item 3 again. The tests
of these versions assert that no item comes twice (`java_ws_deque.cpp:166` and
181) and push two, which hides it; test 0 of `ws_deque.cpp` pushes three.
`EachItemOnce` is proved of the C++ version, for which this bound is right.

**Release sequences** (`hb_cxx0x`). `atomic_store` lets a plain store inherit
the clock of the previous record only if the same thread wrote that record
(`thread.hpp:356`). In C++0x a release sequence is continued by stores of the
releasing thread and by read-modify-writes of any thread. TLC's trace: T0
writes the plain variable and makes a release store, T1 a relaxed
read-modify-write, T0 a relaxed store, which is still in the sequence; T1
acquires it and touches the plain variable. The engine reports a race.
`src/code/relacy/test/features.txt` promises the C++0x model and no false
positives. (Under C++20, which dropped the same-thread stores, the last store
would be outside; the engine's rule agrees with neither.)

**Nobody is ready** (`sched_timed`). `RL_VERIFY(running_thread_count)` at
`full_search_scheduler.hpp:189` fails: one thread parks without timeout, another
with one, the third finishes. The second waits for its timeout and, because
parking yields, for a step of the first. `is_deadlock` does not purge yields
while a timeout is pending, and `schedule_impl` does not fire the timeout of a
thread that a yield blocks as well. The assertion is compiled in with `_DEBUG`
or `RL_DO_ASSERT`; otherwise the code goes on to choose among zero threads.
`StallCorrect` bounds it: only a tree search with a timed wait can fail there.

**A set event with a waiter** (`objects_lost`). `RL_VERIFY(false == ws_)` at
`stdlib/event.hpp:108` asserts that nobody waits for an event that is set; the
comment above it expects an exception for waits for several objects. A thread
that waits for any of a mutex and an event is woken by the event, looks at its
objects again from the first one on, finds the mutex free (its own waiter has
been woken and has not run yet) and takes that. The event stays set, and a
thread that waits for this event alone stays parked beside it; the next
`SetEvent` fails the assertion. The properties of the run `objects` count such
signals as `astray`.

## 6. What is not modelled, and why

- Macros nobody defines: `RL_IMPROVED_SEQ_CST_FENCE`, `RL_IMPROVED_SEQ_CST_RMW`,
  `RL_GC`.
- The counter behind the livelock verdict (`execution_depth_limit`); it appears
  as the fairness assumption of `Scheduler`.
- The 32-bit wrap-around of `current_index_`, which is reduced modulo 3: the
  execution depth limit comes first.
- The estimate of the number of iterations, which is only printed.
- Readers-writer mutexes with timed locks: no facade offers them, so a timeout
  of a shared wait is never taken. If one did, a writer that times out could
  leave readers parked that nobody wakes.
- The double-initialisation and use-before-initialisation checks of each
  primitive: they are alike, and `Memory` has them once, for the handles.
- A destructor of a mutex that races a woken thread that has not run
  (`stdlib/mutex.hpp:116`): a test that does it is wrong and is told nothing.
- A thread that may wake spuriously is not woken when nobody runs
  (`full_search_scheduler.hpp:170`): the comment there says that this is meant.
- The `bool` that `wait_until` makes of its unpark reason.
- `heap_reuse.cpp` and the Boost queue of `src/code/aba`, the second being a
  library's.
- Examples that are not modelled: `mpmc`, the eventcount and signaling variants
  of `peterson`, `smr`, `proxy_collector`, `spsc_queue` and its kin,
  `amp_condvar`, `mutex_business_logic`, `eao_blocking`, `pcx.h`, `ws_deque2`.
  They are clients like the ones that are modelled. Of the tests, `peterson`'s
  fourth and those that end with `RL_UNTIL` (a test that ends as soon as a
  condition holds).
- The memory orders of the samples in `AbaStack`, `WsDeque` and `EventCount`:
  they are interleaved at sequential consistency.
- `java.hpp` (a comment), `volatile.hpp` (empty), `windows.hpp` and
  `pthread.hpp` where they only rename a call or set `errno`.
- Execution history, output, statistics, signatures, platform code, scripts and
  recorded outputs.

## 7. What is left

1. `WakesAsMany` of `EventCount` for any clients, with more preferred threads
   than tasks and without: a count over the waitset.
2. `WaitObjects` as an implementation of abstract objects: the order of the
   waiters and the hand-over would be hidden, and the signal that goes astray
   would show as the one place where the mapping fails.
3. The remaining examples, `mpmc` and `smr` first, and the samples over
   `MemoryOrder` instead of interleavings.
