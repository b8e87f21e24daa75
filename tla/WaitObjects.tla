---------------------------- MODULE WaitObjects ----------------------------
(***************************************************************************)
(* The objects a simulated program waits for through handles: events       *)
(* (stdlib/event.hpp), semaphores (stdlib/semaphore.hpp), the mutex handle *)
(* of Windows and the thread objects (dyn_thread_ctx.hpp), waited for one  *)
(* at a time or several at once (wait_for_multiple_objects), through the   *)
(* waitsets of waitset.hpp.                                                *)
(*                                                                         *)
(* A step is one call, from its scheduling point to its return or to the   *)
(* point where its thread parks.  A call that signals an object hands the  *)
(* fiber to each waiter it wakes with do_switch: the waiter takes what it  *)
(* waited for inside the step of its waker and then hands the fiber back   *)
(* (context::switch_back).                                                 *)
(***************************************************************************)
EXTENDS Naturals, FiniteSets, Sequences, SequencesExt

CONSTANTS
    Threads,    \* the threads of the test
    Objects,    \* the objects they wait for
    Kinds,      \* what the objects of a test are
    MaxCount    \* max_count_ of a semaphore; sem_t is modelled up to it

Nobody == "nobody"

ASSUME WaitObjectsAssumption ==
    /\ Threads \cap {Nobody, "auto", "manual", "semaphore", "sem_t", "mutex"} = {}
    /\ MaxCount \in Nat \ {0}

Events == {"auto", "manual"}
Semaphores == {"semaphore", "sem_t"}    \* sem_t may wake spuriously

ASSUME KindsAssumption ==
    Kinds \subseteq [Objects -> Events \cup Semaphores \cup {"mutex"} \cup Threads]

VARIABLES
    kind,           \* what an object is; of a thread object, its thread
    count,          \* state_ of an event, count_, finished_
    owner,          \* exclusive_owner_ of a mutex; it is recursive, but here
                    \* a thread locks it once
    ws,             \* ws_: the waitset of each object
    want,           \* thread_desc: what a parked thread waits for
    phase,          \* where a thread is
    unseen,         \* the objects whose latest signal a thread is not after
    syncUnseen,     \* the same of sync_ of each object
    astray,         \* objects whose signal woke a thread that took another one
    took,           \* what the waits of each thread took in the latest step
    result          \* "none" while the iteration goes on

vars == <<kind, count, owner, ws, want, phase, unseen, syncUnseen, astray, took, result>>

(* A wait: for one object, or for any or all of several, in order.  All of *)
(* them have a timeout: without one it just does not come.                 *)
Want(objects, all, multiple) ==
    [objects |-> objects, all |-> all, multiple |-> multiple]

Nothing == Want(<<>>, FALSE, FALSE)

NothingTaken == [t \in Threads |-> {}]

(* What a call reads and updates in place: the operators below map it to   *)
(* what it is after a part of the call.                                    *)
Tables == [count |-> count, owner |-> owner, ws |-> ws, want |-> want,
           phase |-> phase, unseen |-> unseen, syncUnseen |-> syncUnseen,
           astray |-> astray, took |-> NothingTaken, result |-> result]

Becomes(S) ==
    /\ count' = S.count /\ owner' = S.owner /\ ws' = S.ws /\ want' = S.want
    /\ phase' = S.phase /\ unseen' = S.unseen /\ syncUnseen' = S.syncUnseen
    /\ astray' = S.astray /\ took' = S.took /\ result' = S.result
    /\ UNCHANGED kind

Going(S) == S.result = "none"
Fail(S, r) == [S EXCEPT !.result = r]

-----------------------------------------------------------------------------
(* sync_ *)

Acquire(S, t, o) ==
    [S EXCEPT !.unseen = [u \in Threads |->
        IF u = t THEN S.unseen[t] \cap S.syncUnseen[o] ELSE S.unseen[u]]]

Release(S, t, o) ==
    [S EXCEPT !.syncUnseen = [p \in Objects |->
        IF p = o THEN S.syncUnseen[o] \cap S.unseen[t] ELSE S.syncUnseen[p]]]

AcqRel(S, t, o) == Release(Acquire(S, t, o), t, o)

(* A new signal of o: only t has seen it. *)
NewSignal(S, t, o) ==
    [S EXCEPT !.unseen = [u \in Threads |-> IF u = t THEN S.unseen[u] \ {o}
                                            ELSE S.unseen[u] \cup {o}],
              !.syncUnseen = [p \in Objects |-> S.syncUnseen[p] \cup {o}]]

(* Mutant of Signal: sync_ is not told. *)
SignalNoRelease(S, t, o) == NewSignal(S, t, o)

(* t signals o: a new signal, released to sync_. *)
Signal(S, t, o) == Release(NewSignal(S, t, o), t, o)

(* Acquire of each of the objects: what one of them knows of is known. *)
AcquireAll(S, t, objects) ==
    [S EXCEPT !.unseen = [u \in Threads |->
        IF u = t THEN {p \in S.unseen[t] : \A o \in Range(objects) : p \in S.syncUnseen[o]}
        ELSE S.unseen[u]]]

-----------------------------------------------------------------------------
(* Taking an object. *)

IsSignaled(S, o) ==
    IF kind[o] = "mutex" THEN S.owner[o] = Nobody ELSE S.count[o] > 0

(* wait of a signaled object, by the type of the object. *)
Take(S, t, o) ==
    CASE kind[o] = "mutex" ->
           Acquire([S EXCEPT !.owner[o] = t], t, o)
      [] kind[o] \in Semaphores \cup {"auto"} ->
           AcqRel([S EXCEPT !.count[o] = @ - 1], t, o)
      [] OTHER -> Acquire(S, t, o)

(* The objects are taken in their order. *)
TakeAll(S, t, objects) ==
    LET taken[i \in 0 .. Len(objects)] ==
            IF i = 0 THEN S ELSE Take(taken[i - 1], t, objects[i])
    IN  taken[Len(objects)]

Signaled(S, w) == {i \in DOMAIN w.objects : IsSignaled(S, w.objects[i])}

(* Whether what is waited for is there. *)
Satisfied(S, w) == IF w.all THEN Signaled(S, w) = DOMAIN w.objects ELSE Signaled(S, w) # {}

(* A wait for any object takes the first that is signaled. *)
First(S, w) == w.objects[Min(Signaled(S, w))]

TakeWanted(S, t, w) ==
    IF w.all THEN [TakeAll(S, t, w.objects) EXCEPT !.took[t] = Range(w.objects)]
    ELSE [Take(S, t, First(S, w)) EXCEPT !.took[t] = {First(S, w)}]

-----------------------------------------------------------------------------
(* Waitsets. *)

(* Only events and semaphores, and every wait for several objects, are     *)
(* taken inside the step of the waker.                                     *)
DoSwitch(w) == w.multiple \/ kind[Head(w.objects)] \in Events \cup Semaphores

(* remove: t leaves every waitset it is in. *)
Leave(S, t) ==
    [S EXCEPT !.ws = [o \in Objects |-> RemoveFirst(S.ws[o], t)],
              !.want[t] = Nothing]

(* Mutant of TryRemovable: a wait for all objects is not looked at. *)
AnyRemovable(S, t) == TRUE

(* try_remove refuses a wait for all while an object is missing. *)
TryRemovable(S, t) == S.want[t].all => Satisfied(S, S.want[t])

(* The thread woken by a signal of o runs inside the step of its waker: it *)
(* checks that what it waited for is there, takes it and switches back.    *)
Serve(S, t, w, o) ==
    IF ~ Satisfied(S, w) THEN Fail(S, "verify_failed")
    ELSE LET R == TakeWanted(S, t, w)
         IN  [R EXCEPT !.phase[t] = "running",
                       !.astray = IF w.all \/ First(S, w) = o
                                  THEN S.astray ELSE S.astray \cup {o}]

(* try_remove of a thread that can be removed, and context::unpark_thread. *)
Unpark(S, t, o) ==
    LET R == Leave(S, t)
    IN  IF DoSwitch(S.want[t]) THEN Serve(R, t, S.want[t], o)
        ELSE [R EXCEPT !.phase[t] = "woken", !.want[t] = S.want[t]]

(* unpark_one: whichever the draw says of those that can be removed. *)
UnparkOne(S, o) ==
    LET removable == {t \in Threads : Contains(S.ws[o], t) /\ TryRemovable(S, t)}
    IN  IF removable = {} THEN {S} ELSE {Unpark(S, t, o) : t \in removable}

(* unpark_all, in the order of the waitset. *)
UnparkAll(S, o) ==
    LET after[i \in 0 .. Len(S.ws[o])] ==
            IF i = 0 THEN S
            ELSE LET R == after[i - 1]
                     t == S.ws[o][i]
                 IN  IF Going(R) /\ TryRemovable(R, t) THEN Unpark(R, t, o) ELSE R
    IN  after[Len(S.ws[o])]

(* unpark_one, up to n times. *)
UnparkMany(S, o, n) ==
    LET after[i \in 0 .. n] ==
            IF i = 0 THEN {S}
            ELSE UNION {IF Going(R) THEN UnparkOne(R, o) ELSE {R} : R \in after[i - 1]}
    IN  after[n]

(* park_current, until the thread is left. *)
Park(S, t, w) ==
    [S EXCEPT !.ws = [o \in Objects |-> IF Contains(w.objects, o)
                                        THEN Append(S.ws[o], t) ELSE S.ws[o]],
              !.want[t] = w,
              !.phase[t] = "parked"]

-----------------------------------------------------------------------------
(* The calls.  t signals the object o; what it may lead to is a set.       *)

(* event set *)
Set(S, t, o) ==
    IF S.count[o] = 1
    THEN {IF S.ws[o] = <<>> THEN S ELSE Fail(S, "verify_failed")}
    ELSE LET R == [Signal(S, t, o) EXCEPT !.count[o] = 1, !.astray = @ \ {o}]
         IN  IF kind[o] = "manual" THEN {UnparkAll(R, o)} ELSE UnparkOne(R, o)

(* event pulse *)
Pulse(S, t, o) ==
    IF S.count[o] = 1
    THEN IF S.ws[o] = <<>> THEN S ELSE Fail(S, "verify_failed")
    ELSE LET R == UnparkAll([Signal(S, t, o) EXCEPT !.count[o] = 1], o)
         IN  IF Going(R) THEN [R EXCEPT !.count[o] = 0, !.astray = S.astray] ELSE R

(* event reset *)
Reset(S, t, o) ==
    IF S.count[o] = 0 THEN S
    ELSE IF S.ws[o] # <<>> THEN Fail(S, "verify_failed")
    ELSE [Release(S, t, o) EXCEPT !.count[o] = 0]

(* Mutant of Post: one waiter is woken, however many are posted. *)
PostWakesOne(S, t, o, n) ==
    IF S.count[o] + n > MaxCount THEN {Acquire(S, t, o)}
    ELSE LET R == [Signal(S, t, o) EXCEPT !.count[o] = @ + n]
         IN  UnparkMany(AcqRel(R, t, o), o, 1)

(* semaphore post of n; MaxCount is also the bound of sem_t *)
Post(S, t, o, n) ==
    IF S.count[o] + n > MaxCount THEN {Acquire(S, t, o)}
    ELSE LET R == [Signal(S, t, o) EXCEPT !.count[o] = @ + n]
         IN  UnparkMany(AcqRel(R, t, o), o, n)

(* unlock_exclusive *)
Unlock(S, t, o) ==
    IF S.owner[o] # t THEN {Fail(S, "unlocking_mutex_wo_ownership")}
    ELSE UnparkOne([Signal(S, t, o) EXCEPT !.owner[o] = Nobody], o)

(* A semaphore at its limit: post fails. *)
Full(o) == kind[o] \in Semaphores /\ count[o] = MaxCount

(* win_waitable_object::signal *)
SignalObject(S, t, o) ==
    CASE kind[o] \in Events -> Set(S, t, o)
      [] kind[o] \in Semaphores -> Post(S, t, o, 1)
      [] kind[o] = "mutex" -> Unlock(S, t, o)
      [] OTHER -> {Fail(S, "thread_signal")}

(* wait: of one object, or wait_for_multiple_objects.  A thread does not   *)
(* lock a mutex again by its handle here.                                  *)
WaitFor(S, t, w) ==
    IF Satisfied(S, w) THEN TakeWanted(S, t, w) ELSE Park(S, t, w)

TryWait(S, t, w) ==
    IF Satisfied(S, w) THEN TakeWanted(S, t, w)
    ELSE IF ~ w.multiple /\ kind[Head(w.objects)] = "mutex" THEN S
    ELSE AcquireAll(S, t, w.objects)

CanWait(t, w) ==
    /\ \A i \in DOMAIN w.objects : kind[w.objects[i]] # t /\ owner[w.objects[i]] # t
    /\ w.multiple => \A i \in DOMAIN w.objects : kind[w.objects[i]] # "sem_t"

(* A thread that was woken and not served goes on: a join is over, a mutex *)
(* is taken if it is still free.                                           *)
Woken(S, t, w) ==
    LET R == [S EXCEPT !.phase[t] = "running", !.want[t] = Nothing]
    IN  WaitFor(R, t, w)

(* on_finish of t, the thread of the object o *)
End(S, t, o) ==
    UnparkAll([Signal(S, t, o) EXCEPT !.count[o] = 1, !.phase[t] = "ended"], o)

-----------------------------------------------------------------------------
(* Steps. *)

CanGo(t) == result = "none" /\ phase[t] = "running"

SetEvent(t, o) ==
    CanGo(t) /\ kind[o] \in Events /\ \E S \in Set(Tables, t, o) : Becomes(S)

ResetEvent(t, o) ==
    CanGo(t) /\ kind[o] \in Events /\ Becomes(Reset(Tables, t, o))

PulseEvent(t, o) ==
    CanGo(t) /\ kind[o] \in Events /\ Becomes(Pulse(Tables, t, o))

PostSemaphore(t, o, n) ==
    CanGo(t) /\ kind[o] \in Semaphores /\ \E S \in Post(Tables, t, o, n) : Becomes(S)

GetValue(t, o) ==
    CanGo(t) /\ kind[o] \in Semaphores /\ Becomes(Acquire(Tables, t, o))

ReleaseMutex(t, o) ==
    CanGo(t) /\ kind[o] = "mutex" /\ \E S \in Unlock(Tables, t, o) : Becomes(S)

Wait(t, w) == CanGo(t) /\ CanWait(t, w) /\ Becomes(WaitFor(Tables, t, w))

Try(t, w) == CanGo(t) /\ CanWait(t, w) /\ Becomes(TryWait(Tables, t, w))

(* rl_SignalObjectAndWait: there is no scheduling point in between. *)
SignalAndWait(t, o, w) ==
    /\ CanGo(t) /\ ~ w.multiple
    /\ \A i \in DOMAIN w.objects : w.objects[i] # o
    /\ CanWait(t, w)
    /\ \E S \in SignalObject(Tables, t, o) :
           Becomes(IF Going(S) /\ ~ Full(o) THEN WaitFor(S, t, w) ELSE S)

Continue(t) ==
    /\ result = "none" /\ phase[t] = "woken"
    /\ Becomes(Woken(Tables, t, want[t]))

(* The wait of t times out. *)
Timeout(t) ==
    /\ result = "none" /\ phase[t] = "parked"
    /\ Becomes([AcquireAll(Leave(Tables, t), t, want[t].objects)
                   EXCEPT !.phase[t] = "running"])

(* The wait of t for a sem_t ends for no reason. *)
Spurious(t) ==
    /\ result = "none" /\ phase[t] = "parked"
    /\ kind[Head(want[t].objects)] = "sem_t"
    /\ Becomes([AcquireAll(Leave(Tables, t), t, want[t].objects)
                   EXCEPT !.phase[t] = "running"])

(* context::create_thread of the thread of the object o, whose on_create   *)
(* releases; on_start acquires when the thread first runs.                 *)
Create(t, o) ==
    /\ CanGo(t) /\ kind[o] \in Threads /\ phase[kind[o]] = "absent"
    /\ Becomes([Release(Tables, t, o) EXCEPT !.phase[kind[o]] = "created"])

Start(o) ==
    /\ result = "none" /\ kind[o] \in Threads /\ phase[kind[o]] = "created"
    /\ Becomes([Acquire(Tables, kind[o], o) EXCEPT !.phase[kind[o]] = "running"])

Finish(o) ==
    kind[o] \in Threads /\ CanGo(kind[o]) /\ Becomes(End(Tables, kind[o], o))

Init ==
    /\ kind \in Kinds
    /\ count \in [Objects -> 0 .. MaxCount]
    /\ \A o \in Objects :
          count[o] <= (IF kind[o] \in Semaphores THEN MaxCount
                       ELSE IF kind[o] \in Events THEN 1 ELSE 0)
    /\ owner = [o \in Objects |-> Nobody]
    /\ ws = [o \in Objects |-> <<>>]
    /\ want = [t \in Threads |-> Nothing]
    /\ phase = [t \in Threads |-> IF \E o \in Objects : kind[o] = t
                                  THEN "absent" ELSE "running"]
    /\ unseen = [t \in Threads |-> {}]
    /\ syncUnseen = [o \in Objects |-> {}]
    /\ astray = {} /\ took = NothingTaken
    /\ result = "none"

(* The waits of the test: one object, or several in any order. *)
Single == {Want(<<o>>, FALSE, FALSE) : o \in Objects}
Multiple == {Want(<<q[1], q[2]>>, all, TRUE) :
                 q \in {q \in Objects \X Objects : q[1] # q[2]}, all \in BOOLEAN}

Next ==
    \/ \E t \in Threads, o \in Objects :
          \/ SetEvent(t, o) \/ ResetEvent(t, o) \/ PulseEvent(t, o)
          \/ \E n \in 1 .. MaxCount : PostSemaphore(t, o, n)
          \/ GetValue(t, o) \/ ReleaseMutex(t, o) \/ Create(t, o)
          \/ \E w \in Single : SignalAndWait(t, o, w)
    \/ \E t \in Threads, w \in Single \cup Multiple : Wait(t, w) \/ Try(t, w)
    \/ \E t \in Threads : Continue(t) \/ Timeout(t) \/ Spurious(t)
    \/ \E o \in Objects : Start(o) \/ Finish(o)

Spec == Init /\ [][Next]_vars

-----------------------------------------------------------------------------
(* Properties. *)

(* Type invariant, a part of NoLostWakeup. *)
TypeOK ==
    /\ kind \in Kinds
    /\ count \in [Objects -> 0 .. MaxCount]
    /\ owner \in [Objects -> Threads \cup {Nobody}]
    /\ ws \in [Objects -> Seq(Threads)]
    /\ want \in [Threads -> Single \cup Multiple \cup {Nothing}]
    /\ phase \in [Threads -> {"absent", "created", "running", "parked", "woken", "ended"}]
    /\ unseen \in [Threads -> SUBSET Objects]
    /\ syncUnseen \in [Objects -> SUBSET Objects]
    /\ astray \subseteq Objects
    /\ took \in [Threads -> SUBSET Objects]
    /\ result \in {"none", "verify_failed", "thread_signal", "unlocking_mutex_wo_ownership"}

(* A mutex that is free, with a thread on its way to take it. *)
OnTheWay(o) ==
    /\ kind[o] = "mutex" /\ owner[o] = Nobody
    /\ \E u \in Threads : phase[u] = "woken" /\ Head(want[u].objects) = o

(* Nobody waits for what is there: whichever waiters a signal wakes, in    *)
(* whatever order and for whatever combination of objects, a thread stays  *)
(* parked only while something it waits for is missing.  Except that a     *)
(* mutex may be free while the thread that was woken for it is on its way, *)
(* and that a waiter for any of several objects who finds such a mutex     *)
(* free takes it, and the signal that woke him is lost on the others       *)
(* (waitset::unpark_one, wait_for_multiple_objects).                       *)
NoLostWakeup ==
    /\ TypeOK
    /\ result = "none" =>
        \A t \in Threads : phase[t] = "parked" /\ Satisfied(Tables, want[t]) =>
            \E o \in Range(want[t].objects) : OnTheWay(o) \/ o \in astray

(* What a wait for w asks for: all of its objects, or one of them. *)
Asks(w) == IF w.all THEN {Range(w.objects)} ELSE {{o} : o \in Range(w.objects)}

(* Whatever a thread takes in a step, it is after the latest signal of     *)
(* that very object, of each of them if it waited for all, although only   *)
(* sync_ of the objects told it (sync_.release, acquire, acq_rel): whether *)
(* a wait or a try passed at once, was served inside the step of its       *)
(* waker, or went on by itself after it was woken.  And a wait that is     *)
(* over, unless it gave up, has taken what it asked for.                   *)
PassersOrdered ==
    [][\A t \in Threads :
          LET passes == /\ phase[t] \in {"parked", "woken"} /\ phase'[t] = "running"
                        /\ ~ Timeout(t) /\ ~ Spurious(t)
          IN  /\ took'[t] \cap unseen'[t] = {}
              /\ passes => took'[t] \in Asks(want[t])]_vars

(* The checks of the waits and of set, reset and pulse (RL_VERIFY) fail    *)
(* only in two situations: an auto-reset event is pulsed when several      *)
(* threads wait for it, or a signaled event has a waiter that is waiting   *)
(* for something else as well, or was passed over.                         *)
VerifiesFailOnlyIf ==
    [][result' = "verify_failed" =>
          \E o \in Objects :
              \/ /\ kind[o] = "auto" /\ count[o] = 0 /\ Len(ws[o]) > 1
                 /\ \E t \in Threads : PulseEvent(t, o)
              \/ /\ kind[o] \in Events /\ count[o] = 1 /\ ws[o] # <<>>
                 /\ \A t \in Range(ws[o]) : want[t].all \/ o \in astray]_vars

(* RL_VERIFY(false == ws_), event.hpp, lines 108, 139 and 159: nobody      *)
(* waits for an event that is set; with the exception the comment there    *)
(* makes, of a thread that waits for all of several objects.               *)
SignaledHasNoWaiter ==
    \A o \in Objects :
        kind[o] \in Events /\ count[o] = 1 /\ result = "none" =>
            \A t \in Range(ws[o]) : want[t].all

=============================================================================
