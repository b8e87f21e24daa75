----------------------------- MODULE EventCount -----------------------------
(***************************************************************************)
(* The eventcount of relacy/example/tbb_eventcount (variant "tbb") and of  *)
(* relacy/example/eventcount ("plain") with its clients: the queue, the    *)
(* condition variable and the pool.  A thread enters the waitset, looks at *)
(* its condition again, and then sleeps on its own semaphore or leaves the *)
(* waitset.  A notifier takes threads out of the waitset under the mutex   *)
(* and posts their semaphores after it has released it: a thread that      *)
(* leaves at that moment owes itself a spurious post, and pumps it before  *)
(* it waits the next time.  What happens under mtx_ is one step: nobody    *)
(* blocks inside, and the others look at nothing but the size.             *)
(***************************************************************************)
EXTENDS Samples

NoThread == 9       \* a null context

(* The array of the queue has the given places. *)
EcMem(places) ==
    [waitset |-> <<>>,                              \* newest first
     epoch |-> 0,
     inset |-> [t \in Callers |-> FALSE],           \* in_waitset_
     seen |-> [t \in Callers |-> 0],                \* ec_thread::epoch_
     ctx |-> [t \in Callers |-> NoThread],
     spurious |-> [t \in Callers |-> FALSE],
     sema |-> [t \in Callers |-> 0],
     producer |-> 0, consumer |-> 0, buffer |-> [i \in places |-> 0], got |-> <<>>,
     mtx |-> main, stage |-> 0]

(* then, after: where to go when prepare_wait and when the wait or the     *)
(* notification return                                                     *)
EcLoc == [idx |-> 0, kind |-> "none", arg |-> 0, posts |-> <<>>,
          then |-> "idle", after |-> "return"]

(* The nodes of the list ws that are in S, as they follow one another. *)
Those(ws, S) ==
    LET upto[k \in 0..Len(ws)] ==
            IF k = 0 THEN <<>>
            ELSE IF ws[k] \in S THEN Append(upto[k - 1], ws[k]) ELSE upto[k - 1]
    IN  upto[Len(ws)]

Leave(t, l) == IF l = "return" THEN Return(t) ELSE Jump(t, l)

-----------------------------------------------------------------------------
(* Waiting *)

(* wait_guard's constructor: prepare_wait, then, and later on after *)
Prepare(t, m, ctx, then, after) ==
    /\ mem' = [m EXCEPT !.ctx[t] = ctx]
    /\ loc' = [loc EXCEPT ![t].then = then, ![t].after = after]
    /\ Jump(t, "wait.pump")

(* A plausible mistake: the post that is owed is not waited for. *)
PrepareWaitUnpumped(t) ==
    /\ Reached(t, "wait.pump")
    /\ mem' = [mem EXCEPT !.spurious[t] = FALSE,
                          !.inset[t] = TRUE, !.seen[t] = mem.epoch,
                          !.waitset = <<t>> \o @]
    /\ Jump(t, loc[t].then)
    /\ UNCHANGED loc

PrepareWait(t) ==
    /\ Reached(t, "wait.pump")
    /\ mem.spurious[t] => mem.sema[t] > 0
    /\ mem' = [mem EXCEPT !.sema[t] = IF mem.spurious[t] THEN @ - 1 ELSE @,
                          !.spurious[t] = FALSE,
                          !.inset[t] = TRUE, !.seen[t] = mem.epoch,
                          !.waitset = <<t>> \o @]
    /\ Jump(t, loc[t].then)
    /\ UNCHANGED loc

(* commit_wait of the TBB version sleeps if it is still in the waitset, wait *)
(* of the other one if nobody has been notified since prepare_wait.        *)
StillWaits(t) == mem.inset[t]
SameEpoch(t) == mem.seen[t] = mem.epoch

CommitWait(t) ==
    /\ Reached(t, "wait.commit")
    /\ Jump(t, IF IF sample.variant = "tbb" THEN StillWaits(t) ELSE SameEpoch(t)
               THEN "wait.sleep" ELSE "wait.cancel")
    /\ UNCHANGED <<mem, loc>>

Sleep(t) ==
    /\ Reached(t, "wait.sleep")
    /\ mem.sema[t] > 0
    /\ mem' = [mem EXCEPT !.sema[t] = @ - 1]
    /\ Leave(t, loc[t].after)
    /\ UNCHANGED loc

(* The first look of cancel_wait is without the mutex. *)
CancelWait(t) ==
    /\ Reached(t, "wait.cancel")
    /\ mem' = [mem EXCEPT !.spurious[t] = TRUE]
    /\ IF mem.inset[t] THEN Jump(t, "wait.retire") ELSE Leave(t, loc[t].after)
    /\ UNCHANGED loc

(* A plausible mistake: no second look under the mutex. *)
RetireBlindly(t) ==
    /\ Reached(t, "wait.retire")
    /\ mem' = [mem EXCEPT !.inset[t] = FALSE, !.spurious[t] = FALSE,
                          !.waitset = Those(@, Callers \ {t})]
    /\ Leave(t, loc[t].after)
    /\ UNCHANGED loc

RetireWait(t) ==
    /\ Reached(t, "wait.retire")
    /\ mem' = IF mem.inset[t]
              THEN [mem EXCEPT !.inset[t] = FALSE, !.spurious[t] = FALSE,
                               !.waitset = Those(@, Callers \ {t})]
              ELSE mem
    /\ Leave(t, loc[t].after)
    /\ UNCHANGED loc

-----------------------------------------------------------------------------
(* Notification *)

Notify(t, m, kind, arg, after) ==
    /\ mem' = m
    /\ loc' = [loc EXCEPT ![t].kind = kind, ![t].arg = arg, ![t].after = after]
    /\ Jump(t, "notify.size")

(* The predicates: pred(ctx, size, idx) over the waitset ws, in its order.  *)
(* enqueue wakes the consumers of its index.                               *)
OfIndex(ws, i) == Those(ws, {n \in Callers : mem.ctx[n] = i})

(* ..._with_preference: the preferred thread, or else the last one *)
Preferred(ws, p) ==
    LET hit == {k \in DOMAIN ws : mem.ctx[ws[k]] = p}
    IN  IF hit # {} THEN OfIndex(ws, p)
        ELSE <<Last(ws)>>

(* A plausible mistake: a preferred thread does not use up a signal. *)
OfListKeeps(ws, total, prefs) ==
    Those(ws, {ws[k] : k \in {k \in DOMAIN ws : \/ Len(ws) + 1 - k <= total
                                                \/ mem.ctx[ws[k]] \in prefs}})

(* ..._about_list_of_tasks: everybody who is left once no more are left    *)
(* than signals remain, and the preferred threads before.  The signals are *)
(* a size_t: one preferred thread too many, and more remain than wait.     *)
OfList(ws, total, prefs) ==
    LET from[k \in 1..Len(ws) + 1] ==       \* remain_to_signal_ at k
            IF k = 1 THEN total
            ELSE IF /\ Len(ws) + 2 - k > from[k - 1]
                    /\ mem.ctx[ws[k - 1]] \in prefs
                 THEN IF from[k - 1] = 0 THEN Len(ws) ELSE from[k - 1] - 1
                 ELSE from[k - 1]
        picks(k) == \/ Len(ws) + 1 - k <= from[k]
                    \/ mem.ctx[ws[k]] \in prefs
    IN  Those(ws, {ws[k] : k \in {k \in DOMAIN ws : picks(k)}})

(* The threads that a notification takes, in the order of the posts: the   *)
(* predicate's are pushed on a list of their own, all are moved as they are. *)
Chosen(t) ==
    LET ws == mem.waitset
        a == loc[t].arg
    IN  IF ws = <<>> THEN <<>>              \* another one has taken them all
        ELSE CASE loc[t].kind = "one" -> <<Head(ws)>>
               [] loc[t].kind = "all" -> ws
               [] loc[t].kind = "index" -> Reverse(OfIndex(ws, a))
               [] loc[t].kind = "prefer" -> Reverse(Preferred(ws, a))
               [] loc[t].kind = "list" -> Reverse(OfList(ws, a[1], a[2]))

(* size() is read without the mutex *)
NotifyNobody(t) ==
    /\ Reached(t, "notify.size")
    /\ mem.waitset = <<>>
    /\ Leave(t, loc[t].after)
    /\ UNCHANGED <<mem, loc>>

NotifySees(t) ==
    /\ Reached(t, "notify.size")
    /\ mem.waitset # <<>>
    /\ Jump(t, "notify.lock")
    /\ UNCHANGED <<mem, loc>>

NotifyTakes(t) ==
    LET c == Chosen(t)
        taken == ToSet(c)
    IN  /\ Reached(t, "notify.lock")
        /\ mem' = [mem EXCEPT
                     !.epoch = @ + 1,
                     !.waitset = Those(@, Callers \ taken),
                     !.inset = [n \in Callers |-> @[n] /\ n \notin taken]]
        /\ loc' = [loc EXCEPT ![t].posts = c]
        /\ Jump(t, "notify.post")

NotifyPosts(t) ==
    /\ Reached(t, "notify.post")
    /\ loc[t].posts # <<>>
    /\ mem' = [mem EXCEPT !.sema[Head(loc[t].posts)] = @ + 1]
    /\ loc' = [loc EXCEPT ![t].posts = Tail(@)]
    /\ Jump(t, "notify.post")

NotifyEnds(t) ==
    /\ Reached(t, "notify.post")
    /\ loc[t].posts = <<>>
    /\ Leave(t, loc[t].after)
    /\ UNCHANGED <<mem, loc>>

-----------------------------------------------------------------------------
(* The queue: a counter of each side gives out the places *)

Enqueue(t) ==
    /\ Calls(t, "enqueue")
    /\ mem' = [mem EXCEPT !.producer = @ + 1]
    /\ loc' = [loc EXCEPT ![t].idx = mem.producer + 1]
    /\ Jump(t, "enqueue.store")

EnqueueStores(t) ==
    /\ Reached(t, "enqueue.store")
    /\ Notify(t, [mem EXCEPT !.buffer[loc[t].idx] = Arg(t)],
              "index", loc[t].idx, "return")

Dequeue(t) ==
    /\ Calls(t, "dequeue")
    /\ mem' = [mem EXCEPT !.consumer = @ + 1]
    /\ loc' = [loc EXCEPT ![t].idx = mem.consumer + 1]
    /\ Jump(t, "dequeue.look")

Data(t) == mem.buffer[loc[t].idx]

TakesItem(t) == [mem EXCEPT !.got = Append(@, Data(t))]

(* The first look, and the look after the wait *)
DequeueTakes(t) ==
    /\ Reached(t, "dequeue.look")
    /\ Data(t) # 0
    /\ mem' = TakesItem(t)
    /\ Return(t)
    /\ UNCHANGED loc

DequeueWaits(t) ==
    /\ Reached(t, "dequeue.look")
    /\ Data(t) = 0
    /\ Prepare(t, mem, loc[t].idx, "dequeue.recheck", "dequeue.look")

(* A plausible mistake: it sleeps without a second look. *)
DequeueSleeps(t) ==
    /\ Reached(t, "dequeue.recheck")
    /\ Jump(t, "wait.commit")
    /\ UNCHANGED <<mem, loc>>

(* The look in the waitset: the guard's destructor cancels the wait. *)
DequeueRechecks(t) ==
    /\ Reached(t, "dequeue.recheck")
    /\ IF Data(t) # 0
       THEN /\ mem' = TakesItem(t)
            /\ loc' = [loc EXCEPT ![t].after = "return"]
            /\ Jump(t, "wait.cancel")
       ELSE /\ Jump(t, "wait.commit")
            /\ UNCHANGED <<mem, loc>>

(* ~ec_thread: the last spurious post is waited for *)
DestroyThread(t) ==
    /\ Calls(t, "destroy")
    /\ mem.spurious[Arg(t)] => mem.sema[Arg(t)] > 0
    /\ mem' = [mem EXCEPT !.sema[Arg(t)] = IF mem.spurious[Arg(t)] THEN @ - 1 ELSE @,
                          !.spurious[Arg(t)] = FALSE]
    /\ Return(t)
    /\ UNCHANGED loc

-----------------------------------------------------------------------------
(* The condition variable and its test *)

CvLock(t) ==
    /\ Calls(t, "lock")
    /\ mem.mtx = main
    /\ mem' = [mem EXCEPT !.mtx = t]
    /\ Return(t)
    /\ UNCHANGED loc

CvUnlock(t) ==
    /\ Calls(t, "unlock")
    /\ mem' = [mem EXCEPT !.mtx = main]
    /\ Return(t)
    /\ UNCHANGED loc

(* stage += 1; broadcast() *)
Advance(t) ==
    /\ Calls(t, "advance")
    /\ Notify(t, [mem EXCEPT !.stage = @ + 1], "all", 0, "return")

(* while (stage != arg) wait() *)
Await(t) ==
    /\ Calls(t, "await")
    /\ IF mem.stage = Arg(t) THEN Return(t) /\ UNCHANGED <<mem, loc>>
       ELSE Prepare(t, mem, NoThread, "cv.unlock", "cv.relock")

CvWaits(t) ==
    /\ Reached(t, "cv.unlock")
    /\ mem' = [mem EXCEPT !.mtx = main]
    /\ Jump(t, "wait.commit")
    /\ UNCHANGED loc

CvRelocks(t) ==
    /\ Reached(t, "cv.relock")
    /\ mem.mtx = main
    /\ mem' = [mem EXCEPT !.mtx = t]
    /\ Jump(t, "idle")
    /\ UNCHANGED loc

-----------------------------------------------------------------------------
(* The pool.  The TBB version passes no context to the wait. *)

PoolContext(t) == IF sample.variant = "tbb" THEN NoThread ELSE t

WaitWhilePoolIsEmpty(t) ==
    /\ Calls(t, "pool")
    /\ Prepare(t, mem, PoolContext(t), "wait.commit", "return")

NotifyPool(t) ==
    /\ \E kind \in {"one", "prefer", "list"} :
          Calls(t, kind) /\ Notify(t, mem, kind, Arg(t), "return")

EcStep(t) ==
    \/ PrepareWait(t) \/ CommitWait(t) \/ Sleep(t) \/ CancelWait(t) \/ RetireWait(t)
    \/ NotifyNobody(t) \/ NotifySees(t) \/ NotifyTakes(t) \/ NotifyPosts(t)
    \/ NotifyEnds(t)
    \/ Enqueue(t) \/ EnqueueStores(t) \/ Dequeue(t) \/ DequeueTakes(t)
    \/ DequeueWaits(t) \/ DequeueRechecks(t) \/ DestroyThread(t)
    \/ CvLock(t) \/ CvUnlock(t) \/ Advance(t) \/ Await(t) \/ CvWaits(t)
    \/ CvRelocks(t)
    \/ WaitWhilePoolIsEmpty(t) \/ NotifyPool(t)

EcNext ==
    /\ Is("eventcount") \/ Is("pool")
    /\ \E t \in Callers : EcStep(t)

-----------------------------------------------------------------------------
(* The tests *)

(* Any threads that wait and notify in these ways, in any mixture, with a  *)
(* queue of any size.  The thread descriptors are destroyed when all have  *)
(* returned.                                                               *)
EcCalls(t) ==
    IF t = main THEN {"destroy"} \X Callers
    ELSE {"enqueue", "dequeue", "lock", "unlock", "advance", "await", "pool", "one"} \X Nat
         \cup {"prefer"} \X Callers
         \cup {"list"} \X (Nat \X SUBSET Callers)

EcInit ==
    /\ \E name \in {"eventcount", "pool"}, variant \in {"tbb", "plain"},
          places \in SUBSET Nat : Begun(name, variant, EcMem(places), EcLoc)
    /\ DOMAIN todo = Callers
    /\ \A t \in Callers : todo[t] \in Seq(EcCalls(t))

EcSpec == EcInit /\ [][EcNext]_sampleVars

EcRun(name, variant, calls) ==
    Begin(name, variant, EcMem(1..4),
          [t \in 0..4 |->
             IF t # main THEN calls[t]
             ELSE IF name = "pool" THEN <<>> ELSE [i \in 1..4 |-> <<"destroy", i>>]],
          EcLoc)

QueueTest ==
    EcRun("eventcount", "tbb",
          <<<<<<"enqueue", 1>>, <<"enqueue", 2>>>>,
            <<<<"enqueue", 3>>>>,
            <<<<"dequeue", 0>>, <<"dequeue", 0>>>>,
            <<<<"dequeue", 0>>>>>>)

CondvarCalls ==
    <<<<<<"lock", 0>>, <<"advance", 0>>, <<"await", 2>>, <<"unlock", 0>>>>,
      <<<<"lock", 0>>, <<"await", 1>>, <<"advance", 0>>, <<"unlock", 0>>>>,
      <<<<"lock", 0>>, <<"await", 2>>, <<"unlock", 0>>>>,
      <<>>>>

CondvarTest == EcRun("eventcount", "tbb", CondvarCalls)

(* The other version has no test of its own (its test deletes a thread     *)
(* descriptor): the same clients.                                          *)
PlainClients ==
    \/ EcRun("eventcount", "plain", CondvarCalls)
    \/ EcRun("eventcount", "plain",
             <<<<<<"enqueue", 1>>, <<"enqueue", 2>>>>,
               <<>>,
               <<<<"dequeue", 0>>>>,
               <<<<"dequeue", 0>>>>>>)

PoolClients ==
    \E v \in {"tbb", "plain"},
       call \in {<<"one", 0>>, <<"prefer", 2>>, <<"list", <<2, {2}>>>>,
                 <<"list", <<1, {2, 3}>>>>} :
        EcRun("pool", v, <<<<call>>, <<<<"pool", 0>>>>, <<<<"pool", 0>>>>, <<<<"pool", 0>>>>>>)

-----------------------------------------------------------------------------
(* A thread that is out of the waitset without having left it itself has   *)
(* exactly one post coming, already in its semaphore or still to be made by *)
(* the notifier that took it; nobody else has any.  The spurious_ flag of  *)
(* ec_thread keeps the account.                                            *)
PostsAreAccounted ==
    Is("eventcount") \/ Is("pool") =>
        \A t \in Callers \ {main} :
            LET coming == mem.sema[t] +
                    Cardinality({u \in Callers : t \in ToSet(loc[u].posts)})
                waits == label[t] \in {"wait.commit", "wait.sleep", "wait.cancel",
                                    "wait.retire", "cv.unlock", "dequeue.recheck"}
            IN  coming = IF (waits \/ mem.spurious[t]) /\ ~mem.inset[t] THEN 1 ELSE 0

Blocked(t) ==
    \/ Returned(t)
    \/ t = main /\ \E u \in Callers \ {main} : ~Returned(u)
    \/ Reached(t, "wait.sleep") /\ mem.sema[t] = 0
    \/ Reached(t, "wait.pump") /\ mem.spurious[t] /\ mem.sema[t] = 0
    \/ (Reached(t, "cv.relock") \/ Calls(t, "lock")) /\ mem.mtx # main
    \/ Calls(t, "destroy") /\ mem.spurious[Arg(t)] /\ mem.sema[Arg(t)] = 0

(* No wake-up is lost: with the queue and with the condition variable the  *)
(* threads never come to a point where those that are left all wait.       *)
NobodySleepsForEver ==
    Is("eventcount") =>
        ((\A t \in Callers : Blocked(t)) => \A t \in Callers : Returned(t))

(* A notification of the pool wakes every preferred thread that waits and  *)
(* has passed its context.  If those are no more than there are tasks, it  *)
(* wakes as many threads as there are tasks, or all that wait; if they are *)
(* more, remain_to_signal_ wraps and whoever waits behind the one too many *)
(* is woken as well.                                                       *)
WakesAsMany ==
    [][Is("pool") =>
         \A t \in Callers :
            Reached(t, "notify.lock") /\ label'[t] = "notify.post" =>
                LET ws == mem.waitset
                    tasks == IF loc[t].kind = "list" THEN loc[t].arg[1] ELSE 1
                    names(u) == /\ sample.variant = "plain"
                                /\ \/ loc[t].kind = "prefer" /\ u = loc[t].arg
                                   \/ loc[t].kind = "list" /\ u \in loc[t].arg[2]
                    preferred == {k \in DOMAIN ws : names(ws[k])}
                    woken == {k \in DOMAIN ws : ws[k] \in ToSet(loc'[t].posts)}
                IN  /\ preferred \subseteq woken
                    /\ IF Cardinality(preferred) <= tasks
                       THEN Cardinality(woken) = IF Len(ws) < tasks THEN Len(ws) ELSE tasks
                       ELSE \A k \in DOMAIN ws :
                                Cardinality(preferred \cap 1..k) > tasks => k \in woken
           ]_sampleVars

=============================================================================
