------------------------------ MODULE WsDeque -------------------------------
(***************************************************************************)
(* The work-stealing deques of relacy/example: ws_deque, java_ws_deque and *)
(* cli_ws_deque.  The owner (thread 1) pushes and pops at the tail without *)
(* a lock and takes m_foreignLock when it meets the thieves or the array   *)
(* is full; the thieves steal at the head under the lock, and announce     *)
(* themselves by moving the head before they look at the tail.  The owner  *)
(* alone writes the tail and the slots, so that its own reads of them are  *)
(* no steps.                                                               *)
(***************************************************************************)
EXTENDS Samples

DequeMem ==
    [slots |-> [i \in 0..1 |-> 0], head |-> 0, tail |-> 0, lock |-> main,
     pushed |-> 0, popped |-> <<>>, stolen |-> <<>>]

DequeLoc == [head |-> 0]

Size == Cardinality(DOMAIN mem.slots)       \* m_arraySize
Mask == Size - 1
Slot(i) == i % Size                         \* i & m_mask
Count == mem.tail - mem.head

(* The items are numbered in the order of the pushes. *)
Item == mem.pushed + 1

Free(m) == m.lock = main

(* A plausible mistake: one more item than the array holds.                *)
FitsOneMore == mem.tail < mem.head + Mask + 1

(* push takes the fast path if there is room.  The Java and CLI versions   *)
(* use one slot more than ws_deque.cpp.                                    *)
Fits == mem.tail < mem.head + Mask
JavaFits == mem.tail <= mem.head + Mask
HasRoom == IF sample.variant = "cpp" THEN Fits ELSE JavaFits

Put(m) ==
    [m EXCEPT !.slots = [@ EXCEPT ![m.tail % Cardinality(DOMAIN @)] = Item],
              !.pushed = Item]

DequePush(t) ==
    /\ Calls(t, "dpush")
    /\ HasRoom
    /\ mem' = Put(mem)
    /\ Jump(t, "dpush.tail")
    /\ UNCHANGED loc

PushTail(t) ==
    /\ Reached(t, "dpush.tail")
    /\ mem' = [mem EXCEPT !.tail = @ + 1]
    /\ Return(t)
    /\ UNCHANGED loc

DequePushFull(t) ==
    /\ Calls(t, "dpush")
    /\ ~HasRoom
    /\ Jump(t, "dpush.lock")
    /\ UNCHANGED <<mem, loc>>

(* The items move to the front of an array of twice the size. *)
Grown ==
    [mem EXCEPT !.slots = [i \in 0..2 * Size - 1 |->
                              IF i < Count THEN mem.slots[Slot(i + mem.head)]
                              ELSE 0],
                !.head = 0,
                !.tail = Count]

(* Under the lock: the thieves have all left, and some of them may have    *)
(* put the head back.                                                      *)
PushLocked(t) ==
    /\ Reached(t, "dpush.lock")
    /\ Free(mem)
    /\ LET m == IF Count >= Mask THEN Grown ELSE mem
       IN  mem' = [Put(m) EXCEPT !.tail = @ + 1]
    /\ Return(t)
    /\ UNCHANGED loc

DequePop(t) ==
    /\ Calls(t, "dpop")
    /\ mem.tail > 0
    /\ mem' = [mem EXCEPT !.tail = @ - 1]
    /\ Jump(t, "dpop.head")
    /\ UNCHANGED loc

DequePopZero(t) ==
    /\ Calls(t, "dpop")
    /\ mem.tail = 0
    /\ Return(t)
    /\ UNCHANGED <<mem, loc>>

PopTakes(t) ==
    /\ \/ Reached(t, "dpop.head")
       \/ Reached(t, "dpop.lock") /\ Free(mem)
    /\ mem.head <= mem.tail
    /\ mem' = [mem EXCEPT !.popped = Append(@, mem.slots[Slot(mem.tail)])]
    /\ Return(t)
    /\ UNCHANGED loc

(* A plausible mistake: the pop gives up without another look.             *)
PopGivesUp(t) ==
    /\ Reached(t, "dpop.head")
    /\ mem.head > mem.tail
    /\ mem' = [mem EXCEPT !.tail = @ + 1]
    /\ Return(t)
    /\ UNCHANGED loc

PopMeetsThief(t) ==
    /\ Reached(t, "dpop.head")
    /\ mem.head > mem.tail
    /\ Jump(t, "dpop.lock")
    /\ UNCHANGED <<mem, loc>>

PopLoses(t) ==
    /\ Reached(t, "dpop.lock")
    /\ Free(mem)
    /\ mem.head > mem.tail
    /\ mem' = [mem EXCEPT !.tail = @ + 1]
    /\ Return(t)
    /\ UNCHANGED loc

(* try_lock: it also fails while the owner is inside its short critical    *)
(* sections, which are single steps here.                                  *)
Steal(t) ==
    /\ Calls(t, "steal")
    /\ Free(mem)
    /\ loc' = [loc EXCEPT ![t].head = mem.head]
    /\ mem' = [mem EXCEPT !.lock = t]
    /\ Jump(t, "steal.head")

StealBusy(t) ==
    /\ Calls(t, "steal")
    /\ ~Free(mem) \/ \E u \in Callers : label[u] \in {"dpush.lock", "dpop.lock"}
    /\ Return(t)
    /\ UNCHANGED <<mem, loc>>

StealHead(t) ==
    /\ Reached(t, "steal.head")
    /\ mem' = [mem EXCEPT !.head = loc[t].head + 1]
    /\ Jump(t, "steal.tail")
    /\ UNCHANGED loc

StealTail(t) ==
    /\ Reached(t, "steal.tail")
    /\ Jump(t, IF loc[t].head < mem.tail THEN "steal.item" ELSE "steal.undo")
    /\ UNCHANGED <<mem, loc>>

StealItem(t) ==
    /\ Reached(t, "steal.item")
    /\ mem' = [mem EXCEPT !.stolen = Append(@, mem.slots[Slot(loc[t].head)]),
                          !.lock = main]
    /\ Return(t)
    /\ UNCHANGED loc

StealUndo(t) ==
    /\ Reached(t, "steal.undo")
    /\ mem' = [mem EXCEPT !.head = loc[t].head, !.lock = main]
    /\ Return(t)
    /\ UNCHANGED loc

DequeNext ==
    /\ Is("deque")
    /\ \E t \in Callers :
          \/ DequePush(t) \/ PushTail(t) \/ DequePushFull(t) \/ PushLocked(t)
          \/ DequePop(t) \/ DequePopZero(t) \/ PopTakes(t)
          \/ PopMeetsThief(t) \/ PopLoses(t)
          \/ Steal(t) \/ StealBusy(t) \/ StealHead(t) \/ StealTail(t)
          \/ StealItem(t) \/ StealUndo(t)

-----------------------------------------------------------------------------
(* The tests.  Test0 has three thieves that steal four times each, and the *)
(* owner repeats its blocks; two thieves, two steals and one round of each *)
(* block reach every combination of the indices that the array allows.     *)

dpush == <<"dpush", 0>>
dpop == <<"dpop", 0>>
steal == <<"steal", 0>>

(* Any clients of ws_deque.cpp: the owner pushes and pops as it likes, any *)
(* number of thieves steal.                                                *)
Owner == 1

ASSUME DequeAssumption == Owner \in Callers

DequeCalls(t) == CASE t = Owner -> {dpush, dpop} [] t = main -> {} [] OTHER -> {steal}

DequeInit ==
    /\ Begun("deque", "cpp", DequeMem, DequeLoc)
    /\ todo \in [Callers -> Seq({dpush, dpop, steal})]
    /\ \A t \in Callers : todo[t] \in Seq(DequeCalls(t))

DequeSpec == DequeInit /\ [][DequeNext]_sampleVars

Test0Owner ==
    Repeat(4, dpush) \o Repeat(5, dpop) \o <<dpush, dpop>>
        \o <<dpush, dpush, dpop, dpop>> \o <<dpush, dpush, dpush, dpop>>

Test0 ==
    Begin("deque", "cpp", DequeMem,
          [t \in 1..3 |-> IF t = Owner THEN Test0Owner ELSE Repeat(2, steal)],
          DequeLoc)

TestTwo ==
    [t \in 1..2 |-> IF t = Owner THEN <<dpush, dpush, dpop, dpop, dpop>> ELSE <<steal>>]

CppTest == Begin("deque", "cpp", DequeMem, TestTwo, DequeLoc)
JavaTest == Begin("deque", "java", DequeMem, TestTwo, DequeLoc)
CliTest == Begin("deque", "cli", DequeMem, TestTwo, DequeLoc)

(* The clients of the Java version push three items in a row, as test 0    *)
(* does with ws_deque.cpp: one more than the array has slots.              *)
JavaTestThree ==
    Begin("deque", "java", DequeMem,
          [t \in 1..2 |-> IF t = Owner THEN Repeat(3, dpush) \o Repeat(3, dpop)
                                        ELSE <<steal>>],
          DequeLoc)

JavaSpec == JavaTestThree /\ [][DequeNext]_sampleVars

-----------------------------------------------------------------------------
Taken == mem.popped \o mem.stolen

(* Thieves take the oldest items: what they get is in the order of the     *)
(* pushes.                                                                 *)
StolenInOrder ==
    \A i, j \in DOMAIN mem.stolen : i < j => mem.stolen[i] < mem.stolen[j]

(* No item is delivered twice, and when no call is under way the deque     *)
(* holds exactly the items that nobody has taken, in the order of the      *)
(* pushes: state[] in the tests.  And the thieves get the oldest ones.     *)
EachItemOnce ==
    Is("deque") =>
        /\ StolenInOrder
        /\ \A i, j \in DOMAIN Taken : Taken[i] = Taken[j] => i = j
        /\ (\A t \in Callers : label[t] = "idle") =>
              LET left == {n \in 1..mem.pushed :
                              \A i \in DOMAIN Taken : Taken[i] # n}
              IN  /\ Count = Cardinality(left)
                  /\ left = {mem.slots[Slot(i)] : i \in mem.head..mem.tail - 1}

(* A pop comes back without an item only when all that was pushed has been *)
(* taken: the owner that meets a thief looks again under the lock.         *)
PopsFindItems ==
    [][Is("deque") =>
         \A t \in Callers :
            /\ todo[t] # <<>> /\ Head(todo[t]) = dpop
            /\ todo'[t] = Tail(todo[t]) /\ mem'.popped = mem.popped
            => 1..mem.pushed \subseteq ToSet(Taken)]_sampleVars

=============================================================================
