------------------------------ MODULE AbaStack ------------------------------
(***************************************************************************)
(* The lock-free stack of src/code/aba (aba.cpp and aba_detect.cpp free a  *)
(* node when it is popped, aba_fixed.cpp counts the references to it) and  *)
(* of relacy/example/stack.  A node is its address; the allocator may hand *)
(* out the address of a freed node again, and what is read from a freed    *)
(* node is whatever the allocator left there.                              *)
(***************************************************************************)
EXTENDS Samples

CONSTANTS
    Nodes,      \* the addresses of nodes, 0 is nullptr
    Wild,       \* an address that is no node
    TestThreads \* bounds the threads of StackTest, which has four

ASSUME StackAssumption == 0 \notin Nodes /\ Wild \notin Nodes \cup {0}

(* reborn counts the allocations of an address, abs is the stack that the  *)
(* calls that took effect have built (history).                            *)
StackMem(n) ==
    [head |-> n,
     next |-> [k \in Nodes |-> IF k \in 1..n THEN k - 1 ELSE 0],
     alive |-> 1..n,
     reborn |-> [k \in Nodes |-> 0],
     abs |-> [i \in 1..n |-> n + 1 - i],
     spare |-> 0, aba |-> FALSE, broken |-> FALSE]

StackLoc == [node |-> 0, next |-> 0, born |-> 0]

(* What loads the head also remembers which node lives there. *)
HeldNode(n) == [node |-> n, next |-> 0,
            born |-> IF n \in Nodes THEN mem.reborn[n] ELSE 0]

(* The nodes that the references in roots keep alive: those in every set   *)
(* that holds the roots and what its nodes refer to.                       *)
ReachedFrom(next, roots) ==
    {n \in Nodes : \A S \in SUBSET Nodes :
        roots \subseteq S /\ {next[k] : k \in S} \subseteq S \cup {0} => n \in S}

(* A plausible mistake: what a thread refers to does not count. *)
CountedByHead(m, l) == [m EXCEPT !.alive = ReachedFrom(m.next, {m.head} \ {0})]

(* shared_ptr: a node lives as long as the head, a local or another node   *)
(* refers to it.                                                           *)
Counted(m, l) ==
    LET roots == ({m.head} \cup {l[t].node : t \in Callers}
                           \cup {l[t].next : t \in Callers}) \ {0}
    IN  [m EXCEPT !.alive = ReachedFrom(m.next, roots)]

Settle(m, l) ==
    /\ loc' = l
    /\ mem' = IF sample.variant = "counted" THEN Counted(m, l) ELSE m

(* new node(data): the constructor sets next to nullptr. *)
Allocated(n) == [mem EXCEPT !.alive = @ \cup {n}, !.reborn[n] = @ + 1,
                            !.next = [@ EXCEPT ![n] = 0]]

(* ... and the first load of the head *)
Push(t) ==
    /\ Calls(t, "push")
    /\ \E n \in Nodes \ mem.alive :
          /\ mem' = Allocated(n)
          /\ loc' = [loc EXCEPT ![t] = [StackLoc EXCEPT !.node = n]]
    /\ Jump(t, "push.load")

PushLoad(t) ==
    /\ Reached(t, "push.load")
    /\ mem' = [mem EXCEPT !.next[loc[t].node] = mem.head]
    /\ Jump(t, "push.cas")
    /\ UNCHANGED loc

(* A plausible mistake: a plain store instead of an exchange. *)
PushStores(t) ==
    /\ Reached(t, "push.cas")
    /\ Settle([mem EXCEPT !.head = loc[t].node, !.abs = <<loc[t].node>> \o @],
              [loc EXCEPT ![t] = StackLoc])
    /\ Return(t)

(* compare_exchange_weak leaves the head it found in next, and may fail    *)
(* for no reason.                                                          *)
PushSwaps(t) ==
    LET n == loc[t].node
    IN  /\ Reached(t, "push.cas")
        /\ mem.head = mem.next[n]
        /\ Settle([mem EXCEPT !.head = n, !.abs = <<n>> \o @],
                  [loc EXCEPT ![t] = StackLoc])
        /\ Return(t)

PushFails(t) ==
    /\ Reached(t, "push.cas")
    /\ Settle([mem EXCEPT !.next[loc[t].node] = mem.head], loc)
    /\ UNCHANGED <<sample, label, todo>>

(* The destructor, and the drain of the main thread, pop until it is empty.*)
Pop(t) ==
    /\ \/ Calls(t, "pop")
       \/ Calls(t, "drain") /\ mem.head # 0
    /\ loc' = [loc EXCEPT ![t] = HeldNode(mem.head)]
    /\ mem' = mem
    /\ Jump(t, "pop.next")

(* throw out_of_range, and the end of the destructor *)
PopEmpty(t) ==
    /\ \/ Reached(t, "pop.next") /\ loc[t].node = 0
       \/ Calls(t, "drain") /\ mem.head = 0
    /\ Return(t)
    /\ UNCHANGED <<mem, loc>>

(* old_head->next, which is evaluated before the exchange *)
PopNext(t) ==
    LET n == loc[t].node
    IN  /\ Reached(t, "pop.next") /\ n \in Nodes
        /\ \E x \in {mem.next[n]} \cup (IF n \in mem.alive THEN {} ELSE {Wild}) :
              loc' = [loc EXCEPT ![t].next = x]
        /\ mem' = mem
        /\ Jump(t, "pop.cas")

(* The move of the data and, if the nodes are not counted, the delete.  A  *)
(* node that is not alive is deleted twice; a wild pointer ends the run.   *)
PopSwaps(t) ==
    LET n == loc[t].node
        aba == n \notin mem.alive \/ loc[t].born # mem.reborn[n]
    IN  /\ Reached(t, "pop.cas")
        /\ mem.head = n
        /\ Settle([mem EXCEPT
                     !.head = loc[t].next,
                     !.abs = IF @ = <<>> THEN @ ELSE Tail(@),
                     !.aba = @ \/ aba,
                     !.broken = @ \/ n \notin mem.alive \/ loc[t].next = Wild,
                     !.alive = IF sample.variant = "counted" THEN @
                               ELSE @ \ {n}],
                  [loc EXCEPT ![t] = StackLoc])
        /\ IF Head(todo[t])[1] = "drain" THEN Jump(t, "idle") ELSE Return(t)

PopFails(t) ==
    /\ Reached(t, "pop.cas")
    /\ Settle(mem, [loc EXCEPT ![t] = HeldNode(mem.head)])
    /\ Jump(t, "pop.next")

(* n = new node(666), which is not pushed *)
NewNode(t) ==
    /\ Calls(t, "new")
    /\ \E n \in Nodes \ mem.alive :
          mem' = [Allocated(n) EXCEPT !.spare = n]
    /\ Return(t)
    /\ UNCHANGED loc

StackNext ==
    /\ Is("stack") /\ ~mem.broken
    /\ \E t \in Callers :
          \/ NewNode(t)
          \/ Push(t) \/ PushLoad(t) \/ PushSwaps(t) \/ PushFails(t)
          \/ Pop(t) \/ PopEmpty(t) \/ PopNext(t) \/ PopSwaps(t) \/ PopFails(t)

-----------------------------------------------------------------------------
(* Any threads that push and pop, on a stack of n nodes to begin with.  The*)
(* main thread may destroy the stack; nodes that are not counted may also  *)
(* be allocated for something else.                                        *)
StackCalls(t, variant) ==
    ({"push", "pop"} \cup (IF variant = "manual" THEN {"new"} ELSE {})
                     \cup (IF t = main THEN {"drain"} ELSE {})) \X Nat

StackInit ==
    /\ \E variant \in {"manual", "counted"}, n \in Nat :
          /\ 1..n \subseteq Nodes
          /\ Begun("stack", variant, StackMem(n), StackLoc)
    /\ DOMAIN todo = Callers
    /\ \A t \in Callers : todo[t] \in Seq(StackCalls(t, sample.variant))

StackSpec == StackInit /\ [][StackNext]_sampleVars

(* The tests: t1 pops one node while t2 pops two and pushes one.  main of  *)
(* aba_detect.cpp allocates a node of its own before the push and pops one *)
(* node after the join.                                                    *)

Turns(first, second, last) ==
    [t \in {main, 1, 2} |-> CASE t = 1 -> first [] t = 2 -> second [] OTHER -> last]

AbaMain ==
    Begin("stack", "manual", StackMem(3),
          Turns(<<<<"pop", 0>>>>,
                <<<<"pop", 0>>, <<"pop", 0>>, <<"push", 0>>>>,
                <<<<"drain", 0>>>>), StackLoc)

DetectMain ==
    Begin("stack", "manual", StackMem(3),
          Turns(<<<<"pop", 0>>>>,
                <<<<"pop", 0>>, <<"pop", 0>>, <<"new", 0>>, <<"push", 0>>>>,
                <<<<"pop", 0>>>>), StackLoc)

FixedMain ==
    Begin("stack", "counted", StackMem(3),
          Turns(<<<<"pop", 0>>>>,
                <<<<"pop", 0>>, <<"pop", 0>>, <<"push", 0>>>>,
                <<<<"drain", 0>>>>), StackLoc)

(* stack.cpp: each thread pushes and pops; before() leaves it empty *)
StackTest ==
    Begin("stack", "manual", StackMem(0),
          [t \in 1..TestThreads |-> <<<<"push", 0>>, <<"pop", 0>>>>],
          StackLoc)

-----------------------------------------------------------------------------
(* From the head, each node of s refers to the one after it. *)
Linked(head, next, s) ==
    /\ head = Append(s, 0)[1]
    /\ \A i \in DOMAIN s : next[s[i]] = Append(s, 0)[i + 1]

(* As long as no exchange took an address for the node that lived there    *)
(* before, the nodes linked from the head are what the calls that took     *)
(* effect have built, each is alive and none is freed twice.  With counted *)
(* references that never happens, and no thread holds a freed node: pop of *)
(* aba.cpp, the comments of its main, and the claim of aba_fixed.cpp.      *)
StackIsIntact ==
    Is("stack") =>
        /\ ~mem.aba => /\ Linked(mem.head, mem.next, mem.abs)
                       /\ \A i \in DOMAIN mem.abs : mem.abs[i] \in mem.alive
                       /\ ~mem.broken
        /\ sample.variant = "counted" =>
              /\ ~mem.aba
              /\ \A t \in Callers : {loc[t].node, loc[t].next} \subseteq mem.alive \cup {0}

=============================================================================
