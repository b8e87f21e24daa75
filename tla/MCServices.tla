----------------------------- MODULE MCServices -----------------------------
(***************************************************************************)
(* The services of the context that have nothing to do with one another,   *)
(* each checked by itself in one run: a behaviour is one of them, the      *)
(* others stay as they begin.                                              *)
(***************************************************************************)
EXTENDS Memory, TreeSearch, ThreadLocal, Fibers

VARIABLE component

servicesVars == <<component, memoryVars, searchVars, localVars, fiberVars>>

CONSTANTS
    Depth,      \* the longest iteration, in draws
    MaxLimit    \* the largest limit of a draw

(* The tests of at most n draws in a row, and the one that draws nothing:  *)
(* a limit, and what the test is after each result of the first draw.      *)
TestsTo[n \in 0 .. Depth] ==
    {[p \in {<<>>} |-> 0]} \cup
    IF n = 0 THEN {}
    ELSE UNION {{[p \in {<<>>} \cup UNION {{<<d>> \o q : q \in DOMAIN next[d]} : d \in DOMAIN next}
                    |-> IF p = <<>> THEN limit ELSE next[Head(p)][Tail(p)]]
                  : next \in [0 .. limit - 1 -> TestsTo[n - 1]]}
               : limit \in 1 .. MaxLimit}

MCTests == {t \in TestsTo[Depth] : t[<<>>] # 0}

(* A test that is not deterministic may go on as any other, so one is enough. *)
Largest == CHOOSE t \in MCTests : \A u \in MCTests : DOMAIN u \subseteq DOMAIN t

(* The smallest test, which the components that are not a search keep. *)
NoSearch ==
    /\ test = [p \in {<<>>, <<0>>} |-> 1 - Len(p)]
    /\ failing = NoPath /\ deterministic = TRUE
    /\ stree = <<>> /\ path = <<>> /\ visited = {} /\ phase = "first"

Init ==
    /\ component \in {"heap", "handles", "search", "locals", "fibers"}
    /\ MemoryInit /\ LocalInit /\ FibersInit
    /\ IF component = "search" THEN SearchInit /\ (deterministic \/ test = Largest)
       ELSE NoSearch

Others(vars) == UNCHANGED <<component, vars>>

Next ==
    \/ component = "heap" /\ HeapNext /\ Others(<<searchVars, localVars, fiberVars>>)
    \/ component = "handles" /\ HandleNext /\ Others(<<searchVars, localVars, fiberVars>>)
    \/ component = "search" /\ SearchNext /\ Others(<<memoryVars, localVars, fiberVars>>)
    \/ component = "locals" /\ LocalNext /\ Others(<<memoryVars, searchVars, fiberVars>>)
    \/ component = "fibers" /\ FibersNext /\ Others(<<memoryVars, searchVars, localVars>>)

Spec == Init /\ [][Next]_servicesVars
=============================================================================
