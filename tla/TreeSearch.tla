----------------------------- MODULE TreeSearch -----------------------------
(***************************************************************************)
(* The enumeration of the executions of a test by the tree search          *)
(* schedulers (rand_impl and iteration_end_impl of                         *)
(* full_search_scheduler.hpp), driven by simulate2 of context.hpp, and the *)
(* second run of a test that failed, which saves and restores the tree of  *)
(* choices (get_state, set_state) to collect the history of the failure.   *)
(*                                                                         *)
(* What a test draws next is a function of its draws so far.               *)
(* A step is one draw, or the end of an iteration.                         *)
(***************************************************************************)
EXTENDS Integers, Sequences, SequencesExt

CONSTANT Tests

(* A test maps each sequence of results that its draws can have to the     *)
(* limit of its next draw, or to 0 where it ends.  It draws at least once: *)
(* iteration_begin_impl does.                                              *)
IsTest(t) ==
    /\ DOMAIN t \subseteq Seq(Nat) /\ <<>> \in DOMAIN t
    /\ \A p \in DOMAIN t : /\ t[p] \in Nat
                           /\ \A d \in 0 .. t[p] - 1 : Append(p, d) \in DOMAIN t
    /\ \A p \in DOMAIN t : \A i \in DOMAIN p :
          SubSeq(p, 1, i - 1) \in DOMAIN t /\ p[i] < t[SubSeq(p, 1, i - 1)]
    /\ t[<<>>] # 0

ASSUME TreeSearchAssumption == \A t \in Tests : IsTest(t)

VARIABLES
    test,           \* the draws of every execution
    failing,        \* the path at the end of which the test fails, if any
    deterministic,  \* whether the test draws the same limits again
    stree,          \* stree_: the nodes of the current path
    path,           \* the draws of this iteration; stree_depth_ is its length
    visited,        \* the paths of the iterations that passed
    phase           \* the first run, the second, or how it ended

searchVars == <<test, failing, deterministic, stree, path, visited, phase>>

NoPath == <<-1>>

(* The paths from the beginning of a test to an end: its executions. *)
Leaves(t) == {p \in DOMAIN t : t[p] = 0}

(* The limits that the next draw of an iteration may have, 0 for its end.  *)
(* A test that is not deterministic goes on as any other may.              *)
Limits ==
    {t[path] : t \in {t \in IF deterministic THEN {test} ELSE Tests : path \in DOMAIN t}}

Runs == {"first", "second"}

(* Mutant of Open: the last branch of a node is left out. *)
NextSkips == {i \in DOMAIN stree : stree[i].index + 2 < stree[i].count}

(* The nodes that have a branch left. *)
Open == {i \in DOMAIN stree : stree[i].index # stree[i].count - 1}

(* rand_impl: a new node begins with its first branch, an old one is       *)
(* followed again, if it is the same draw.                                 *)
Rand(limit) ==
    LET depth == Len(path)
    IN  /\ IF depth = Len(stree)
           THEN /\ stree' = Append(stree, [count |-> limit, index |-> 0])
                /\ path' = Append(path, 0)
                /\ UNCHANGED phase
           ELSE IF stree[depth + 1].count = limit
           THEN /\ path' = Append(path, stree[depth + 1].index)
                /\ UNCHANGED <<stree, phase>>
           ELSE phase' = "verify_failed" /\ UNCHANGED <<stree, path>>
        /\ UNCHANGED <<test, failing, deterministic, visited>>

(* A draw of the test. *)
Draw ==
    /\ phase \in Runs
    /\ \E limit \in Limits \ {0} : Rand(limit)

Stop(p) == phase' = p /\ UNCHANGED <<stree, path, visited>>

(* The deepest node with a branch left takes it; what was below is gone. *)
Advance(i) == stree' = [SubSeq(stree, 1, i) EXCEPT ![i].index = @ + 1]

(* iteration_end_impl *)
IterationEnd ==
    IF Len(path) # Len(stree) THEN Stop("verify_failed")
    ELSE IF Open = {} THEN phase' = "done" /\ visited' = visited \cup {path}
                            /\ UNCHANGED <<stree, path>>
    ELSE /\ Advance(CHOOSE i \in Open : \A j \in Open : j <= i)
         /\ visited' = visited \cup {path}
         /\ path' = <<>>
         /\ UNCHANGED phase

(* Mutant of Fail: the second run starts from the beginning. *)
FailRestarts ==
    IF phase = "second" THEN Stop("reproduced")
    ELSE /\ phase' = "second"
         /\ stree' = <<>>
         /\ path' = <<>>
         /\ UNCHANGED visited

(* The first run stops at a failure; a new context goes on from its tree,  *)
(* and has to fail in its first iteration.                                 *)
Fail ==
    IF phase = "second" THEN Stop("reproduced")
    ELSE /\ phase' = "second"
         /\ path' = <<>>
         /\ UNCHANGED <<stree, visited>>

(* The end of an iteration, in simulate2. *)
End ==
    /\ phase \in Runs
    /\ 0 \in Limits
    /\ IF path = failing THEN Fail
       ELSE IF phase = "second" THEN Stop("verify_failed") ELSE IterationEnd
    /\ UNCHANGED <<test, failing, deterministic>>

SearchInit ==
    /\ test \in Tests
    /\ failing \in Leaves(test) \cup {NoPath}
    /\ deterministic \in BOOLEAN
    /\ stree = <<>> /\ path = <<>> /\ visited = {}
    /\ phase = "first"

SearchNext == Draw \/ End

SearchSpec == SearchInit /\ [][SearchNext]_searchVars

-----------------------------------------------------------------------------
(* Properties. *)

(* The search is exhaustive: no execution of the test is run twice, and    *)
(* when the search ends without a failure it has run every one,            *)
(* and not one that the test does not have (iteration_end_impl, rand_impl).*)
SearchIsExhaustive ==
    deterministic =>
        /\ phase = "first" => path \notin visited
        /\ phase = "done" => visited = Leaves(test)

(* A test that fails has a failing execution that the search reaches, and  *)
(* the second run repeats it, from the saved tree, in its first iteration: *)
(* the RL_VERIFYs of rand_impl and of simulate2 (second == false) fail     *)
(* only for a test that is not deterministic, as their comments say.       *)
FailureIsReplayed ==
    deterministic =>
        /\ phase # "verify_failed"
        /\ phase = "done" => failing = NoPath
        /\ phase = "reproduced" => path = failing
=============================================================================
