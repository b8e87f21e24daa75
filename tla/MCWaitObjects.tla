--------------------------- MODULE MCWaitObjects ---------------------------
(* The tests of WaitObjects for TLC. *)
EXTENDS WaitObjects, TLC

CONSTANTS a, b, t0, t1, t2

Pair(k, l) == a :> k @@ b :> l

MCKinds == {Pair("auto", "auto"), Pair("auto", "manual"), Pair("auto", "semaphore"),
            Pair("manual", "mutex"), Pair("auto", "mutex"), Pair("semaphore", "mutex"),
            Pair("sem_t", t2), Pair("auto", t2)}
EventAndMutex == {Pair("auto", "mutex")}

Symmetry == Permutations({t0, t1})
=============================================================================
