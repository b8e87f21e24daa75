--------------------------- MODULE MCMemoryOrder ---------------------------
(***************************************************************************)
(* MemoryOrder for TLC: programs of at most MaxCalls calls of the engine,  *)
(* made by the threads in any order.                                       *)
(***************************************************************************)
EXTENDS MemoryOrder, TLC

CONSTANT MaxCalls       \* bound on the calls of one iteration
VARIABLE calls

MCInit == Init /\ calls = 0
MCNext == calls < MaxCalls /\ Next /\ calls' = calls + 1
MCSpec == MCInit /\ [][MCNext]_<<vars, calls>>

(* No thread is distinguished from another. *)
Symmetry == Permutations(Threads)
=============================================================================
