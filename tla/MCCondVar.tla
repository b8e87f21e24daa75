----------------------------- MODULE MCCondVar -----------------------------
(* CondVar for TLC: a CRITICAL_SECTION, or any mutex locked once. *)
EXTENDS CondVar, TLC

MCInit == CvInit /\ kind = CriticalSection

MCSpec == MCInit /\ [][CvNext]_<<vars, cvVars>>

Symmetry == Permutations(Threads)
=============================================================================
