----------------------------- MODULE MCPrograms -----------------------------
(***************************************************************************)
(* The programs of the tool comparison and of Relacy's tests and examples, *)
(* in one run: the small ones on the memory engine (Litmus), the others as *)
(* interleavings (Samples).  A behaviour runs one of them.                 *)
(***************************************************************************)
EXTENDS ToolPrograms, Facades, AbaStack, WsDeque, EventCount

MCPrograms == ToolSet \cup TestSet \cup FacadeSet
MCThreads == 0 .. 3
MCValues == 0 .. 3

NoSample == Begin("none", "none", 0, <<>>, 0)
NoProgram == LitmusInit /\ prog = CHOOSE p \in Programs : TRUE

MCInit ==
    \/ LitmusInit /\ NoSample
    \/ /\ NoProgram
       /\ \/ AbaMain \/ DetectMain \/ FixedMain \/ StackTest
          \/ Test0 \/ CppTest \/ JavaTest \/ CliTest
          \/ QueueTest \/ CondvarTest \/ PlainClients \/ PoolClients

MCNext ==
    \/ Is("none") /\ LitmusNext /\ UNCHANGED sampleVars
    \/ (StackNext \/ DequeNext \/ EcNext) /\ UNCHANGED litmusVars

MCSpec == MCInit /\ [][MCNext]_<<litmusVars, sampleVars>>
=============================================================================
