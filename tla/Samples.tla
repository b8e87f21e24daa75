------------------------------ MODULE Samples -------------------------------
(***************************************************************************)
(* What the models of the sample programs share.  A sample is a set of     *)
(* threads that call the methods of one object; a step is one access to    *)
(* the memory they share, and the steps of the threads interleave.  The    *)
(* main thread runs when the others have returned (join).  The memory      *)
(* orders of these programs are the business of MemoryOrder and Litmus.    *)
(***************************************************************************)
EXTENDS Integers, FiniteSets, SequencesExt, TLC

CONSTANT Callers    \* the threads of a program

main == 0           \* the thread that joins the others

ASSUME SamplesAssumption == main \in Callers

VARIABLES
    sample,     \* which program runs: [name |-> .., variant |-> ..]
    mem,        \* the shared memory of the program
    label,      \* where each thread is, "idle" between two calls
    loc,        \* the locals of each thread
    todo        \* the calls each thread still makes, the current one first

sampleVars == <<sample, mem, label, loc, todo>>

Is(name) == sample.name = name

Reached(t, l) == label[t] = l

Jump(t, l) ==
    /\ label' = [label EXCEPT ![t] = l]
    /\ UNCHANGED <<sample, todo>>

Return(t) ==
    /\ label' = [label EXCEPT ![t] = "idle"]
    /\ todo' = [todo EXCEPT ![t] = Tail(@)]
    /\ UNCHANGED sample

Returned(t) == label[t] = "idle" /\ todo[t] = <<>>

(* A call is <<name, argument>>. *)
Calls(t, name) ==
    /\ label[t] = "idle"
    /\ todo[t] # <<>>
    /\ Head(todo[t])[1] = name
    /\ t = main => \A u \in Callers \ {main} : Returned(u)

Arg(t) == Head(todo[t])[2]

Repeat(n, c) == [i \in 1..n |-> c]

(* Init of a sample: memory m, locals l, calls c[t]. *)
Begun(name, variant, m, l) ==
    /\ sample = [name |-> name, variant |-> variant]
    /\ mem = m
    /\ label = [t \in Callers |-> "idle"]
    /\ loc = [t \in Callers |-> l]

Begin(name, variant, m, c, l) ==
    /\ Begun(name, variant, m, l)
    /\ todo = [t \in Callers |-> IF t \in DOMAIN c THEN c[t] ELSE <<>>]

=============================================================================
