-------------------------- MODULE MCHappensBefore --------------------------
(* Instances of HappensBefore for TLC. *)
EXTENDS HappensBefore, TLC

CONSTANTS x, y, d, m    \* two atomics, a plain variable, a sync_var

Profile(atomics, vs, syncs, loads, stores, rmws, fences, global, threads, calls) ==
    [atomics |-> atomics, vars |-> vs, syncs |-> syncs, loads |-> loads,
     stores |-> stores, rmws |-> rmws, fences |-> fences, global |-> global,
     threads |-> threads, calls |-> calls]

MCProfiles == {
    \* release and acquire, relaxed accesses and fences on one atomic
    Profile({x}, {}, {}, {"relaxed", "acquire"}, {"relaxed", "release"},
            {"relaxed"}, {"acquire", "release"}, FALSE, 2, 5),
    \* plain variables, with everything that orders them
    Profile({x}, {d}, {m}, {"acquire"}, {"release"}, {}, {}, TRUE, 2, 5),
    Profile({x}, {}, {}, {"relaxed", "seq_cst"}, {"relaxed", "seq_cst"},
            {"seq_cst"}, {"seq_cst"}, FALSE, 2, 5),
    \* release sequences through a third thread, and two atomics
    Profile({x, y}, {}, {}, {"acquire"}, {"release"}, {"relaxed"}, {}, FALSE, 3, 5),
    \* reads and writes of one atomic by three threads
    Profile({x}, {}, {}, {"relaxed"}, {"relaxed"}, {}, {"seq_cst"}, FALSE, 3, 6)}

(* A relaxed store of the releasing thread follows the release. *)
SequenceProfiles == {
    Profile({x}, {d}, {}, {"acquire"}, {"relaxed", "release"}, {"relaxed"}, {},
            FALSE, 2, 6)}

(* No thread is distinguished from another. *)
Symmetry == Permutations(Threads)
=============================================================================
