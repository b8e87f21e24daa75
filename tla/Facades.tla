------------------------------- MODULE Facades -------------------------------
(***************************************************************************)
(* The variables a test declares: rl::var and rl::atomic, and those of the *)
(* Java mode (java_var.hpp, java_volatile.hpp, java_atomic.hpp) and of the *)
(* CLI mode (cli_var.hpp, cli_volatile.hpp, cli_interlocked.hpp, cli.hpp). *)
(* Each is a choice of memory orders, and of operators that are one        *)
(* read-modify-write or a load and a store.  The programs are clients of   *)
(* them, among them the tests of jtest.cpp and ntest.cpp.                  *)
(***************************************************************************)
EXTENDS TestPrograms

(* construct: the order of the store of the constructor that takes a       *)
(* value, and strong: whether the default constructor initializes.  load   *)
(* and store: of the conversions and assignments; rmw: of ++, += ...,      *)
(* "none" if they load and store.  reload: an assignment from another      *)
(* variable returns *this, which is converted, hence loaded.               *)
Kind(construct, load, store, rmw) ==
    [construct |-> construct, load |-> load, store |-> store, rmw |-> rmw,
     strong |-> TRUE, reload |-> rmw = "none"]
Plain == "none"

(* atomic_proxy: the orders are the defaults of its functions. *)
CppAtomic == [Kind("relaxed", "seq_cst", "seq_cst", "seq_cst") EXCEPT !.strong = FALSE]

(* var_proxy *)
CppVar == [Kind(Plain, Plain, Plain, "none") EXCEPT !.strong = FALSE, !.reload = FALSE]

(* jvar_proxy, nvar_proxy *)
JavaVar == Kind("relaxed", "relaxed", "relaxed", "none")
CliVar == Kind("relaxed", "relaxed", "relaxed", "none")

(* jvolatile_proxy, nvolatile_proxy *)
JavaVolatile == Kind("seq_cst", "seq_cst", "seq_cst", "none")
CliVolatile == Kind("release", "acquire", "release", "none")

(* jatomic_proxy: get, set, getAndAdd... *)
JavaAtomic == [Kind("seq_cst", "seq_cst", "seq_cst", "seq_cst") EXCEPT !.reload = FALSE]

(* Interlocked, on an nvar; it has no store. *)
Interlocked == [CliVar EXCEPT !.load = "acquire", !.rmw = "seq_cst", !.reload = FALSE]

(* Thread::VolatileRead and VolatileWrite, on an nvar. *)
CliThread == [CliVar EXCEPT !.load = "acquire", !.store = "release"]
MemoryBarrier == Fence_("seq_cst")

-----------------------------------------------------------------------------
(* The operators of a variable a of kind k, r being a local variable.      *)

Loads(k, a) == IF k.load = Plain THEN Rd(a) ELSE Ld(a, k.load)
Stores(k, a, x) == IF k.store = Plain THEN Wr(a, x) ELSE St(a, x, k.store)

New(k, a, x) ==
    IF k.construct = Plain
    THEN <<Wr(a, x)>>
    ELSE (IF k.strong THEN <<Init_(a)>> ELSE <<>>) \o <<St(a, x, k.construct)>>

(* a += n, --a, addAndGet...: r is the new value. *)
Change(k, a, n, r) ==
    IF k.rmw = "none"
    THEN <<Into(Loads(k, a), r), Into(From(Stores(k, a, n), r), r)>>
    ELSE <<Into(Plus(Add(a, n, k.rmw), n), r)>>

(* a++, getAndAdd...: r is the old value; of an rl::var it is the new one, *)
(* the operators of which change the copy they return (var.hpp:109).       *)
PostChange(k, a, n, r) ==
    CASE k.load = Plain -> Change(k, a, n, r)
      [] k.load # Plain /\ k.rmw = "none" ->
             <<Into(Loads(k, a), r), From(Stores(k, a, n), r)>>
      [] OTHER -> <<Into(Add(a, n, k.rmw), r)>>

(* a -= n of rl::atomic: it returns fetch_sub(n) + n. *)
SubtractAssign(k, a, n, r) ==
    IF k.rmw = "none"
    THEN Change(k, a, 0 - n, r)
    ELSE <<Into(Plus(Add(a, 0 - n, k.rmw), n), r)>>

(* a = b *)
Assign(k, a, b, r) ==
    <<Into(Loads(k, b), r), From(Stores(k, a, 0), r)>>
        \o IF k.reload THEN <<Into(Loads(k, a), r)>> ELSE <<>>

(* The last instruction of s is expected to have result x. *)
Gives(s, x) == [s EXCEPT ![Len(s)] = Expect(@, {x})]

-----------------------------------------------------------------------------
(* The tests of the two modes. *)

(* test_api of jtest.cpp, for its volatiles: x is jv1, y jv2 and z jv3.    *)
JavaApi ==
    LET v == JavaVolatile
    IN  Prog(<<>>,
             <<<<Init_("x")>> \o New(v, "y", 2)
               \o <<Into(Ld("y", v.load), "r"), Init_("z"), From(St("z", 0, v.construct), "r")>>
               \o Gives(Assign(v, "x", "z", "r"), 2)
               \o Gives(Change(v, "x", 1, "r"), 3) \o Gives(SubtractAssign(v, "x", 1, "r"), 2)
               \o PostChange(v, "x", 1, "r") \o PostChange(v, "x", -1, "r1")
               \o Gives(Change(v, "x", -1, "r1"), 1) \o Gives(Change(v, "x", 1, "r1"), 2)>>,
             Never)

(* ... and for its AtomicInteger: x is ai and y ai2. *)
JavaAtomicApi ==
    LET k == JavaAtomic
    IN  Prog(<<>>,
             <<<<Init_("x")>> \o New(k, "y", 1)
               \o <<Expect(Ld("x", k.load), {0}), St("x", 1, k.store)>>
               \o Gives(Change(k, "x", 2, "r"), 3)
               \o <<Expect(CasStrong("x", 1, 2, k.rmw), {1})>>
               \o <<Expect(Xchg("x", 2, k.rmw), {3}), Expect(Ld("y", k.load), {1})>>>>,
             Never)

(* test_api of ntest.cpp, the assignments: x is cv1 and y cv2. *)
CliApi ==
    LET v == CliVar
    IN  Prog(<<>>,
             <<<<Init_("x")>> \o New(v, "y", 3)
               \o Gives(Assign(v, "x", "y", "r"), 3) \o <<St("x", 1, v.store)>>
               \o Gives(Change(v, "x", 1, "r"), 2) \o Gives(SubtractAssign(v, "x", 1, "r"), 1)
               \o PostChange(v, "x", 1, "r") \o PostChange(v, "x", -1, "r")
               \o <<MemoryBarrier, Expect(Ld("x", CliThread.load), {1}),
                    St("x", 2, CliThread.store), Yield_>>>>,
             Never)

(* ... and the calls of Interlocked: x is cv1, which is 1, and y cv2.      *)
InterlockedApi ==
    LET i == Interlocked
    IN  Prog(<<>>,
             <<New(i, "x", 1) \o New(i, "y", 3)
               \o Gives(Change(i, "x", 2, "r"), 3)
               \o <<Expect(CasStrong("x", 3, 1, i.rmw), {0}), Expect(Xchg("y", 2, i.rmw), {3}),
                    Expect(Ld("y", i.load), {2})>>
               \o Gives(Change(i, "y", 1, "r"), 3) \o Gives(Change(i, "y", -1, "r"), 2)>>,
             Never)

(* test_seq_cst_volatiles *)
SeqCstVolatiles ==
    LET v == JavaVolatile
        Thread(own, other, x) ==
            <<St(own, 1, v.store), St("z", x, v.store)>>
                \o SpinYield(2, other, x, v.load, v.load) \o Section_(own, x, v.store)
    IN  [Peterson(Thread("x", "y", 1), Thread("y", "x", 0))
         EXCEPT !.before = <<Init_("x"), Init_("y"), Init_("z")>>]

(* test_unitialized_var: x points to y when it is 1.  What is read behind  *)
(* the pointer is not ordered, but it is initialized.                      *)
PublishObject(k, forbidden) ==
    [Prog(<<Init_("x")>>,
          <<New(k, "y", 1) \o <<Stores(k, "x", 1)>>,
            <<Goto(Loads(k, "x"), {1}, 3), Goto(Yield_, Values, 1),
              Into(Loads(k, "y"), "r")>>>>,
          Never)
     EXCEPT !.forbidden = forbidden]

UninitializedVar == PublishObject(JavaVar, {})

-----------------------------------------------------------------------------
(* What each kind of variable promises to two threads.                     *)

Two(k) == New(k, "x", 0) \o New(k, "y", 0)

(* Each announces itself and looks for the other one. *)
Announce(k, between, forbidden) ==
    [Prog(Two(k),
          <<<<Stores(k, "x", 1)>> \o between \o <<Into(Loads(k, "y"), "r1")>>,
            <<Stores(k, "y", 1)>> \o between \o <<Into(Loads(k, "x"), "r2")>>>>,
          Never)
     EXCEPT !.forbidden = forbidden]
NobodySeen == {[r \in {"r1", "r2"} |-> 0]}

(* Both increment one counter. *)
Increments(k, forbidden) ==
    [Prog(New(k, "x", 0), <<PostChange(k, "x", 1, "r1"), PostChange(k, "x", 1, "r2")>>, Never)
     EXCEPT !.forbidden = forbidden]

(* Both take from a counter, and do not get the same number: of 2 in rl,   *)
(* 3 and 2 instead of 1 and 0.                                             *)
Takes(k) ==
    [Prog(New(k, "x", 2),
          <<SubtractAssign(k, "x", 1, "r1"), SubtractAssign(k, "x", 1, "r2")>>, Never)
     EXCEPT !.forbidden = {[r \in {"r1", "r2"} |-> n] : n \in Values}]

(* One publishes plain data with a flag. *)
Publish(k, ordered) ==
    Prog(New(k, "x", 0),
         <<<<Wr("d", 1), Stores(k, "x", 1)>>,
           <<Goto(Into(Loads(k, "x"), "r"), {0}, Finish), Rd("d")>>>>,
         ordered)

(* A failed compare_exchange is a load with the order given for it.        *)
FailedCas(fail, ordered) ==
    Prog(<<St("x", 0, "relaxed")>>,
         <<<<Wr("d", 1), Xchg("x", 1, "release")>>,
           <<Goto(Into(Failing(CasStrong("x", 0, 2, "acq_rel"), fail), "r"), {0}, Finish),
             Rd("d")>>>>,
         ordered)

FacadeSet ==
    {JavaApi, JavaAtomicApi, CliApi, InterlockedApi,
     SeqCstVolatiles, UninitializedVar,
     PublishObject(JavaVolatile, {[r \in {"r"} |-> 0]}),
     Prog(<<Wr("d", 0)>>, <<PostChange(CppVar, "d", 1, "r1"), PostChange(CppVar, "d", 1, "r2")>>,
          Always),
     Announce(CliVar, <<MemoryBarrier>>, NobodySeen),
     Announce(CliVolatile, <<>>, {}), Takes(CppAtomic),
     FailedCas("acquire", Never), FailedCas("relaxed", {0})}
    \cup {Announce(k, <<>>, NobodySeen) : k \in {CppAtomic, JavaVolatile, JavaAtomic}}
    \cup {Increments(k, NobodySeen) : k \in {CppAtomic, JavaAtomic, Interlocked}}
    \cup {Increments(k, {}) : k \in {JavaVolatile, CliVolatile, JavaVar}}
    \cup {Publish(k, Never) : k \in {CppAtomic, JavaVolatile, JavaAtomic, CliVolatile, CliThread}}
    \cup {Publish(k, {0}) : k \in {JavaVar, CliVar}}
=============================================================================
