---------------------------- MODULE TestPrograms ----------------------------
(***************************************************************************)
(* Programs of Relacy's own tests (test/memory_order.hpp, test/fence.hpp,  *)
(* test/futex.hpp, test/iriw.cpp) and examples (example/peterson,          *)
(* example/ref_counting) whose result the test asserts.                    *)
(***************************************************************************)
EXTENDS Litmus

Both(x0) == <<St("x", x0, "seq_cst"), St("y", x0, "seq_cst")>>
Forbid(p, f) == [p EXCEPT !.forbidden = {f}]

-----------------------------------------------------------------------------
(* memory_order.hpp *)

CoherentReadRead ==
    Prog(Both(0),
         <<<<St("x", 1, "relaxed")>>,
           <<Goto(Ld("x", "relaxed"), {0}, Finish), St("y", 1, "release"), Ld("x", "relaxed")>>,
           <<Goto(Ld("y", "acquire"), {0}, Finish), Expect(Ld("x", "relaxed"), {1})>>>>,
         Never)

ReorderSingleVar ==
    Forbid(Prog(<<St("x", 0, "seq_cst")>>,
                <<<<Into(Ld("x", "relaxed"), "r1"), Into(Ld("x", "relaxed"), "r2")>>,
                  <<St("x", 1, "relaxed")>>>>, Never),
           [r1 |-> 1, r2 |-> 0])

AcqRel ==
    Prog(<<St("x", 0, "seq_cst")>>,
         <<<<Goto(Ld("x", "acquire"), {0}, Finish), Expect(Rd("d"), {1})>>,
           <<Wr("d", 1), St("x", 1, "release")>>>>, Never)

SeqCst ==
    Forbid(Prog(Both(0),
                <<<<St("x", 1, "seq_cst")>>,
                  <<St("y", 1, "seq_cst")>>,
                  <<Into(Ld("x", "seq_cst"), "r1"), Into(Ld("y", "seq_cst"), "r2")>>,
                  <<Into(Ld("y", "seq_cst"), "r3"), Into(Ld("x", "seq_cst"), "r")>>>>,
                Never),
           [r1 |-> 1, r2 |-> 0, r3 |-> 1, r |-> 0])

ModificationOrder ==
    Prog(<<St("x", 0, "seq_cst"), Wr("d", 0)>>,
         <<<<Goto(Ld("x", "acquire"), {0}, Finish), Rd("d")>>,
           <<Wr("d", 1), St("x", 1, "release"), St("x", 2, "relaxed")>>>>, Never)

(* z is r of the test. *)
Reordering ==
    Prog(Both(0) \o <<St("z", 0, "seq_cst")>>,
         <<<<St("x", 1, "relaxed")>>,
           <<Goto(Ld("x", "relaxed"), {0}, 3), St("z", 1, "relaxed"), St("y", 1, "release")>>,
           <<Goto(Ld("y", "acquire"), {0}, Finish), Goto(Ld("z", "relaxed"), {0}, Finish),
             Expect(Ld("x", "relaxed"), {1})>>>>, Never)

Transitive ==
    Prog(<<St("x", 0, "seq_cst")>>,
         <<<<Wr("d", 1), Add("x", 1, "release")>>,
           <<Add("x", 2, "acquire")>>,
           <<Ld("x", "acquire"), Goto(Ld("x", "acquire"), {0, 2}, Finish), Rd("d")>>>>, Never)

CcTransitive ==
    Prog(<<St("x", 0, "relaxed"), St("y", 0, "relaxed")>>,
         <<<<St("x", 1, "relaxed")>>,
           <<Goto(Ld("x", "relaxed"), {0}, Finish), St("y", 1, "release")>>,
           <<Goto(Ld("y", "acquire"), {0}, Finish), Expect(Ld("x", "relaxed"), {1})>>>>, Never)

(* The assertion of occasional_test; its last load may see either value. *)
Occasional ==
    Prog(<<St("x", 0, "relaxed"), St("y", 0, "relaxed"), St("z", 0, "relaxed")>>,
         <<<<St("x", 1, "relaxed"), St("y", 1, "release")>>,
           <<Goto(Ld("y", "relaxed"), {0}, Finish), St("z", 1, "release")>>,
           <<Goto(Ld("z", "acquire"), {0}, Finish), Expect(Ld("y", "relaxed"), {1}),
             Ld("x", "relaxed")>>>>, Never)

-----------------------------------------------------------------------------
(* fence.hpp, and iriw.cpp *)

(* The operations that publish and consume, by their index in the test. *)
FenceSynch(publish, consume) ==
    Prog(<<St("x", 0, "seq_cst")>>, <<<<Wr("d", 1)>> \o publish, consume \o <<Rd("d")>>>>, Never)

FencePublish(mo) == <<Fence_(mo), St("x", 1, "relaxed")>>
FenceConsume(mo) == <<Goto(Ld("x", "relaxed"), {0}, Finish), Fence_(mo)>>
StorePublish(mo) == <<St("x", 1, mo)>>
LoadConsume(mo) == <<Goto(Ld("x", mo), {0}, Finish)>>

FenceSynchTests ==
    UNION {{FenceSynch(FencePublish(mo[1]), FenceConsume(mo[2])),
            FenceSynch(FencePublish(mo[1]), LoadConsume(mo[2])),
            FenceSynch(StorePublish(mo[1]), FenceConsume(mo[2]))} :
              mo \in {<<"release", "acquire">>, <<"seq_cst", "seq_cst">>}}

TwoFenceSynch ==
    Prog(Both(0),
         <<<<Wr("d", 1), Fence_("release"), St("x", 1, "relaxed")>>,
           <<Wr("e", 1), Fence_("release"), St("y", 1, "relaxed")>>,
           <<Goto(Ld("x", "relaxed"), {0}, 5),
             Goto(Ld("y", "relaxed"), {1}, 8),
             Fence_("acquire"), Goto(Rd("d"), Values, Finish),
             Goto(Ld("y", "relaxed"), {0}, Finish),
             Fence_("acquire"), Goto(Rd("e"), Values, Finish),
             Fence_("acquire"), Rd("d"), Rd("e")>>>>, Never)

SeqCstFence ==
    Forbid(Prog(Both(0),
                <<<<St("x", 1, "relaxed"), Fence_("seq_cst"), Into(Ld("y", "relaxed"), "r1")>>,
                  <<St("y", 1, "relaxed"), Fence_("seq_cst"), Into(Ld("x", "relaxed"), "r2")>>>>,
                Never),
           [r1 |-> 0, r2 |-> 0])

(* The assertion the comment of the test says C++ does not keep, and       *)
(* Relacy does.                                                            *)
Iriw ==
    Forbid(Prog(<<St("x", 0, "relaxed"), St("y", 0, "relaxed")>>,
                <<<<St("x", 1, "relaxed")>>,
                  <<St("y", 1, "relaxed")>>,
                  <<Into(Ld("x", "relaxed"), "r1"), Fence_("seq_cst"), Into(Ld("y", "relaxed"), "r2")>>,
                  <<Into(Ld("y", "relaxed"), "r3"), Fence_("seq_cst"), Into(Ld("x", "relaxed"), "r")>>>>,
                Never),
           [r1 |-> 1, r2 |-> 0, r3 |-> 1, r |-> 0])

-----------------------------------------------------------------------------
(* futex.hpp *)

(* after(): waitres, which is r2, goes with one value of wakeres, r1. *)
FutexLoop ==
    LET wakeres == [waitres \in {Success, WouldBlock, Interrupted} |->
                       IF waitres = Success THEN 1 ELSE 0]
    IN  [Prog(<<St("x", 0, "relaxed")>>,
              <<<<St("x", 1, "relaxed"), Into(FutexWake("x"), "r1")>>,
                <<Set_("r2", Interrupted), Goto(Ld("x", "relaxed"), {1}, Finish),
                  Goto(Into(FutexWait("x"), "r2"), Values, 2)>>>>, Never)
         EXCEPT !.forbidden = {[r1 |-> 1 - wakeres[w], r2 |-> w] : w \in DOMAIN wakeres}]

(* The result of the wait is asserted on: 0 and EWOULDBLOCK come after the *)
(* store, EINTR says nothing.                                              *)
FutexSync ==
    Prog(<<St("x", 0, "relaxed"), Wr("d", 0)>>,
         <<<<Wr("d", 1), St("x", 1, "release"), FutexWake("x")>>,
           <<Goto(FutexWait("x"), {Interrupted}, Finish),
             Expect(Rd("d"), {1}), Expect(Ld("x", "relaxed"), {1})>>>>, Never)

-----------------------------------------------------------------------------
(* peterson.cpp: x and y are flag0 and flag1, z is turn. *)

PetersonBefore == Both(0) \o <<St("z", 0, "seq_cst")>>

(* enter(own, x) has n instructions and gives the turn to x, the other     *)
(* thread; the thread spins while the other one has its flag up and has    *)
(* the turn.                                                               *)
Spin(n, other, x, load, turn) ==
    <<Goto(Ld(other, load), {0}, n + 3), Goto(Ld("z", turn), {x}, n + 1)>>
SpinYield(n, other, x, load, turn) ==
    <<Goto(Ld(other, load), {0}, n + 4), Goto(Ld("z", turn), {1 - x}, n + 4),
      Goto(Yield_, Values, n + 1)>>

(* A thread that gives the turn to x writes 2 - x in the section. *)
Section_(own, x, leave) == <<Wr("d", 2 - x), St(own, 0, leave)>>

Peterson(thread0, thread1) == Prog(PetersonBefore, <<thread0, thread1>>, Never)

PetersonSeqCst ==
    LET Thread(own, other, x) ==
            <<St(own, 1, "seq_cst"), St("z", x, "seq_cst")>>
                \o Spin(2, other, x, "seq_cst", "seq_cst") \o Section_(own, x, "seq_cst")
    IN  Peterson(Thread("x", "y", 1), Thread("y", "x", 0))

PetersonExchange ==
    LET Thread(own, other, x) ==
            <<St(own, 1, "relaxed"), Xchg("z", x, "acq_rel")>>
                \o SpinYield(2, other, x, "acquire", "relaxed") \o Section_(own, x, "release")
    IN  Peterson(Thread("x", "y", 1), Thread("y", "x", 0))

PetersonFences ==
    LET Thread(own, other, x) ==
            <<St(own, 1, "relaxed"), Fence_("seq_cst"), St("z", x, "relaxed"), Fence_("seq_cst")>>
                \o Spin(4, other, x, "acquire", "relaxed") \o Section_(own, x, "release")
    IN  Peterson(Thread("x", "y", 1), Thread("y", "x", 0))

-----------------------------------------------------------------------------
(* ref_counting.cpp: x is the channel, y the count of the object, d its    *)
(* data.  Each thread uses the object and releases it.                     *)

(* release, at position p *)
Release(p) ==
    <<Goto(Add("y", -1, "release"), {2, 3}, p + 4),
      Ld("y", "acquire"), Wr("d", 0), Delete_("d")>>

(* new, post_to_channel with its loop, use, release *)
Poster ==
    <<St("y", 1, "relaxed"), Wr("d", 1), Add("y", 1, "acquire"),
      Goto(CasWeak("x", 0, 1, "release"), {0}, 6), Goto(Yield_, Values, 4), Rd("d")>> \o Release(7)

Getter == <<Goto(Xchg("x", 0, "acquire"), {1}, 3), Goto(Yield_, Values, 1)>>

RefCounting(user) ==
    [Prog(<<St("x", 0, "seq_cst")>>, <<Poster, Getter \o user>>, Never)
     EXCEPT !.heap = {"y", "d"}]

RefCountingTest == RefCounting(<<Rd("d")>> \o Release(4))
RefCountingTest3 == RefCounting(<<Add("y", 1, "acquire")>> \o Release(4) \o Release(8))

TestSet ==
    {CoherentReadRead, ReorderSingleVar, AcqRel, SeqCst, ModificationOrder, Reordering,
     Transitive, CcTransitive, Occasional, TwoFenceSynch, SeqCstFence, Iriw, FutexLoop,
     FutexSync, PetersonSeqCst, PetersonExchange, PetersonFences, RefCountingTest,
     RefCountingTest3} \cup FenceSynchTests
=============================================================================
