---------------------------- MODULE ToolPrograms ----------------------------
(***************************************************************************)
(* The programs the tools are compared on, as tests of Relacy: what main   *)
(* does before it makes the threads is "before", the threads are its       *)
(* lambdas, a string or a map is one plain variable.  One iteration of     *)
(* main is enough: nothing is left of it in the next one.                  *)
(***************************************************************************)
EXTENDS Litmus

-----------------------------------------------------------------------------
(* prod_cons: "d" is the payload, "done" the flag.  t2 publishes, t1 waits *)
(* for the flag and uses the payload.                                      *)

ProdCons(store, load, ordered) ==
    Prog(<<St("x", 0, "seq_cst"), Wr("d", 0)>>,
         <<<<Goto(Ld("x", load), {0}, 1), Rd("d")>>,
           <<Wr("d", 1), St("x", 1, store)>>>>,
         ordered)

NotifNa ==
    Prog(<<Wr("e", 0), Wr("d", 0)>>,
         <<<<Goto(Rd("e"), {0}, 1), Rd("d")>>,
           <<Wr("d", 1), Wr("e", 1)>>>>,
         Always)

NotifRelaxed == ProdCons("relaxed", "relaxed", Always)
NotifWrongAcqRel == ProdCons("release", "relaxed", Always)
NotifAcqRel == ProdCons("release", "acquire", Never)
NotifSeqCst == ProdCons("seq_cst", "seq_cst", Never)

(* The first load acquires, those of the loop do not. *)
NotifWrongAcqRel2 ==
    Prog(<<St("x", 0, "seq_cst"), Wr("d", 0)>>,
         <<<<Goto(Into(Ld("x", "acquire"), "r"), {1}, 3),
             Goto(Ld("x", "relaxed"), {0}, 2),
             Rd("d")>>,
           <<Wr("d", 1), St("x", 1, "release")>>>>,
         {1})

-----------------------------------------------------------------------------
(* memory_ordering: store buffering.  Both threads hold the shared_mutex   *)
(* in shared mode, which main had locked while it made them.               *)

StoreLoad(store, load, forbidden) ==
    [Prog(<<St("x", 0, "seq_cst"), St("y", 0, "seq_cst"), Lock_("m"), Unlock_("m")>>,
          <<<<Lock_("m"), St("y", 1, store), Into(Ld("x", load), "r1"), Unlock_("m")>>,
            <<Lock_("m"), St("x", 1, store), Into(Ld("y", load), "r2"), Unlock_("m")>>>>,
          Never)
     EXCEPT !.forbidden = forbidden]

StoreLoadRelaxed == StoreLoad("relaxed", "relaxed", {})
StoreLoadAcqRel == StoreLoad("release", "acquire", {})
StoreLoadSeqCst == StoreLoad("seq_cst", "seq_cst", {[r \in {"r1", "r2"} |-> 0]})

-----------------------------------------------------------------------------
(* data_race *)

(* data_race_simple: one thread writes what the other one reads. *)
DataRaceSimple == Prog(<<Wr("d", 0)>>, <<<<Wr("d", 1)>>, <<Rd("d")>>>>, Always)

DataRaceString == Prog(<<Wr("d", 0)>>, <<<<Wr("d", 1)>>, <<Rd("d")>>>>, Always)

(* Two keys, or two bit fields, are one variable. *)
RaceMap == Prog(<<Wr("d", 0)>>, <<<<Wr("d", 1)>>, <<Wr("d", 0)>>>>, Always)

BitFields == Prog(<<Wr("d", 0)>>,
                  <<<<Rd("d"), Wr("d", 1)>>, <<Rd("d"), Wr("d", 0)>>>>, Always)

(* transferMoney: of "d" to "e" 50 of 100 (2 of 3), then of "e" to "d" 130 *)
(* (3 of 3 or 5), the amounts scaled; it returns if there is not enough.   *)
Transfer(from, to) ==
    <<Goto(Rd(from), {0}, Finish), Rd(from), Wr(from, 0), Rd(to), Wr(to, 3)>>

DataRaceRaceCond ==
    Prog(<<Wr("d", 2), Wr("e", 0)>>, <<Transfer("d", "e"), Transfer("e", "d")>>, Always)

PseudoNotif ==
    Prog(<<Wr("e", 0), Wr("d", 0)>>,
         <<<<Goto(Rd("e"), {0}, 1), Rd("d")>>,
           <<Wr("d", 1), Rd("d"), Wr("d", 2), Wr("e", 1)>>>>,
         Always)

(* The race is there if the load sees the store, which orders nothing. *)
DataRaceRelacy ==
    Prog(<<St("x", 0, "seq_cst"), Wr("d", 0)>>,
         <<<<Wr("d", 1), St("x", 1, "relaxed")>>,
           <<Goto(Into(Ld("x", "relaxed"), "r"), {0}, Finish), Wr("d", 2)>>>>,
         {0})

(* race_destruction*: t1 makes a thread that uses a local variable of t1,  *)
(* and returns: the destructor writes to what the thread reads.            *)
Destruction ==
    [Prog(<<>>,
          <<<<Wr("d", 0), Start_("m", 1), Wr("d", 1)>>,
            <<Lock_("m"), Rd("d")>>>>,
          Always)
     EXCEPT !.dynamic = {1}]

RaceDestruction == Destruction
RaceDestructionString == Destruction
RaceDestructionSSO == Destruction

-----------------------------------------------------------------------------
(* atomic: the race of data_race_simple, mended. *)

FixDataRace(mo) ==
    Prog(<<St("x", 0, "seq_cst")>>, <<<<St("x", 1, mo)>>, <<Ld("x", mo)>>>>, Never)

FixDataRaceRelaxed == FixDataRace("relaxed")
FixDataRaceSimple == FixDataRace("seq_cst")

ToolSet ==
    {NotifNa, NotifRelaxed, NotifWrongAcqRel, NotifAcqRel, NotifSeqCst,
     NotifWrongAcqRel2, StoreLoadRelaxed, StoreLoadAcqRel, StoreLoadSeqCst,
     DataRaceSimple, DataRaceString, RaceMap, BitFields, DataRaceRaceCond,
     PseudoNotif, DataRaceRelacy, RaceDestruction, RaceDestructionString,
     RaceDestructionSSO, FixDataRaceRelaxed, FixDataRaceSimple}
=============================================================================
