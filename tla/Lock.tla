-------------------------------- MODULE Lock --------------------------------
(***************************************************************************)
(* What a mutex promises to the threads that use it: writers exclude       *)
(* everybody, readers exclude writers, and whoever gets in comes after the *)
(* sections it must come after, in the happens-before of the memory engine.*)
(* Waiting, waking and the ways a mutex remembers its owner are left out:  *)
(* Mutex implements this module.                                           *)
(***************************************************************************)
EXTENDS Naturals, TLAPS

CONSTANT Threads

VARIABLES
    writes,     \* how many times each thread holds the lock exclusively
    reads,      \* how many times each thread holds it shared
    unseen      \* the ended sections, <<thread, mode>>, whose latest end a
                \* thread is not ordered after

vars == <<writes, reads, unseen>>

Modes == {"write", "read"}
Sections == Threads \X Modes

(* A section of t ends: nobody else has seen its end yet. *)
EndSection(t, mode) ==
    unseen' = [u \in Threads |->
                  IF u = t THEN unseen[u] ELSE unseen[u] \cup {<<t, mode>>}]

(* The first acquisition orders t after every section that has ended.      *)
LockWrite(t) ==
    /\ \A u \in Threads : reads[u] = 0 /\ writes[u] = 0
    /\ writes' = [writes EXCEPT ![t] = 1]
    /\ unseen' = [unseen EXCEPT ![t] = {}]
    /\ UNCHANGED reads

RelockWrite(t) ==
    /\ writes[t] > 0
    /\ writes' = [writes EXCEPT ![t] = @ + 1]
    /\ UNCHANGED <<reads, unseen>>

UnlockWrite(t) ==
    /\ writes[t] > 0
    /\ writes' = [writes EXCEPT ![t] = @ - 1]
    /\ IF writes[t] = 1 THEN EndSection(t, "write") ELSE UNCHANGED unseen
    /\ UNCHANGED reads

LockRead(t) ==
    /\ reads[t] = 0
    /\ \A u \in Threads : writes[u] = 0
    /\ reads' = [reads EXCEPT ![t] = 1]
    /\ unseen' = [unseen EXCEPT ![t] = {}]
    /\ UNCHANGED writes

RelockRead(t) ==
    /\ reads[t] > 0
    /\ reads' = [reads EXCEPT ![t] = @ + 1]
    /\ UNCHANGED <<writes, unseen>>

UnlockRead(t) ==
    /\ reads[t] > 0
    /\ reads' = [reads EXCEPT ![t] = @ - 1]
    /\ IF reads[t] = 1 THEN EndSection(t, "read") ELSE UNCHANGED unseen
    /\ UNCHANGED writes

(* A thread that stops waiting is ordered after the ended sections too.    *)
GiveUp(t) ==
    /\ unseen' = [unseen EXCEPT ![t] = {}]
    /\ UNCHANGED <<writes, reads>>

Init ==
    /\ writes = [t \in Threads |-> 0]
    /\ reads = [t \in Threads |-> 0]
    /\ unseen = [t \in Threads |-> {}]

Next ==
    \E t \in Threads :
        \/ LockWrite(t) \/ RelockWrite(t) \/ UnlockWrite(t)
        \/ LockRead(t) \/ RelockRead(t) \/ UnlockRead(t)
        \/ GiveUp(t)

Spec == Init /\ [][Next]_vars

-----------------------------------------------------------------------------

(* Type invariant. *)
TypeOK ==
    /\ writes \in [Threads -> Nat]
    /\ reads \in [Threads -> Nat]
    /\ unseen \in [Threads -> SUBSET Sections]

(* A thread that holds the lock exclusively is alone with it. *)
Exclusion ==
    \A t, u \in Threads :
        writes[t] > 0 => reads[u] = 0 /\ (u # t => writes[u] = 0)

(* A writer is ordered after every section, a reader after every exclusive *)
(* one: what they protect cannot race.                                     *)
Ordered ==
    \A t \in Threads :
        /\ writes[t] > 0 => unseen[t] = {}
        /\ reads[t] > 0 => \A u \in Threads : <<u, "write">> \notin unseen[t]

-----------------------------------------------------------------------------
(* The lock keeps its promises, for any set of threads. *)

(* A writer that leaves has seen what it had seen. *)
LEMMA EndWrites ==
    ASSUME TypeOK, NEW t \in Threads, EndSection(t, "write")
    PROVE  /\ unseen' \in [Threads -> SUBSET Sections]
           /\ unseen'[t] = unseen[t]
    BY DEF TypeOK, EndSection, Sections, Modes

(* The pairs of the two modes differ: a reader that leaves adds nothing    *)
(* the other readers must have seen.                                       *)
LEMMA EndReads ==
    ASSUME TypeOK, NEW t \in Threads, EndSection(t, "read")
    PROVE  /\ unseen' \in [Threads -> SUBSET Sections]
           /\ \A r, u \in Threads :
                 <<u, "write">> \notin unseen[r] => <<u, "write">> \notin unseen'[r]
<1>1. unseen' \in [Threads -> SUBSET Sections]
    BY DEF TypeOK, EndSection, Sections, Modes
<1>2. ASSUME NEW r \in Threads, NEW u \in Threads, <<u, "write">> \notin unseen[r]
      PROVE  <<u, "write">> \notin unseen'[r]
    <2>1. unseen'[r] \subseteq unseen[r] \cup {<<t, "read">>}
        BY DEF TypeOK, EndSection
    <2>2. <<u, "write">> # <<t, "read">>
        OBVIOUS
    <2> QED
        BY <1>2, <2>1, <2>2
<1> QED
    BY <1>1, <1>2

(* Every behaviour of Lock is well typed, excludes, and orders: the three  *)
(* together are inductive.                                                 *)
LockInv == TypeOK /\ Exclusion /\ Ordered

(* A new writer is alone: nobody held the lock. *)
LEMMA LockWriteKeeps ==
    ASSUME LockInv, NEW t \in Threads, LockWrite(t)
    PROVE  LockInv'
    BY DEF LockInv, TypeOK, Exclusion, Ordered, LockWrite

(* A recursive lock changes no clock. *)
LEMMA RelockWriteKeeps ==
    ASSUME LockInv, NEW t \in Threads, RelockWrite(t)
    PROVE  LockInv'
    BY DEF LockInv, TypeOK, Exclusion, Ordered, RelockWrite

(* A writer that leaves was alone, so nobody has to have seen its end.     *)
LEMMA UnlockWriteKeeps ==
    ASSUME LockInv, NEW t \in Threads, UnlockWrite(t)
    PROVE  LockInv'
<1>1. CASE writes[t] = 1
    <2>1. EndSection(t, "write")
        BY <1>1 DEF UnlockWrite
    <2>2. \A u \in Threads : writes'[u] = 0 /\ reads'[u] = 0
        BY <1>1 DEF LockInv, TypeOK, Exclusion, UnlockWrite
    <2>3. TypeOK'
        BY <2>1, EndWrites, <1>1 DEF LockInv, TypeOK, UnlockWrite
    <2>4. Exclusion' /\ Ordered'
        BY <2>2 DEF Exclusion, Ordered
    <2> QED
        BY <2>3, <2>4 DEF LockInv
<1>2. CASE writes[t] # 1
    BY <1>2 DEF LockInv, TypeOK, Exclusion, Ordered, UnlockWrite
<1> QED
    BY <1>1, <1>2

(* A new reader has seen every end. *)
LEMMA LockReadKeeps ==
    ASSUME LockInv, NEW t \in Threads, LockRead(t)
    PROVE  LockInv'
    BY DEF LockInv, TypeOK, Exclusion, Ordered, LockRead

(* A recursive shared lock changes no clock. *)
LEMMA RelockReadKeeps ==
    ASSUME LockInv, NEW t \in Threads, RelockRead(t)
    PROVE  LockInv'
    BY DEF LockInv, TypeOK, Exclusion, Ordered, RelockRead

(* A reader that leaves leaves readers behind, and no writer. *)
LEMMA UnlockReadKeeps ==
    ASSUME LockInv, NEW t \in Threads, UnlockRead(t)
    PROVE  LockInv'
<1>1. \A u \in Threads : writes[u] = 0
    BY DEF LockInv, TypeOK, Exclusion, UnlockRead
<1>2. writes' = writes
    BY DEF UnlockRead
<1>3. CASE reads[t] = 1
    <2>1. EndSection(t, "read")
        BY <1>3 DEF UnlockRead
    <2>2. TypeOK'
        BY <2>1, EndReads, <1>3 DEF LockInv, TypeOK, UnlockRead
    <2>3. \A u \in Threads : reads'[u] > 0 => reads[u] > 0
        BY <1>3 DEF LockInv, TypeOK, UnlockRead
    <2>4. Exclusion' /\ Ordered'
        BY <1>1, <1>2, <2>1, <2>3, EndReads DEF LockInv, Exclusion, Ordered
    <2> QED
        BY <2>2, <2>4 DEF LockInv
<1>4. CASE reads[t] # 1
    BY <1>4 DEF LockInv, TypeOK, Exclusion, Ordered, UnlockRead
<1> QED
    BY <1>3, <1>4

(* A thread that gives up holds what it held and has seen more. *)
LEMMA GiveUpKeeps ==
    ASSUME LockInv, NEW t \in Threads, GiveUp(t)
    PROVE  LockInv'
    BY DEF LockInv, TypeOK, Exclusion, Ordered, GiveUp

(* Exclusion and Ordered hold of a lock at all times. *)
THEOREM LockSafe == Spec => [](Exclusion /\ Ordered)
<1>1. Init => LockInv
    BY DEF Init, LockInv, TypeOK, Exclusion, Ordered
<1>2. LockInv /\ [Next]_vars => LockInv'
    <2> SUFFICES ASSUME LockInv, [Next]_vars
                 PROVE  LockInv'
        OBVIOUS
    <2>1. CASE Next
        BY <2>1, LockWriteKeeps, RelockWriteKeeps, UnlockWriteKeeps, LockReadKeeps,
           RelockReadKeeps, UnlockReadKeeps, GiveUpKeeps DEF Next
    <2>2. CASE UNCHANGED vars
        BY <2>2 DEF LockInv, TypeOK, Exclusion, Ordered, vars
    <2> QED
        BY <2>1, <2>2
<1>3. LockInv => Exclusion /\ Ordered
    BY DEF LockInv
<1> QED
    BY <1>1, <1>2, <1>3, PTL DEF Spec

=============================================================================
