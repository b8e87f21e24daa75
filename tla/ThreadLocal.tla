----------------------------- MODULE ThreadLocal -----------------------------
(***************************************************************************)
(* What a test can keep per thread and per address: the thread locals of   *)
(* the context (thread_local_ctx.hpp) with their two users,                *)
(* generic_thread_local (pthread keys) and thread_local_var, which takes   *)
(* its entry when it is first used in a context (thread_local.hpp,         *)
(* TlsAlloc too), and the hashes of addresses (context_addr_hash.hpp).     *)
(*                                                                         *)
(* A static object lives through the iterations and through the contexts:  *)
(* a second context replays an iteration that failed.  An object of the    *)
(* suite is made anew in every iteration.                                  *)
(***************************************************************************)
EXTENDS Integers, FiniteSets, Sequences, SequencesExt

CONSTANTS
    Threads,
    Statics,        \* thread_local_vars of static storage
    Members,        \* thread_local_vars of the test suite, and TLS slots
    Keys,           \* generic_thread_locals of the suite, with a dtor
    Values,         \* the values set, other than 0
    Addresses,      \* what is hashed
    MaxEntries,     \* bounds entries_
    MaxContexts     \* bounds ctx_seq

ASSUME ThreadLocalAssumption ==
    /\ MaxEntries \in Nat /\ MaxContexts \in Nat \ {0} /\ 0 \notin Values
    /\ Statics \cap Members = {} /\ Keys \cap (Statics \cup Members) = {}

VARIABLES
    entries,        \* entries_: alive_, value_ of each thread
    ctxSeq,         \* ctx_seq_ of the context
    varSeq,         \* ctx_seq_ of each thread_local_var
    index,          \* index_ of each object
    hash,           \* hash_map_, -1 for an address that is not there
    hashSeq,        \* hash_seq_
    destroyed,      \* how often the dtor of each key has been run on a value
    stored,         \* ghost: what each thread set last in this iteration, or 0
    broken          \* an RL_VERIFY failed: an entry that is not there or dead

localVars == <<entries, ctxSeq, varSeq, index, hash, hashSeq, destroyed, stored, broken>>

Vars == Statics \cup Members
Objects == Vars \cup Keys
NoEntry == -1
Zeros == [t \in Threads |-> 0]

LocalInit ==
    /\ entries = <<>> /\ ctxSeq = 1 /\ hashSeq = 0 /\ broken = FALSE
    /\ varSeq = [v \in Vars |-> 0]
    /\ index = [o \in Objects |-> NoEntry]
    /\ hash = [a \in Addresses |-> -1]
    /\ destroyed = [k \in Keys |-> 0]
    /\ stored = [o \in Objects |-> Zeros]

(* thread_local_alloc *)
NewEntry(list) == Append(list, [alive |-> TRUE, value |-> Zeros])

Alive(list, i) == i # NoEntry /\ list[i].alive

(* Mutant of Stale: an object takes an entry once, in whatever context. *)
StaleOnce(v) == index[v] = NoEntry

(* A thread_local_var has no entry in this context yet. *)
Stale(v) == varSeq[v] # ctxSeq

(* thread_local_var::get and set, up to the access: init if it is stale. *)
EntriesFor(v) == IF Stale(v) THEN NewEntry(entries) ELSE entries
IndexFor(v) == IF Stale(v) THEN Len(entries) + 1 ELSE index[v]

WithEntry(v) ==
    /\ Stale(v) => Len(entries) < MaxEntries
    /\ varSeq' = [varSeq EXCEPT ![v] = ctxSeq]
    /\ index' = [index EXCEPT ![v] = IndexFor(v)]

(* thread_local_set: an entry that is not there or not alive is an         *)
(* RL_VERIFY.                                                              *)
SetEntry(list, i, o, t, value) ==
    IF i \in DOMAIN list /\ list[i].alive
    THEN /\ entries' = [list EXCEPT ![i].value[t] = value]
         /\ stored' = [stored EXCEPT ![o][t] = value]
         /\ UNCHANGED broken
    ELSE entries' = list /\ broken' = TRUE /\ UNCHANGED stored

(* thread_local_get, whose value the properties look at. *)
GetEntry(list, i) ==
    /\ entries' = list
    /\ broken' = (broken \/ i \notin DOMAIN list \/ ~ Alive(list, i))
    /\ UNCHANGED stored

SetVar(v, t, value) ==
    /\ WithEntry(v)
    /\ SetEntry(EntriesFor(v), IndexFor(v), v, t, value)
    /\ UNCHANGED <<ctxSeq, hash, hashSeq, destroyed>>

GetVar(v) ==
    /\ WithEntry(v)
    /\ GetEntry(EntriesFor(v), IndexFor(v))
    /\ UNCHANGED <<ctxSeq, hash, hashSeq, destroyed>>

(* generic_thread_local::init: the index that was there is overwritten. *)
CreateKey(k) ==
    /\ Len(entries) < MaxEntries
    /\ index' = [index EXCEPT ![k] = Len(entries) + 1]
    /\ entries' = NewEntry(entries)
    /\ stored' = [stored EXCEPT ![k] = Zeros]
    /\ destroyed' = [destroyed EXCEPT ![k] = 0]
    /\ UNCHANGED <<ctxSeq, varSeq, hash, hashSeq, broken>>

(* A test uses a key only while it has it. *)
UseKey(k, t, value) ==
    /\ index[k] # NoEntry
    /\ \/ SetEntry(entries, index[k], k, t, value)
       \/ GetEntry(entries, index[k])
    /\ UNCHANGED <<ctxSeq, varSeq, index, hash, hashSeq, destroyed>>

(* The dtor is run on the value of each thread that is not 0. *)
RunDtors(k) == Cardinality({t \in Threads : entries[index[k]].value[t] # 0})

(* generic_thread_local::deinit and thread_local_free *)
DeleteKey(k) ==
    /\ index[k] # NoEntry
    /\ entries' = [entries EXCEPT ![index[k]].alive = FALSE]
    /\ destroyed' = [destroyed EXCEPT ![k] = RunDtors(k)]
    /\ index' = [index EXCEPT ![k] = NoEntry]
    /\ UNCHANGED <<ctxSeq, varSeq, hash, hashSeq, stored, broken>>

(* get_addr_hash *)
HashAddress(a) ==
    /\ hash[a] = -1
    /\ hash' = [hash EXCEPT ![a] = hashSeq]
    /\ hashSeq' = hashSeq + 1
    /\ UNCHANGED <<entries, ctxSeq, varSeq, index, destroyed, stored, broken>>

(* Mutant of Zeroed: the values of the last iteration stay. *)
ZeroedNot(list) == list

Zeroed(list) == [i \in DOMAIN list |-> [list[i] EXCEPT !.value = Zeros]]

ForgetHashes == hash' = [a \in Addresses |-> -1] /\ hashSeq' = 0

(* What a new iteration finds: the objects of the suite are new, the       *)
(* hashes are gone.                                                        *)
NewIteration ==
    /\ index' = [o \in Objects |-> IF o \in Statics THEN index[o] ELSE NoEntry]
    /\ varSeq' = [v \in Vars |-> IF v \in Statics THEN varSeq[v] ELSE 0]
    /\ ForgetHashes
    /\ destroyed' = [k \in Keys |-> 0]
    /\ stored' = [o \in Objects |-> Zeros]
    /\ UNCHANGED broken

(* iteration_begin *)
BeginIteration == NewIteration /\ entries' = Zeroed(entries) /\ UNCHANGED ctxSeq

(* A new context, for the replay of a failure. *)
BeginContext ==
    /\ ctxSeq < MaxContexts
    /\ ctxSeq' = ctxSeq + 1 /\ entries' = <<>>
    /\ NewIteration

LocalNext ==
    \/ \E v \in Vars : GetVar(v) \/ \E t \in Threads, x \in Values \cup {0} : SetVar(v, t, x)
    \/ \E k \in Keys : CreateKey(k) \/ DeleteKey(k)
    \/ \E k \in Keys, t \in Threads, x \in Values \cup {0} : UseKey(k, t, x)
    \/ \E a \in Addresses : HashAddress(a)
    \/ BeginIteration
    \/ BeginContext

LocalSpec == LocalInit /\ [][LocalNext]_localVars

-----------------------------------------------------------------------------
(* Properties. *)

(* The value that get would return to a thread. *)
Seen(o, t) ==
    IF index[o] \notin DOMAIN entries \/ (o \in Vars /\ Stale(o)) THEN 0
    ELSE entries[index[o]].value[t]

(* Deleting a key destroys the value of every thread that set one          *)
(* (thread_local_free).                                                    *)
DeletedKeyIsDestroyed ==
    \A k \in Keys : index[k] = NoEntry =>
        destroyed[k] = Cardinality({t \in Threads : stored[k][t] # 0})

(* The hash of an address is the order of its first use in the iteration:  *)
(* distinct addresses have distinct hashes, and a replay, which uses them  *)
(* in the same order, gets the same ones (get_addr_hash).                  *)
HashIsOrderOfUse ==
    LET used == {a \in Addresses : hash[a] # -1}
    IN  {hash[a] : a \in used} = 0 .. Cardinality(used) - 1

(* A thread local holds what the thread itself set in this iteration, and  *)
(* 0 before: nothing of another thread, another object, an earlier         *)
(* iteration or an earlier context, although static objects and the        *)
(* entries of the context live on (thread_local_contxt_impl).  The entry   *)
(* a get or set uses is always there, a key that is deleted has its values *)
(* destroyed, and addresses are hashed anew in every iteration.            *)
LocalsAreOwn ==
    /\ ~ broken
    /\ \A o \in Objects, t \in Threads :
           o \in Vars \/ index[o] # NoEntry => Seen(o, t) = stored[o][t]
    /\ DeletedKeyIsDestroyed
    /\ HashIsOrderOfUse
=============================================================================
