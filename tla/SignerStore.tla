----------------------------- MODULE SignerStore -----------------------------
(***************************************************************************)
(* policy/signer-store.ts: the lanes that serialize every read-modify-write *)
(* of the device's storage.                                                *)
(*                                                                         *)
(* A lane is no queue in the code: `lanes` maps a key to the promise of    *)
(* the LAST operation queued on it, each operation waits for the promise   *)
(* it found there, and the map's entry is dropped by an operation that     *)
(* finds itself still last.  `tail` and `after` are that map and those     *)
(* promises.  The storage's `get` and `set` are awaited one after the      *)
(* other, so the steps of operations on different lanes, and the calls on  *)
(* the same lane, come between them.                                       *)
(*                                                                         *)
(* A client is an asynchronous caller.  It has one operation of its own    *)
(* under way, and when that one is inside the balance lane, one nested in  *)
(* it: the client's body operation.                                        *)
(***************************************************************************)
EXTENDS Integers, FiniteSets

CONSTANTS
    Clients,      \* callers of the store
    Bodies,       \* the operations nested in a balance-lane operation
    BodyOf,       \* the body operation of each client
    Records,      \* storage keys that hold a record
    BalanceKey,   \* the key of the balance lane, under which nothing is stored
    Values,       \* what a key may hold, "never written" included
    Throws,       \* the outcome of an updater that throws
    Updaters,     \* the synchronous updaters callers pass
    Initial,      \* what every key holds at first
    NoOp          \* no operation: an empty lane, nothing to wait for

Ops == Clients \cup Bodies

(* The updater that hands back what it was given: a read. *)
Read == [v \in Values |-> v]

Keys == Records \cup {BalanceKey}

ASSUME StoreAssumption ==
    /\ Clients \cap Bodies = {}
    /\ BodyOf \in [Clients -> Bodies]
    /\ \A c, d \in Clients : BodyOf[c] = BodyOf[d] => c = d
    /\ IsFiniteSet(Ops)
    /\ NoOp \notin Ops
    /\ BalanceKey \notin Records
    /\ Initial \in Values
    /\ Throws \notin Values
    /\ Updaters \subseteq [Values -> Values \cup {Throws}]
    /\ [v \in Values |-> v] \in Updaters

VARIABLES
    storage,      \* the host's storage
    tail,         \* `lanes`: per key, the last operation queued, or NoOp
    phase,        \* per operation: idle, queued, inside, writing, settled
    key,          \* per operation: the lane it queued on
    upd,          \* per operation: its updater
    loaded,       \* per operation: what `storage.get` gave it
    after,        \* per operation: the operation whose promise it waits for
    failed,       \* per operation: whether it threw
    place         \* per operation not yet settled: its place in the order of arrival

vars == <<storage, tail, phase, key, upd, loaded, after, failed, place>>

-----------------------------------------------------------------------------
Unsettled(o) == phase[o] \in {"queued", "inside", "writing"}

(* The operations queued on a key that have not settled. *)
Waiting(k) == {o \in Ops : Unsettled(o) /\ key[o] = k}

(* The promise an operation waits for has settled, or there was none. *)
Free(o) == after[o] \notin {p \in Ops : phase[p] # "settled"}

Init ==
    /\ storage = [k \in Keys |-> Initial]
    /\ tail = [k \in Keys |-> NoOp]
    /\ phase = [o \in Ops |-> "idle"]
    /\ key = [o \in Ops |-> BalanceKey]
    /\ upd = [o \in Ops |-> Read]
    /\ loaded = [o \in Ops |-> Initial]
    /\ after = [o \in Ops |-> NoOp]
    /\ failed = [o \in Ops |-> FALSE]
    /\ place = [o \in Ops |-> 0]

(* serialize: joins the lane of a key behind its last operation. *)
Join(o, k, u) ==
    /\ phase[o] = "idle"
    /\ phase' = [phase EXCEPT ![o] = "queued"]
    /\ key' = [key EXCEPT ![o] = k]
    /\ upd' = [upd EXCEPT ![o] = u]
    /\ after' = [after EXCEPT ![o] = tail[k]]
    /\ tail' = [tail EXCEPT ![k] = o]
    /\ place' = [place EXCEPT ![o] = Cardinality(Waiting(k)) + 1]
    /\ UNCHANGED <<storage, loaded, failed>>

(* A caller's read or update of one record (updateAt, readRecord). *)
CallRecord(c) == \E k \in Records, u \in Updaters : Join(c, k, u)

(* withBalanceLock: a caller's operation for the balance lane, under whose *)
(* key nothing is read or written.                                         *)
CallBalance(c) == Join(c, BalanceKey, Read)

(* A mutant of CallNested: the nested operation joins the lane it is in. *)
NestedInSameLane(c) ==
    /\ phase[c] = "inside"
    /\ Join(BodyOf[c], BalanceKey, Read)

(* The operation in the balance lane awaits an operation on a record. *)
CallNested(c) ==
    /\ phase[c] = "inside"
    /\ \E k \in Records, u \in Updaters : Join(BodyOf[c], k, u)

-----------------------------------------------------------------------------
(* The result of an operation settles: those who wait on it are free, and  *)
(* each that arrived later is one place nearer.                            *)
Settle(o, f) ==
    /\ phase' = [phase EXCEPT ![o] = "settled"]
    /\ failed' = [failed EXCEPT ![o] = f]
    /\ place' = [p \in Ops |-> IF p = o THEN 0
                               ELSE IF p \in Waiting(key[o]) /\ place[p] > place[o]
                               THEN place[p] - 1 ELSE place[p]]

(* The lane reaches an operation: `get` answers, and the updater runs on   *)
(* what it gave.  Nothing is written when the updater throws or hands the  *)
(* record back.                                                            *)
Load(o) ==
    /\ phase[o] = "queued" /\ key[o] \in Records /\ Free(o)
    /\ loaded' = [loaded EXCEPT ![o] = storage[key[o]]]
    /\ LET next == upd[o][storage[key[o]]]
       IN  IF next \in {Throws, storage[key[o]]}
           THEN Settle(o, next = Throws)
           ELSE phase' = [phase EXCEPT ![o] = "writing"] /\ UNCHANGED <<failed, place>>
    /\ UNCHANGED <<storage, tail, key, upd, after>>

(* `get` fails, or what it gave does not parse: the operation throws. *)
LoadFails(o) ==
    /\ phase[o] = "queued" /\ key[o] \in Records /\ Free(o)
    /\ Settle(o, TRUE)
    /\ UNCHANGED <<storage, tail, key, upd, loaded, after>>

(* `set` answers: the value the updater made of what was loaded is stored. *)
Write(o) ==
    /\ phase[o] = "writing"
    /\ storage' = [storage EXCEPT ![key[o]] = upd[o][loaded[o]]]
    /\ Settle(o, FALSE)
    /\ UNCHANGED <<tail, key, upd, loaded, after>>

(* `set` fails: the host may or may not have stored the value. *)
WriteFails(o) ==
    /\ phase[o] = "writing"
    /\ storage' \in {storage, [storage EXCEPT ![key[o]] = upd[o][loaded[o]]]}
    /\ Settle(o, TRUE)
    /\ UNCHANGED <<tail, key, upd, loaded, after>>

(* A mutant of EnterBalance: the balance lane lets everyone in. *)
EnterAtOnce(c) ==
    /\ phase[c] = "queued" /\ key[c] = BalanceKey
    /\ phase' = [phase EXCEPT ![c] = "inside"]
    /\ UNCHANGED <<storage, tail, key, upd, loaded, after, failed, place>>

(* The balance lane reaches an operation, which runs alone until it leaves. *)
EnterBalance(c) ==
    /\ phase[c] = "queued" /\ key[c] = BalanceKey /\ Free(c)
    /\ phase' = [phase EXCEPT ![c] = "inside"]
    /\ UNCHANGED <<storage, tail, key, upd, loaded, after, failed, place>>

LeaveBalance(c) ==
    /\ phase[c] = "inside"
    /\ phase[BodyOf[c]] = "idle"
    /\ \E f \in BOOLEAN : Settle(c, f)
    /\ UNCHANGED <<storage, tail, key, upd, loaded, after>>

(* The `finally` of serialize: drops the lane if no operation joined since. *)
DropLane(o) == IF tail[key[o]] = o THEN [tail EXCEPT ![key[o]] = NoOp] ELSE tail

(* The caller gets the outcome.  An operation that waited for this one now *)
(* waits for nothing.                                                      *)
Return(o) ==
    /\ phase[o] = "settled"
    /\ phase' = [phase EXCEPT ![o] = "idle"]
    /\ tail' = DropLane(o)
    /\ after' = [p \in Ops |-> IF after[p] = o \/ p = o THEN NoOp ELSE after[p]]
    /\ key' = [key EXCEPT ![o] = BalanceKey]
    /\ upd' = [upd EXCEPT ![o] = Read]
    /\ loaded' = [loaded EXCEPT ![o] = Initial]
    /\ failed' = [failed EXCEPT ![o] = FALSE]
    /\ UNCHANGED <<storage, place>>

(* The process dies: the lanes and the operations go, the storage stays. *)
Crash ==
    /\ tail' = [k \in Keys |-> NoOp]
    /\ phase' = [o \in Ops |-> "idle"]
    /\ after' = [o \in Ops |-> NoOp]
    /\ failed' = [o \in Ops |-> FALSE]
    /\ place' = [o \in Ops |-> 0]
    /\ key' = [o \in Ops |-> BalanceKey]
    /\ upd' = [o \in Ops |-> Read]
    /\ loaded' = [o \in Ops |-> Initial]
    /\ UNCHANGED storage

Step(o) ==
    \/ Load(o) \/ LoadFails(o) \/ Write(o) \/ WriteFails(o) \/ Return(o)

Next ==
    \/ \E c \in Clients : \/ CallRecord(c) \/ CallBalance(c) \/ CallNested(c)
                          \/ EnterBalance(c) \/ LeaveBalance(c)
    \/ \E o \in Ops : Step(o)
    \/ Crash

Spec == Init /\ [][Next]_vars

(* Storage calls return, promises are taken up, and a section of the       *)
(* balance lane, which awaits finitely many operations, ends.              *)
Fairness ==
    /\ \A o \in Ops : WF_vars(Step(o))
    /\ \A c \in Clients : WF_vars(EnterBalance(c)) /\ SF_vars(LeaveBalance(c))

FairSpec == Spec /\ Fairness

-----------------------------------------------------------------------------
Phases == {"idle", "queued", "inside", "writing", "settled"}

TypeOK ==
    /\ storage \in [Keys -> Values]
    /\ tail \in [Keys -> Ops \cup {NoOp}]
    /\ phase \in [Ops -> Phases]
    /\ key \in [Ops -> Keys]
    /\ upd \in [Ops -> Updaters]
    /\ loaded \in [Ops -> Values]
    /\ after \in [Ops -> Ops \cup {NoOp}]
    /\ failed \in [Ops -> BOOLEAN]
    /\ place \in [Ops -> Nat]

(* serialize: an operation runs only when every operation that joined its  *)
(* lane before it has settled, although a lane keeps no queue but only its *)
(* last promise, which its owner drops.                                    *)
Fifo == \A o \in Ops : phase[o] \in {"inside", "writing"} => place[o] = 1

(* updateAt: when a value is written, the storage still holds what it was  *)
(* computed from, so no update is lost.                                    *)
NoLostUpdate == \A o \in Ops : phase[o] = "writing" => storage[key[o]] = loaded[o]

(* serialize: an operation that joined a lane settles, whatever the ones   *)
(* before it did, throwing included, and whoever waits inside the balance  *)
(* lane for another lane.                                                  *)
EveryCallSettles == \A o \in Ops : Unsettled(o) ~> ~Unsettled(o)

Atomic == INSTANCE AtomicStore WITH
    status <- [o \in Ops |->
        CASE phase[o] \in {"queued", "writing"} -> "called"
          [] phase[o] = "settled" -> "done"
          [] OTHER -> phase[o]]

(* SignerStore: with the lanes, the storage behaves as if each operation   *)
(* happened at one instant and the balance lane held one operation.        *)
ImplementsAtomicStore == Atomic!Spec

=============================================================================
