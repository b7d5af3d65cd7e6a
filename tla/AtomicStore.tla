----------------------------- MODULE AtomicStore -----------------------------
(***************************************************************************)
(* What SignerStore promises its callers: every operation on a key takes   *)
(* effect at one instant between its call and its return, an operation     *)
(* that succeeds took effect, and at most one operation at a time is       *)
(* inside the balance lane.  A crash forgets the calls, never the storage. *)
(***************************************************************************)

CONSTANTS
    Ops,          \* operations a caller may have under way
    Keys,         \* storage keys, the balance lane's included
    BalanceKey,   \* the key of the balance lane, under which nothing is stored
    Values,       \* what a key may hold, "never written" included
    Throws,       \* the outcome of an updater that throws
    Updaters,     \* the synchronous updaters callers pass
    Initial       \* what every key holds at first

(* The updater that hands back what it was given: a read. *)
Read == [v \in Values |-> v]

VARIABLES
    storage,      \* the host's storage
    status,       \* per operation: idle, called, inside (the balance lane), done
    key,          \* per operation: the key it was called on
    upd,          \* per operation: its updater
    failed        \* per operation that is done: whether it threw

vars == <<storage, status, key, upd, failed>>

Init ==
    /\ storage = [k \in Keys |-> Initial]
    /\ status = [o \in Ops |-> "idle"]
    /\ key = [o \in Ops |-> BalanceKey]
    /\ upd = [o \in Ops |-> Read]
    /\ failed = [o \in Ops |-> FALSE]

Call(o, k, u) ==
    /\ status[o] = "idle"
    /\ status' = [status EXCEPT ![o] = "called"]
    /\ key' = [key EXCEPT ![o] = k]
    /\ upd' = [upd EXCEPT ![o] = u]
    /\ UNCHANGED <<storage, failed>>

(* The update happens, whole; the storage may still report a failure. *)
Commit(o) ==
    /\ status[o] = "called"
    /\ key[o] # BalanceKey
    /\ upd[o][storage[key[o]]] # Throws
    /\ storage' = [storage EXCEPT ![key[o]] = upd[o][@]]
    /\ status' = [status EXCEPT ![o] = "done"]
    /\ \E f \in BOOLEAN : failed' = [failed EXCEPT ![o] = f]
    /\ UNCHANGED <<key, upd>>

(* The update does not happen, and the caller is told so. *)
Reject(o) ==
    /\ status[o] = "called"
    /\ key[o] # BalanceKey
    /\ status' = [status EXCEPT ![o] = "done"]
    /\ failed' = [failed EXCEPT ![o] = TRUE]
    /\ UNCHANGED <<storage, key, upd>>

Enter(o) ==
    /\ status[o] = "called"
    /\ key[o] = BalanceKey
    /\ \A p \in Ops : status[p] # "inside"
    /\ status' = [status EXCEPT ![o] = "inside"]
    /\ UNCHANGED <<storage, key, upd, failed>>

Leave(o) ==
    /\ status[o] = "inside"
    /\ status' = [status EXCEPT ![o] = "done"]
    /\ \E f \in BOOLEAN : failed' = [failed EXCEPT ![o] = f]
    /\ UNCHANGED <<storage, key, upd>>

Return(o) ==
    /\ status[o] = "done"
    /\ status' = [status EXCEPT ![o] = "idle"]
    /\ key' = [key EXCEPT ![o] = BalanceKey]
    /\ upd' = [upd EXCEPT ![o] = Read]
    /\ failed' = [failed EXCEPT ![o] = FALSE]
    /\ UNCHANGED storage

Crash ==
    /\ status' = [o \in Ops |-> "idle"]
    /\ failed' = [o \in Ops |-> FALSE]
    /\ key' = [o \in Ops |-> BalanceKey]
    /\ upd' = [o \in Ops |-> Read]
    /\ UNCHANGED storage

Next ==
    \/ \E o \in Ops, k \in Keys, u \in Updaters : Call(o, k, u)
    \/ \E o \in Ops : Commit(o) \/ Reject(o) \/ Enter(o) \/ Leave(o) \/ Return(o)
    \/ Crash

Spec == Init /\ [][Next]_vars

=============================================================================
