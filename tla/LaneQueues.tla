----------------------------- MODULE LaneQueues ------------------------------
(***************************************************************************)
(* The lanes operations wait in.  SignerStore.serialize chains an operation*)
(* behind whatever waits in its lane, so an actor that joins a lane has its*)
(* turn once all who were there have left it; it waits in one lane at a    *)
(* time.  The flows that interleave transfers, creations and poll runs     *)
(* (PaymentFlow, HoldInvoices) share these moves.                          *)
(***************************************************************************)

CONSTANTS
    Actors,         \* the coroutines
    LaneOf(_)       \* the lane an operation runs in, "" where the wait is for something else

VARIABLES
    pc,             \* per actor: what it waits for
    ahead           \* per actor: who waits in its lane since before it joined

(* Nobody waits in a lane. *)
Unqueued == [a \in Actors |-> {}]

WaitIn(k) == {a \in Actors : k # "" /\ LaneOf(pc[a]) = k}

(* The turn of b comes before that of c, in the lane of both. *)
Before(b, c) == b \in ahead[c]

(* The actor is at p, and first in the lane if that is a lane's operation. *)
At(a, p) == pc[a] = p /\ ahead[a] = {}

(* It leaves its lane, and joins the next one's last if it goes on to one. *)
Go(a, p) ==
    /\ pc' = [pc EXCEPT ![a] = p]
    /\ ahead' = [b \in Actors |-> IF b = a THEN WaitIn(LaneOf(p)) \ {a} ELSE ahead[b] \ {a}]

=============================================================================
