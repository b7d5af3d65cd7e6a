--------------------------- MODULE MCSignerDispatch ---------------------------
(* Two small instances of SignerDispatch for TLC: both sides' commitments   *)
(* and revocations at two slot numbers, for one run; and the peer's at      *)
(* three, for two runs.  Each has a close at slot 1, where it shares the    *)
(* commitments' nonces.                                                     *)
EXTENDS SignerDispatch

CONSTANTS r1, r2

VARIABLE instance

mcVars == <<vars, instance>>

(* A received commitment's version is its slot's number or one it is ahead *)
(* of.                                                                     *)
AskBothSides ==
    {q \in Requests : /\ q.number <= 1
                      /\ q.transition = "CompleteReceivedCommitment" => q.version <= q.number
                      /\ q.transition = "SendClosingSigned" => q.number = 1}

AskPeerSide ==
    {q \in Requests : \/ q.transition \in {"SendCommitmentSigned", "CompleteReceivedRevokeAndAck"}
                      \/ q.transition = "SendClosingSigned" /\ q.number = 1}

AskEither == {q \in Requests : q \in AskBothSides \/ q \in AskPeerSide}

Instances == {[asked |-> AskBothSides, runs |-> {r1}], [asked |-> AskPeerSide, runs |-> {r1, r2}]}

(* The instance's requests, and its runs, alone. *)
Within ==
    \A r \in Runs : req[r] # NoRequest => r \in instance.runs /\ req[r] \in instance.asked

(* The node asks again until the device has answered, and neither the      *)
(* process nor the storage fails at every attempt.                         *)
Redelivered(q) ==
    /\ SF_vars(q \in instance.asked /\ \E r \in instance.runs : Decide(r, q))
    /\ SF_vars(\E r \in Runs : req[r] = q /\ Claim(r))
    /\ SF_vars(\E r \in Runs : req[r] = q /\ RecordEvidence(r))

MCInit == Init /\ instance \in Instances

MCSpec ==
    /\ MCInit
    /\ [][Next /\ UNCHANGED instance /\ Within']_mcVars
    /\ \A r \in Runs : WF_vars(Proceed(r))
    /\ \A q \in Asked : q.transition = "CompleteReceivedRevokeAndAck" => Redelivered(q)

===============================================================================
