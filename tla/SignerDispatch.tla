---------------------------- MODULE SignerDispatch ----------------------------
(***************************************************************************)
(* One channel's signing requests, from the poll that reads one to the     *)
(* signature it submits: signing-step.ts, signer-dispatch.ts's sign, and   *)
(* policy-engine.ts's checkAndClaim and recordRevocation over the record   *)
(* of ChannelRecord.                                                       *)
(*                                                                         *)
(* The node is not trusted: it may ask anything, in any order, again and   *)
(* again.  A poll step past its deadline is abandoned but not stopped, so  *)
(* several runs answer at once.  Each access to the record is one step and *)
(* one run at a time is in the balance lane: SignerStore implements that.  *)
(* A write that fails may have reached the storage or not.  The process    *)
(* may die at any step and start again with another nonceReuse mode.       *)
(***************************************************************************)
EXTENDS ChannelRecord

CONSTANTS
    Asked,        \* the requests the node makes
    Runs,         \* runs of the signing step, one live and the abandoned ones
    NoRequest     \* a run that answers nothing

ASSUME DispatchAssumption ==
    /\ Asked \subseteq Requests
    /\ NoSession \notin Requests
    /\ NoRequest \notin Requests

VARIABLES
    rec,          \* the channel's policy record, in the storage
    mode,         \* the engine's nonceReuse option, fixed at construction
    everAllowed,  \* history: whether some process so far allowed reuse
    pc,           \* per run: idle, inside (the lane), recording (the evidence)
    req,          \* per run: the request it answers
    signed        \* history: the sessions partially signed

vars == <<rec, mode, everAllowed, pc, req, signed>>

Init ==
    /\ rec = OpeningRecord
    /\ mode \in Modes
    /\ everAllowed = (mode = "allow")
    /\ pc = [r \in Runs |-> "idle"]
    /\ req = [r \in Runs |-> NoRequest]
    /\ signed = {}

(* The run ends its answer: refused, at fault, or signed and submitted. *)
Finish(r) ==
    /\ pc' = [pc EXCEPT ![r] = "idle"]
    /\ req' = [req EXCEPT ![r] = NoRequest]

(* A mutant of LaneFree: runs decide side by side. *)
NoLane == TRUE

(* withBalanceLock: nobody is in the lane. *)
LaneFree == \A r \in Runs : pc[r] # "inside"

(* The node answers a poll with a request.  What precedes the balance lane *)
(* changes nothing.  In the lane, checkAndClaim decides on the record as   *)
(* read, before it files the channel on the payments the commitment shows. *)
(* A refusal, of these checks, of the pins or of the balance rule, changes *)
(* nothing either.                                                         *)
Decide(r, q) ==
    /\ pc[r] = "idle" /\ LaneFree
    /\ Repeat(rec, q) \/ Signable(rec, q, mode)
    /\ pc' = [pc EXCEPT ![r] = "inside"]
    /\ req' = [req EXCEPT ![r] = q]
    /\ UNCHANGED <<rec, mode, everAllowed, signed>>

(* claim: decides again, on the record as it now is, and writes; a repeat  *)
(* writes nothing.                                                         *)
ClaimWrite(q) ==
    \/ Repeat(rec, q) /\ UNCHANGED rec
    \/ ~Repeat(rec, q) /\ Signable(rec, q, mode) /\ rec' = Serve(rec, q)

(* A mutant of Claim: evidence is recorded for a fresh claim only. *)
ClaimRecordsOnce(r) ==
    /\ pc[r] = "inside"
    /\ ClaimWrite(req[r])
    /\ signed' = signed \cup {req[r]}
    /\ IF req[r].transition = "CompleteReceivedRevokeAndAck" /\ ~Repeat(rec, req[r])
       THEN pc' = [pc EXCEPT ![r] = "recording"] /\ UNCHANGED req
       ELSE Finish(r)
    /\ UNCHANGED <<mode, everAllowed>>

(* The claim is in the storage; sign goes on, for a repeat as for a fresh  *)
(* claim, to partialSign.  A received revocation is recorded before it is  *)
(* submitted, any other signature is submitted.                            *)
Claim(r) ==
    /\ pc[r] = "inside"
    /\ ClaimWrite(req[r])
    /\ signed' = signed \cup {req[r]}
    /\ IF req[r].transition = "CompleteReceivedRevokeAndAck"
       THEN pc' = [pc EXCEPT ![r] = "recording"] /\ UNCHANGED req
       ELSE Finish(r)
    /\ UNCHANGED <<mode, everAllowed>>

(* The second look refuses, or a write in the lane fails, fileChannel's or *)
(* the claim's: nothing is signed, though the claim may have been stored.  *)
ClaimFails(r) ==
    /\ pc[r] = "inside"
    /\ UNCHANGED rec \/ ClaimWrite(req[r])
    /\ Finish(r)
    /\ UNCHANGED <<mode, everAllowed, signed>>

(* recordRevocation, on every delivery of a received revocation. *)
RecordEvidence(r) ==
    /\ pc[r] = "recording"
    /\ RevocationServed(rec, req[r].version)
    /\ rec' = RecordRevocation(rec, req[r].version)
    /\ Finish(r)
    /\ UNCHANGED <<mode, everAllowed, signed>>

RecordFails(r) ==
    /\ pc[r] = "recording"
    /\ Finish(r)
    /\ UNCHANGED <<rec, mode, everAllowed, signed>>

(* The process dies and starts again, maybe with another mode. *)
Crash ==
    /\ pc' = [r \in Runs |-> "idle"]
    /\ req' = [r \in Runs |-> NoRequest]
    /\ mode' \in Modes
    /\ everAllowed' = (everAllowed \/ mode' = "allow")
    /\ UNCHANGED <<rec, signed>>

Next ==
    \/ \E r \in Runs :
          \/ \E q \in Asked : Decide(r, q)
          \/ Claim(r) \/ ClaimFails(r) \/ RecordEvidence(r) \/ RecordFails(r)
    \/ Crash

Spec == Init /\ [][Next]_vars

(* A run under way goes on. *)
Proceed(r) == Claim(r) \/ ClaimFails(r) \/ RecordEvidence(r) \/ RecordFails(r)

-----------------------------------------------------------------------------
(* The sessions the record holds a claim of. *)
Claimed == {q \in {rec.signedSessions[s] : s \in Slots} \cup {rec.nonceReuse[s] : s \in Slots} :
               q # NoSession}

TypeOK ==
    /\ rec \in Record
    /\ mode \in Modes
    /\ everAllowed \in BOOLEAN
    /\ pc \in [Runs -> {"idle", "inside", "recording"}]
    /\ req \in [Runs -> Asked \cup {NoRequest}]
    /\ signed \subseteq Asked

(* checkAndClaim, sign: whatever the node asks, the runs that overlap, the *)
(* crashes and the failed writes, the device never signs three different   *)
(* sessions under one slot's nonce, which would give its funding key away. *)
NonceSafety ==
    \A p, q, t \in signed :
        SlotOf(p) = SlotOf(q) /\ SlotOf(q) = SlotOf(t) => p = q \/ q = t \/ p = t

(* The nonceReuse option: a device that only ever ran in the mode that     *)
(* refuses reuse has signed one session under each nonce.                  *)
RefuseSignsOnce ==
    ~everAllowed => \A p, q \in signed : SlotOf(p) = SlotOf(q) => p = q

(* Both of the above: a slot's nonce serves one session, and a second only *)
(* for a device that allowed it.                                           *)
NoncesKept == NonceSafety /\ RefuseSignsOnce

(* isChannelPolicyRecord: whatever is claimed and recorded in any order,   *)
(* the record passes its own guard when it is read again.  The store throws*)
(* on one that does not, and the channel would sign nothing any more.      *)
RecordReadsBack == IsChannelPolicyRecord(rec)

(* nextCommitments: in each view one version names one signed commitment,  *)
(* although a slot may be claimed twice and a received commitment's        *)
(* version is not its slot's.                                              *)
OneCommitmentPerVersion ==
    \A p, q \in signed :
        /\ p.transition \in Commitments /\ q.transition \in Commitments
        /\ ViewOf(p) = ViewOf(q) /\ p.version = q.version
        => p = q

(* assertReplacementSigned: a commitment is revoked, or evidence of it     *)
(* kept, only once a later one of its view is signed, and for good: the    *)
(* device always has a commitment of each view that nobody can punish.     *)
RevokedBehind ==
    /\ \A q \in signed : q.transition \in Revocations => q.version < rec.version[ViewOf(q)]
    /\ \A v \in rec.revoked : v < rec.version["remote"]

(* assertRemoteSuccessor: of the commitments the device gave the peer, all *)
(* that the peer could still broadcast unpunished are the last one and the *)
(* one before, the two the record keeps for the watchtower.                *)
PeerCommitmentsKept ==
    \A q \in Claimed :
        q.transition = "SendCommitmentSigned" =>
            q.version \in rec.revoked \cup {rec.version["remote"], rec.previous}

(* checkAndClaim: what was decided before the channel was filed on the     *)
(* payments still holds when the claim is written, whoever records         *)
(* evidence in between, outside the lane.                                  *)
DecisionStands ==
    \A r \in Runs : pc[r] = "inside" => Repeat(rec, req[r]) \/ Signable(rec, req[r], mode)

(* decideClaim: a commitment claimed now is above every version of its     *)
(* view the device has ever claimed the revocation of.                     *)
ClaimsAboveRevoked ==
    [][ \A q \in Claimed' \ Claimed, t \in Claimed :
            /\ q.transition \in Commitments /\ t.transition \in Revocations
            /\ ViewOf(q) = ViewOf(t)
            => q.version > t.version ]_vars

(* sign, "a crash between signing and recording heals": a claimed          *)
(* revocation of the peer's ends up recorded complete, however often the   *)
(* process dies or the write fails between the two, if the node asks again.*)
EvidenceHeals ==
    \A q \in Asked : q.transition = "CompleteReceivedRevokeAndAck" =>
        (q \in Claimed ~> q.version \in rec.revoked)

=============================================================================
