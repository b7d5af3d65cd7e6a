---------------------------- MODULE ChannelRecord ----------------------------
(***************************************************************************)
(* The part of a channel's policy record that decides what the device      *)
(* signs once: policy-engine.ts's decideClaim and the checks it runs,      *)
(* slot.utils.ts's slots and lanes, and recordRevocation's evidence.       *)
(*                                                                         *)
(* The device's nonce is a function of the slot alone, so two sessions     *)
(* signed at one slot reuse a nonce and three reveal the funding key.      *)
(*                                                                         *)
(* A request is the session it asks to sign: the session commitment hashes *)
(* the keys, the aggregated nonce and the message, so requests that differ *)
(* in anything have different sessions.  `body` is whatever two requests   *)
(* with one transition, slot and version may still differ in.              *)
(***************************************************************************)
EXTENDS Integers

CONSTANTS
    MaxNumber,    \* bound on slot numbers and versions
    Bodies,       \* the contents requests may differ in
    NoSession     \* a slot that has served no session

ASSUME RecordAssumption ==
    /\ MaxNumber \in Nat

Numbers == 0 .. MaxNumber

(* "undefined", for a number: below every number, as the guards read it. *)
Unset == -1

Transitions == {"SendCommitmentSigned", "CompleteReceivedCommitment", "SendRevokeAndAck",
                "CompleteReceivedRevokeAndAck", "SendClosingSigned"}

Commitments == {"SendCommitmentSigned", "CompleteReceivedCommitment"}

Revocations == {"SendRevokeAndAck", "CompleteReceivedRevokeAndAck"}

(* The requests buildSignOperation lets through: a sent commitment carries *)
(* its slot's number as version, a received one the peer's number, and a   *)
(* revocation revokes the version below its slot.  A close has no version. *)
Requests ==
    {q \in [transition : Transitions, number : Numbers, version : Numbers \cup {Unset}, body : Bodies] :
        /\ q.transition = "SendCommitmentSigned" => q.version = q.number
        /\ q.transition = "CompleteReceivedCommitment" => q.version # Unset
        /\ q.transition \in Revocations => q.version = q.number - 1 /\ q.version # Unset
        /\ q.transition = "SendClosingSigned" => q.version = Unset}

Views == {"remote", "local"}

(* The view of the commitment a request signs or revokes. *)
ViewOf(q) ==
    IF q.transition \in {"SendCommitmentSigned", "CompleteReceivedRevokeAndAck"}
    THEN "remote" ELSE "local"

Contexts == {"COMMITMENT", "REVOKE"}

Slots == Contexts \X Numbers

(* The slot a request claims: a close shares the commitments' nonces, and  *)
(* the two sides of a revocation round share one number's nonce.           *)
SlotOf(q) == <<IF q.transition \in Revocations THEN "REVOKE" ELSE "COMMITMENT", q.number>>

Lanes == {"COMMITMENT:local", "REVOKE:local", "REVOKE:remote"}

LaneOf(q) ==
    CASE q.transition = "CompleteReceivedRevokeAndAck" -> "REVOKE:local"
      [] q.transition = "SendRevokeAndAck" -> "REVOKE:remote"
      [] OTHER -> "COMMITMENT:local"

Modes == {"refuse", "allow"}

-----------------------------------------------------------------------------
(* signedSessions and nonceReuse: the first and the second session a slot  *)
(* served.  lastSigned: lastSignedCommitmentNumbers.  version: the number  *)
(* of the last commitment signed in each view (commitmentHashes); previous:*)
(* of the remote one before it (previousRemoteCommitment).  revoked: the   *)
(* versions whose complete revocation signature is recorded (revocations). *)
Record ==
    [signedSessions : [Slots -> Requests \cup {NoSession}],
     nonceReuse     : [Slots -> Requests \cup {NoSession}],
     lastSigned     : [Lanes -> Numbers \cup {Unset}],
     version        : [Views -> Numbers \cup {Unset}],
     previous       : Numbers \cup {Unset},
     revoked        : SUBSET Numbers]

(* registerChannel: the record of a channel that has signed nothing. *)
OpeningRecord ==
    [signedSessions |-> [s \in Slots |-> NoSession],
     nonceReuse     |-> [s \in Slots |-> NoSession],
     lastSigned     |-> [l \in Lanes |-> Unset],
     version        |-> [w \in Views |-> Unset],
     previous       |-> Unset,
     revoked        |-> {}]

(* What the record is read back through (validate.utils.ts).               *)
IsLaneCounterMap(r) == r.lastSigned \in [Lanes -> Numbers \cup {Unset}]

(* isSignedSessionMap, isSignSlot *)
IsSignedSessionMap(r) == r.signedSessions \in [Slots -> Requests \cup {NoSession}]

(* isCommitmentHashMap, isSignedCommitment *)
IsCommitmentHashMap(r) == r.version \in [Views -> Numbers \cup {Unset}]

(* isNonceReuseMap: a second session only beside the first, and another. *)
IsNonceReuseMap(r) ==
    \A s \in Slots : r.nonceReuse[s] # NoSession => r.signedSessions[s] \notin {NoSession, r.nonceReuse[s]}

(* isPreviousRemoteCommitment: the one right below the last. *)
IsPreviousRemoteCommitment(r) == r.previous # Unset => r.version["remote"] = r.previous + 1

(* isRevocationEvidenceList: up to MAX_REVOKED_VERSION, one below the last *)
(* number.                                                                 *)
IsRevocationEvidenceList(r) == \A v \in r.revoked : v <= MaxNumber - 1

(* isChannelPolicyRecord, over what is modelled of the record. *)
IsChannelPolicyRecord(r) ==
    /\ IsLaneCounterMap(r) /\ IsSignedSessionMap(r) /\ IsNonceReuseMap(r)
    /\ IsCommitmentHashMap(r) /\ IsPreviousRemoteCommitment(r) /\ IsRevocationEvidenceList(r)

(* A mutant of Repeat: only the second session the slot served counts. *)
RepeatLast(r, q) == q = r.nonceReuse[SlotOf(q)]

(* The session is the one the slot already served, first or second. *)
Repeat(r, q) == q \in {r.signedSessions[SlotOf(q)], r.nonceReuse[SlotOf(q)]}

Fresh(r, q) == r.signedSessions[SlotOf(q)] = NoSession

(* A mutant of SlotOpen: no limit on reuse. *)
SlotOpenWithoutLimit(r, q, mode) == Fresh(r, q) \/ mode = "allow"

(* A slot serves a second session only in the mode that allows it, and     *)
(* never a third.                                                          *)
SlotOpen(r, q, mode) ==
    Fresh(r, q) \/ (r.nonceReuse[SlotOf(q)] = NoSession /\ mode = "allow")

(* A fresh slot is above its lane's last; a reused one may be that last. *)
InLaneOrder(r, q) ==
    LET last == r.lastSigned[LaneOf(q)]
    IN  IF Fresh(r, q) THEN q.number > last ELSE q.number >= last

(* A mutant of ReplacementSigned: any commitment of the view will do. *)
SomeCommitmentSigned(r, q) ==
    q.transition \in Revocations => r.version[ViewOf(q)] # Unset

(* assertReplacementSigned: a revocation follows the commitment that       *)
(* replaces the revoked one, the last signed in its view.                  *)
ReplacementSigned(r, q) ==
    q.transition \in Revocations => r.version[ViewOf(q)] = q.number

(* A mutant of RemoteSuccessor: the claim of the revocation is enough, its *)
(* recorded signature is not asked for.                                    *)
SuccessorOfClaimed(r, q) ==
    LET last == r.version["remote"]
        below == {s \in Slots : s = <<"COMMITMENT", last - 1>> /\ r.signedSessions[s] # NoSession}
    IN  /\ q.version = last + 1
        /\ below # {} => r.lastSigned["REVOKE:local"] = last

(* assertRemoteSuccessor: one above the last, and behind the revocation of *)
(* the one before the last, claimed on its lane and recorded complete.     *)
RemoteSuccessor(r, q) ==
    LET last == r.version["remote"]
        below == {s \in Slots : s = <<"COMMITMENT", last - 1>> /\ r.signedSessions[s] # NoSession}
    IN  /\ q.version = last + 1
        /\ below # {} => r.lastSigned["REVOKE:local"] = last /\ (last - 1) \in r.revoked

(* A mutant of VersionFollows: a local version may come again. *)
VersionMayRepeat(r, q) ==
    q.transition \in Commitments =>
        IF ViewOf(q) = "local" THEN q.version >= r.version["local"]
        ELSE r.version["remote"] = Unset \/ RemoteSuccessor(r, q)

(* nextCommitments: versions only rise in a view. *)
VersionFollows(r, q) ==
    q.transition \in Commitments =>
        IF ViewOf(q) = "local" THEN q.version > r.version["local"]
        ELSE r.version["remote"] = Unset \/ RemoteSuccessor(r, q)

(* decideClaim, without the pins and the balance rule. *)
Signable(r, q, mode) ==
    /\ SlotOpen(r, q, mode)
    /\ InLaneOrder(r, q)
    /\ ReplacementSigned(r, q)
    /\ VersionFollows(r, q)

(* decideClaim: the record once the session has claimed its slot. *)
Serve(r, q) ==
    LET s == SlotOf(q)
        w == ViewOf(q)
        signs == q.transition \in Commitments
    IN  [signedSessions |-> IF Fresh(r, q) THEN [r.signedSessions EXCEPT ![s] = q] ELSE r.signedSessions,
         nonceReuse     |-> IF Fresh(r, q) THEN r.nonceReuse ELSE [r.nonceReuse EXCEPT ![s] = q],
         lastSigned     |-> [r.lastSigned EXCEPT ![LaneOf(q)] = q.number],
         version        |-> IF signs THEN [r.version EXCEPT ![w] = q.version] ELSE r.version,
         previous       |-> IF signs /\ w = "remote" THEN r.version["remote"] ELSE r.previous,
         revoked        |-> r.revoked]

(* recordRevocation: keeps the complete signature of a revoked version. *)
RecordRevocation(r, v) == [r EXCEPT !.revoked = @ \cup {v}]

(* recordRevocation's own check: the slot above the version was served. *)
RevocationServed(r, v) == r.signedSessions[<<"REVOKE", v + 1>>] # NoSession

=============================================================================
