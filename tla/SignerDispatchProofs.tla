------------------------- MODULE SignerDispatchProofs -------------------------
(***************************************************************************)
(* Proofs about SignerDispatch, for any bound on the numbers, any requests *)
(* the node may make and any runs: nonce safety, one commitment per        *)
(* version, revocations only of superseded commitments, and the two peer   *)
(* commitments the record keeps.                                           *)
(*                                                                         *)
(* The properties speak of what was signed; what makes them inductive is   *)
(* that a claim, once in the record, is never overwritten, so that every   *)
(* signed session can still be found at its slot (SignedClaimed), and that *)
(* the record's counters bound every claim in it (VersionsBound).          *)
(***************************************************************************)
EXTENDS SignerDispatch, TLAPS

(* Sessions sit at their own slot, and a second one only beside a first. *)
SlotsOK ==
    \A s \in Slots :
        /\ rec.signedSessions[s] # NoSession => rec.signedSessions[s] \in Requests /\ SlotOf(rec.signedSessions[s]) = s
        /\ rec.nonceReuse[s] # NoSession => rec.nonceReuse[s] \in Requests /\ SlotOf(rec.nonceReuse[s]) = s
        /\ rec.nonceReuse[s] # NoSession => rec.signedSessions[s] \notin {NoSession, rec.nonceReuse[s]}

(* Whatever was signed, or waits for its evidence to be recorded, is still *)
(* claimed by the record.                                                  *)
SignedClaimed ==
    /\ \A q \in signed : Repeat(rec, q)
    /\ \A r \in Runs : pc[r] = "recording" =>
           /\ req[r] \in Requests /\ Repeat(rec, req[r])
           /\ req[r].transition = "CompleteReceivedRevokeAndAck"
    /\ \A r \in Runs : pc[r] = "inside" => req[r] \in Requests

(* No slot was reused before a process allowed it. *)
ReuseAllowed ==
    /\ mode = "allow" => everAllowed
    /\ ~everAllowed => \A s \in Slots : rec.nonceReuse[s] = NoSession

(* The last version of a view bounds its claims: from above the            *)
(* commitments, each version once, strictly the revocations.               *)
VersionsBound ==
    /\ \A q \in Requests : Repeat(rec, q) /\ q.transition \in Commitments =>
           q.version <= rec.version[ViewOf(q)]
    /\ \A p, q \in Requests :
           /\ Repeat(rec, p) /\ Repeat(rec, q)
           /\ p.transition \in Commitments /\ q.transition \in Commitments
           /\ ViewOf(p) = ViewOf(q) /\ p.version = q.version
           => p = q
    /\ \A q \in Requests : Repeat(rec, q) /\ q.transition \in Revocations =>
           q.version < rec.version[ViewOf(q)]
    /\ \A v \in rec.revoked : v < rec.version["remote"]

(* The record keeps the last peer commitment and the one before, and the   *)
(* evidence of every other.                                                *)
PeerKept ==
    /\ rec.previous # Unset => rec.previous = rec.version["remote"] - 1
    /\ \A q \in Requests : Repeat(rec, q) /\ q.transition = "SendCommitmentSigned" =>
           q.version \in rec.revoked \cup {rec.version["remote"], rec.previous}

(* The balance lane holds one run. *)
OneInside == \A r, u \in Runs : pc[r] = "inside" /\ pc[u] = "inside" => r = u

IInv ==
    /\ TypeOK /\ SlotsOK /\ SignedClaimed /\ ReuseAllowed /\ VersionsBound /\ PeerKept
    /\ OneInside /\ DecisionStands

-----------------------------------------------------------------------------
(* The slot of a request is a slot, and its lane and view are ones. *)
LEMMA RequestTypes ==
    ASSUME NEW q \in Requests
    PROVE  /\ SlotOf(q) \in Slots /\ LaneOf(q) \in Lanes /\ ViewOf(q) \in Views
           /\ q.number \in Numbers /\ q.version \in Numbers \cup {Unset} /\ q.number \in Int /\ q.version \in Int
           /\ q.number >= 0 /\ q.version >= -1
           /\ q.transition \in Transitions
BY RecordAssumption DEF Requests, SlotOf, LaneOf, ViewOf, Slots, Lanes, Views, Contexts, Numbers, Unset

(* What the fields of a well typed record are. *)
LEMMA RecordTypes ==
    ASSUME NEW r \in Record
    PROVE  /\ r.signedSessions \in [Slots -> Requests \cup {NoSession}]
           /\ r.nonceReuse \in [Slots -> Requests \cup {NoSession}]
           /\ r.lastSigned \in [Lanes -> Numbers \cup {Unset}]
           /\ r.version \in [Views -> Numbers \cup {Unset}]
           /\ r.previous \in Numbers \cup {Unset}
           /\ r.revoked \in SUBSET Numbers
           /\ r.version["remote"] \in Int /\ r.version["local"] \in Int
           /\ r.version["remote"] >= -1 /\ r.version["local"] >= -1
           /\ r.previous \in Int
BY RecordAssumption DEF Record, Views, Numbers, Unset

(* The record stays well typed when a session claims its slot. *)
LEMMA ServeType ==
    ASSUME NEW r \in Record, NEW q \in Requests
    PROVE  Serve(r, q) \in Record
<1>1. /\ SlotOf(q) \in Slots /\ LaneOf(q) \in Lanes /\ ViewOf(q) \in Views
      /\ q.number \in Numbers /\ q.version \in Numbers \cup {Unset}
  BY RequestTypes
<1>2. "remote" \in Views
  BY DEF Views
<1> HIDE DEF Requests, Slots, Lanes, Views, Numbers
<1> QED BY <1>1, <1>2, RecordTypes DEF Serve, Record

(* Claiming a slot adds the session to the claims and takes none away. *)
LEMMA ServeClaims ==
    ASSUME NEW r \in Record, NEW q \in Requests, NEW m, SlotOpen(r, q, m), ~Repeat(r, q),
           NEW p \in Requests,
           \A s \in Slots : r.nonceReuse[s] # NoSession => r.signedSessions[s] # NoSession
    PROVE  Repeat(Serve(r, q), p) <=> Repeat(r, p) \/ p = q
<1>1. SlotOf(q) \in Slots /\ SlotOf(p) \in Slots
  BY RequestTypes
<1>2. NoSession \notin Requests
  BY DispatchAssumption
<1>3. CASE Fresh(r, q)
  <2>1. r.signedSessions[SlotOf(q)] = NoSession
    BY <1>3 DEF Fresh
  <2> QED BY <1>1, <1>2, <1>3, <2>1, RecordTypes DEF Serve, Repeat
<1>4. CASE ~Fresh(r, q)
  <2>1. r.nonceReuse[SlotOf(q)] = NoSession
    BY <1>4 DEF SlotOpen
  <2> QED BY <1>1, <1>2, <1>4, <2>1, RecordTypes DEF Serve, Repeat
<1> QED BY <1>3, <1>4

-----------------------------------------------------------------------------
(* The record's own invariants, which speak of no run. *)
RecInv == rec \in Record /\ SlotsOK /\ VersionsBound /\ PeerKept

(* decideClaim lets a commitment through only above its view's last. *)
LEMMA VersionRises ==
    ASSUME NEW r \in Record, NEW q \in Requests, q.transition \in Commitments, VersionFollows(r, q)
    PROVE  q.version > r.version[ViewOf(q)] /\ q.version >= 0
<1>1. q.version \in Int /\ q.number >= 0 /\ q.version >= -1 /\ ViewOf(q) \in Views
  BY RequestTypes
<1>2. q.version # -1
  BY <1>1, RecordAssumption DEF Requests, Commitments, Unset, Numbers
<1>3. r.version["remote"] \in Int /\ r.version["local"] \in Int
  BY RecordTypes
<1>4. CASE ViewOf(q) = "local"
  BY <1>1, <1>2, <1>4 DEF VersionFollows
<1>5. CASE ViewOf(q) = "remote"
  BY <1>1, <1>2, <1>3, <1>5 DEF VersionFollows, RemoteSuccessor, Unset
<1> QED BY <1>1, <1>4, <1>5 DEF Views

(* A claim keeps the record's invariants. *)
LEMMA ServeRecInv ==
    ASSUME RecInv, NEW q \in Requests, NEW m, ~Repeat(rec, q), Signable(rec, q, m), rec' = Serve(rec, q)
    PROVE  RecInv'
<1> USE DEF RecInv
<1>1. rec' \in Record
  BY ServeType
<1>2. SlotOf(q) \in Slots /\ LaneOf(q) \in Lanes /\ ViewOf(q) \in Views /\ q.number \in Int /\ q.version \in Int
      /\ q.number >= 0 /\ q.version >= -1 /\ q.transition \in Transitions
  BY RequestTypes
<1>3. \A p \in Requests : Repeat(rec', p) <=> Repeat(rec, p) \/ p = q
  BY ServeClaims DEF Signable, SlotsOK
<1>4. \A p \in Requests : p.version \in Int /\ p.version >= -1 /\ ViewOf(p) \in Views
  BY RequestTypes
<1>5. rec.version \in [Views -> Int] /\ rec'.version \in [Views -> Int]
  BY <1>1, RecordTypes, RecordAssumption DEF Numbers, Unset
<1>6. q.transition \in Commitments =>
          /\ rec'.version = [rec.version EXCEPT ![ViewOf(q)] = q.version]
          /\ q.version > rec.version[ViewOf(q)] /\ q.version >= 0
  BY VersionRises DEF Serve, Signable
<1>7. q.transition \notin Commitments => rec'.version = rec.version /\ rec'.previous = rec.previous
  BY DEF Serve
<1>8. rec'.revoked = rec.revoked
  BY DEF Serve
<1>9. \A w \in Views : rec'.version[w] >= rec.version[w]
  BY <1>2, <1>5, <1>6, <1>7
<1>10. SlotsOK'
  <2>1. rec.signedSessions \in [Slots -> Requests \cup {NoSession}] /\ rec.nonceReuse \in [Slots -> Requests \cup {NoSession}]
    BY RecordTypes
  <2>2. CASE Fresh(rec, q)
    <3>1. rec'.signedSessions = [rec.signedSessions EXCEPT ![SlotOf(q)] = q] /\ rec'.nonceReuse = rec.nonceReuse
      BY <2>2 DEF Serve
    <3>2. rec.nonceReuse[SlotOf(q)] = NoSession
      BY <2>2, <1>2 DEF Fresh, SlotsOK
    <3> QED BY <2>1, <3>1, <3>2, <1>2, DispatchAssumption DEF SlotsOK
  <2>3. CASE ~Fresh(rec, q)
    <3>1. rec'.signedSessions = rec.signedSessions /\ rec'.nonceReuse = [rec.nonceReuse EXCEPT ![SlotOf(q)] = q]
      BY <2>3 DEF Serve
    <3>2. rec.signedSessions[SlotOf(q)] \notin {NoSession, q}
      BY <2>3 DEF Fresh, Repeat
    <3> QED BY <2>1, <3>1, <3>2, <1>2, DispatchAssumption DEF SlotsOK
  <2> QED BY <2>2, <2>3
<1>11. VersionsBound'
  <2>1. ASSUME NEW p \in Requests, Repeat(rec', p), p.transition \in Commitments
        PROVE  p.version <= rec'.version[ViewOf(p)]
    <3>1. CASE p = q
      BY <3>1, <2>1, <1>2, <1>5, <1>6
    <3>2. CASE p # q
      <4>1. p.version <= rec.version[ViewOf(p)]
        BY <2>1, <3>2, <1>3 DEF VersionsBound
      <4> QED BY <4>1, <1>4, <1>5, <1>9
    <3> QED BY <3>1, <3>2
  <2>2. ASSUME NEW p \in Requests, NEW t \in Requests, Repeat(rec', p), Repeat(rec', t),
               p.transition \in Commitments, t.transition \in Commitments,
               ViewOf(p) = ViewOf(t), p.version = t.version
        PROVE  p = t
    <3>1. \A u \in Requests : Repeat(rec, u) /\ u.transition \in Commitments => u.version <= rec.version[ViewOf(u)]
      BY DEF VersionsBound
    <3>2. CASE p = q /\ t # q
      BY <3>1, <3>2, <2>2, <1>2, <1>3, <1>4, <1>5, <1>6
    <3>3. CASE p # q /\ t = q
      BY <3>1, <3>3, <2>2, <1>2, <1>3, <1>4, <1>5, <1>6
    <3>4. CASE p # q /\ t # q
      BY <3>4, <2>2, <1>3 DEF VersionsBound
    <3> QED BY <3>2, <3>3, <3>4
  <2>3. ASSUME NEW p \in Requests, Repeat(rec', p), p.transition \in Revocations
        PROVE  p.version < rec'.version[ViewOf(p)]
    <3>1. CASE p = q
      <4>1. rec.version[ViewOf(q)] = q.number /\ q.version = q.number - 1
        BY <2>3, <3>1 DEF Signable, ReplacementSigned, Requests
      <4> QED BY <3>1, <4>1, <1>2, <1>5, <1>9
    <3>2. CASE p # q
      <4>1. p.version < rec.version[ViewOf(p)]
        BY <2>3, <3>2, <1>3 DEF VersionsBound
      <4> QED BY <4>1, <1>4, <1>5, <1>9
    <3> QED BY <3>1, <3>2
  <2>4. \A v \in rec'.revoked : v < rec'.version["remote"]
    <3>1. rec.revoked \subseteq Int
      BY RecordTypes, RecordAssumption DEF Numbers
    <3> QED BY <3>1, <1>5, <1>8, <1>9 DEF VersionsBound, Views
  <2> QED BY <2>1, <2>2, <2>3, <2>4 DEF VersionsBound
<1>12. PeerKept'
  <2>1. CASE q.transition = "SendCommitmentSigned"
    <3> DEFINE last == rec.version["remote"]
    <3>1. ViewOf(q) = "remote" /\ q.transition \in Commitments
      BY <2>1 DEF ViewOf, Commitments
    <3>2. rec'.version["remote"] = q.version /\ rec'.previous = last /\ last \in Int /\ last >= -1
      BY <3>1, <1>5, <1>6, RecordTypes DEF Serve, Views
    <3>3. last = Unset \/ RemoteSuccessor(rec, q)
      BY <3>1 DEF Signable, VersionFollows
    <3>4. last # Unset => q.version = last + 1
      BY <3>3 DEF RemoteSuccessor
    <3>5. ASSUME NEW p \in Requests, Repeat(rec, p), p.transition = "SendCommitmentSigned"
          PROVE  p.version \in rec.revoked \cup {last}
      <4>1. p.version \in rec.revoked \cup {last, rec.previous}
        BY <3>5 DEF PeerKept
      <4>2. ASSUME p.version = rec.previous PROVE p.version \in rec.revoked
        <5>1. p.version = p.number /\ p.number \in Numbers /\ p.number >= 0
          BY <3>5, RequestTypes DEF Requests
        <5>2. rec.previous # Unset /\ p.version = last - 1 /\ last # Unset
          BY <4>2, <5>1, <3>2 DEF PeerKept, Unset
        <5>3. SlotOf(p) = <<"COMMITMENT", last - 1>> /\ SlotOf(p) \in Slots
          BY <3>5, <5>1, <5>2, RequestTypes DEF SlotOf, Revocations
        <5>4. rec.signedSessions[SlotOf(p)] # NoSession
          BY <3>5, <5>3, DispatchAssumption DEF Repeat, SlotsOK
        <5>5. RemoteSuccessor(rec, q)
          BY <3>3, <5>2
        <5>6. {s \in Slots : s = <<"COMMITMENT", last - 1>> /\ rec.signedSessions[s] # NoSession} # {}
          BY <5>3, <5>4
        <5>7. last - 1 \in rec.revoked
          BY <5>5, <5>6 DEF RemoteSuccessor
        <5> QED BY <5>2, <5>7
      <4> QED BY <4>1, <4>2
    <3>6. rec'.previous # Unset => rec'.previous = rec'.version["remote"] - 1
      BY <3>2, <3>4, <1>2
    <3>7. \A p \in Requests : Repeat(rec', p) /\ p.transition = "SendCommitmentSigned" =>
              p.version \in rec'.revoked \cup {rec'.version["remote"], rec'.previous}
      BY <3>2, <3>5, <1>3, <1>8
    <3> QED BY <3>6, <3>7 DEF PeerKept
  <2>2. CASE q.transition # "SendCommitmentSigned"
    <3>1. rec'.version["remote"] = rec.version["remote"] /\ rec'.previous = rec.previous
      <4>1. CASE q.transition \in Commitments
        <5>1. ViewOf(q) = "local"
          BY <2>2, <4>1 DEF ViewOf, Commitments
        <5> QED BY <4>1, <5>1, <1>5, <1>6 DEF Serve, Views
      <4>2. CASE q.transition \notin Commitments
        BY <4>2, <1>7
      <4> QED BY <4>1, <4>2
    <3> QED BY <2>2, <3>1, <1>3, <1>8 DEF PeerKept
  <2> QED BY <2>1, <2>2
<1> QED BY <1>1, <1>10, <1>11, <1>12

(* Recording the evidence of a claimed revocation keeps the record's       *)
(* invariants.                                                             *)
LEMMA EvidenceRecInv ==
    ASSUME RecInv, NEW q \in Requests, q.transition = "CompleteReceivedRevokeAndAck", Repeat(rec, q),
           rec' = RecordRevocation(rec, q.version)
    PROVE  RecInv'
<1> USE DEF RecInv
<1>1. /\ rec'.signedSessions = rec.signedSessions /\ rec'.nonceReuse = rec.nonceReuse
      /\ rec'.lastSigned = rec.lastSigned /\ rec'.version = rec.version /\ rec'.previous = rec.previous
      /\ rec'.revoked = rec.revoked \cup {q.version}
  BY DEF RecordRevocation, Record
<1>2. q.version \in Numbers
  BY RequestTypes DEF Requests, Revocations
<1>3. rec' \in Record
  BY <1>2 DEF RecordRevocation, Record
<1>4. \A p : Repeat(rec', p) <=> Repeat(rec, p)
  BY <1>1 DEF Repeat
<1>5. SlotsOK'
  BY <1>1 DEF SlotsOK
<1>6. q.version < rec.version["remote"]
  BY DEF VersionsBound, Revocations, ViewOf
<1>7. VersionsBound' /\ PeerKept'
  BY <1>1, <1>4, <1>6 DEF VersionsBound, PeerKept
<1> QED BY <1>3, <1>5, <1>7

-----------------------------------------------------------------------------
(* The invariant holds of a channel that has signed nothing. *)
LEMMA InitIInv == Init => IInv
<1> SUFFICES ASSUME Init PROVE IInv
  OBVIOUS
<1> USE DEF Init
<1>1. rec \in Record
  BY RecordAssumption DEF OpeningRecord, Record, Unset
<1>2. TypeOK
  BY <1>1 DEF TypeOK, Modes
<1>3. \A s \in Slots : rec.signedSessions[s] = NoSession /\ rec.nonceReuse[s] = NoSession
  BY DEF OpeningRecord
<1>4. \A q \in Requests : ~Repeat(rec, q)
  BY <1>3, RequestTypes, DispatchAssumption DEF Repeat
<1>5. SlotsOK
  BY <1>3 DEF SlotsOK
<1>6. SignedClaimed /\ ReuseAllowed /\ DecisionStands
  BY <1>3 DEF SignedClaimed, ReuseAllowed, DecisionStands
<1>7. VersionsBound /\ PeerKept
  BY <1>4 DEF VersionsBound, PeerKept, OpeningRecord
<1>8. OneInside
  BY DEF OneInside
<1> QED BY <1>2, <1>5, <1>6, <1>7, <1>8 DEF IInv

(* Recording evidence undoes no decision: what was signable stays so. *)
LEMMA EvidenceKeepsSignable ==
    ASSUME NEW r \in Record, NEW v, NEW q \in Requests, NEW m
    PROVE  /\ Repeat(r, q) => Repeat(RecordRevocation(r, v), q)
           /\ Signable(r, q, m) => Signable(RecordRevocation(r, v), q, m)
<1> DEFINE r2 == RecordRevocation(r, v)
<1>1. /\ r2.signedSessions = r.signedSessions /\ r2.nonceReuse = r.nonceReuse
      /\ r2.lastSigned = r.lastSigned /\ r2.version = r.version
      /\ r.revoked \subseteq r2.revoked
  BY DEF RecordRevocation, Record
<1> HIDE DEF r2
<1>2. Repeat(r, q) => Repeat(r2, q)
  BY <1>1 DEF Repeat
<1>3. Signable(r, q, m) => Signable(r2, q, m)
  BY <1>1 DEF Signable, SlotOpen, InLaneOrder, Fresh, ReplacementSigned, VersionFollows, RemoteSuccessor
<1> QED BY <1>2, <1>3 DEF r2

(* What a step does to the record: nothing, a claim, or evidence. *)
LEMMA ClaimWriteRec ==
    ASSUME IInv, NEW r \in Runs, pc[r] = "inside", ClaimWrite(req[r])
    PROVE  /\ req[r] \in Requests
           /\ RecInv'
           /\ \A p \in Requests : Repeat(rec, p) \/ p = req[r] => Repeat(rec', p)
           /\ ~everAllowed => \A s \in Slots : rec'.nonceReuse[s] = NoSession
<1> USE DEF IInv
<1>1. req[r] \in Requests
  BY DEF SignedClaimed
<1>2. RecInv
  BY DEF RecInv, TypeOK
<1>3. CASE Repeat(rec, req[r]) /\ UNCHANGED rec
  <2>1. RecInv'
    BY <1>2, <1>3 DEF RecInv, SlotsOK, VersionsBound, PeerKept
  <2> QED BY <1>1, <1>3, <2>1 DEF ReuseAllowed
<1>4. CASE ~Repeat(rec, req[r]) /\ Signable(rec, req[r], mode) /\ rec' = Serve(rec, req[r])
  <2>1. RecInv'
    BY <1>1, <1>2, <1>4, ServeRecInv
  <2>2. \A p \in Requests : Repeat(rec', p) <=> Repeat(rec, p) \/ p = req[r]
    BY <1>1, <1>2, <1>4, ServeClaims DEF Signable, SlotsOK, RecInv
  <2>3. ~everAllowed => Fresh(rec, req[r])
    BY <1>4 DEF Signable, SlotOpen, ReuseAllowed
  <2>4. ~everAllowed => rec'.nonceReuse = rec.nonceReuse
    BY <1>4, <2>3 DEF Serve
  <2> QED BY <1>1, <2>1, <2>2, <2>4 DEF ReuseAllowed
<1> QED BY <1>3, <1>4 DEF ClaimWrite

(* Every step keeps the invariant. *)
LEMMA NextIInv == IInv /\ [Next]_vars => IInv'
<1> SUFFICES ASSUME IInv, [Next]_vars PROVE IInv'
  OBVIOUS
<1>t. /\ TypeOK /\ SlotsOK /\ SignedClaimed /\ ReuseAllowed /\ VersionsBound /\ PeerKept /\ DecisionStands
      /\ OneInside /\ RecInv /\ rec \in Record
  BY DEF IInv, RecInv, TypeOK
<1>r. UNCHANGED rec => RecInv' /\ \A p : Repeat(rec', p) <=> Repeat(rec, p)
  BY <1>t DEF RecInv, SlotsOK, VersionsBound, PeerKept
<1>1. ASSUME NEW r \in Runs, NEW q \in Asked, Decide(r, q) PROVE IInv'
  <2>1. q \in Requests
    BY DispatchAssumption
  <2>2. TypeOK'
    BY <1>1, <1>t DEF Decide, TypeOK
  <2>3. SignedClaimed'
    BY <1>1, <1>t, <2>1 DEF Decide, TypeOK, SignedClaimed
  <2>4. ReuseAllowed' /\ DecisionStands' /\ OneInside'
    BY <1>1, <1>t DEF Decide, LaneFree, ReuseAllowed, TypeOK, DecisionStands, OneInside
  <2> QED BY <1>1, <1>r, <2>2, <2>3, <2>4 DEF IInv, RecInv, Decide
<1>2. ASSUME NEW r \in Runs, Claim(r) PROVE IInv'
  <2>1. pc[r] = "inside" /\ ClaimWrite(req[r])
    BY <1>2 DEF Claim
  <2>2. /\ req[r] \in Requests /\ RecInv'
        /\ \A p \in Requests : Repeat(rec, p) \/ p = req[r] => Repeat(rec', p)
        /\ ~everAllowed => \A s \in Slots : rec'.nonceReuse[s] = NoSession
    BY <2>1, ClaimWriteRec
  <2>3. req[r] \in Asked
    BY <1>t, <2>2, DispatchAssumption DEF TypeOK
  <2>4. TypeOK'
    BY <1>2, <1>t, <2>2, <2>3 DEF Claim, Finish, TypeOK, RecInv
  <2>5. SignedClaimed'
    <3>1. \A q \in signed' : Repeat(rec', q)
      BY <1>2, <1>t, <2>2, DispatchAssumption DEF Claim, SignedClaimed, TypeOK
    <3>2. \A u \in Runs : pc'[u] = "recording" =>
              /\ req'[u] \in Requests /\ Repeat(rec', req'[u])
              /\ req'[u].transition = "CompleteReceivedRevokeAndAck"
      BY <1>2, <1>t, <2>2 DEF Claim, Finish, SignedClaimed, TypeOK
    <3>3. \A u \in Runs : pc'[u] = "inside" => req'[u] \in Requests
      BY <1>2, <1>t DEF Claim, Finish, SignedClaimed, TypeOK
    <3> QED BY <3>1, <3>2, <3>3 DEF SignedClaimed
  <2>6. ReuseAllowed'
    BY <1>2, <1>t, <2>2 DEF Claim, ReuseAllowed
  <2>7. DecisionStands' /\ OneInside'
    <3>1. \A u \in Runs : pc'[u] # "inside"
      BY <1>2, <1>t DEF Claim, Finish, TypeOK, OneInside
    <3> QED BY <3>1 DEF DecisionStands, OneInside
  <2> QED BY <2>2, <2>4, <2>5, <2>6, <2>7 DEF IInv, RecInv
<1>3. ASSUME NEW r \in Runs, ClaimFails(r) PROVE IInv'
  <2>1. /\ RecInv'
        /\ \A p \in Requests : Repeat(rec, p) => Repeat(rec', p)
        /\ ~everAllowed => \A s \in Slots : rec'.nonceReuse[s] = NoSession
    <3>1. CASE UNCHANGED rec
      BY <1>r, <1>t, <3>1 DEF ReuseAllowed
    <3>2. CASE ClaimWrite(req[r])
      BY <1>3, <3>2, ClaimWriteRec DEF ClaimFails
    <3> QED BY <1>3, <3>1, <3>2 DEF ClaimFails
  <2>2. TypeOK'
    BY <1>3, <1>t, <2>1 DEF ClaimFails, Finish, TypeOK, RecInv
  <2>3. SignedClaimed'
    BY <1>3, <1>t, <2>1, DispatchAssumption DEF ClaimFails, Finish, SignedClaimed, TypeOK
  <2>4. ReuseAllowed'
    BY <1>3, <1>t, <2>1 DEF ClaimFails, ReuseAllowed
  <2>5. \A u \in Runs : pc'[u] # "inside"
    BY <1>3, <1>t DEF ClaimFails, Finish, TypeOK, OneInside
  <2> QED BY <2>1, <2>2, <2>3, <2>4, <2>5 DEF IInv, RecInv, DecisionStands, OneInside
<1>4. ASSUME NEW r \in Runs, RecordEvidence(r) PROVE IInv'
  <2>1. req[r] \in Requests /\ req[r].transition = "CompleteReceivedRevokeAndAck" /\ Repeat(rec, req[r])
    BY <1>4, <1>t DEF RecordEvidence, SignedClaimed
  <2>2. rec' = RecordRevocation(rec, req[r].version)
    BY <1>4 DEF RecordEvidence
  <2>3. RecInv'
    BY <1>t, <2>1, <2>2, EvidenceRecInv
  <2>4. \A p \in Requests : Repeat(rec, p) => Repeat(rec', p)
    BY <1>t, <2>2, EvidenceKeepsSignable
  <2>5. TypeOK'
    BY <1>4, <1>t, <2>3 DEF RecordEvidence, Finish, TypeOK, RecInv
  <2>6. SignedClaimed'
    BY <1>4, <1>t, <2>4, DispatchAssumption DEF RecordEvidence, Finish, SignedClaimed, TypeOK
  <2>7. ReuseAllowed'
    <3>1. rec'.nonceReuse = rec.nonceReuse
      BY <1>t, <2>2 DEF RecordRevocation, Record
    <3> QED BY <1>4, <1>t, <3>1 DEF RecordEvidence, ReuseAllowed
  <2>8. \A u \in Runs : pc'[u] = "inside" => pc[u] = "inside" /\ req'[u] = req[u] /\ req[u] \in Requests
    BY <1>4, <1>t DEF RecordEvidence, Finish, TypeOK, SignedClaimed
  <2>9. mode' = mode
    BY <1>4 DEF RecordEvidence
  <2>10. DecisionStands' /\ OneInside'
    BY <1>t, <2>2, <2>8, <2>9, EvidenceKeepsSignable DEF DecisionStands, OneInside
  <2> QED BY <2>3, <2>5, <2>6, <2>7, <2>10 DEF IInv, RecInv
<1>5. ASSUME NEW r \in Runs, RecordFails(r) PROVE IInv'
  <2>1. TypeOK' /\ SignedClaimed' /\ ReuseAllowed' /\ DecisionStands' /\ OneInside'
    BY <1>5, <1>t DEF RecordFails, Finish, TypeOK, SignedClaimed, ReuseAllowed, DecisionStands, OneInside
  <2> QED BY <1>5, <1>r, <2>1 DEF IInv, RecInv, RecordFails
<1>6. CASE Crash
  <2>1. TypeOK' /\ SignedClaimed' /\ ReuseAllowed' /\ DecisionStands' /\ OneInside'
    BY <1>6, <1>t DEF Crash, TypeOK, SignedClaimed, ReuseAllowed, DecisionStands, OneInside
  <2> QED BY <1>6, <1>r, <2>1 DEF IInv, RecInv, Crash
<1>7. CASE UNCHANGED vars
  <2>1. TypeOK' /\ SignedClaimed' /\ ReuseAllowed' /\ DecisionStands' /\ OneInside'
    BY <1>7, <1>t DEF vars, TypeOK, SignedClaimed, ReuseAllowed, DecisionStands, OneInside
  <2> QED BY <1>7, <1>r, <2>1 DEF IInv, RecInv, vars
<1> QED BY <1>1, <1>2, <1>3, <1>4, <1>5, <1>6, <1>7 DEF Next

-----------------------------------------------------------------------------
(* The inductive invariant of the signing path holds in every behaviour. *)
THEOREM DispatchInvariant == Spec => []IInv
BY InitIInv, NextIInv, PTL DEF Spec

(* The signing path's state stays well typed. *)
THEOREM DispatchTypeOK == Spec => []TypeOK
<1>1. IInv => TypeOK
  BY DEF IInv
<1> QED BY <1>1, DispatchInvariant, PTL

(* Under no slot's nonce are three different sessions ever signed. *)
THEOREM DispatchNonceSafety == Spec => []NonceSafety
<1>1. IInv => NonceSafety
  BY DEF IInv, SignedClaimed, NonceSafety, Repeat
<1> QED BY <1>1, DispatchInvariant, PTL

(* A device that never allowed reuse signs one session under each nonce. *)
THEOREM DispatchRefuseSignsOnce == Spec => []RefuseSignsOnce
<1>1. IInv => RefuseSignsOnce
  <2> SUFFICES ASSUME IInv, ~everAllowed, NEW p \in signed, NEW q \in signed, SlotOf(p) = SlotOf(q)
               PROVE  p = q
    BY DEF RefuseSignsOnce
  <2>1. p \in Requests /\ q \in Requests /\ SlotOf(p) \in Slots
    BY RequestTypes, DispatchAssumption DEF IInv, TypeOK
  <2>2. rec.nonceReuse[SlotOf(p)] = NoSession
    BY <2>1 DEF IInv, ReuseAllowed
  <2> QED BY <2>1, <2>2, DispatchAssumption DEF IInv, SignedClaimed, Repeat
<1> QED BY <1>1, DispatchInvariant, PTL

(* A version names one signed commitment in each view. *)
THEOREM DispatchOneCommitment == Spec => []OneCommitmentPerVersion
<1>1. IInv => OneCommitmentPerVersion
  <2>1. IInv => signed \subseteq Requests
    BY DispatchAssumption DEF IInv, TypeOK
  <2> QED BY <2>1 DEF IInv, SignedClaimed, VersionsBound, OneCommitmentPerVersion
<1> QED BY <1>1, DispatchInvariant, PTL

(* Only superseded commitments are revoked, of either view. *)
THEOREM DispatchRevokedBehind == Spec => []RevokedBehind
<1>1. IInv => RevokedBehind
  <2>1. IInv => signed \subseteq Requests
    BY DispatchAssumption DEF IInv, TypeOK
  <2> QED BY <2>1 DEF IInv, SignedClaimed, VersionsBound, RevokedBehind
<1> QED BY <1>1, DispatchInvariant, PTL

(* The bounds on nonces, in either mode. *)
THEOREM DispatchNoncesKept == Spec => []NoncesKept
<1>1. NonceSafety /\ RefuseSignsOnce => NoncesKept
  BY DEF NoncesKept
<1> QED BY <1>1, DispatchNonceSafety, DispatchRefuseSignsOnce, PTL

(* The record always passes the guard it is read through. *)
THEOREM DispatchRecordReadsBack == Spec => []RecordReadsBack
<1>1. IInv => RecordReadsBack
  <2> SUFFICES ASSUME IInv PROVE IsChannelPolicyRecord(rec)
    BY DEF RecordReadsBack
  <2>1. rec \in Record /\ IsNonceReuseMap(rec)
    BY DEF IInv, TypeOK, SlotsOK, IsNonceReuseMap
  <2>2. rec.version["remote"] \in Int /\ rec.version["remote"] <= MaxNumber
    BY <2>1, RecordAssumption DEF Record, Views, Numbers, Unset
  <2>3. IsPreviousRemoteCommitment(rec)
    BY <2>1, <2>2, RecordAssumption DEF IInv, PeerKept, IsPreviousRemoteCommitment, Record, Numbers, Unset
  <2>4. IsRevocationEvidenceList(rec)
    BY <2>1, <2>2, RecordAssumption DEF IInv, VersionsBound, IsRevocationEvidenceList, Record, Numbers
  <2>5. IsLaneCounterMap(rec) /\ IsSignedSessionMap(rec) /\ IsCommitmentHashMap(rec)
    BY <2>1 DEF Record, IsLaneCounterMap, IsSignedSessionMap, IsCommitmentHashMap
  <2> QED BY <2>1, <2>3, <2>4, <2>5 DEF IsChannelPolicyRecord
<1> QED BY <1>1, DispatchInvariant, PTL

(* A claim in the record is a repeat of itself. *)
LEMMA ClaimedRepeat ==
    ASSUME IInv, NEW q \in Claimed
    PROVE  q \in Requests /\ Repeat(rec, q)
<1>1. PICK s \in Slots : q = rec.signedSessions[s] \/ q = rec.nonceReuse[s]
  BY DEF Claimed
<1>2. q # NoSession
  BY DEF Claimed
<1> QED BY <1>1, <1>2 DEF IInv, SlotsOK, Repeat

(* The record keeps every peer commitment that has no evidence against it. *)
THEOREM DispatchPeerCommitmentsKept == Spec => []PeerCommitmentsKept
<1>1. IInv => PeerCommitmentsKept
  BY ClaimedRepeat DEF IInv, PeerKept, PeerCommitmentsKept
<1> QED BY <1>1, DispatchInvariant, PTL

(* A decision in the balance lane stands until the claim is written. *)
THEOREM DispatchDecisionStands == Spec => []DecisionStands
<1>1. IInv => DecisionStands
  BY DEF IInv
<1> QED BY <1>1, DispatchInvariant, PTL

(* A commitment is claimed only above every revocation claimed in its view. *)
THEOREM DispatchClaimsAboveRevoked == Spec => ClaimsAboveRevoked
<1> DEFINE Above == \A q \in Claimed' \ Claimed, t \in Claimed :
               /\ q.transition \in Commitments /\ t.transition \in Revocations
               /\ ViewOf(q) = ViewOf(t)
               => q.version > t.version
<1>1. IInv /\ IInv' /\ [Next]_vars => [Above]_vars
  <2> SUFFICES ASSUME IInv, IInv', Next,
                      NEW q \in Claimed' \ Claimed, NEW t \in Claimed,
                      q.transition \in Commitments, t.transition \in Revocations, ViewOf(q) = ViewOf(t)
               PROVE  q.version > t.version
    OBVIOUS
  <2>1. t \in Requests /\ Repeat(rec, t) /\ t.version \in Int
    BY ClaimedRepeat, RequestTypes
  <2>2. t.version < rec.version[ViewOf(t)]
    BY <2>1 DEF IInv, VersionsBound
  <2>3. PICK s \in Slots : q = rec'.signedSessions[s] \/ q = rec'.nonceReuse[s]
    BY DEF Claimed
  <2>4. q # NoSession /\ q # rec.signedSessions[s] /\ q # rec.nonceReuse[s]
    BY DEF Claimed
  <2>5. rec \in Record
    BY DEF IInv, TypeOK
  <2>6. PICK r \in Runs : /\ pc[r] = "inside" /\ ~Repeat(rec, req[r]) /\ Signable(rec, req[r], mode)
                          /\ rec' = Serve(rec, req[r])
    <3>1. rec' = rec => FALSE
      BY <2>3, <2>4
    <3>2. ASSUME NEW r \in Runs, RecordEvidence(r) PROVE FALSE
      <4>1. rec'.signedSessions = rec.signedSessions /\ rec'.nonceReuse = rec.nonceReuse
        BY <3>2, <2>5 DEF RecordEvidence, RecordRevocation, Record
      <4> QED BY <4>1, <2>3, <2>4
    <3> QED BY <3>1, <3>2 DEF Next, Decide, Claim, ClaimFails, ClaimWrite, RecordFails, Crash
  <2>7. req[r] \in Requests /\ SlotOf(req[r]) \in Slots
    BY <2>6, RequestTypes DEF IInv, SignedClaimed
  <2>8. q = req[r]
    BY <2>3, <2>4, <2>5, <2>6, <2>7, RecordTypes DEF Serve
  <2>9. q.version > rec.version[ViewOf(q)] /\ q.version \in Int
    BY <2>5, <2>6, <2>7, <2>8, VersionRises, RequestTypes DEF Signable
  <2>10. rec.version[ViewOf(q)] \in Int
    BY <2>5, <2>7, <2>8, RequestTypes, RecordTypes DEF Views
  <2> QED BY <2>1, <2>2, <2>9, <2>10
<1> QED BY <1>1, DispatchInvariant, PTL DEF Spec, ClaimsAboveRevoked

===============================================================================
