------------------------------ MODULE Watchtower ------------------------------
(***************************************************************************)
(* The watchtower's requests, from the poll that reads one to the signature*)
(* submitted and its mark: sdk/watchtower-step.ts, signer-dispatch.ts's    *)
(* handleWatchtower and policy-engine.ts's three updates of the record,    *)
(* under the rules of WatchtowerSpend.  Beside them the record's           *)
(* commitments are replaced, and a broadcast one is settled on the chain by*)
(* the device's signatures and by the peer.                                *)
(*                                                                         *)
(* The node is not trusted: it may twist a request in any one respect.     *)
(* Runs of the step overlap once one is abandoned; an update of the record *)
(* is one step (SignerStore).  A write that fails may have landed or not,  *)
(* and the process may die at any step.                                    *)
(***************************************************************************)
EXTENDS WatchtowerSpend

CONSTANTS
    Approvals,    \* the host's watchtower option: destination and maxFee, or None
    Other,        \* a lock that is not the host's
    Runs,         \* runs of the step, the abandoned ones too
    MaxNumber,    \* MAX_COMMITMENT_NUMBER
    Bounds        \* the bounds a behaviour may have: commitments replaced (commits),
                  \* and the settlements asked for (snapshots), requests twisted and
                  \* accepted (lies), whether they pretend TLCs are gone (thins), the
                  \* fees of honest requests (fees), the runs, and failures, crashes and
                  \* abandoned runs (faults)

ASSUME TowerAssumption ==
    /\ MaxNumber \in Nat
    /\ \A b \in Bounds : b.commits \in Nat /\ b.lies \in Nat /\ b.faults \in Nat /\ b.fees \subseteq Nat

VARIABLES
    rec,          \* stored: the channel's commitments and spends
    approval,     \* the engine's option, fixed at construction
    pc, job,      \* per run: what it waits for, and what it carries
    abandoned,    \* the runs past their deadline
    sent,         \* the signatures the node holds
    cell,         \* the chain: the cell that settles the channel, or None
    bound, commits, lies, faults

chain == <<sent, cell>>
counters == <<commits, lies, faults>>
vars == <<rec, approval, pc, job, abandoned, chain, bound, counters>>

Init ==
    /\ rec = [remote |-> None, previous |-> None, local |-> None, spends |-> {}]
    /\ approval \in Approvals
    /\ pc = [r \in Runs |-> "idle"] /\ job = [r \in Runs |-> None] /\ abandoned = {}
    /\ sent = {} /\ cell = None
    /\ bound \in Bounds /\ commits = 0 /\ lies = 0 /\ faults = 0

Go(r, p) == pc' = [pc EXCEPT ![r] = p]

End(r) ==
    /\ Go(r, "idle") /\ job' = [job EXCEPT ![r] = None]
    /\ abandoned' = abandoned \ {r}

Fault == faults < bound.faults /\ faults' = faults + 1

-----------------------------------------------------------------------------
(* The record's commitments: nextCommitments *)

(* rebuildOperation: what the record keeps of a commitment, and its terms. *)
Commitment(view, number, s) ==
    LET c == CommitmentCell(s, view = "remote", number)
    IN  [view |-> view, number |-> number, body |-> c.body, capacity |-> c.capacity, terms |-> s]

(* A snapshot is one that can be read; null is no commitment and no entry  *)
(* of one.                                                                 *)
ASSUME CommitmentAssumption ==
    \A b \in Bounds : \A s \in b.snapshots :
        /\ IsSnapshot(s)
        /\ \A view \in {"remote", "local"}, n \in 0 .. MaxNumber :
              LET c == Commitment(view, n, s) IN c # None /\ None \notin Range(c.body.entries)

NumberAfter(last) == IF last = None THEN 0 ELSE last.number + 1

(* The device signs a commitment, whose slot and revocations ChannelRecord *)
(* is about: a remote one follows the last by one, and that one is kept.   *)
SignCommitment(view, s) ==
    LET c == Commitment(view, NumberAfter(rec[view]), s)
    IN  /\ commits < bound.commits /\ commits' = commits + 1
        /\ c.number <= MaxNumber
        /\ SettlementFits(s)
        /\ rec' = [rec EXCEPT ![view] = c, !.previous = IF view = "remote" THEN rec.remote ELSE @]
        /\ UNCHANGED <<approval, pc, job, abandoned, chain, bound, lies, faults>>

-----------------------------------------------------------------------------
(* The chain, in the terms of the snapshot: `left` is what is not settled *)

(* In place of a balance its side has settled. *)
Taken == -1

CellForRemote == ForRemote(cell)

(* The body of what is left: a side that took its balance is zeroed. *)
LeftBody(left, forRemote) ==
    [entries  |-> SettlementBody(left, forRemote).entries,
     balances |-> Pair(forRemote, IF left.local = Taken THEN Settled ELSE Balance(BaseKey, left.local),
                                  IF left.remote = Taken THEN Settled ELSE Balance(PeerKey, left.remote))]

CellOf(c) ==
    [view |-> c.view, number |-> c.number, body |-> c.body, capacity |-> c.capacity,
     root |-> TRUE, open |-> TRUE, age |-> 0, left |-> c.terms, shares |-> {}]

(* Either side broadcasts a commitment the other has signed. *)
Broadcast(c) ==
    /\ cell = None
    /\ cell' = CellOf(c)
    /\ UNCHANGED <<rec, approval, pc, job, abandoned, sent, bound, counters>>

(* The peer takes its balance, all that is left once the device took its   *)
(* own, or a TLC: by the preimage if the device offered it.                *)
PeerTakes(left) ==
    /\ cell # None /\ cell.open
    /\ cell' = [cell EXCEPT !.left = left, !.body = LeftBody(left, CellForRemote), !.root = FALSE, !.age = @ + 1,
                            !.open = left.local # Taken \/ left.remote # Taken]
    /\ UNCHANGED <<rec, approval, pc, job, abandoned, sent, bound, counters>>

PeerShares(left) ==
    (IF left.remote = Taken THEN {} ELSE {[left EXCEPT !.remote = Taken]})
    \cup {[left EXCEPT !.tlcs = @ \ {t}] : t \in left.tlcs}

(* What a device's share is, and what it leaves: a TLC, or its balance,    *)
(* with every TLC once the peer took its own.                              *)
TakesTlc(left, t) ==
    [takes |-> t.amount, left |-> [left EXCEPT !.tlcs = @ \ {t}], final |-> FALSE]

TakesBalance(left, tlcs) ==
    IF left.remote = Taken
    THEN [takes |-> left.local + SumAmounts(tlcs), left |-> [left EXCEPT !.local = Taken, !.tlcs = {}], final |-> TRUE]
    ELSE [takes |-> left.local, left |-> [left EXCEPT !.local = Taken], final |-> FALSE]

OutPoint(c) == <<NameOf(c), c.age>>

(* The spend of a share, as fiber's watchtower builds it. *)
SpendTx(c, share, target, preimage, fee, destination) ==
    [from |-> OutPoint(c), index |-> 0, since |-> c.root, sound |-> TRUE, blank |-> TRUE,
     body |-> c.body, target |-> target, preimage |-> preimage,
     outputs |-> (IF share.final THEN <<>>
                  ELSE <<[lock |-> CommitmentLock(NameOf(c), LeftBody(share.left, ForRemote(c)), TRUE),
                          capacity |-> c.capacity - share.takes, plain |-> TRUE]>>)
                 \o <<[lock |-> destination, capacity |-> share.takes - fee, plain |-> TRUE]>>]

(* The unlocks of a cell that are the device's, in any order. *)
Unlocks(c) ==
    LET tlcs == OrderTlcs(c.left.tlcs, ForRemote(c))
        Unlock(i) == [purpose |-> <<"tlc", tlcs[i].number>>, share |-> TakesTlc(c.left, tlcs[i]),
                      preimage |-> tlcs[i].direction = "received", target |-> [kind |-> "tlc", index |-> i]]
    IN  {Unlock(i) : i \in {j \in DOMAIN tlcs \cap DOMAIN c.body.entries :
                                c.body.entries[j] = TlcEntry(tlcs[j], ForRemote(c))}}
        \cup IF c.left.local = Taken THEN {}
             ELSE {[purpose |-> <<"settlement">>, share |-> TakesBalance(c.left, tlcs), preimage |-> FALSE,
                    target |-> [kind |-> "balance", index |-> DeviceIndex(ForRemote(c))]]}

OfferedLeft(left) == {t \in left.tlcs : t.direction = "offered"}

RequestFor(c, u, fee, destination) ==
    LET tx == SpendTx(c, u.share, u.target, u.preimage, fee, destination)
    IN  [id |-> tx, purpose |-> u.purpose, tx |-> tx]

(* Fiber's watchtower takes the TLCs the device offered before its balance,*)
(* and never serves a request again once it holds the signature.           *)
InTurn(u) == (u.purpose = <<"settlement">> /\ ~u.share.final) => OfferedLeft(cell.left) = {}

Honest(destination) ==
    IF cell = None \/ ~cell.open THEN {}
    ELSE {q \in {RequestFor(cell, u, fee, destination) : u \in {v \in Unlocks(cell) : InTurn(v)}, fee \in bound.fees} :
            \A x \in sent : x.id # q.id}

(* A request twisted in one respect. *)
Twists(q, destination) ==
    LET tx == q.tx
        last == Len(tx.outputs)
        T(t) == [q EXCEPT !.tx = t]
    IN  {T([tx EXCEPT !.index = 1]), T([tx EXCEPT !.sound = FALSE]), T([tx EXCEPT !.blank = FALSE]),
         T([tx EXCEPT !.since = ~@]), T([tx EXCEPT !.preimage = ~@]),
         T([tx EXCEPT !.target = [kind |-> "balance", index |-> 1]]),
         T([tx EXCEPT !.target = [kind |-> "balance", index |-> 2]]),
         T([tx EXCEPT !.body.entries = @ \o @]),
         T([tx EXCEPT !.outputs[last].lock = Other]), T([tx EXCEPT !.outputs[last].plain = FALSE]),
         T([tx EXCEPT !.outputs[last].capacity = @ - 2]), T([tx EXCEPT !.outputs[1].capacity = @ + 1]),
         T([tx EXCEPT !.outputs[1].lock = destination]),
         T([tx EXCEPT !.outputs[1].lock = CommitmentLock(tx.from[1], tx.body, TRUE)]),
         T([tx EXCEPT !.outputs = <<@[1], @[last], @[last], @[last]>>]),
         [q EXCEPT !.purpose = <<"settlement">>]}
        \cup {[q EXCEPT !.purpose = <<"tlc", n>>] : n \in {MaxNumber, MaxNumber + 1}}

(* A cell some of whose TLCs are gone, which the chain may never hold. *)
Thinned(c, tlcs) ==
    LET left == [c.left EXCEPT !.tlcs = tlcs]
    IN  [c EXCEPT !.left = left, !.body = LeftBody(left, ForRemote(c)), !.root = FALSE]

(* The cells a request may pretend to spend. *)
Cells ==
    LET roots == {CellOf(c) : c \in Registered(rec)}
    IN  (IF cell # None /\ cell.open THEN {cell} ELSE {})
        \cup IF bound.thins THEN UNION {{Thinned(c, S) : S \in SUBSET c.left.tlcs} : c \in roots} ELSE roots

Untwisted(destination) ==
    UNION {{RequestFor(c, u, fee, destination) : u \in Unlocks(c), fee \in bound.fees} : c \in Cells}

Lies(destination) ==
    LET all == Untwisted(destination)
    IN  all \cup UNION {Twists(q, destination) : q \in all}
        \cup {[a EXCEPT !.id = b.id] : a \in all, b \in all}

-----------------------------------------------------------------------------
(* The step *)

(* What a run carries: `of` is the commitment its signature is recorded    *)
(* for, None before it is recorded and when it is no claim's.              *)
Job(q, sig, of) == [id |-> q.id, tx |-> q.tx, sig |-> sig, of |-> of]

(* A repeat whose signature is in the record is not signed again. *)
Recorded(q) == \E s \in SpendFor(rec, q.id) : s.signature # Unsigned

(* decodeWatchtowerSigningStatus: the purpose names a key, of a commitment *)
(* number if it is a TLC's.                                                *)
Decodes(q) == q.purpose[1] = "settlement" \/ (q.purpose[1] = "tlc" /\ q.purpose[2] <= MaxNumber)

(* The runs that may ask: one at a time, but for the abandoned ones. *)
MayAsk(r) == r \in bound.runs /\ pc[r] = "idle" /\ \A o \in Runs : pc[o] = "idle" \/ o \in abandoned

(* A mutant of Ask: a signature leaves before it is in the record. *)
AskUnrecorded(r, q) ==
    /\ MayAsk(r) /\ Decodes(q) /\ Passes(rec, approval, q)
    /\ \/ IsFresh(rec, q) /\ rec' = Claim(rec, q)
       \/ (IsRepeat(rec, q) \/ IsUnclaimed(rec, q)) /\ UNCHANGED rec
    /\ Go(r, "submit")
    /\ job' = [job EXCEPT ![r] = Job(q, SignOnchain(q.purpose, q.tx),
                                     IF IsUnclaimed(rec, q) THEN None ELSE NameOf(SourceOf(rec, q.tx)))]
    /\ UNCHANGED <<approval, abandoned, chain, bound, commits, faults>>

(* The poll reads a request; handleWatchtower decodes it, checks it against*)
(* the record, claims it and signs it.  One that is refused changes        *)
(* nothing.  A repeat is answered from the record, or signed again.        *)
Ask(r, q) ==
    /\ MayAsk(r) /\ Decodes(q) /\ Passes(rec, approval, q)
    /\ \/ IsFresh(rec, q) /\ rec' = Claim(rec, q)
       \/ (IsRepeat(rec, q) \/ IsUnclaimed(rec, q)) /\ UNCHANGED rec
    /\ IF Recorded(q)
       THEN /\ Go(r, "submit")
            /\ \E s \in SpendFor(rec, q.id) : job' = [job EXCEPT ![r] = Job(q, s.signature, NameOf(s))]
       ELSE /\ Go(r, IF IsUnclaimed(rec, q) THEN "submit" ELSE "record")
            /\ job' = [job EXCEPT ![r] = Job(q, SignOnchain(q.purpose, q.tx), None)]
    /\ UNCHANGED <<approval, abandoned, chain, bound, commits, faults>>

AskHonest(r) ==
    /\ approval # None
    /\ \E q \in Honest(approval.destination) : Ask(r, q)
    /\ UNCHANGED lies

AskTwisted(r) ==
    /\ approval # None
    /\ lies < bound.lies /\ lies' = lies + 1
    /\ \E q \in Lies(approval.destination) : Ask(r, q)

(* The claim's write fails after it landed. *)
ClaimLost(r) ==
    /\ approval # None /\ Fault
    /\ \E q \in Honest(approval.destination) :
          /\ MayAsk(r) /\ Decodes(q) /\ Passes(rec, approval, q)
          /\ IsFresh(rec, q) /\ rec' = Claim(rec, q)
    /\ UNCHANGED <<approval, pc, job, abandoned, chain, bound, commits, lies>>

(* recordWatchtowerSignature: the claim is there, unsigned or signed so. *)
Recordable(r) == \E s \in SpendFor(rec, job[r].id) : s.signature \in {Unsigned, job[r].sig}

WithSignature(r) == SignSpend(rec, job[r].id, job[r].sig)

Record(r) ==
    /\ pc[r] = "record" /\ Recordable(r)
    /\ rec' = WithSignature(r)
    /\ \E s \in SpendFor(rec, job[r].id) : job' = [job EXCEPT ![r].of = NameOf(s)]
    /\ Go(r, "submit")
    /\ UNCHANGED <<approval, abandoned, chain, bound, counters>>

(* It throws: the claim gave way to another, or holds another signature. *)
RecordThrows(r) ==
    /\ pc[r] = "record" /\ ~Recordable(r)
    /\ End(r)
    /\ UNCHANGED <<rec, approval, chain, bound, counters>>

Sent(r) == sent \cup {job[r]}

(* submit: an abandoned run submits nothing. *)
Submit(r) ==
    /\ pc[r] = "submit"
    /\ IF r \in abandoned THEN End(r) /\ UNCHANGED sent
       ELSE /\ sent' = Sent(r)
            /\ IF job[r].of # None THEN Go(r, "mark") /\ UNCHANGED <<job, abandoned>> ELSE End(r)
    /\ UNCHANGED <<rec, approval, cell, bound, counters>>

(* markWatchtowerSpendApplied: it throws if the spend was pruned. *)
Markable(r) == \E s \in SpendFor(rec, job[r].id) : s.applied \/ s.signature # Unsigned

Applied(r) == ApplySpend(rec, job[r].id)

Mark(r) ==
    /\ pc[r] = "mark"
    /\ rec' = IF Markable(r) THEN Applied(r) ELSE rec
    /\ End(r)
    /\ UNCHANGED <<approval, chain, bound, counters>>

(* A write or the submission fails: it may have landed or not. *)
Fails(r) ==
    /\ pc[r] # "idle" /\ Fault
    /\ \/ UNCHANGED <<rec, sent>>
       \/ pc[r] = "record" /\ Recordable(r) /\ rec' = WithSignature(r) /\ UNCHANGED sent
       \/ pc[r] = "submit" /\ r \notin abandoned /\ sent' = Sent(r) /\ UNCHANGED rec
       \/ pc[r] = "mark" /\ Markable(r) /\ rec' = Applied(r) /\ UNCHANGED sent
    /\ End(r)
    /\ UNCHANGED <<approval, cell, bound, commits, lies>>

(* A run past its deadline goes on, and another may start. *)
Abandon(r) ==
    /\ pc[r] # "idle" /\ r \notin abandoned /\ Fault
    /\ abandoned' = abandoned \cup {r}
    /\ UNCHANGED <<rec, approval, pc, job, chain, bound, commits, lies>>

(* The process dies and starts again, maybe with another option. *)
Crash ==
    /\ Fault
    /\ pc' = [r \in Runs |-> "idle"] /\ job' = [r \in Runs |-> None] /\ abandoned' = {}
    /\ approval' \in Approvals
    /\ UNCHANGED <<rec, chain, bound, commits, lies>>

(* A spend the node holds a signature of is mined, if it fits the cell and *)
(* its key is the unlock's.                                                *)
Lands(x, u) ==
    /\ cell # None /\ cell.open
    /\ x.tx.from = OutPoint(cell) /\ x.tx.since = cell.root
    /\ x.tx.body = cell.body /\ x.tx.target = u.target /\ x.tx.preimage = u.preimage
    /\ x.sig = SignOnchain(u.purpose, x.tx)
    /\ u.share.final \/ Head(x.tx.outputs).lock[1] = "commitment"
    /\ LET rest == IF u.share.final THEN x.tx.outputs ELSE Tail(x.tx.outputs)
           next == Head(x.tx.outputs)
       IN  cell' = [cell EXCEPT !.left = u.share.left, !.root = FALSE, !.age = @ + 1, !.open = ~u.share.final,
                                !.body = IF u.share.final THEN @ ELSE next.lock[3],
                                !.capacity = IF u.share.final THEN 0 ELSE next.capacity,
                                !.shares = @ \cup {[takes |-> u.share.takes, outputs |-> rest]}]
    /\ UNCHANGED <<rec, approval, pc, job, abandoned, sent, bound, counters>>

Land == \E x \in sent : cell # None /\ \E u \in Unlocks(cell) : Lands(x, u)

Next ==
    \/ \E view \in {"remote", "local"}, s \in bound.snapshots : SignCommitment(view, s)
    \/ \E c \in Registered(rec) : Broadcast(c)
    \/ cell # None /\ \E left \in PeerShares(cell.left) : PeerTakes(left)
    \/ \E r \in Runs :
          \/ AskHonest(r) \/ AskTwisted(r) \/ Record(r) \/ RecordThrows(r) \/ Submit(r) \/ Mark(r)
          \/ ClaimLost(r) \/ Fails(r) \/ Abandon(r)
    \/ Crash \/ Land

Spec == Init /\ [][Next]_vars

(* The poll comes round, a run under way goes on, and the node passes on   *)
(* what it is given.                                                       *)
FairSpec ==
    /\ Spec
    /\ WF_vars(\E r \in Runs : AskHonest(r)) /\ WF_vars(Land)
    /\ \A r \in Runs : WF_vars(Record(r) \/ RecordThrows(r) \/ Submit(r) \/ Mark(r))

-----------------------------------------------------------------------------
(* Properties *)

Spends == rec.spends

TypeOK ==
    /\ \A c \in Registered(rec) : c.number \in 0 .. MaxNumber
    /\ \A s \in Spends : s.view \in {"remote", "local"} /\ s.number \in 0 .. MaxNumber /\ s.applied \in BOOLEAN
    /\ approval \in Approvals /\ bound \in Bounds
    /\ pc \in [Runs -> {"idle", "record", "submit", "mark"}] /\ abandoned \subseteq Runs
    /\ commits \in 0 .. bound.commits /\ lies \in 0 .. bound.lies /\ faults \in 0 .. bound.faults

(* Whatever the runs, the lies and the replaced commitments do to the      *)
(* record between two updates, it is one the device can read back: one     *)
(* spend per request and per unlock (validate.utils.ts refuses the whole   *)
(* record otherwise, and with it the channel).                             *)
RecordReadsBack == TypeOK /\ IsSpendList(rec)

(* A signature that left the device as a claimed one is in the evidence    *)
(* the host reads, until the commitment it is recorded for is replaced     *)
(* (signer-dispatch.ts: "Recorded before it leaves").                      *)
SubmittedIsRecorded ==
    \A x \in sent : x.of # None /\ IsRegistered(rec, x.of) =>
        \E e \in Evidence(rec).signatures : e.request = x.id /\ e.signature = x.sig

(* A spend is marked applied only once the node was given a signature for  *)
(* its request, also when the run was abandoned before it submitted: that  *)
(* very signature, unless the node gave two requests one id.               *)
AppliedIsSent ==
    \A s \in Spends : s.applied =>
        \E x \in sent : x.id = s.request /\ (lies = 0 => x.sig = s.signature)

(* The record and the node agree on the signatures that left the device:   *)
(* both of the above, through lost writes, overlapping runs and crashes.   *)
RecordKeepsUp == SubmittedIsRecorded /\ AppliedIsSent

(* The first spend signed for an unlock stays the record's, with its       *)
(* signature, while its commitment is registered.                          *)
FirstSignedStays ==
    [][\A s \in Spends : (s.signature # Unsigned /\ IsRegistered(rec', NameOf(s))) =>
          \E t \in rec'.spends : t \in {s, [s EXCEPT !.applied = TRUE]}]_rec

(* However the two sides settle a broadcast commitment, in either view, the*)
(* cell's body is the one that lists what neither has taken: a spend the   *)
(* device signed leaves the peer's balance and every other TLC in place.   *)
BodyIsWhatIsLeft ==
    cell # None /\ cell.open => cell.body = LeftBody(cell.left, CellForRemote)

(* What outputs pay to a destination. *)
PaidTo(destination, outputs) ==
    SumFunction([i \in DOMAIN outputs |-> IF outputs[i].lock = destination THEN outputs[i].capacity ELSE 0])

(* What each of the device's spends took of the cell reached a destination *)
(* the host approved, less the fee approved with it; and the device never  *)
(* gives up its place in the cell while a TLC it offered is in it, which   *)
(* the peer's last unlock would take.                                      *)
DeviceIsPaid ==
    cell # None =>
        /\ \A s \in cell.shares :
              \E a \in Approvals \ {None} : PaidTo(a.destination, s.outputs) >= s.takes - a.maxFee
        /\ cell.left.local = Taken => OfferedLeft(cell.left) = {}

(* A recorded signature is by the key of the claim's purpose             *)
(* (watchtower-spend.ts, repeatVerdict: "The tx fixes the unlock, and the  *)
(* key rule the one key that signs it").  It is not always: the witness is *)
(* no part of the tx hash, and the spent outpoint is not checked, so one tx*)
(* under two bodies unlocks two TLCs.                                      *)
SignedAsClaimed == \A s \in Spends : s.signature # Unsigned => s.signature[1] = PurposeKey(s.purpose)

(* A broadcast commitment that owes the device its balance. *)
Unpaid ==
    /\ cell # None /\ approval # None /\ lies = 0
    /\ cell.left.local # Taken /\ IsRegistered(rec, NameOf(cell))

(* A claim left unsigned, a run lost or a spend rebuilt: a broadcast       *)
(* commitment does not owe the device its balance for ever, unless the     *)
(* device replaces that commitment, the host approves no spend or the node *)
(* has lied.                                                               *)
SettledInTheEnd == []<>~Unpaid

=============================================================================
