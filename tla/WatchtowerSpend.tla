--------------------------- MODULE WatchtowerSpend ---------------------------
(***************************************************************************)
(* policy/watchtower-spend.ts: the rules on one spend of fiber's           *)
(* watchtower against a channel's record, and the claim they write.        *)
(*                                                                         *)
(* A request is [id, purpose, tx].  The purpose is the key it asks for,    *)
(* <<"settlement">> or <<"tlc", number>>.  A tx is the output it spends    *)
(* (from, index), whether it waited for the delay (since), its outputs, and*)
(* its witness: the body, the target unlocked, whether it carries a        *)
(* preimage and whether the signature is still blank.  `sound` stands for  *)
(* the structure every spend has.                                          *)
(***************************************************************************)
EXTENDS Settlement

CONSTANTS
    None,
    MaxPaid       \* MAX_WATCHTOWER_DESTINATION_OUTPUTS

ASSUME SpendAssumption == MaxPaid \in Nat

(* Reads the tx hash covers: all but the witness. *)
Raw(tx) == [from |-> tx.from, index |-> tx.index, since |-> tx.since, outputs |-> tx.outputs]

PurposeKey(purpose) == IF purpose[1] = "settlement" THEN BaseKey ELSE purpose

ForRemote(c) == c.view = "remote"

NameOf(c) == <<c.view, c.number>>

(* registeredCommitments *)
Registered(rec) == {rec.remote, rec.previous, rec.local} \ {None}

IsRegistered(rec, name) == \E c \in Registered(rec) : NameOf(c) = name

(* The first of some of them, in the order they are listed. *)
First(rec, cs) ==
    IF rec.remote \in cs THEN rec.remote ELSE IF rec.previous \in cs THEN rec.previous ELSE rec.local

-----------------------------------------------------------------------------
(* The source *)

CountEntry(entries, e) == Cardinality({i \in DOMAIN entries : entries[i] = e})

(* findDescentFault: committed TLCs, as often as committed at most, and    *)
(* each balance as committed or settled.                                   *)
Descends(body, committed) ==
    /\ Range(body.entries) \subseteq Range(committed.entries)
    /\ \A e \in Range(body.entries) : CountEntry(body.entries, e) <= CountEntry(committed.entries, e)
    /\ \A k \in {1, 2} : body.balances[k] \in {Settled, committed.balances[k]}

(* findCommitmentSource with a since, findDescendantSource without. *)
Candidates(rec, tx) ==
    {c \in Registered(rec) : IF tx.since THEN tx.body = c.body ELSE Descends(tx.body, c.body)}

(* The remainder's args name the commitment. *)
NamedBy(tx, c) == tx.outputs # <<>> /\ tx.outputs[1].lock[1] = "commitment" /\ tx.outputs[1].lock[2] = NameOf(c)

(* pickSource: the one the remainder names, or the first. *)
SourceOf(rec, tx) ==
    LET cands == Candidates(rec, tx)
        named == {c \in cands : NamedBy(tx, c)}
    IN  First(rec, IF named # {} THEN named ELSE cands)

-----------------------------------------------------------------------------
(* The key and what it releases *)

Offered(body, forRemote) == {i \in DOMAIN body.entries : DirectionOf(body.entries[i], forRemote) = "offered"}

SumAmounts(s) == SumFunction([i \in DOMAIN s |-> s[i].amount])

(* Once the peer settled, the device's balance unlock takes the cell. *)
FinalParty(tx, forRemote) ==
    tx.target.kind = "balance" /\ tx.body.balances[PeerIndex(forRemote)].key = Zero

(* A mutant of Released: the last unlock takes the device's balance only. *)
ReleasedBalance(tx, forRemote) ==
    IF tx.target.kind = "tlc" THEN tx.body.entries[tx.target.index].amount
    ELSE tx.body.balances[DeviceIndex(forRemote)].amount

(* releasedByKey: what the unlock releases to the device. *)
Released(tx, forRemote) ==
    IF tx.target.kind = "tlc" THEN tx.body.entries[tx.target.index].amount
    ELSE tx.body.balances[DeviceIndex(forRemote)].amount
         + IF FinalParty(tx, forRemote) THEN SumAmounts(tx.body.entries) ELSE 0

(* releasedByKey, a TLC's: the device's key at the number, and the preimage*)
(* for one it received, the timeout for one it offered.                    *)
TlcKeyUnlocks(purpose, tx, forRemote) ==
    /\ tx.target.kind = "tlc"
    /\ LET e == tx.body.entries[tx.target.index]
       IN  /\ DeviceKeyOf(e, forRemote) = PurposeKey(purpose)
           /\ (DirectionOf(e, forRemote) = "received") = tx.preimage

(* releasedByKey, the settlement key's: the device's own balance, after    *)
(* every TLC it offered unless nobody else is left.                        *)
BalanceUnlocks(tx, forRemote) ==
    /\ tx.target = [kind |-> "balance", index |-> DeviceIndex(forRemote)]
    /\ tx.body.balances[DeviceIndex(forRemote)].key = BaseKey
    /\ FinalParty(tx, forRemote) \/ Offered(tx.body, forRemote) = {}
    /\ Released(tx, forRemote) > 0

KeyUnlocks(purpose, tx, forRemote) ==
    IF purpose[1] = "tlc" THEN TlcKeyUnlocks(purpose, tx, forRemote) ELSE BalanceUnlocks(tx, forRemote)

(* A mutant of RemainderFits: the remainder's body is not read. *)
RemainderNames(c, tx) ==
    /\ tx.outputs # <<>>
    /\ LET first == Head(tx.outputs)
       IN  /\ first.lock[1] = "commitment" /\ first.lock[2] = NameOf(c) /\ first.plain
           /\ tx.since => first.capacity + Released(tx, ForRemote(c)) = c.capacity

(* readRemainder: the source's lock over the next body, and, where the cell*)
(* is known, its capacity less what is released.                           *)
RemainderFits(c, tx) ==
    /\ tx.outputs # <<>>
    /\ LET first == Head(tx.outputs)
       IN  /\ first.lock = CommitmentLock(NameOf(c), NextBody(tx, ForRemote(c)), TRUE)
           /\ first.plain
           /\ tx.since => first.capacity + Released(tx, ForRemote(c)) = c.capacity

Destination(tx, final) == IF final THEN tx.outputs ELSE Tail(tx.outputs)

Paid(outputs) == SumFunction([i \in DOMAIN outputs |-> outputs[i].capacity])

(* assertPaidOut *)
PaidOut(tx, final, approval, released) ==
    LET paid == Destination(tx, final)
    IN  /\ Len(paid) \in 1 .. MaxPaid
        /\ \A o \in Range(paid) : o.lock = approval.destination /\ o.plain
        /\ Paid(paid) >= released - approval.maxFee

-----------------------------------------------------------------------------
(* decideWatchtowerSpend: every rule, in a repeat too. *)
Passes(rec, approval, q) ==
    LET tx == q.tx
    IN  /\ tx.sound /\ UnlockReads(tx) /\ tx.index = 0
        /\ Candidates(rec, tx) # {}
        /\ LET c == SourceOf(rec, tx)
               final == FinalParty(tx, ForRemote(c))
           IN  /\ KeyUnlocks(q.purpose, tx, ForRemote(c))
               /\ tx.blank
               /\ final \/ RemainderFits(c, tx)
               /\ PaidOut(tx, final, approval, Released(tx, ForRemote(c)))

Unsigned == <<>>

(* A claim: what the record keeps of a spend. *)
SpendOf(rec, q) ==
    LET c == SourceOf(rec, q.tx)
        tx == q.tx
    IN  [request   |-> q.id,
         purpose   |-> q.purpose,
         view      |-> c.view,
         number    |-> c.number,
         entry     |-> IF tx.target.kind = "tlc" THEN tx.body.entries[tx.target.index] ELSE None,
         tx        |-> Raw(tx),
         remainder |-> IF FinalParty(tx, ForRemote(c)) THEN None ELSE Head(tx.outputs).lock,
         signature |-> Unsigned,
         applied   |-> FALSE]

(* isSameSpendKey: the same unlock of the same commitment. *)
SameUnlock(a, b) == NameOf(a) = NameOf(b) /\ a.entry = b.entry

SpendFor(rec, id) == {s \in rec.spends : s.request = id}

(* A mutant of IsRepeat: a claim without a signature is not repeated. *)
IsSignedRepeat(rec, q) == \E s \in SpendFor(rec, q.id) : s.tx = Raw(q.tx) /\ s.signature # Unsigned

(* repeatVerdict: the request was claimed, for this very tx. *)
IsRepeat(rec, q) == \E s \in SpendFor(rec, q.id) : s.tx = Raw(q.tx)

(* A mutant of IsUnclaimed: a later spend may take over a signed unlock. *)
IsNeverUnclaimed(rec, q) == FALSE

(* Another request's spend of the unlock is signed: that one stays the     *)
(* record's.                                                               *)
IsUnclaimed(rec, q) ==
    /\ SpendFor(rec, q.id) = {}
    /\ \E s \in rec.spends : s.signature # Unsigned /\ SameUnlock(s, SpendOf(rec, q))

IsFresh(rec, q) == SpendFor(rec, q.id) = {} /\ ~IsUnclaimed(rec, q)

(* A mutant of Claim: the unsigned claim of the unlock stays beside it. *)
ClaimBeside(rec, q) ==
    [rec EXCEPT !.spends = {s \in @ : IsRegistered(rec, NameOf(s))} \cup {SpendOf(rec, q)}]

(* A fresh claim replaces the unsigned one of its unlock, and the spends of*)
(* commitments no longer registered go.                                    *)
Claim(rec, q) ==
    LET spend == SpendOf(rec, q)
    IN  [rec EXCEPT !.spends =
            {s \in @ : ~SameUnlock(s, spend) /\ IsRegistered(rec, NameOf(s))} \cup {spend}]

(* updateWatchtowerSpend: the spend of a request is given a signature, *)
SignSpend(rec, id, sig) ==
    [rec EXCEPT !.spends = {IF s.request = id THEN [s EXCEPT !.signature = sig] ELSE s : s \in @}]

(* or marked applied. *)
ApplySpend(rec, id) ==
    [rec EXCEPT !.spends = {IF s.request = id THEN [s EXCEPT !.applied = TRUE] ELSE s : s \in @}]

(* signOnchain: deterministic, over the tx without its witness. *)
SignOnchain(purpose, tx) == <<PurposeKey(purpose), Raw(tx)>>

(* projectChannelEvidence: what the host reads of the record. *)
Evidence(rec) ==
    LET Of(c) == IF c = None THEN None ELSE c.number
    IN  [commitments |-> [local |-> Of(rec.local), remote |-> Of(rec.remote)],
         signatures  |-> {[request |-> s.request, purpose |-> s.purpose, signature |-> s.signature, applied |-> s.applied]
                            : s \in {t \in rec.spends : t.signature # Unsigned}}]

(* isCommittedSettlementBody: the body a commitment's lock commits reads. *)
IsCommitmentSource(c) == Len(c.body.entries) <= MaxTlcs

(* isPreviousRemoteCommitment: the one right below the last. *)
IsPreviousRemoteCommitment(rec) ==
    rec.previous # None =>
        /\ rec.remote # None /\ rec.remote.number = rec.previous.number + 1
        /\ IsCommitmentSource(rec.previous)

(* readCommitmentLockCell, of a remainder. *)
LocksRemainder(lock) == lock[1] = "commitment" /\ lock[4]

(* The record's own guard over the list (validate.utils.ts): one spend per *)
(* request and per unlock, of a view that signed, whose purpose fits its   *)
(* unlock, leaving a remainder's lock, and signed before it is applied.    *)
IsSpend(rec, s) ==
    /\ (IF s.view = "remote" THEN rec.remote ELSE rec.local) # None
    /\ (s.entry = None) = (s.purpose[1] = "settlement")
    /\ s.remainder # None => LocksRemainder(s.remainder)
    /\ s.applied => s.signature # Unsigned

IsSpendList(rec) ==
    /\ IsPreviousRemoteCommitment(rec)
    /\ \A c \in {rec.remote, rec.local} : c # None => IsCommitmentSource(c)
    /\ Cardinality(rec.spends) <= 3 * (MaxTlcs + 1)
    /\ \A s \in rec.spends : IsSpend(rec, s)
    /\ \A s, t \in rec.spends : s # t => s.request # t.request /\ ~SameUnlock(s, t)

=============================================================================
