----------------------------- MODULE Settlement -----------------------------
(***************************************************************************)
(* The settlement body a commitment cell's lock args commit: its TLC       *)
(* entries and the two balances (digest/settlement-witness.ts), what the   *)
(* node's snapshot must satisfy to become one (settlement-input.ts), and   *)
(* what an unlock of it reads and leaves (settlement-unlock.ts).           *)
(*                                                                         *)
(* A body lists every pair, of keys and of balances, from the side of the  *)
(* party whose commitment it is, so a remote view swaps each pair and flips*)
(* each TLC's bit.  Key hashes are tuples; the zeroed one is empty.  An    *)
(* entry's `hash` stands for all else it binds: the payment hash cut to its*)
(* layout's length, the algorithm and the expiry in seconds.               *)
(***************************************************************************)
EXTENDS Integers, SequencesExt

CONSTANTS
    MaxTlcs,      \* MAX_SETTLEMENT_TLCS
    Reserves,     \* [local, remote]: the reserves, which both amounts include
    Liquid,       \* the channel's liquid capacity
    CommitmentFee

ASSUME SettlementAssumption ==
    /\ MaxTlcs \in Nat /\ Reserves \in [{"local", "remote"} -> Nat]
    /\ Liquid \in Nat /\ CommitmentFee \in 0 .. Liquid

Directions == {"offered", "received"}

Zero == <<>>

BaseKey == <<"base">>

PeerKey == <<"peer">>

(* deriveTlcKey: one key per commitment number. *)
TlcKey(n) == <<"tlc", n>>

(* deviceSettlementIndex, counted from 1. *)
DeviceIndex(forRemote) == IF forRemote THEN 2 ELSE 1

PeerIndex(forRemote) == 3 - DeviceIndex(forRemote)

Pair(forRemote, mine, theirs) == IF forRemote THEN <<theirs, mine>> ELSE <<mine, theirs>>

(* settlementToCommitmentInput: the snapshot is of this channel's keys and *)
(* each amount includes its reserve, which the input takes out and the     *)
(* commitment adds back.                                                   *)
SettlementFits(s) ==
    /\ s.localKey = BaseKey
    /\ Cardinality(s.tlcs) <= MaxTlcs
    /\ s.local >= Reserves.local /\ s.remote >= Reserves.remote
    /\ \A t \in s.tlcs : t.key = TlcKey(t.number)

(* decodeSettlement, decodeSettlementTlc: what is read as a snapshot.  An  *)
(* `id` stands for fiber's and, among equal ones, for the place in the list*)
(* (the sort by id is stable), so no two TLCs of a direction share it.     *)
IsSnapshot(s) ==
    /\ s = [local |-> s.local, remote |-> s.remote, localKey |-> s.localKey, tlcs |-> s.tlcs]
    /\ s.local \in Nat /\ s.remote \in Nat
    /\ IsFiniteSet(s.tlcs)
    /\ \A t \in s.tlcs : t.direction \in Directions /\ t.id \in Nat /\ t.amount \in Nat
    /\ \A t, u \in s.tlcs : t.direction = u.direction /\ t.id = u.id => t = u

(* By id. *)
Ascending(tlcs) ==
    [i \in 1 .. Cardinality(tlcs) |-> CHOOSE t \in tlcs : Cardinality({u \in tlcs : u.id < t.id}) = i - 1]

(* orderTlcs: two direction groups, each ascending by id. *)
OrderTlcs(tlcs, forRemote) ==
    LET first == {t \in tlcs : t.direction = IF forRemote THEN "received" ELSE "offered"}
    IN  Ascending(first) \o Ascending(tlcs \ first)

(* buildTlcRecord *)
TlcEntry(t, forRemote) ==
    [bit    |-> IF (t.direction = "offered") = forRemote THEN 0 ELSE 1,
     amount |-> t.amount,
     hash   |-> t.hash,
     keys   |-> Pair(forRemote, TlcKey(t.number), t.remote)]

Balance(key, amount) == [key |-> key, amount |-> amount]

Settled == Balance(Zero, 0)

(* buildSettlementWitness *)
SettlementBody(s, forRemote) ==
    LET tlcs == OrderTlcs(s.tlcs, forRemote)
    IN  [entries  |-> [i \in DOMAIN tlcs |-> TlcEntry(tlcs[i], forRemote)],
         balances |-> Pair(forRemote, Balance(BaseKey, s.local), Balance(PeerKey, s.remote))]

(* commitmentCellValue, of a CKB channel: the reserves are in the cell. *)
CellCapacity == Liquid + Reserves.local + Reserves.remote - CommitmentFee

(* buildCommitmentTxAndSettlement: the cell of a commitment, whose lock has*)
(* the version and the body in its args.                                   *)
CommitmentCell(s, forRemote, number) ==
    [number |-> number, body |-> SettlementBody(s, forRemote), capacity |-> CellCapacity]

-----------------------------------------------------------------------------
(* readSettlementUnlock: the unlock names a TLC of the body or a balance,  *)
(* and only a TLC's may carry a preimage.                                  *)
UnlockReads(u) ==
    /\ Len(u.body.entries) <= MaxTlcs
    /\ u.target.kind = "tlc" => u.target.index \in DOMAIN u.body.entries
    /\ u.target.kind = "balance" => u.target.index \in {1, 2} /\ ~u.preimage

(* readSettlementTlcEntry: a clear bit is offered in a remote view and     *)
(* received in a local one.                                                *)
DirectionOf(e, forRemote) == IF (e.bit = 0) = forRemote THEN "offered" ELSE "received"

DeviceKeyOf(e, forRemote) == e.keys[DeviceIndex(forRemote)]

(* nextSettlementWitness: the unlocked TLC dropped, or the device's        *)
(* balance settled.                                                        *)
NextBody(u, forRemote) ==
    IF u.target.kind = "tlc"
    THEN [u.body EXCEPT !.entries = RemoveAt(@, u.target.index)]
    ELSE [u.body EXCEPT !.balances[DeviceIndex(forRemote)] = Settled]

(* The lock of a commitment cell, or of the remainder a settlement leaves: *)
(* its first args are the view's aggregated key and the version (`name`),  *)
(* then come the body's hash and the flag.                                 *)
CommitmentLock(name, body, remainder) == <<"commitment", name, body, remainder>>

=============================================================================
