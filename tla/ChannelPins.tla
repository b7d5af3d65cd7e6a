----------------------------- MODULE ChannelPins -----------------------------
(***************************************************************************)
(* What a channel is held to: the reserves (policy/channel-opening.ts), the*)
(* check of the node's answer to an opening (opening-check.utils.ts), the  *)
(* values pinned and how a statement meets them (channel-pins.ts), and what*)
(* an operation may take from the funding cell (capacity-bounds.ts).       *)
(*                                                                         *)
(* Keys, scripts and transactions are values that are only compared; of a  *)
(* script the length of its args counts, which sizes the reserve.          *)
(***************************************************************************)
EXTENDS Integers, FiniteSets, FiniteSetsExt

CONSTANTS
    None,            \* a value not pinned, no record, no opening
    LockArgs,        \* COMMITMENT_LOCK_ARGS_LENGTHS: the length per layout
    Occupied,        \* the rest of a cell, and RESERVED_SHUTDOWN_FEE_SHANNONS
    MaxCapacity,     \* UINT64_MAX
    MockTx,          \* the size of a mock tx, but for its scripts' args
    FeeScale,        \* FEE_RATE_WEIGHT_SCALE
    MaxFee           \* MAX_COMMITMENT_FEE_SHANNONS

ASSUME PinsAssumption ==
    /\ LockArgs \in [{"legacy", "fullPaymentHash"} -> Nat]
    /\ LockArgs["legacy"] <= LockArgs["fullPaymentHash"]
    /\ MockTx \in Nat /\ FeeScale \in Nat \ {0}
    /\ Occupied \in Nat /\ MaxCapacity \in Nat /\ MaxFee \in Nat
    /\ Occupied + LockArgs["fullPaymentHash"] <= MaxCapacity
    /\ None \notin Nat

Layouts == {"legacy", "fullPaymentHash"}

(* reservedCkbShannons, in units of a byte. *)
Reserve(script, layout) == Occupied + Max({script.args, LockArgs[layout]})

(* Fees are sized over a mock tx, of which only the args of its locks vary:*)
(* the commitment lock's by its layout, a close's by the scripts it pays.  *)
CommitmentTxSize(layout) == MockTx + LockArgs[layout]

ShutdownTxSize(mine, theirs) == MockTx + mine.args + theirs.args

(* calculateTxFee: truncated. *)
TxFee(rate, size) == (rate * size) \div FeeScale

CommitmentTxFee(input) == TxFee(input.commitmentFeeRate, CommitmentTxSize(input.lockLayout))

ShutdownTxFee(rate, mine, theirs) == TxFee(rate, ShutdownTxSize(mine, theirs))

(* assertChannelOpening: what some node could open. *)
MayOpen(asked) ==
    asked.funded < MaxCapacity /\ asked.funded >= Reserve(asked.script, "legacy")

-----------------------------------------------------------------------------
(* checkTenantOpening.  An answer names a channel by a peer key, and states *)
(* the peer's keys, the amounts, reserves and terms, and the funding tx:   *)
(* its hash, the capacity of its funding output, and whether that output is*)
(* the channel's (no type, no data, the lock over the two funding keys).   *)

(* A mutant of FitReserves: each reserve under a layout of its own. *)
FitReservesApart(asked, answer) ==
    /\ \E l \in Layouts : Reserve(asked.script, l) = answer.localReserve
    /\ \E l \in Layouts : Reserve(answer.script, l) = answer.remoteReserve

(* checkOpeningReserves: both are fiber's, under one layout. *)
FitReserves(asked, answer) ==
    \E l \in Layouts : /\ Reserve(asked.script, l) = answer.localReserve
                       /\ Reserve(answer.script, l) = answer.remoteReserve

(* checkFundingOutput *)
FitFundingOutput(answer) ==
    /\ answer.outputFits
    /\ answer.local + answer.remote <= MaxCapacity
    /\ answer.capacity = answer.local + answer.remote

CheckTenantOpening(asked, answer) ==
    /\ answer.names = answer.key
    /\ answer.delay = asked.delay /\ answer.rate = asked.rate
    /\ answer.local = asked.funded
    /\ FitReserves(asked, answer)
    /\ answer.local >= answer.localReserve /\ answer.remote >= answer.remoteReserve
    /\ FitFundingOutput(answer)

-----------------------------------------------------------------------------
(* FIRST_SIGHT_CHANNEL_PINS, CHANNEL_TERMS_PINS, HOST_TERMS_PINS *)
FirstSight == {"fundingOutPoint", "fundingCapacity", "remoteKeys", "commitmentDelayEpoch", "lockLayout"}

Terms == {"liquidCapacity", "commitmentFeeRate", "remoteReserved", "remoteCloseScript"}

HostTerms == Terms \cup {"remoteKeys", "commitmentDelayEpoch"}

PinNames == FirstSight \cup Terms

NoPins == [f \in PinNames |-> None]

(* PIN_FORMS *)
PinForms ==
    LET uint64 == 0 .. MaxCapacity
    IN  [f \in {"fundingCapacity", "commitmentDelayEpoch", "commitmentFeeRate", "remoteReserved"} |-> uint64]

(* isReserveByLayout *)
ReservesByLayout(script) == \A l \in Layouts : Reserve(script, l) <= MaxCapacity

(* isChannelPins: a record that fails it is not read again. *)
IsChannelPins(asked, pins) ==
    /\ asked.funded <= MaxCapacity /\ ReservesByLayout(asked.script)
    /\ DOMAIN pins = PinNames
    /\ \A f \in DOMAIN PinForms : pins[f] # None => pins[f] \in PinForms[f]
    /\ pins["liquidCapacity"] # None => pins["liquidCapacity"] \in Nat
    /\ pins["lockLayout"] # None => pins["lockLayout"] \in Layouts

(* A statement is a function on some of the pins, and perhaps on what is   *)
(* fixed from registration: the device's close script, and its reserve     *)
(* under each layout.                                                      *)

(* fundingCellPins *)
CellPins(answer) ==
    [f \in {"fundingOutPoint", "fundingCapacity"} |->
        IF f = "fundingOutPoint" THEN answer.tx ELSE answer.capacity]

(* channelTermsPins over what checkTenantOpening read. *)
TermsPins(answer) ==
    [liquidCapacity       |-> answer.capacity - answer.localReserve - answer.remoteReserve,
     commitmentFeeRate    |-> answer.rate,
     remoteReserved       |-> answer.remoteReserve,
     remoteCloseScript    |-> answer.script,
     remoteKeys           |-> answer.key,
     commitmentDelayEpoch |-> answer.delay]

(* What each operation states of its input, statedChannelPins.  (It also   *)
(* states the asset, pinned to CKB from registration.)                     *)
StatedBy(operation) ==
    LET funding == {"lockLayout", "liquidCapacity", "fundingCapacity", "localReserved",
                    "remoteReserved", "remoteKeys", "commitmentDelayEpoch", "commitmentFeeRate"}
    IN  CASE operation.kind = "commitment_tx" -> funding \cup {"fundingOutPoint"}
          [] operation.kind = "revocation" ->
                funding \cup IF operation.forRemote THEN {"localCloseScript"} ELSE {}
          [] operation.kind = "closing_tx" ->
                {"fundingOutPoint", "remoteKeys", "localCloseScript", "remoteCloseScript"}
          [] operation.kind = "channel_announcement" -> {"fundingOutPoint", "liquidCapacity", "remoteKeys"}

(* fundingCapacityPins: the cell holds the liquid capacity and the reserves.*)
CapacityOf(input) == input.liquidCapacity + input.localReserved + input.remoteReserved

Stated(operation) ==
    LET input == operation.input
    IN  [f \in StatedBy(operation) |-> IF f = "fundingCapacity" THEN CapacityOf(input) ELSE input[f]]

TakesFee(operation) == operation.kind \in {"commitment_tx", "revocation"}

(* What the digests assert of an input before they build on it: the layout *)
(* is one there is, and what is stated a number of its width.              *)
WellFormed(operation) ==
    LET input == operation.input
    IN  /\ operation.kind \in {"commitment_tx", "revocation", "closing_tx", "channel_announcement"}
        /\ \A f \in StatedBy(operation) : Stated(operation)[f] # None
        /\ TakesFee(operation) =>
               /\ input.lockLayout \in Layouts /\ input.liquidCapacity \in Nat
               /\ {input.localReserved, input.remoteReserved, input.commitmentDelayEpoch,
                   input.commitmentFeeRate} \subseteq 0 .. MaxCapacity

(* reserveConflict *)
ReserveConflict(script, stated) == stated["localReserved"] # Reserve(script, stated["lockLayout"])

(* findChannelPinConflict *)
Conflicts(pins, script, stated) ==
    \/ \E f \in DOMAIN stated \cap PinNames : pins[f] # None /\ pins[f] # stated[f]
    \/ "localCloseScript" \in DOMAIN stated /\ stated["localCloseScript"] # script
    \/ "localReserved" \in DOMAIN stated /\ ReserveConflict(script, stated)

(* withChannelPins *)
WithPins(pins, stated, fields) ==
    [f \in PinNames |-> IF pins[f] = None /\ f \in fields \cap DOMAIN stated THEN stated[f] ELSE pins[f]]

(* A mutant of KnownTerms: the node's first statement of a term is taken. *)
TakenTerms(pins, stated) == TRUE

(* pinClaim, "only the host pins one". *)
KnownTerms(pins, stated) == \A f \in Terms \cap DOMAIN stated : pins[f] # None

(* subtractTxFee, without which the digest has no tx: the total is a u64   *)
(* and covers the fee.                                                     *)
CellCovers(operation) ==
    TakesFee(operation) => /\ CapacityOf(operation.input) <= MaxCapacity
                           /\ CommitmentTxFee(operation.input) <= CapacityOf(operation.input)

(* judgeCapacityBounds *)
WithinCapacity(operation) ==
    /\ TakesFee(operation) => CommitmentTxFee(operation.input) <= MaxFee
    /\ operation.kind = "commitment_tx" => operation.paid <= operation.input.liquidCapacity

(* pinClaim, once the digest is built: the operation may be signed under   *)
(* the pins.                                                               *)
Pinnable(pins, script, operation) ==
    /\ WellFormed(operation) /\ CellCovers(operation)
    /\ ~Conflicts(pins, script, Stated(operation))
    /\ KnownTerms(pins, Stated(operation))
    /\ WithinCapacity(operation)

=============================================================================
