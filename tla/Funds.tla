-------------------------------- MODULE Funds --------------------------------
(***************************************************************************)
(* The device's money across its channels: the debit intents, the hold     *)
(* invoices and the two views of every channel, as policy-engine.ts moves  *)
(* them under the rule of BalanceRule.                                     *)
(*                                                                         *)
(* Every operation here runs in the balance lane, which SignerStore gives  *)
(* to one at a time, so each is one step, and one that stops half way is a *)
(* step of its own.  The node asks for any commitment, in either view of   *)
(* any channel, in any order: slots and versions (ChannelRecord) refuse    *)
(* some of what is possible here.                                          *)
(***************************************************************************)
EXTENDS BalanceRule

CONSTANTS
    Channels,       \* channel indexes of the device
    Funded,         \* what the user paid into each channel
    ShutdownFee,    \* MAX_SHUTDOWN_FEE_SHANNONS
    Margin,         \* the release margin
    Bounds          \* the bounds of the behaviours, by name: the hashes in use, the
                    \* number of channels, what the node's commitments state (exposure
                    \* and TLCs), the maxima the user approves (budgets), the amounts
                    \* of hold invoices (prices), what the closes the node asks for
                    \* pay the device (payouts), and the clock (time)

(* DebitIntentRecord, HoldInvoicePolicyRecord *)
DebitIntents == [max : Nat, open : BOOLEAN, channels : SUBSET Channels]

HoldInvoices == [amount : Nat \ {0}, released : BOOLEAN, channels : SUBSET Channels]

ASSUME FundsAssumption ==
    /\ IsFiniteSet(Channels)
    /\ NoRecord \notin DebitIntents \cup HoldInvoices
    /\ Funded \in Nat /\ ShutdownFee \in Nat /\ Margin \in Nat
    /\ \A b \in Range(Bounds) :
          /\ b.hashes \subseteq Hashes /\ b.channels \in Nat /\ b.time \in Nat
          /\ b.budgets \subseteq Nat /\ b.prices \subseteq Nat \ {0} /\ b.payouts \subseteq Nat
          /\ \A next \in b.commitments : next.exposure \in Nat /\ IsABag(next.tlcs) /\ BagToSet(next.tlcs) \subseteq Tlcs

VARIABLES
    views,          \* per channel and view: the snapshot of the last signed commitment
    opened,         \* per channel: whether anything was signed on COMMITMENT:local
    intents,        \* per hash: the debit intent, or NoRecord
    invoices,       \* per hash: the hold invoice, or NoRecord
    now,            \* the host's clock
    approved,       \* history, per hash: the highest budget the user ever approved
    payout,         \* history, per channel: what the last signed close pays, or -1
    bound           \* the name of the behaviour's bounds

vars == <<views, opened, intents, invoices, now, approved, payout, bound>>

Init ==
    /\ views = [c \in Channels |-> [w \in Views |-> OpeningSnapshot(Funded)]]
    /\ opened = [c \in Channels |-> FALSE]
    /\ intents = [h \in Hashes |-> NoRecord]
    /\ invoices = [h \in Hashes |-> NoRecord]
    /\ now = 0
    /\ approved = [h \in Hashes |-> 0]
    /\ payout = [c \in Channels |-> -1]
    /\ bound \in DOMAIN Bounds

Bound == Bounds[bound]

-----------------------------------------------------------------------------
HashesOf(listing) == {t.hash : t \in BagToSet(listing)}

ListedChannels(record) == IF record = NoRecord THEN {} ELSE record.channels

(* chargedAnywhere: some view of some channel listed holds a charge. *)
ChargedAnywhere(h) ==
    \E c \in ListedChannels(intents[h]), w \in Views : views[c][w].charged[h] > 0

(* recordDebitIntent: refused for an invoice's hash, while an intent is    *)
(* open, and once one was charged.                                         *)
RecordDebitIntent(h, max) ==
    /\ invoices[h] = NoRecord
    /\ intents[h] # NoRecord => ~intents[h].open /\ ~ChargedAnywhere(h)
    /\ intents' = [intents EXCEPT ![h] =
           [max |-> max, open |-> TRUE, channels |-> ListedChannels(intents[h])]]
    /\ approved' = [approved EXCEPT ![h] = Max({@, max})]
    /\ UNCHANGED <<views, opened, invoices, now, payout, bound>>

(* closeDebitIntent *)
CloseDebitIntent(h) ==
    /\ intents[h] # NoRecord
    /\ intents' = [intents EXCEPT ![h].open = FALSE]
    /\ UNCHANGED <<views, opened, invoices, now, approved, payout, bound>>

(* createSdkInvoice: an invoice is recorded under the hash of a preimage    *)
(* just derived, before the node hears of it, so no commitment shows it.   *)
Unheard(h) == \A c \in Channels, w \in Views : h \notin HashesOf(views[c][w].tlcs)

(* recordHoldInvoice: refused for a payment's hash; a repeat changes nothing.*)
RecordHoldInvoice(h, amount) ==
    /\ Unheard(h)
    /\ intents[h] = NoRecord /\ invoices[h] = NoRecord
    /\ invoices' = [invoices EXCEPT ![h] = [amount |-> amount, released |-> FALSE, channels |-> {}]]
    /\ UNCHANGED <<views, opened, intents, now, approved, payout, bound>>

(* markHoldInvoiceReleased *)
MarkHoldInvoiceReleased(h) ==
    /\ invoices[h] # NoRecord /\ ~invoices[h].released
    /\ JudgeRelease(h, invoices[h].amount, [c \in invoices[h].channels |-> views[c]], now + Margin)
    /\ invoices' = [invoices EXCEPT ![h].released = TRUE]
    /\ UNCHANGED <<views, opened, intents, now, approved, payout, bound>>

-----------------------------------------------------------------------------
(* loadBalanceContext: the records under every hash the commitment or      *)
(* either view lists, and the other channels those records list.           *)
Context(c, next) ==
    LET hashes == HashesOf(next.tlcs) \cup UNION {HashesOf(views[c][w].tlcs) : w \in Views}
        listed == UNION {ListedChannels(intents[h]) \cup ListedChannels(invoices[h]) : h \in hashes}
    IN  [intents |-> intents, invoices |-> invoices,
         others  |-> [d \in listed \ {c} |-> views[d]]]

(* applyBalanceRule, for a commitment. *)
Acceptable(c, w, next) ==
    /\ ~opened[c] => JudgeOpening(Funded, next)
    /\ JudgeCommitment(views[c], w, next, Context(c, next))

(* withChannel *)
WithChannel(records, H, c) ==
    [h \in Hashes |-> IF h \in H /\ records[h] # NoRecord
                      THEN [records[h] EXCEPT !.channels = @ \cup {c}] ELSE records[h]]

(* A mutant of FileChannel: only the invoices list the channel. *)
FileOnInvoices(c, H) ==
    /\ UNCHANGED intents
    /\ invoices' = WithChannel(invoices, H, c)

(* fileChannel: lists the channel on the records of some hashes. *)
FileChannel(c, H) ==
    /\ intents' = WithChannel(intents, H, c)
    /\ invoices' = WithChannel(invoices, H, c)

(* claim: the view's snapshot is written. *)
Claim(c, w, next) ==
    /\ FileChannel(c, HashesOf(next.tlcs))
    /\ views' = [views EXCEPT ![c][w] = NextSnapshot(@, next, Context(c, next))]
    /\ opened' = [opened EXCEPT ![c] = TRUE]

(* A write fails or the process dies before the claim is written: the      *)
(* channel is filed on some of the hashes.                                 *)
StopBeforeClaim(c, next) ==
    /\ \E H \in SUBSET HashesOf(next.tlcs) : FileChannel(c, H)
    /\ UNCHANGED <<views, opened>>

(* checkAndClaim of a commitment: judged, the channel filed on all the     *)
(* hashes it shows, then claimed.                                          *)
SignCommitment(c, w, next) ==
    /\ Acceptable(c, w, next)
    /\ Claim(c, w, next) \/ StopBeforeClaim(c, next)
    /\ UNCHANGED <<now, approved, payout, bound>>

(* checkAndClaim of a cooperative close, which claims the same lane. *)
SignClose(c, capacity) ==
    /\ JudgeClosing(views[c], capacity, ShutdownFee)
    /\ opened' = [opened EXCEPT ![c] = TRUE]
    /\ payout' = [payout EXCEPT ![c] = capacity]
    /\ UNCHANGED <<views, intents, invoices, now, approved, bound>>

Tick ==
    /\ now < Bound.time
    /\ now' = now + 1
    /\ UNCHANGED <<views, opened, intents, invoices, approved, payout, bound>>

(* The channels in use, and those that may be. *)
Used == {c \in Channels : opened[c] \/ \E h \in Hashes : c \in ListedChannels(intents[h]) \cup ListedChannels(invoices[h])}

Usable == IF Cardinality(Used) < Bound.channels THEN Channels ELSE Used

Next ==
    \/ \E h \in Bound.hashes : \/ \E max \in Bound.budgets : RecordDebitIntent(h, max)
                               \/ CloseDebitIntent(h)
                               \/ \E amount \in Bound.prices : RecordHoldInvoice(h, amount)
                               \/ MarkHoldInvoiceReleased(h)
    \/ \E c \in Usable : \/ \E w \in Views, next \in Bound.commitments : SignCommitment(c, w, next)
                         \/ \E capacity \in Bound.payouts : SignClose(c, capacity)
    \/ Tick

Spec == Init /\ [][Next]_vars

-----------------------------------------------------------------------------
(* What all channels together draw under a hash, each at its worst view. *)
DrawnAnywhere(h) == SumFunction([c \in Channels |-> DrawnByChannel(views[c], h)])

(* judgeCommitment, fileChannel, recordDebitIntent: whichever commitment   *)
(* of each channel reaches the chain, the payment under a hash takes no    *)
(* more than the user approved for it, although channels judge one by one, *)
(* views lag each other, and an intent may be closed and approved again.   *)
BudgetHolds == \A h \in Hashes : DrawnAnywhere(h) <= approved[h]

(* chargedTlcs, holdings: in each view the device has what it paid in and  *)
(* was credited, but for what is charged to payments it approved.          *)
FallsAreCharged ==
    \A c \in Channels, w \in Views :
        Holdings(views[c][w].exposure, views[c][w].tlcs) + SumFunction(views[c][w].charged)
            >= Funded + SumFunction(views[c][w].credited)

(* What a channel surely pays under an invoice: what its less paid view has *)
(* credited, and holds in TLCs the invoice's preimage opens.               *)
Secured(channel, h) ==
    Min({Amount(channel[w].tlcs, {t \in HeldUnder(h) : t.fits}) + channel[w].credited[h] : w \in Views})

(* judgeHoldInvoiceRelease, creditedAcross: once an invoice's preimage is  *)
(* released, whichever commitment of each channel reaches the chain, they  *)
(* hold or have credited the invoice's whole amount.                       *)
ReleasedIsPaid ==
    \A h \in Hashes :
        (invoices[h] # NoRecord /\ invoices[h].released) =>
            SumFunction([c \in Channels |-> Secured(views[c], h)]) >= invoices[h].amount

(* judgeHoldInvoiceRelease, mixesReleasedHeld: no channel shows, in its two*)
(* views, an offered TLC beside a held one whose preimage is out.          *)
NeverMixed ==
    \A c \in Channels :
        ~Mixes(UNION {BagToSet(views[c][w].tlcs) : w \in Views}, [invoices |-> invoices])

(* closeDebitIntent: while no intent is open under a hash, no step draws   *)
(* more under it in any channel; what is already shown stays signable.     *)
ClosedDrawsNoMore ==
    [][ \A c \in Channels : views'[c] # views[c] =>
            \A h \in Hashes : (intents[h] = NoRecord \/ ~intents[h].open) =>
                DrawnByChannel(views'[c], h) <= DrawnByChannel(views[c], h) ]_vars

(* judgeClosingTx: a close pays what the device paid in and was credited,  *)
(* but for the charges of each view and the fee its reserve keeps.         *)
ClosePaysDue ==
    [][ \A c \in Channels, w \in Views :
            payout'[c] # payout[c] =>
                payout'[c] + ShutdownFee + SumFunction(views[c][w].charged)
                    >= Funded + SumFunction(views[c][w].credited) ]_vars

=============================================================================
