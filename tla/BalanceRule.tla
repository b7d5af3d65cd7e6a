----------------------------- MODULE BalanceRule -----------------------------
(***************************************************************************)
(* balance-rule.ts and hold-invoice-release.ts: what a commitment may take *)
(* from the device, and when an invoice's preimage may leave it.           *)
(*                                                                         *)
(* A view lists TLCs as its settlement witness binds them.  Equal TLCs     *)
(* cannot be told apart, so a listing is a bag.  A TLC is a record of its  *)
(* direction, the bound hash (the 20 bytes payment records are filed       *)
(* under), the amount, `own` (it binds no more than the bound hash, or the *)
(* whole hash of the record filed there), `fits` (the algorithm of the     *)
(* invoice under its hash) and its expiry.                                 *)
(***************************************************************************)
EXTENDS Integers, FiniteSets, Bags, FiniteSetsExt, Functions

CONSTANTS
    Hashes,          \* bound payment hashes
    Tlcs,            \* the TLCs a commitment may list
    NoRecord,        \* no intent, or no invoice, under a hash
    MaxExactCharge   \* MAX_EXACT_CHARGE_TLCS: above it every TLC that left is charged

ASSUME RuleAssumption ==
    /\ IsFiniteSet(Hashes) /\ IsFiniteSet(Tlcs)
    /\ \A t \in Tlcs : /\ t.direction \in {"offered", "received"}
                       /\ t.hash \in Hashes
                       /\ t.amount \in Nat \ {0}
                       /\ t.own \in BOOLEAN /\ t.fits \in BOOLEAN
                       /\ t.expiry \in Nat
    /\ MaxExactCharge \in Nat

Views == {"remote", "local"}

OtherView(w) == IF w = "remote" THEN "local" ELSE "remote"

Offered == {t \in Tlcs : t.direction = "offered"}

Received == {t \in Tlcs : t.direction = "received"}

Under(h) == {t \in Tlcs : t.hash = h}

-----------------------------------------------------------------------------
(* What the TLCs of a listing that are in a set add up to. *)
Amount(listing, S) == SumFunction([t \in DOMAIN listing \cap S |-> t.amount * listing[t]])

(* The choices of some of a listing's TLCs: copies of each, up to those it *)
(* shows.                                                                  *)
ChoicesOf(listing) ==
    {b \in UNION {[S -> 1..BagCardinality(listing)] : S \in SUBSET DOMAIN listing} : b \sqsubseteq listing}

(* holdings: what the device holds if every offered TLC comes back. *)
Holdings(exposure, listing) == exposure + Amount(listing, Offered)

(* drawnBy: the offered TLCs a view shows under a hash, and what it charged. *)
Drawn(view, h) == Amount(view.tlcs, Offered \cap Under(h)) + view.charged[h]

(* The node may broadcast either commitment: a channel counts at its worst. *)
DrawnByChannel(views, h) == Max({Drawn(views[w], h) : w \in Views})

CreditedByChannel(views, h) == Min({views[w].credited[h] : w \in Views})

(* openingSnapshot *)
OpeningSnapshot(funded) ==
    [exposure |-> funded, tlcs |-> EmptyBag,
     charged |-> [h \in Hashes |-> 0], credited |-> [h \in Hashes |-> 0]]

-----------------------------------------------------------------------------
(* A context holds the intents and the invoices under every hash, and both *)
(* views of the other channels those list.                                 *)

(* isTlcOfPaymentRecord, listHoldInvoiceTlcs: the TLCs of the record filed *)
(* under a hash, and no twin's.                                            *)
ListedUnder(h) == {t \in Under(h) : t.own}

(* invoiceOf: the received TLCs of an invoice. *)
HeldUnder(h) == Received \cap ListedUnder(h)

ReleasedHeld(ctx) ==
    UNION {HeldUnder(h) : h \in {g \in Hashes : ctx.invoices[g] # NoRecord /\ ctx.invoices[g].released}}

UnderInvoice(ctx) == UNION {HeldUnder(h) : h \in {g \in Hashes : ctx.invoices[g] # NoRecord}}

(* creditedAcross: what an invoice is surely paid, this view's credit and  *)
(* each other channel's at its less paid view.                             *)
CreditedAcross(view, ctx, h) ==
    view.credited[h] + SumFunction([c \in DOMAIN ctx.others |-> CreditedByChannel(ctx.others[c], h)])

(* What a view owes the device under a hash for the held TLCs that left it:*)
(* their amount, up to what the released invoice still lacks.              *)
Credit(view, left, ctx, h) ==
    IF ctx.invoices[h] = NoRecord \/ ~ctx.invoices[h].released THEN 0
    ELSE Min({Amount(left, HeldUnder(h)),
              Max({ctx.invoices[h].amount - CreditedAcross(view, ctx, h), 0})})

TotalCredit(view, left, ctx) == SumFunction([h \in Hashes |-> Credit(view, left, ctx, h)])

(* What received TLCs that left may have raised the holdings by, unasked:  *)
(* those of no invoice, and what a released one is not owed.  An unreleased*)
(* held TLC can only have failed.                                          *)
Uncredited(view, left, ctx) ==
    Amount(left, (Received \ UnderInvoice(ctx)) \cup ReleasedHeld(ctx)) - TotalCredit(view, left, ctx)

(* chargedTlcs: the offered TLCs that left and could have taken the fall.  *)
(* Any set of them that adds up to at least the fall, and at most the fall *)
(* and what came in unasked, may be what was paid.                         *)
ChargedTlcs(left, shortfall, uncredited) ==
    LET offered == [t \in DOMAIN left \cap Offered |-> left[t]]
        fitting == {b \in ChoicesOf(offered) : /\ Amount(b, Offered) >= shortfall
                                               /\ Amount(b, Offered) <= shortfall + uncredited}
    IN  CASE shortfall + uncredited <= 0 -> EmptyBag
          [] shortfall + uncredited > 0 /\ BagCardinality(offered) > MaxExactCharge -> offered
          [] OTHER -> [t \in {u \in DOMAIN offered : \E b \in fitting : u \in DOMAIN b} |-> offered[t]]

(* A mutant of Shortfall: the credit owed is not asked for. *)
ShortfallWithoutCredit(view, next, left, ctx) ==
    Holdings(view.exposure, view.tlcs) - Holdings(next.exposure, next.tlcs)

(* What the holdings fell by, past the credit owed. *)
Shortfall(view, next, left, ctx) ==
    Holdings(view.exposure, view.tlcs) + TotalCredit(view, left, ctx) - Holdings(next.exposure, next.tlcs)

(* The view's snapshot once the commitment is signed. *)
NextSnapshot(view, next, ctx) ==
    LET left == view.tlcs (-) next.tlcs
        paid == ChargedTlcs(left, Shortfall(view, next, left, ctx), Uncredited(view, left, ctx))
    IN  [exposure |-> next.exposure,
         tlcs     |-> next.tlcs,
         charged  |-> [h \in Hashes |-> view.charged[h] + Amount(paid, Under(h))],
         credited |-> [h \in Hashes |-> view.credited[h] + Credit(view, left, ctx, h)]]

-----------------------------------------------------------------------------
(* The refusals of judgeCommitment, in its order. *)

(* A twin of a payment's hash draws on no budget. *)
NoTwinOffered(next, ctx) ==
    \A t \in DOMAIN next.tlcs \cap Offered : ctx.intents[t.hash] # NoRecord => t.own

(* A fall in holdings is one that offered TLCs that left can have taken. *)
FallAccounted(view, next, ctx) ==
    LET left == view.tlcs (-) next.tlcs
        fall == Shortfall(view, next, left, ctx)
    IN  /\ Amount(left, Offered) >= fall
        /\ fall > 0 => ChargedTlcs(left, fall, Uncredited(view, left, ctx)) # EmptyBag

(* A mutant of WithinBudget: a closed intent still approves. *)
WithinAnyBudget(views, w, next, ctx) ==
    \A h \in {t.hash : t \in DOMAIN next.tlcs \cap Offered} :
        LET here == Drawn(NextSnapshot(views[w], next, ctx), h)
            there == SumFunction([c \in DOMAIN ctx.others |-> DrawnByChannel(ctx.others[c], h)])
        IN  here > DrawnByChannel(views, h) =>
                /\ ctx.intents[h] # NoRecord
                /\ here + there <= ctx.intents[h].max

(* Whatever draws more, in this channel, is under an open intent and with  *)
(* the other channels within its budget.                                   *)
WithinBudget(views, w, next, ctx) ==
    \A h \in {t.hash : t \in DOMAIN next.tlcs \cap Offered} :
        LET here == Drawn(NextSnapshot(views[w], next, ctx), h)
            there == SumFunction([c \in DOMAIN ctx.others |-> DrawnByChannel(ctx.others[c], h)])
        IN  here > DrawnByChannel(views, h) =>
                /\ ctx.intents[h] # NoRecord
                /\ ctx.intents[h].open
                /\ here + there <= ctx.intents[h].max

(* mixesReleasedHeld, "both": offered TLCs beside released held ones. *)
Mixes(tlcs, ctx) == tlcs \cap Offered # {} /\ tlcs \cap ReleasedHeld(ctx) # {}

(* A mutant of NoNewMix: the other view is not looked at. *)
NoMixInView(views, w, next, ctx) ==
    Mixes(DOMAIN next.tlcs, ctx) => Mixes(DOMAIN views[w].tlcs, ctx)

(* A channel that shows both kinds, in its two views together, only shrinks.*)
NoNewMix(views, w, next, ctx) ==
    LET other == DOMAIN views[OtherView(w)].tlcs
        added == DOMAIN (next.tlcs (-) views[w].tlcs)
    IN  Mixes(DOMAIN next.tlcs \cup other, ctx) =>
            /\ Mixes(DOMAIN views[w].tlcs \cup other, ctx)
            /\ added \cap (Offered \cup ReleasedHeld(ctx)) = {}

(* No TLC is added that the released preimage does not open. *)
AddsFit(view, next, ctx) ==
    \A t \in DOMAIN (next.tlcs (-) view.tlcs) \cap ReleasedHeld(ctx) : t.fits

(* judgeCommitment *)
JudgeCommitment(views, w, next, ctx) ==
    /\ NoTwinOffered(next, ctx)
    /\ FallAccounted(views[w], next, ctx)
    /\ WithinBudget(views, w, next, ctx)
    /\ NoNewMix(views, w, next, ctx)
    /\ AddsFit(views[w], next, ctx)

(* judgeOpeningCommitment *)
JudgeOpening(funded, next) == next.tlcs = EmptyBag /\ next.exposure = funded

(* A mutant of JudgeClosing: only the peer's commitment is asked. *)
JudgeClosingByRemote(views, capacity, fee) ==
    views["remote"].tlcs = EmptyBag /\ capacity + fee >= views["remote"].exposure

(* judgeClosingTx: a close pays what each view last showed, but for a fee. *)
JudgeClosing(views, capacity, fee) ==
    \A w \in Views : views[w].tlcs = EmptyBag /\ capacity + fee >= views[w].exposure

-----------------------------------------------------------------------------
(* A mutant of HeldByChannel: a channel counts at the view holding more. *)
HeldAtBest(views, h) == Max({Amount(views[w].tlcs, ListedUnder(h)) : w \in Views})

(* What a channel holds under an invoice at the view holding less. *)
HeldByChannel(views, h) == Min({Amount(views[w].tlcs, ListedUnder(h)) : w \in Views})

(* judgeHoldInvoiceRelease: the channels the invoice lists hold all of it, *)
(* beside no offered TLC, under its algorithm, and for long enough.        *)
JudgeRelease(h, amount, channels, deadline) ==
    LET shown(c) == UNION {DOMAIN channels[c][w].tlcs : w \in Views}
    IN  /\ \A c \in DOMAIN channels : shown(c) \cap ListedUnder(h) # {} =>
              /\ shown(c) \cap Offered = {}
              /\ \A t \in shown(c) \cap ListedUnder(h) : t.fits /\ t.expiry > deadline
        /\ SumFunction([c \in DOMAIN channels |-> HeldByChannel(channels[c], h)]) >= amount

=============================================================================
