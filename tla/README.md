# Verification of the Fiber LSP SDK

TLA+ models of the SDK in `src/src`: the device side of a Lightning-like service
provider for the Fiber network. A device holds keys and signs; an LSP's node runs the
channels and asks the device for signatures over JSON-RPC. The node is not trusted. What
protects the user is what the device refuses to sign, and what it remembers across crashes.

Contents: the system's parts, the hazards, which module models what, what every run and
every proof shows, bounds, fairness, what is left out, and the plan.

## 1. The system

TypeScript on one event loop: no threads, but every `await` is a point where other
coroutines run, a call may hang (the default `fetch` has no timeout), storage may fail, and
the process may die. Persistent state is a host-provided key-value storage.

| Component | State | Operations | Correct when |
|---|---|---|---|
| **Signer store** `policy/signer-store.ts` | storage; `lanes`: per key, the promise of the last queued operation | `get*`/`update*Record`, `claimChannelAlias`, `withBalanceLock` | a record's read-modify-writes are atomic and in order; a failure or a nested lane blocks nobody |
| **Signing dispatch** `signer/signer-dispatch.ts`, `sdk/signing-step.ts`, `policy/policy-engine.ts` | per channel: signed slots, last per lane, commitments and revocations per view | `handle`/`sign`, `checkAndClaim`, `recordRevocation` | a nonce never signs three sessions (two only in the allowing mode), no version is signed twice, a revoked commitment has a successor, the peer's old commitments are punishable |
| **Balance rule and funds** `policy/balance-rule.ts`, `hold-invoice-release.ts` | per channel and view: the last commitment's snapshot; per hash: debit intent or hold invoice | record/close intent, record/release invoice, judge a commitment or close | no payment takes more than approved, a released invoice is paid, a close pays what is due |
| **Payments** `sdk/payment-sending.ts`, `sdk/payment-step.ts` | watched payments (stored), `sending` and `reading` (memory) | `transfer`, the payment step | no open intent is forgotten; a payment is ended by the read of its own attempt |
| **Hold invoices** `sdk/invoice-creation.ts`, `sdk/invoice-step.ts`, `sdk/allocator.ts` | last index, invoice records, watched invoices | `createInvoice`, the invoice step | no two invoices share a preimage; a preimage that is out is followed to the end; a release is settled |
| **Activity** `sdk/activity.ts` | the record of watched channels, payments, invoices | `watch`, `mark`, `forget` | part of the two above |
| **Poller** `sdk/poller.ts`, `common/timer-slot.ts` | `running`, `ticking`, `again`, generation, step in flight, armed timer | `start`, `stop`, `pollNow`, tick, deadline | exactly one loop; a hung step holds nobody; no poll is lost |
| **Channel opening, device channels, channel step, closing** `sdk/channel-*.ts`, `sdk/pending-opening.ts`, `policy/channel-opening.ts`, `policy/channel-pins.ts` | the pending opening, last index, aliases, pins, watched and listed channels | open, resume, register, pin, submit, follow, close | an index is one channel with one funding cell; whatever was signed agrees with the pins; a channel handed out is followed until it is over; a retried opening succeeds |
| **Watchtower** `policy/watchtower-spend.ts`, `sdk/watchtower-step.ts` | spends per channel | judge, claim, sign, record, submit, mark | the record stays readable; a broadcast commitment is settled and pays the device what it is owed |
| **Invoice codec** `invoice/*.ts`, `common/utils/molecule*.ts` | coder's range and counts | encode, decode | an invoice comes back whole; it has one string; what is read under a key was signed by it |
| **Other pure parts** `derivation`, `digest`, `wire`, `protocol`, `rpc`, `signer/musig2-engine.ts` | none | encode, decode, hash, sign | agree with Fiber (tested against vectors) |

How they interact. The *facade* starts the *poller*, which runs the steps one after the
other: channels, signing, watchtower, invoices, payments. A step past its deadline, or in
flight at `stop()`, is *abandoned*: it is not stopped, it must notice. So runs of one step
overlap, each with what it read before it was abandoned. All steps and host calls write
through the *store*, where the operations on one key queue in a *lane*; what moves money also
queues in the *balance lane*. The signing step hands requests to the *dispatch*, which asks
the *policy engine* to check and claim before it signs. Steps tell the host what happened
through events, emitted before the record that says so is written, hence at least once.

What makes it hard is the list of hazards in `PROJECT.json`, each at its line: chains of
promises that must behave as queues, decisions taken on a record and written later, crashes
between two writes, requests redelivered and reordered, both views of a channel being
publishable, abandoned runs that unwind late, deadlines racing answers.

## 2. Modules

| Module | Models | Composes |
|---|---|---|
| `AtomicStore` | what the store promises: calls that take effect at once, in order of arrival | abstract specification |
| `SignerStore` | `serialize`'s promise chains, records and the balance lane with nested operations, failing storage, crashes | refines `AtomicStore` |
| `ChannelRecord` | the channel's policy record as functions: slots, lanes, versions, `decideClaim`, `nextCommitments`, `recordRevocation` | |
| `SignerDispatch` | overlapping runs that decide, claim, sign and record evidence for a node that asks anything | extends `ChannelRecord`; the lane is that of `SignerStore` |
| `BalanceRule` | `judgeCommitment` and its parts, the judgements of openings, closes and releases, over bags of TLCs | |
| `Funds` | intents, invoices and views of several channels, moved under the rule | extends `BalanceRule` |
| `LaneQueues` | the lanes operations queue in, as `SignerStore` provides them: who is first, and moving on to the next | used by the two flows below |
| `PaymentFlow` | `transfer` and the payment step at every await, in the activity and balance lanes | extends `LaneQueues`; runs as `Poller` starts and abandons them |
| `HoldInvoices` | creation, allocator and invoice step at every await | the same; what a release is judged on is `Funds` |
| `Poller` | the poller and its timer slot | |
| `ChannelPins` | reserves, fees, the check of the node's answer, pins and their conflicts, capacity bounds | |
| `ChannelOpening` | openings at every await, submission, the channel step, closing, the watchtower step's removals, a signing step that pins at first sight | extends `ChannelPins`; store operations are one step (`SignerStore`) |
| `Settlement` | the settlement body: its order by view, how an unlock reads it, what it leaves, the commitment's cell | |
| `WatchtowerSpend` | the rules on a spend, the claim, the guard over the record | extends `Settlement` |
| `Watchtower` | the watchtower step's runs, the record's commitments being replaced, a chain on which both sides settle | extends `WatchtowerSpend` |
| `ArithmeticCoder`, `Molecule` | the adaptive coder and regrouping of bits; tables, vectors, bytes and scripts | |
| `InvoiceCodec` | encoding, and the decoder symbol by symbol over strings some node made | extends both |
| `MC*` | values for TLC | |
| `*Proofs` | theorems | extend their module; `SchedulingProofs` extends `SignerStore` and `Poller`, which share no name |

Correspondence. A variable is a stored record or an in-memory field of the same name; an
action is one operation, or, for a coroutine, what it does between two awaits, named for the
function it is in. `pc` says which await a coroutine is at. Where an operation runs in a lane
the actor queues (`Go`) and acts once it is first (`At`): `SignerStore` shows that this is
what the promise chains do. Each action's guard includes the early returns (`run.abandoned`,
"no longer watched"). `PROJECT.json` maps every definition to its lines.

What is abstracted:

* `SignerStore`: a record is an opaque value and an updater a function on values, one of
  which throws. The shape checks of stored JSON are left out.
* `SignerDispatch`: a request is its transition, slot, version and body; digests, keys and
  partial signatures are the *session* such a request determines. Pins, aliases and
  capacity bounds refuse more than the model does; they are `ChannelOpening`'s.
* `Funds`: the node asks for any commitment of any channel in any order, a superset of
  what slots and versions let through. Each operation is one step, since it runs in the
  balance lane; the one that may stop half way (filing a channel, then claiming) does.
  A TLC is a record with the two questions the rule asks of it: is it the invoice's own
  (not a 20-byte twin), does the invoice's preimage fit its algorithm. An invoice is recorded
  before the node hears its hash (`invoice-creation.ts`), so no commitment shows it by then
  (`Unheard`).
* `PaymentFlow`, `HoldInvoices`: the node answers anything. The checks of arguments and of
  strings before the first await, or right after an answer, are two outcomes of that step.
  In `HoldInvoices` an invoice is its index, as hash and preimage derive from it.
  `PaymentFlow` keeps in `unmarked` whether an abandoned run has cleared the mark of the run
  after it, which is finding 1.
* `ChannelOpening`: a channel is the index of the device's key and the peer's key, from which
  fiber derives its id. Scripts count by the length of their args, which sizes reserves and
  fees. The node answers honestly, or with a lie that costs a fault; what it asks signed is
  any of a set of messages, honest or not, at any time after the alias exists. The balance
  rule, slots and versions of those messages are the other modules'. The history `renamed`
  has the openings a second answer named anew while they were pending. Of these alone a
  channel announced ready may stay pending: two calls of one opening get different answers,
  the later one renames the opening between a run's list and its `clear`, which then finds
  another channel's; the first call names it back, and until that channel closes the next same
  call resumes it instead of opening another (`docs/persistence.md:212`).
* `Watchtower`: a hash is the value it binds, so a transaction's hash is the transaction
  without its witness and a lock's args are the body they commit. The node's request is the
  watchtower's own, whose id is the hash of its transaction (`interop/README.md`), or one for
  any cell it pretends to spend, changed in one respect (`Twists`) or under another's id. A spend lands if it fits the broadcast cell and
  its key is the unlock's; the peer takes what is its own at any time. Of the chain the cell keeps
  what neither side has taken (`left`, with `Taken` in place of a balance that is gone, which is not
  a balance of zero) and, per spend of the device's, what it took and what it paid (`shares`). A
  snapshot is whatever the decoder accepts (`IsSnapshot`); an entry's `id` is its place where
  fiber's ids are equal, as the code's sort is stable.
* `InvoiceCodec`: bytes have 3 bits, bech32 groups 2, the coder's precision is 9, words have
  2 bytes; the code's are 8, 5, 48 and 4. The widths are constants and the operators are the
  code's. A product in f64 next to a whole number may end up on its other side: `slips` chooses,
  for a whole encoding and decoding, whether those at or just above one fall short, and whether those
  just below one reach it. How near is `Accuracy`: at 48 bits a product is off by less than a
  32nd, the runs take a 16th so that their smaller counts have such products. A range that was
  emptied would be widened for ever; `Rescale` has no value there, which would stop a run.
  A string is its parts, its checksum a function of what it covers, a signature a pair of key
  and digest.
* `Poller`: generation and arming counters become "is this tick, timer or run still the
  poller's own", which is all the code asks of them.

## 3. Runs

All runs are exhaustive on their instance. A run with several small instances has a variable
`bound` (or `instance`) that is chosen at the start and never changes: one run asks one
question of one component, over all of them. Times are with two workers.

| Run | Instance | Shows | States |
|---|---|---|---|
| `store` | 2 callers, a nested body each, 2 records, failing storage, crash | implements `AtomicStore`; every call settles | 22 554 |
| `dispatch` | any request at 2 slot numbers, 1 run; the peer's side at 3 slots and a close, redelivered, 2 overlapping runs; both reuse modes | nonces are kept; the record passes its own guard; one commitment per version, revoked behind, the peer's commitments stay punishable; a decision still stands when claimed; evidence lost between claim and record is recorded in the end | 72 084 |
| `funds` | 1 hash paid or credited in parts over 2 channels; a payment in 3 parts in 1 channel, more than are told apart; a payment and an invoice in 1 channel with twins, another algorithm and a clock; a payment and an invoice over 2 channels | budget across channels and views, charges, closed intents, closes; a release is paid; released and offered TLCs never mix | 76 178 |
| `payments` | 1 hash, 2 transfers, 3 overlapping runs, 2 faults | unless an abandoned run takes the mark off what the next one reads, nothing is sent while it is read, an open intent is watched, and a run ends only the attempt it read; every watched payment ends | 288 467 |
| `payments_mid_read` | 2 overlapping runs | **finding 1** | |
| `invoices` | 1 invoice, 3 overlapping runs, 2 faults | unique indexes; a preimage that is out is followed; a release is settled | 64 521 |
| `invoices_late_mark` | 2 overlapping runs | **finding 2** | |
| `poller` | 3 ticks, 3 steps | one loop; no poll lost; every step runs | 9 301 |
| `opening` | 2 calls of one opening; calls that replace each other's; a call beside both steps; a call beside the signing step; 2 keys, 3 indexes, lies, aborts, faults | an index is one channel, its record readable; everything signed agrees with the pins, whoever pinned first; capacity and reserves add up; a channel handed out is followed until it is over and then dropped; a retried opening succeeds | 258 876 |
| `watchtower` | 2 overlapping runs; commitments replaced under way; a twisting node; settlements with TLCs each way and equal parts | the record stays readable and keeps up with what was sent; the body on chain is what nobody took; the device is paid; the first signed spend stays; a broadcast commitment is settled in the end | 153 833 |
| `watchtower_thin` | 1 run, two TLCs that differ in the key alone | **finding 3** | |
| `invoice_codec` | 5 invoices, of every attribute form, f64 rounding short, over, both or neither, strings changed in a part, with the amount moved, or made of edited molecule | the decoder's value stays in its range and in the share of the symbol found; a genuine invoice is read back; an invoice has one string; what is read under the payee's key is what it signed | 205 100 |

A property of several parts (`OneChannelPerIndex`, `FollowedUntilClosed`,
`PinnedCapacityFits`, `NoncesKept`, `RecordReadsBack`, `RecordKeepsUp`) is the conjunction of
named ones, each commented at its definition.

`RecordReadsBack`, and its part of `OneChannelPerIndex`, is about the guard in
`validate.utils.ts` every record is read through. It throws on a record whose fields do not
fit each other, so a legal sequence that wrote one would lock the channel for good. The
opening's case is at a boundary: between the terms and the funding cell, a message under the
other lock layout may be the first to pin the capacity, and with the largest cell the sum
passes a u64. It is refused only since the digest's `subtractTxFee` checks the total.

Why the bounds are enough. Two callers with nested bodies put four operations in the lanes,
three on one key: the least for a chain to split when its tail is dropped; any number is
proved. Two slot numbers put a request before and after another at one nonce, and two runs
are what a deadline leaves; both are proved for any number. Two channels suffice for every
rule that sums over channels, since the rule asks of each only its worse view; amounts are
chosen not to divide the budget or price. Three runs let two hang while one works. `MaxFaults`
bounds failed writes, abandoned runs and crashes together; two let one hit the recovery from
another. `MaxCalls` bounds transfers: two at once, or one after the other; a hash refused
because a view was charged takes the path of one filed as an invoice's. Invoices share
nothing but lanes and the allocator, so one is enough for the step, and the allocator is
proved for every bound. Two openings at once are the least that can answer each other's
pending record, and three indexes leave them one after each has been replaced. Both asks
make the largest cell there is with the second key (`MaxCapacity`), and one close script has
reserves that differ by layout while the other does not. A watchtower record holds at
most three commitments, which three replacements fill; two TLCs are the least with an order,
a pair to swap and one to leave. The codec's widths are small enough that streams of
a few dozen symbols scale the range in all three ways, and owe bits across symbols.

`CHECK_DEADLOCK FALSE` is used where the bound on calls and faults lets the model come to rest.

Every property has a mutant: a change a plausible bug would make (a dropped guard, a missing
reset), under which TLC finds it violated.

### Findings

1. **An open intent may be watched by nobody** (`payments_mid_read`). `reading` is shared by
   all runs, and any run's `finally` (`payment-step.ts:89`) deletes the hash, so an abandoned
   run that unwinds late clears the mark of the current one. A transfer then sends while the
   current run reads, against `payment-sending.ts:60` "the step never reads a hash mid-send,
   nor is one sent mid-read". In the run's trace the node refuses that transfer, which drops
   its watch after the current run found it; the next transfer watches the hash again; the
   run's close and forget remove that watch, and then the transfer records its intent. The
   intent is open and no step closes it until the same invoice is transferred again, against
   `payment-sending.ts:80` "Watched before the intent, so no failure in between leaves an
   open intent the step never closes". As long as marks stay it is as the comment says:
   `MarksKeepWatch` is proved.
2. **An invoice reported expired may be marked released** (`invoices_late_mark`). The check
   of `released` (`invoice-step.ts:170`) reads outside the balance lane; an abandoned run
   queued there marks the invoice after the check, and it is then watched by nobody, against
   `invoice-step.ts:169` "Only an invoice never released ends unpaid". It takes a node that
   says "Received" and then "Expired" or "Cancelled", which is what the check is for. The
   preimage does not leave (`HandedIsFollowed` holds), but the commitments must pay for it
   from then on.

3. **A repeated spend may be another's** (`watchtower_thin`). `repeatVerdict` takes a request
   with a claimed transaction hash for the claimed spend, since "The tx fixes the unlock, and
   the key rule the one key that signs it" (`watchtower-spend.ts:157`). The hash covers no
   witness, and the spent out point is not checked, so one transaction under two
   descendant bodies unlocks two TLCs of one amount: a claim left unsigned is then signed with
   the other's key and recorded under the first one's purpose. Both spends pass every rule and
   nothing is lost; the record and its evidence name the wrong key.

## 4. Fairness

* `SignerStore`: weak for each step of an operation (a promise whose predecessor settled is
  resumed; storage settles), strong for `LeaveBalance` (an operation in the balance lane is
  finite: it returns between its nested calls).
* `SignerDispatch` (in `MCSignerDispatch`): strong for deciding, claiming and recording a redelivered request, since
  the node repeats a request until it is answered; weak for a run to proceed.
* `PaymentFlow`: weak for a transfer's steps and the run's own steps and starts (storage
  settles; the poller ticks while connected). A read may hang; strong for the answer "ended",
  as a payment asked about again and again ends one day. Faults are finite.
* `HoldInvoices`: the same; the run the poller waits for has its call answered (one that
  hangs is abandoned, a fault), and a held invoice asked about again and again is "Received"
  one day.
* `ChannelOpening`: weak for the steps of a call and of both polls (storage settles, a call is
  answered, the poller ticks), and for a host that retries an opening it has no channel for.
  Lies, aborts and failures are faults, hence finite; the node answers honestly after them.
* `Watchtower`: weak for the node asking, honestly, for a spend that is due, for the run's own
  steps, and for a spend sent to land on the chain. `SettledInTheEnd` assumes a host that
  approves spends and a node that has not lied.
* `Poller`: weak for `Resume` (microtasks) and `Deadline` (the host's timer fires). Nothing
  is assumed of steps settling.

## 5. Proofs

Checked by TLAPS for every value of the constants, from the named assumptions of each module
(disjoint actor sets, a null value outside the others, bounds in `Nat`).

* `SchedulingProofs`, about the store: `StoreTypeOK`, `StoreFifo`, `StoreNoLostUpdate` and
  `StoreImplementsAtomicStore`. The invariant adds to the types: places number the unsettled
  operations of a key (`Numbered`), each waits for the one placed just before it (`Chained`),
  and the map's entry is the last one while the lane is in use (`TailLast`). Dropping the
  entry is safe only since the one that drops it is last: `Fifo` alone does not say it.
  No lost update follows, as what an operation loaded is still stored when it writes. The
  refinement maps each step to a step of `AtomicStore` or a stutter.
* `SchedulingProofs`, about the poller: `PollerTypes`, `PollerOneLoop`, `PollerLiveIsInFlight`. The
  invariant adds that a tick that is the poller's own has `ticking` set (`LoopIsTicking`), without
  which `pollNow` could begin a second one.
* `SignerDispatchProofs`: `DispatchTypeOK`, `DispatchNonceSafety`, `DispatchRefuseSignsOnce`,
  `DispatchNoncesKept`, `DispatchRecordReadsBack`, `DispatchOneCommitment`,
  `DispatchRevokedBehind`, `DispatchPeerCommitmentsKept`, `DispatchDecisionStands`,
  `DispatchClaimsAboveRevoked`. The invariant ties the history of
  sessions to the record (`SlotsOK`, `SignedClaimed`), says when a slot may hold two
  (`ReuseAllowed`), that a view's last version bounds its commitments, each version signed
  once, and strictly its revocations (`VersionsBound`), what
  is kept of the peer's (`PeerKept`), and that at most one run is between decision and claim
  (`OneInside`), for which the decision is still good (`DecisionStands`): the claim is
  decided on a record read before two awaits.
* `FundsProofs`: `FundsTypeOK`, `PaymentsStayInBudget`, `LossesAreCharged`,
  `ReleasedStaysPaid`, `ReleasedStaysApart`, `ClosedStaysClosed`, `ClosesPayDue`. The rule
  judges a commitment against the channels on the hash's record, and the properties speak of
  all channels. So the invariant adds that a channel that draws on a payment is on its
  intent's list (`DrawnIsListed`), as one that shows an invoice's hash is on the invoice's
  (`HeldIsListed`, which needs `Unheard`), and that the record's maximum is what was approved
  (`BudgetIsApproved`). A claim changes one view of one channel, and the channel's share is
  its worse view.
* `PaymentFlowProofs`: `PaymentsTypeOK`, `OpenStaysWatched`, `OnlyReadIsFinished`. The marks
  keep transfers away from what the run in force reads; an abandoned run has none, and what
  keeps it harmless is its place in the lanes: before the next run's list if it is to forget
  (`ForgetsFirst`), before its close if it is to close (`ClosesInOrder`), and before the watch
  of a transfer called since (`ForgetsAlone`, `ClosesAlone`).
* `HoldInvoicesProofs`: `InvoicesTypeOK`, `IndexesAreUnique`, `HandedInvoiceIsFollowed`. Nothing
  past the last index was ever given. What the run in force has listed stays watched
  (`ListedIsWatched`), since those before it forget ahead of its list (`ForgetsFirst`), and
  what is to be forgotten was received or its preimage never left (`ForgetsNoneHanded`).
* In both flows a lane is, for each who waits, the set of those before it; each of the two
  proofs has three short lemmas on what a move leaves of that order.
* `ChannelOpeningProofs`: `OpeningsTypeOK`, `OneChannelPerOpening`, `SignsWhatIsPinned`,
  `CapacitiesFit`, `HandedIsFollowedUntilOver`, for any number of calls and runs, any keys and
  scripts. Four groups: an index about to be written is nobody's and one without a name is
  registered nowhere (`NameInv`); pins only grow, so what a call pinned before an await is
  there after it, and the layout is pinned when what it must add up to is (`PinInv`); what a
  run is about to forget or remove is over, and over for good (`FollowInv`); a channel is
  marked ready after its opening is cleared (`AnnounceInv`).

* `WatchtowerProofs`: `TowerReadsBack`, `TowerKeepsUp`, `TowerKeepsFirst`, for any commitments,
  requests, runs and faults. The invariant's `RecordOK` says that registered commitments have
  different names, below the last number of their view, and that a spend's entry is one of its
  commitment's while that is registered. So the spends of a record just pruned map one to one
  to a commitment's place and an unlock in it (`SpendsFit`), which is why they never pass the
  guard's limit. What a run carries past its record step, and what was sent, is `Held`: the
  record has that signature while the commitment is registered. It stays so as every write
  keeps the first signed spends (`SignedStays`) and no commitment is registered again
  (`Later`). That an applied spend has the very signature sent needs that an honest request's
  signature follows from its id (`HonestSignature`); a node may give two requests one id, and
  then overlapping runs may mark one's spend for the other's signature.
* `TowerLeavesTheRest` and `TowerPaysDevice`, in the same module, for any readable snapshots and
  any settlement by both sides. A second invariant, `CInv`, beside the first: whatever may still be
  mined passed the rules (`Vetted`: its remainder leaves the rest, its outputs pay), a registered
  commitment's body is of its terms (`TermsOK`), and a cell is what is left of one (`CellOK`). The
  two sides of `BodyIsWhatIsLeft` come from different places, the body from the lock a signed spend
  left, and what is left from which TLC or balance was taken, so the work is in showing that they
  move alike: sorting by id gives each TLC a place (`RanksAscend`), taking one out of the set takes
  its entry out of the body and moves no other (`OrderedWithout`, `EntryRemoved`), in either view,
  and settling a balance commutes with swapping the pairs (`BalanceTaken`). That what a spend took
  is what the rules made it pay (`TlcSettles`, `BalanceSettles`) compares sums as equal functions,
  and a taken TLC is the one the body's entry stands for only since no two TLCs of a direction
  share an id (`IsSnapshot`).

* `InvoiceCodecProofs`: `EveryValueLands`, for any widths, counts, streams of bits and roundings.
  The comment in `find` says that the range always holds the value and that the value always
  lands; the invariant (`DecoderOK`) is that, the counts of the model, and that the range need
  not be widened. Then the range has at least a quarter of the full width, more than twice the
  counts there can be (`CoderAssumption`, which the code's numbers meet by far), so one count more
  moves a share's end by more than two rounding errors (`ScaleGrows`) and the first and the last
  end are exact (`ScaleEnds`): the shares are the range cut up, none of them empty. Each turn of a
  loop takes the same off the value as off the range (`DoubledHolds`, `ShiftsHold`) and doubles the
  range, so the loops end (`RescaleWidens`). The recursion of `Rescale`, `Power`, and of the folds over
  bits and offsets is shown to have a solution as far as it is used, by counting up over a set
  (`CountingUp`) in place of an induction theorem.

Amounts are sums over finite sets. The recursion behind `SumFunction` is shown to have a
solution (`PartialExists`, by cardinality) that no order of picking changes (`PartialPeel`),
by an induction over subsets stated of a family of sets (`SetInduction`), as the library's
induction theorems take operators. Hashes, TLCs and channels are assumed finite in number,
and so is what a host asks to be opened; no assumption restricts what the node asks or
answers, beyond the shape of a message.

Types, first-come first-served lanes, lost updates (`SignerStore`), claims above the revoked
version (`SignerDispatch`) and the run in flight (`Poller`) are proved and not checked by a
run of their own: the runs check what follows from them. Each inductive invariant was checked
by TLC on its run's instances before it was proved.

Only model-checked:

* every liveness property, as TLAPS reasons about neither fairness nor ENABLED;
* `GenuineIsRead`, `OneString`, `ReadIsSigned` of `InvoiceCodec`: that decoding undoes encoding is
  about what two recursions over symbols, bits and bytes compute from each other's output, the
  owed bits and the molecule's offsets among it: an induction over data of any length.

## 6. Not modelled

* Cryptography, key derivation, byte layouts and hashes of digests: stateless, out of TLC's
  reach, tested against Fiber's vectors. What the digests decide (the order and sides of a
  settlement, fees, overflow of a capacity) is modelled.
* The decoding of the node's JSON: stateless shape checks; the models take any message that
  passes. The RPC client: stateless too; the models take any answer, a lost one included.
* The signing deadline: one comparison, before anything is claimed.
* The facade: it wires the parts together; `connect` and `disconnect` are `Poller`'s `Start`
  and `Stop`.
* bech32m's checksum polynomial. The codec's precision and widths are scaled down.
* The end-to-end agent and the Rust vector generator, which are test tools.

## 7. Plan

In order, the most important first; done items are what the sections above describe.

1. Store, dispatch and record, with proofs. *Done.*
2. Balance rule and funds, with proofs. *Done.*
3. Poller, with proofs. *Done.*
4. Payments and hold invoices, with proofs. *Done.*
5. Channel opening, pins, device channels, channel step and closing, with proofs. *Done.*
6. Watchtower and settlement, with proofs of what the record keeps. *Done.*
7. Invoice codec, with a proof about its coder. *Done.*
8. Proofs of `BodyIsWhatIsLeft` and `DeviceIsPaid`, with lemmas on what removing an entry leaves
   of `OrderTlcs`. *Done.*
