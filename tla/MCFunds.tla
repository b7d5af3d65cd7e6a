------------------------------- MODULE MCFunds -------------------------------
(* Small instances of Funds for TLC.                                       *)
EXTENDS Funds, TLC

CONSTANTS h1, h2

Symmetry == Permutations(Channels)

Tlc(direction, hash, amount) ==
    [direction |-> direction, hash |-> hash, amount |-> amount,
     own |-> TRUE, fits |-> TRUE, expiry |-> 2]

(* One payment's TLCs, of two amounts. *)
PaymentTlcs == {Tlc("offered", h1, 1), Tlc("offered", h1, 2)}

(* One invoice's TLCs, of an amount that does not divide its price. *)
InvoiceTlcs == {Tlc("received", h1, 2)}

(* A payment's TLC, an invoice's that expires, the invoice's twin and one  *)
(* of another algorithm.                                                   *)
MixedTlcs ==
    LET held == Tlc("received", h2, 1)
    IN  {Tlc("offered", h1, 1), [held EXCEPT !.expiry = 1], [held EXCEPT !.own = FALSE], [held EXCEPT !.fits = FALSE]}

AllTlcs == PaymentTlcs \cup InvoiceTlcs \cup MixedTlcs

(* Every listing of at most so many of some TLCs, at each of some exposures.*)
Showing(tlcs, most, exposures) ==
    [exposure : exposures, tlcs : {b \in SubBag(SetToBag(tlcs)) : BagCardinality(b) <= most}]

(* One hash over two channels: a payment's listings, paying the device less*)
(* than it funded, or an invoice's, paying it the price on top once        *)
(* credited.                                                               *)
Parts ==
    [hashes |-> {h1}, channels |-> 2, time |-> 0, budgets |-> {2}, prices |-> {3}, payouts |-> {},
     commitments |-> Showing(PaymentTlcs, 1, {0, 1}) \cup Showing(InvoiceTlcs, 1, {2, 5})]

(* One payment's parts in one channel: which of two left is told by what   *)
(* the holdings fell, all three are charged.                               *)
Charges ==
    [hashes |-> {h1}, channels |-> 1, time |-> 0, budgets |-> {4}, prices |-> {}, payouts |-> {0},
     commitments |-> [exposure : 0 .. 2, tlcs : SubBag([t \in PaymentTlcs |-> 3 - t.amount])]]

(* A payment and an invoice in one channel, with a clock.                  *)
Mixed ==
    [hashes |-> {h1, h2}, channels |-> 1, time |-> 1, budgets |-> {1}, prices |-> {1}, payouts |-> {2},
     commitments |-> {x \in Showing(MixedTlcs, 2, {2, 3}) :
                         /\ Holdings(x.exposure, x.tlcs) <= 3
                         /\ BagCardinality(x.tlcs) = 2 => DOMAIN x.tlcs \cap Offered # {}}]

(* A payment and an invoice over two channels, which the commitments only  *)
(* list: the invoice is held in one channel, the payment offered in the    *)
(* other, and each asked for where the other is.                           *)
Apart ==
    [hashes |-> {h1, h2}, channels |-> 2, time |-> 0, budgets |-> {1}, prices |-> {1}, payouts |-> {},
     commitments |-> {x \in Showing({t \in MixedTlcs : t.own /\ t.fits}, 2, {1, 2}) : Holdings(x.exposure, x.tlcs) = 2}]

AllBounds == [parts |-> Parts, charges |-> Charges, mixed |-> Mixed, apart |-> Apart]

=============================================================================
