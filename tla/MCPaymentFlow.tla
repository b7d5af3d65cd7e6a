---------------------------- MODULE MCPaymentFlow ----------------------------
(* Small instances of PaymentFlow for TLC.                                 *)
EXTENDS PaymentFlow

=============================================================================
