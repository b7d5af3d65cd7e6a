--------------------------- MODULE MCHoldInvoices ----------------------------
(* Small instances of HoldInvoices for TLC.                                *)
EXTENDS HoldInvoices, TLC

=============================================================================
