--------------------------- MODULE MCInvoiceCodec ---------------------------
(* Small widths and invoices of InvoiceCodec for TLC.                      *)
EXTENDS InvoiceCodec

Payee == <<1>>
Another == <<2>>
Keys == {Payee, Another}

Invoice(amount, attributes) ==
    [currency |-> "fibt", amount |-> amount, timestamp |-> 3, hash |-> <<5>>, attributes |-> attributes]

Expiry == [type |-> "expiryTime", value |-> 6]
Feature == [type |-> "feature", value |-> <<7>>]
Script == [type |-> "udtScript", value |-> [codeHash |-> <<4>>, hashType |-> 1, args |-> <<>>]]
ByPayee == [type |-> "payeePublicKey", value |-> Payee]
Algorithm == [type |-> "hashAlgorithm", value |-> 1]

SomeInvoices ==
    {Invoice(<<>>, <<>>), Invoice(<<1>>, <<ByPayee>>), Invoice(<<1, 0>>, <<Algorithm, Expiry>>),
     Invoice(<<>>, <<Feature>>), Invoice(<<>>, <<Script>>)}

SomeAmounts == {<<>>, <<0>>, <<0, 1>>, <<1, 1>>}

=============================================================================
