---------------------------- MODULE MCSignerStore ----------------------------
(* Small instances of SignerStore for TLC.                                 *)
EXTENDS SignerStore, TLC

CONSTANTS c1, c2, c3, b1, b2, b3

MCBodyOf == [c \in Clients |-> CASE c = c1 -> b1 [] c = c2 -> b2 [] OTHER -> b3]

MCValues == {0, 1}

(* A read, an update that always changes the record, and one that refuses  *)
(* a record it made before.                                                *)
MCUpdaters ==
    { [v \in MCValues |-> v],
      [v \in MCValues |-> 1 - v],
      [v \in MCValues |-> IF v = 0 THEN 1 ELSE Throws] }

=============================================================================
