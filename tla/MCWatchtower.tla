---------------------------- MODULE MCWatchtower ----------------------------
(* Small instances of Watchtower for TLC.                                  *)
EXTENDS Watchtower

CONSTANTS w1, w2

Kept == [local |-> 1, remote |-> 1]

Tlc(id, direction, hash, number) ==
    [id |-> id, direction |-> direction, amount |-> 2, hash |-> hash, number |-> number,
     key |-> TlcKey(number), remote |-> <<"peer", number>>]

(* The amounts and the TLCs make up the liquid capacity and the reserves. *)
Snapshot(local, remote, tlcs) == [local |-> local, remote |-> remote, localKey |-> BaseKey, tlcs |-> tlcs]

(* No TLC; one offered; one received; one each way; two parts of one        *)
(* payment, whose entries are equal; two that differ in the key alone.     *)
Bare == Snapshot(5, 5, {})
Out == Snapshot(3, 5, {Tlc(0, "offered", "h", 0)})
In == Snapshot(5, 3, {Tlc(0, "received", "k", 1)})
Both == Snapshot(3, 3, {Tlc(0, "offered", "h", 0), Tlc(0, "received", "k", 1)})
Parts == Snapshot(5, 1, {Tlc(0, "received", "h", 0), Tlc(1, "received", "h", 0)})
Keyed == Snapshot(5, 1, {Tlc(0, "received", "h", 0), Tlc(1, "received", "h", 1)})

Host == [destination |-> <<"host">>, maxFee |-> 1]
MaybeHost == {Host, None}
Someone == <<"other">>

(* Runs that overlap on one commitment; commitments replaced under way; a  *)
(* node that twists; parts of a payment, settled one by one.               *)
Overlap == [runs |-> {w1, w2}, snapshots |-> {Bare}, commits |-> 1, lies |-> 0, thins |-> FALSE, fees |-> {0, 1}, faults |-> 3]
Replace == [runs |-> {w1}, snapshots |-> {Bare}, commits |-> 3, lies |-> 1, thins |-> FALSE, fees |-> {0}, faults |-> 1]
Twist == [runs |-> {w1}, snapshots |-> {Out, In}, commits |-> 1, lies |-> 1, thins |-> FALSE, fees |-> {1}, faults |-> 0]
Settle == [runs |-> {w1}, snapshots |-> {Both, Parts}, commits |-> 1, lies |-> 0, thins |-> FALSE, fees |-> {0}, faults |-> 0]
AllBounds == {Overlap, Replace, Twist, Settle}

Thin == [runs |-> {w1}, snapshots |-> {Keyed}, commits |-> 1, lies |-> 2, thins |-> TRUE, fees |-> {0}, faults |-> 1]
ThinBounds == {Thin}

=============================================================================
