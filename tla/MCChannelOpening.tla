--------------------------- MODULE MCChannelOpening ---------------------------
(* A small instance of ChannelOpening for TLC.                             *)
EXTENDS ChannelOpening

CONSTANTS k1, k2, x1, x2, o1, o2, r1, w1

Args == [l \in Layouts |-> IF l = "legacy" THEN 1 ELSE 2]

(* A close script that tells the layouts apart, and one that does not. *)
Short == [name |-> "short", args |-> 1]
Long == [name |-> "long", args |-> 3]

AskedShort == [funded |-> 5, script |-> Short, delay |-> 1, rate |-> 1]
AskedLong == [funded |-> 6, script |-> Long, delay |-> 1, rate |-> 1]

(* The peer's share, with the second key's up to the largest cell there is.*)
ShareOf(key, asked) == IF key = k1 THEN 4 ELSE 10 - asked.funded

(* What the node answers when it is honest: by the key, and by the amount. *)
Fitting(key, tx, asked, layout) ==
    [honest |-> TRUE, names |-> key, key |-> key, tx |-> tx, delay |-> 1, rate |-> 1,
     local |-> asked.funded, remote |-> ShareOf(key, asked), script |-> Short,
     localReserve |-> Reserve(asked.script, layout), remoteReserve |-> Reserve(Short, layout),
     capacity |-> asked.funded + ShareOf(key, asked), outputFits |-> TRUE]

Good == {Fitting(k1, x1, a, "legacy") : a \in {AskedShort, AskedLong}}
        \cup {Fitting(k2, x2, a, "legacy") : a \in {AskedShort, AskedLong}}

Lying(key, tx, asked) == [Fitting(key, tx, asked, "legacy") EXCEPT !.honest = FALSE]

(* Another tx under a key, a reserve of the other layout, another name. *)
Bad == {Lying(k1, x2, AskedShort),
        [Lying(k1, x1, AskedShort) EXCEPT !.remoteReserve = Reserve(Short, "fullPaymentHash")],
        [Lying(k1, x1, AskedShort) EXCEPT !.names = k2]}

AllAnswers == Good \cup Bad

(* The host asks the first again until it has a channel. *)
OneAsk == {AskedShort}
BothAsks == {AskedShort, AskedLong}

(* What the node asks signed, before or after the opening's pins. *)
SomeOperations(r) ==
    LET key == r.channel[2]
        Input(layout, mine, liquid, theirs) ==
            [lockLayout |-> layout, liquidCapacity |-> liquid, localReserved |-> Reserve(r.asked.script, mine),
             remoteReserved |-> theirs, fundingOutPoint |-> IF key = k1 THEN x1 ELSE x2, remoteKeys |-> key,
             commitmentDelayEpoch |-> 1, commitmentFeeRate |-> 1,
             localCloseScript |-> r.asked.script, remoteCloseScript |-> Short]
        Honestly == Input("legacy", "legacy", r.asked.funded + ShareOf(key, r.asked) - Reserve(r.asked.script, "legacy")
                                                         - Reserve(Short, "legacy"), Reserve(Short, "legacy"))
        Inputs == {Input(l, m, q, Reserve(Short, "legacy")) : l \in Layouts, m \in Layouts, q \in {5, 6}}
                  \cup {Input("legacy", "legacy", 4, Reserve(Short, "fullPaymentHash"))}
    IN  UNION {{[kind |-> "commitment_tx", input |-> i, paid |-> 5, honest |-> i = Honestly],
                [kind |-> "revocation", input |-> i, forRemote |-> TRUE, honest |-> i = Honestly],
                [kind |-> "closing_tx", input |-> i, honest |-> i = Honestly],
                [kind |-> "channel_announcement", input |-> i, honest |-> i = Honestly]} : i \in Inputs}

(* Two calls of one opening; a call beside both steps; a call beside the  *)
(* signing step; and calls that replace each other's openings.             *)
TwoCalls == [actors |-> {o1, o2}, calls |-> 0, closes |-> FALSE, faults |-> 1]
Steps == [actors |-> {o1, r1, w1}, calls |-> 0, closes |-> TRUE, faults |-> 2]
Signs == [actors |-> {o1, Signing}, calls |-> 0, closes |-> FALSE, faults |-> 2]
Others == [actors |-> {o1, o2}, calls |-> 1, closes |-> FALSE, faults |-> 0]
AllBounds == {TwoCalls, Steps, Signs, Others}

=============================================================================
