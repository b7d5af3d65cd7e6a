---------------------------- MODULE ChannelOpening ----------------------------
(***************************************************************************)
(* Opening channels and following them: the host's opening calls           *)
(* (sdk/channel-opening.ts) over the pending opening, the index allocator, *)
(* the policy's records and names; the poll step that announces a channel  *)
(* ready or closed (channel-step.ts); and the part of the watchtower step  *)
(* that drops a channel the device is done with (watchtower-step.ts).      *)
(*                                                                         *)
(* Calls and runs are coroutines that interleave at every await; a store   *)
(* operation is one step (SignerStore).  The node may lie, and the peer    *)
(* abort.  A channel is named by the index of the device's TLC base key and*)
(* by the peer's key: fiber derives its id from the two.                   *)
(***************************************************************************)
EXTENDS ChannelPins

CONSTANTS
    Asks,            \* the arguments a host opens with: funded, script, delay, rate
    Retried,         \* those of them it asks again until it has a channel
    Keys,            \* the peer's keys
    Answers,         \* what the node may answer, honest or not
    Operations(_),   \* what the node asks signed under a record
    CloseRates,      \* the fee rates a host closes with, None for the channel's
    MaxCloseFee,     \* MAX_SHUTDOWN_FEE_SHANNONS
    Clock,           \* readings of the clock, in channel indexes
    Opens,           \* calls that may be in progress at once
    Runs,            \* runs of the channel step, the abandoned ones too
    TowerRuns,       \* runs of the watchtower step
    Signing,         \* the signing step
    MaxIndex,        \* bound on the indexes allocated
    Bounds           \* the bounds a behaviour may have: who takes part (actors),
                     \* how many calls other than retries are made (calls), whether
                     \* channels close (closes), and how many failures, crashes,
                     \* lies and aborted openings there are (faults)

ASSUME OpeningAssumption ==
    /\ IsFiniteSet(Asks) /\ Retried \subseteq Asks
    /\ \A a \in Asks : MayOpen(a) /\ a.funded \in Nat /\ a.script.args \in Nat
                        /\ {a.delay, a.rate} \subseteq 0 .. MaxCapacity
    /\ \A a \in Answers : /\ {a.names, a.key} \subseteq Keys /\ a.tx # None
                           /\ a.script # None /\ a.script.args \in Nat
                           /\ {a.local, a.remote, a.localReserve, a.remoteReserve} \subseteq Nat
    /\ None \notin Keys /\ None \notin (1 .. MaxIndex) \X Keys
    /\ Clock \subseteq Nat /\ MaxIndex \in Nat
    /\ \A b \in Bounds : b.calls \in Nat /\ b.closes \in BOOLEAN /\ b.faults \in Nat
    /\ Opens \cap Runs = {} /\ Opens \cap TowerRuns = {} /\ Runs \cap TowerRuns = {}

VARIABLES
    pending,         \* stored: the pending opening, or None
    last,            \* stored: the last index allocated
    record,          \* stored, per index registered: the policy's record
    alias,           \* stored, per channel: the index it resolves to, or None
    watched,         \* stored, per channel watched: whether it was announced ready
    listed,          \* stored: the device's channels
    pc,              \* per call and run: what it waits for
    job,             \* per call and run: what it carries
    node,            \* the node, per channel: where it stands
    handed,          \* history: the openings handed to the host
    submitted,       \* history: the funding txs submitted, per channel
    signed,          \* history, per index and pin: the values signed operations stated
    renamed,         \* history: the indexes whose opening was named anew while pending
    bound,           \* the bounds of this behaviour
    calls, faults

stored == <<pending, last, record, alias, watched, listed>>
history == <<handed, submitted, signed, renamed>>
vars == <<stored, pc, job, node, history, bound, calls, faults>>

Indexes == 1 .. MaxIndex

Channels == Indexes \X Keys

IndexOf(c) == c[1]

Actors == Opens \cup Runs \cup TowerRuns

Idle == [todo |-> {}]

Init ==
    /\ pending = None /\ last = 0
    /\ record = [i \in {} |-> None] /\ alias = [c \in Channels |-> None]
    /\ watched = [c \in {} |-> FALSE] /\ listed = {}
    /\ pc = [a \in Actors |-> "idle"] /\ job = [a \in Actors |-> Idle]
    /\ node = [c \in Channels |-> "none"]
    /\ handed = {} /\ submitted = [c \in Channels |-> {}] /\ signed = [i \in Indexes |-> [f \in PinNames |-> {}]]
    /\ renamed = {}
    /\ bound \in Bounds /\ calls = 0 /\ faults = 0

Go(a, p) == pc' = [pc EXCEPT ![a] = p]

End(a) == Go(a, "idle") /\ job' = [job EXCEPT ![a] = Idle]

Fault == faults < bound.faults /\ faults' = faults + 1

-----------------------------------------------------------------------------
(* prepareSdkChannelOpen, openWithNode *)

Begin(o, asked) ==
    /\ pc[o] = "idle" /\ o \in bound.actors
    /\ IF asked \in Retried /\ ~\E h \in handed : h.asked = asked
       THEN UNCHANGED calls
       ELSE calls < bound.calls /\ calls' = calls + 1
    /\ Go(o, "read")
    /\ job' = [job EXCEPT ![o] = [asked |-> asked, index |-> 0, named |-> None, answer |-> None]]
    /\ UNCHANGED <<stored, node, history, bound, faults>>

(* readMatching: the same amount, lock and cell deps. *)
Matching(asked) == pending # None /\ pending.asked = asked

(* resumableOpening.  An opening that is named is looked up first. *)
Read(o) ==
    LET match == Matching(job[o].asked)
    IN  /\ pc[o] = "read"
        /\ Go(o, IF ~match THEN "allocate" ELSE IF pending.channel = None THEN "ask" ELSE "states")
        /\ job' = IF match THEN [job EXCEPT ![o].index = pending.index, ![o].named = pending.channel] ELSE job
        /\ UNCHANGED <<stored, node, history, bound, calls, faults>>

(* listChannelStates: the node aborted the opening, or it goes on. *)
States(o) ==
    /\ pc[o] = "states"
    /\ Go(o, IF node[job[o].named] = "aborted" THEN "drop" ELSE "ask")
    /\ UNCHANGED <<stored, job, node, history, bound, calls, faults>>

Cleared(sought) == IF pending # None /\ sought THEN None ELSE pending

(* dropOpening, clearIndex; a fresh opening follows. *)
Drop(o) ==
    /\ pc[o] = "drop"
    /\ pending' = Cleared(pending.index = job[o].index)
    /\ Go(o, "allocate")
    /\ UNCHANGED <<last, record, alias, watched, listed, job, node, history, bound, calls, faults>>

(* IndexAllocator.allocate *)
NextIndex(candidate) == Max({candidate, last + 1})

Allocate(o, candidate) ==
    /\ pc[o] = "allocate"
    /\ NextIndex(candidate) <= MaxIndex
    /\ last' = NextIndex(candidate)
    /\ job' = [job EXCEPT ![o].index = NextIndex(candidate)]
    /\ Go(o, "write")
    /\ UNCHANGED <<pending, record, alias, watched, listed, node, history, bound, calls, faults>>

Write(o) ==
    /\ pc[o] = "write"
    /\ pending' = [index |-> job[o].index, asked |-> job[o].asked, channel |-> None]
    /\ Go(o, "ask")
    /\ UNCHANGED <<last, record, alias, watched, listed, job, node, history, bound, calls, faults>>

(* External: the node holds one opening for a device key, until the peer   *)
(* aborts it, and asked again answers it again; its answer is one that     *)
(* fits.  A lie is any answer at all.                                      *)
Honest(i, answer) ==
    LET c == <<i, answer.key>>
    IN  /\ answer.honest
        /\ node[c] \in {"none", "opening"}
        /\ \A k \in Keys : <<i, k>> # c => node[<<i, k>>] \in {"none", "aborted"}

(* rpc.openTenantChannel, and checkTenantOpening of what it answers. *)
Take(o, answer) ==
    /\ job' = [job EXCEPT ![o].answer = answer]
    /\ Go(o, IF CheckTenantOpening(job[o].asked, answer) THEN "name" ELSE "refuse")

Ask(o, answer) ==
    /\ pc[o] = "ask" /\ Honest(job[o].index, answer)
    /\ answer.local = job[o].asked.funded
    /\ Take(o, answer)
    /\ node' = [node EXCEPT ![<<job[o].index, answer.key>>] = "opening"]
    /\ UNCHANGED <<stored, history, bound, calls, faults>>

(* It opens nothing more for a channel it holds past its opening. *)
AskRefused(o) ==
    /\ pc[o] = "ask" /\ ~\E answer \in Answers : Honest(job[o].index, answer)
    /\ End(o)
    /\ UNCHANGED <<stored, node, history, bound, calls, faults>>

AskLiar(o, answer) ==
    /\ Fault
    /\ pc[o] = "ask"
    /\ Take(o, answer)
    /\ UNCHANGED <<stored, node, history, bound, calls>>

ChannelOf(o) == <<job[o].index, job[o].answer.names>>

(* setChannelId, over any name the opening had. *)
Name(o) ==
    LET own == pending # None /\ pending.index = job[o].index
    IN  /\ pc[o] = "name"
        /\ pending' = IF own THEN [pending EXCEPT !.channel = ChannelOf(o)] ELSE pending
        /\ renamed' = IF own /\ pending.channel \notin {None, ChannelOf(o)}
                      THEN renamed \cup {job[o].index} ELSE renamed
        /\ Go(o, "register")
        /\ UNCHANGED <<last, record, alias, watched, listed, job, node, handed, submitted, signed,
                       bound, calls, faults>>

(* registerChannel: what an index already holds, if anything, is the same  *)
(* opening, under this name or one it never served under.                  *)
Registered(o) ==
    job[o].index \in DOMAIN record =>
        LET r == record[job[o].index]
        IN   /\ r.asked.funded = job[o].asked.funded /\ r.asked.script = job[o].asked.script
             /\ r.channel = ChannelOf(o) \/ ~r.served

Register(o) ==
    LET i == job[o].index
    IN  /\ pc[o] = "register"
        /\ IF alias[ChannelOf(o)] \in {None, i} /\ Registered(o)
           THEN /\ record' = [j \in DOMAIN record \cup {i} |->
                       IF j # i THEN record[j]
                       ELSE IF i \in DOMAIN record THEN [record[i] EXCEPT !.channel = ChannelOf(o)]
                       ELSE [channel |-> ChannelOf(o), asked |-> job[o].asked, pins |-> NoPins, served |-> FALSE]]
                /\ Go(o, "alias")
           ELSE Go(o, "refuse") /\ UNCHANGED record
        /\ UNCHANGED <<pending, last, alias, watched, listed, job, node, history, bound, calls, faults>>

(* claimChannelAlias, after the record. *)
Alias(o) ==
    /\ pc[o] = "alias"
    /\ alias' = [alias EXCEPT ![ChannelOf(o)] = job[o].index]
    /\ Go(o, "terms")
    /\ UNCHANGED <<pending, last, record, watched, listed, job, node, history, bound, calls, faults>>

(* pinHostValues: the values stated, unless the channel pinned others. *)
Pin(o, stated, fields, next) ==
    LET i == alias[ChannelOf(o)]
    IN  /\ IF Conflicts(record[i].pins, record[i].asked.script, stated)
           THEN Go(o, "refuse") /\ UNCHANGED record
           ELSE /\ record' = [record EXCEPT ![i].pins = WithPins(@, stated, fields)]
                /\ Go(o, next)
        /\ UNCHANGED <<pending, last, alias, watched, listed, job, node, history, bound, calls, faults>>

PinTerms(o) == pc[o] = "terms" /\ Pin(o, TermsPins(job[o].answer), HostTerms, "cell")

(* A mutant of PinCell: a channel already watched is taken as pinned. *)
PinCellOnce(o) ==
    /\ pc[o] = "cell"
    /\ IF ChannelOf(o) \in DOMAIN watched
       THEN Go(o, "watch") /\ UNCHANGED <<stored, job, node, history, bound, calls, faults>>
       ELSE Pin(o, CellPins(job[o].answer), FirstSight, "watch")

PinCell(o) == pc[o] = "cell" /\ Pin(o, CellPins(job[o].answer), FirstSight, "watch")

Watched(c) == [d \in DOMAIN watched \cup {c} |-> IF d \in DOMAIN watched THEN watched[d] ELSE FALSE]

Watch(o) ==
    /\ pc[o] = "watch"
    /\ watched' = Watched(ChannelOf(o))
    /\ Go(o, "add")
    /\ UNCHANGED <<pending, last, record, alias, listed, job, node, history, bound, calls, faults>>

(* The call returns the opening. *)
Add(o) ==
    /\ pc[o] = "add"
    /\ listed' = listed \cup {ChannelOf(o)}
    /\ handed' = handed \cup {[asked |-> job[o].asked, channel |-> ChannelOf(o), tx |-> job[o].answer.tx,
                               capacity |-> job[o].answer.capacity]}
    /\ End(o)
    /\ UNCHANGED <<pending, last, record, alias, watched, node, submitted, signed, renamed, bound, calls, faults>>

(* A mutant of Refuse: the pending opening is kept. *)
RefuseKept(o) ==
    /\ pc[o] = "refuse"
    /\ End(o)
    /\ UNCHANGED <<stored, node, history, bound, calls, faults>>

(* refuseOpening: the pending opening is dropped, and the call throws. *)
Refuse(o) ==
    /\ pc[o] = "refuse"
    /\ pending' = Cleared(pending.index = job[o].index)
    /\ End(o)
    /\ UNCHANGED <<last, record, alias, watched, listed, node, history, bound, calls, faults>>

(* A store operation fails, or the node gives no answer: the call throws,  *)
(* and what was written stays.                                             *)
OpenFails(o) ==
    /\ Fault
    /\ pc[o] # "idle" /\ End(o)
    /\ UNCHANGED <<stored, node, history, bound, calls>>

-----------------------------------------------------------------------------
(* submitSdkFundingTx: the host hands in a signed tx, which must be the one*)
(* the channel pinned; the pins never change, so it is one step.           *)
Submit(c, tx) ==
    LET pins == record[alias[c]].pins
    IN  /\ alias[c] # None
        /\ \E h \in handed : h.channel = c
        /\ pins["fundingOutPoint"] # None /\ pins["fundingCapacity"] # None
        /\ pins["fundingOutPoint"] = tx
        /\ submitted' = [submitted EXCEPT ![c] = @ \cup {tx}]
        /\ UNCHANGED <<stored, pc, job, node, handed, signed, renamed, bound, calls, faults>>

(* The signing step signs what the node asks of a channel, under its pins. *)
(* What does not fit the node's own answer is a lie of its.                *)
Serve(c, operation) ==
    LET i == alias[c] IN
    /\ i # None /\ Signing \in bound.actors
    /\ Pinnable(record[i].pins, record[i].asked.script, operation)
    /\ record' = [record EXCEPT ![i].pins = WithPins(@, Stated(operation), FirstSight), ![i].served = TRUE]
    /\ signed' = [signed EXCEPT ![i] =
           [f \in PinNames |-> @[f] \cup IF f \in StatedBy(operation) THEN {Stated(operation)[f]} ELSE {}]]
    /\ IF operation.honest THEN UNCHANGED faults ELSE Fault
    /\ UNCHANGED <<pending, last, alias, watched, listed, pc, job, node, handed, submitted, renamed, bound, calls>>

-----------------------------------------------------------------------------
(* The node and the peer, external: an unfunded opening may be aborted, a  *)
(* funded one turns ready, closes and is settled; then its row is gone.    *)
Abort(c) ==
    /\ Fault
    /\ node[c] = "opening" /\ submitted[c] = {}
    /\ node' = [node EXCEPT ![c] = "aborted"]
    /\ UNCHANGED <<stored, pc, job, history, bound, calls>>

Funded(c) ==
    /\ node[c] = "opening" /\ submitted[c] # {}
    /\ node' = [node EXCEPT ![c] = "ready"]
    /\ UNCHANGED <<stored, pc, job, history, bound, calls, faults>>

(* checkCloseFee: the device's fee, over both close scripts, is one the    *)
(* policy signs.                                                           *)
CloseFee(pins, script, rate) == ShutdownTxFee(rate, script, pins["remoteCloseScript"])

(* closeSdkChannel: at the host's rate, or the channel's. *)
CloseChannel(c, rate) ==
    LET r == record[alias[c]]
    IN  /\ node[c] = "ready" /\ bound.closes /\ alias[c] # None
        /\ r.pins["remoteCloseScript"] # None
        /\ rate = None => r.pins["commitmentFeeRate"] # None
        /\ CloseFee(r.pins, r.asked.script, IF rate = None THEN r.pins["commitmentFeeRate"] ELSE rate) <= MaxCloseFee
        /\ node' = [node EXCEPT ![c] = "closed"]
        /\ UNCHANGED <<stored, pc, job, history, bound, calls, faults>>

(* The peer closes, or the channel is forced. *)
Closes(c) ==
    /\ node[c] = "ready" /\ bound.closes
    /\ node' = [node EXCEPT ![c] = "closed"]
    /\ UNCHANGED <<stored, pc, job, history, bound, calls, faults>>

Settles(c) ==
    /\ node[c] = "closed"
    /\ node' = [node EXCEPT ![c] = "settled"]
    /\ UNCHANGED <<stored, pc, job, history, bound, calls, faults>>

-----------------------------------------------------------------------------
(* buildChannelStep *)

ReadWatched(r) ==
    /\ pc[r] = "idle" /\ r \in bound.actors /\ DOMAIN watched # {}
    /\ Go(r, "list")
    /\ job' = [job EXCEPT ![r] = [seen |-> watched, todo |-> {}, at |-> None, absent |-> {}]]
    /\ UNCHANGED <<stored, node, history, bound, calls, faults>>

(* A mutant of Due: what was announced ready is answered no more. *)
DueOnce(r, shown) ==
    {c \in DOMAIN job[r].seen \cap shown :
        ~job[r].seen[c] /\ node[c] \in {"closed", "settled", "aborted", "ready"}}

(* What settle answers among the channels a listing shows. *)
Due(r, shown) ==
    {c \in DOMAIN job[r].seen \cap shown :
        node[c] \in {"closed", "settled", "aborted"} \/ (node[c] = "ready" /\ ~job[r].seen[c])}

(* include_closed shows all but the aborted openings. *)
ListStates(r) ==
    LET shown == {c \in Channels : node[c] \notin {"none", "aborted"}}
    IN  /\ pc[r] = "list"
        /\ job' = [job EXCEPT ![r].todo = {<<c, node[c]>> : c \in Due(r, shown)},
                              ![r].absent = DOMAIN job[r].seen \ shown]
        /\ Go(r, "settle")
        /\ UNCHANGED <<stored, node, history, bound, calls, faults>>

(* only_pending shows the aborted ones. *)
ListPending(r) ==
    /\ pc[r] = "settle" /\ job[r].todo = {} /\ job[r].absent # {}
    /\ job' = [job EXCEPT ![r].todo = {<<c, "aborted">> : c \in {d \in job[r].absent : node[d] = "aborted"}},
                          ![r].absent = {}]
    /\ UNCHANGED <<stored, pc, node, history, bound, calls, faults>>

StepEnds(r) ==
    /\ pc[r] = "settle" /\ job[r].todo = {} /\ job[r].absent = {}
    /\ End(r)
    /\ UNCHANGED <<stored, node, history, bound, calls, faults>>

(* settle: announced, the opening is cleared, *)
ClearOpening(r, x) ==
    /\ pc[r] = "settle" /\ x \in job[r].todo
    /\ pending' = Cleared(pending.channel = x[1])
    /\ job' = [job EXCEPT ![r].todo = @ \ {x}, ![r].at = x]
    /\ Go(r, IF x[2] = "ready" THEN "mark" ELSE "forget")
    /\ UNCHANGED <<last, record, alias, watched, listed, node, history, bound, calls, faults>>

(* and the channel marked ready, unless it was forgotten since, *)
Mark(r) ==
    LET c == job[r].at[1]
    IN  /\ pc[r] = "mark"
        /\ watched' = IF c \in DOMAIN watched THEN [watched EXCEPT ![c] = TRUE] ELSE watched
        /\ Go(r, "settle") /\ job' = [job EXCEPT ![r].at = None]
        /\ UNCHANGED <<pending, last, record, alias, listed, node, history, bound, calls, faults>>

(* or forgotten. *)
Forget(r) ==
    /\ pc[r] = "forget"
    /\ watched' = [c \in DOMAIN watched \ {job[r].at[1]} |-> watched[c]]
    /\ Go(r, "settle") /\ job' = [job EXCEPT ![r].at = None]
    /\ UNCHANGED <<pending, last, record, alias, listed, node, history, bound, calls, faults>>

(* A store operation or a listing fails, or the run was abandoned. *)
RunFails(r) ==
    /\ Fault
    /\ pc[r] # "idle" /\ End(r)
    /\ UNCHANGED <<stored, node, history, bound, calls>>

-----------------------------------------------------------------------------
(* buildWatchtowerSigningStep *)

(* The list, *)
ReadListed(w) ==
    /\ pc[w] = "idle" /\ w \in bound.actors /\ listed # {}
    /\ Go(w, "open")
    /\ job' = [job EXCEPT ![w] = [todo |-> listed, open |-> {}, at |-> None]]
    /\ UNCHANGED <<stored, node, history, bound, calls, faults>>

(* then the activity: an opening is watched before it is listed. *)
ReadOpen(w) ==
    /\ pc[w] = "open"
    /\ job' = [job EXCEPT ![w].open = DOMAIN watched]
    /\ Go(w, "answer")
    /\ UNCHANGED <<stored, node, history, bound, calls, faults>>

(* A mutant of Answer: any channel without a row is done with. *)
AnswerUnwatched(w, c) ==
    LET gone == alias[c] # None /\ node[c] \notin {"ready", "closed"}
    IN  /\ pc[w] = "answer" /\ c \in job[w].todo
        /\ job' = [job EXCEPT ![w].todo = @ \ {c}, ![w].at = IF gone THEN c ELSE None]
        /\ Go(w, IF gone THEN "remove" ELSE "answer")
        /\ UNCHANGED <<stored, node, history, bound, calls, faults>>

(* answer: a channel the node keeps no row for, and not seen open, is done *)
(* with.  (A row's requests are Watchtower's.)                             *)
Answer(w, c) ==
    LET gone == alias[c] # None /\ node[c] \notin {"ready", "closed"} /\ c \notin job[w].open
    IN  /\ pc[w] = "answer" /\ c \in job[w].todo
        /\ job' = [job EXCEPT ![w].todo = @ \ {c}, ![w].at = IF gone THEN c ELSE None]
        /\ Go(w, IF gone THEN "remove" ELSE "answer")
        /\ UNCHANGED <<stored, node, history, bound, calls, faults>>

Remove(w) ==
    /\ pc[w] = "remove"
    /\ listed' = listed \ {job[w].at}
    /\ Go(w, "answer") /\ job' = [job EXCEPT ![w].at = None]
    /\ UNCHANGED <<pending, last, record, alias, watched, node, history, bound, calls, faults>>

TowerEnds(w) ==
    /\ pc[w] = "answer" /\ job[w].todo = {}
    /\ End(w)
    /\ UNCHANGED <<stored, node, history, bound, calls, faults>>

-----------------------------------------------------------------------------
Crash ==
    /\ Fault
    /\ pc' = [a \in Actors |-> "idle"] /\ job' = [a \in Actors |-> Idle]
    /\ UNCHANGED <<stored, node, history, bound, calls>>

OpenStep(o) ==
    \/ Read(o) \/ States(o) \/ Drop(o) \/ (\E t \in Clock : Allocate(o, t)) \/ Write(o)
    \/ (\E a \in Answers : Ask(o, a)) \/ AskRefused(o) \/ Name(o)
    \/ Register(o) \/ Alias(o) \/ PinTerms(o) \/ PinCell(o) \/ Watch(o) \/ Add(o) \/ Refuse(o)

RunStep(r) ==
    \/ ReadWatched(r) \/ ListStates(r) \/ ListPending(r) \/ StepEnds(r)
    \/ (\E x \in job[r].todo : ClearOpening(r, x)) \/ Mark(r) \/ Forget(r)

TowerStep(w) ==
    \/ ReadListed(w) \/ ReadOpen(w) \/ (\E c \in job[w].todo : Answer(w, c)) \/ Remove(w) \/ TowerEnds(w)

NodeStep(c) == Funded(c) \/ (\E q \in CloseRates : CloseChannel(c, q)) \/ Closes(c) \/ Settles(c)

Next ==
    \/ \E o \in Opens : \/ \E a \in Asks : Begin(o, a)
                        \/ OpenStep(o) \/ OpenFails(o) \/ \E a \in Answers : AskLiar(o, a)
    \/ \E r \in Runs : RunStep(r) \/ RunFails(r)
    \/ \E w \in TowerRuns : TowerStep(w) \/ RunFails(w)
    \/ \E c \in Channels : \/ NodeStep(c) \/ Abort(c)
                           \/ \E h \in handed : Submit(c, h.tx)
                           \/ alias[c] # None /\ \E op \in Operations(record[alias[c]]) : Serve(c, op)
    \/ Crash

Spec == Init /\ [][Next]_vars

(* Storage answers, and so does the node, in the end; the host asks again  *)
(* while it has no channel, and the poller starts run after run.           *)
Fairness ==
    /\ \A o \in Opens : WF_vars(OpenStep(o)) /\ WF_vars(\E a \in Retried : Begin(o, a))
    /\ \A r \in Runs : WF_vars(RunStep(r))
    /\ \A w \in TowerRuns : WF_vars(TowerStep(w))

FairSpec == Spec /\ Fairness

-----------------------------------------------------------------------------
(* isPendingOpening *)
IsPendingOpening(p) ==
    p.index \in Indexes /\ p.asked \in Asks /\ p.channel \in Channels \cup {None}

TypeOK ==
    /\ pending = None \/ IsPendingOpening(pending)
    /\ last \in 0 .. MaxIndex
    /\ DOMAIN record \subseteq Indexes
    /\ \A i \in DOMAIN record : /\ record[i].channel \in Channels /\ record[i].asked \in Asks
                                /\ IsChannelPins(record[i].asked, record[i].pins)
                                /\ record[i].served \in BOOLEAN
    /\ alias \in [Channels -> Indexes \cup {None}]
    /\ DOMAIN watched \subseteq Channels /\ listed \subseteq Channels
    /\ bound \in Bounds /\ calls \in 0 .. bound.calls /\ faults \in 0 .. bound.faults

(* A channel's name never resolves to an index without a record, whatever  *)
(* fails between the two writes of registerChannel ("the reverse order     *)
(* could leave a name resolving to an index that holds nothing").          *)
AliasResolves == \A c \in Channels : alias[c] # None => alias[c] \in DOMAIN record

(* pinOpening, "all before the tx is handed out": openings of one index    *)
(* handed to the host, by however many calls resumed it and whatever the   *)
(* node answered each, are one channel and one funding cell: the ones      *)
(* pinned.                                                                 *)
OneFundingPerIndex ==
    \A h \in handed :
        LET i == IndexOf(h.channel)
        IN  /\ alias[h.channel] = i /\ i \in DOMAIN record
            /\ record[i].pins["fundingOutPoint"] = h.tx
            /\ record[i].pins["fundingCapacity"] = h.capacity
            /\ record[i].pins["remoteKeys"] = h.channel[2]

(* openWithNode, "Named before the pins": a pending opening whose record   *)
(* holds pins, which another answer would contradict, is one the abort     *)
(* check can look up.                                                      *)
PinnedIsNamed ==
    (/\ pending # None /\ pending.index \in DOMAIN record
     /\ record[pending.index].pins # NoPins) => pending.channel # None

(* Whatever the calls, lies, failures and crashes between two writes, the  *)
(* device's records are ones it can read, and each index is one channel:   *)
(* all of the above.                                                       *)
OneChannelPerIndex == TypeOK /\ AliasResolves /\ OneFundingPerIndex /\ PinnedIsNamed

(* pinOpening, "watched before listed", and the order the watchtower step  *)
(* reads in: a channel handed to the host, and neither closed nor aborted, *)
(* is followed by both steps.                                              *)
HandedIsFollowed ==
    \A h \in handed : node[h.channel] \notin {"closed", "settled", "aborted"} =>
        h.channel \in DOMAIN watched \cap listed

(* channel-step.ts settle: an opening announced ready is pending no more,  *)
(* so that the next same call opens another channel; unless another answer *)
(* had renamed the opening, which "clear" then took for another's.         *)
AnnouncedIsNotPending ==
    \A c \in DOMAIN watched :
        (watched[c] /\ IndexOf(c) \notin renamed) => pending = None \/ pending.channel # c

(* Both of the above: a channel is resumed until it is announced, and      *)
(* followed from the moment it is handed out until it is over.             *)
FollowedUntilClosed == HandedIsFollowed /\ AnnouncedIsNotPending

(* Everything signed for an index states the values the channel ends up    *)
(* with, though the node asks for signatures while the opening still pins. *)
SignedAsPinned ==
    \A i \in Indexes, f \in PinNames :
        \A v \in signed[i][f] : i \in DOMAIN record /\ record[i].pins[f] = v

(* The funding cell holds the liquid capacity and both reserves under the  *)
(* pinned layout, whichever of the host and a message pinned each of them. *)
CapacityAdds ==
    \A i \in DOMAIN record :
        LET p == record[i].pins IN
        (p["lockLayout"] # None /\ p["fundingCapacity"] # None /\ p["liquidCapacity"] # None) =>
            p["fundingCapacity"] = p["liquidCapacity"] + p["remoteReserved"]
                                   + Reserve(record[i].asked.script, p["lockLayout"])

(* checkOpeningReserves, "under one lock layout": a channel handed out and *)
(* then signed under a layout has the peer's reserve of that layout too,   *)
(* where the device's own reserve tells the layouts apart.                 *)
ReservesOfOneLayout ==
    \A h \in handed :
        LET r == record[IndexOf(h.channel)]
            l == r.pins["lockLayout"]
        IN  (l # None /\ Cardinality({Reserve(r.asked.script, m) : m \in Layouts}) > 1) =>
                r.pins["remoteReserved"] = Reserve(r.pins["remoteCloseScript"], l)

(* The pinned capacity and reserves fit together: both of the above, though*)
(* the layout they depend on is pinned last.                               *)
PinnedCapacityFits == CapacityAdds /\ ReservesOfOneLayout

(* openWithNode's retries: a host that asks the same again while it has no *)
(* channel is handed one, through failures, crashes, lies and aborts.      *)
RetriedOpens == \A a \in Retried : <>(\E h \in handed : h.asked = a)

(* answer, settle: where both steps run, the channels that settled or were *)
(* aborted are in the end neither watched nor listed, though a late call   *)
(* may list one again.                                                     *)
ClosedIsDropped ==
    <>[](Runs \cup TowerRuns \subseteq bound.actors =>
            \A c \in DOMAIN watched \cup listed : node[c] \notin {"settled", "aborted"})

=============================================================================
