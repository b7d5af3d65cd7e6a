------------------------ MODULE ChannelOpeningProofs ------------------------
(***************************************************************************)
(* Proofs about ChannelOpening, for any number of calls and runs and any   *)
(* answers: the records stay readable and each index one channel, what is  *)
(* signed states what is pinned, the capacities fit, and a channel handed  *)
(* out is followed until it is over.                                       *)
(*                                                                         *)
(* An index is fresh until its opening is written, and unregistered until  *)
(* it is named; pins only grow, so what a call pinned before it went on is *)
(* what the record still holds when it hands the channel out; and a run    *)
(* forgets only what it saw over, which stays over.                        *)
(***************************************************************************)
EXTENDS ChannelOpening, FiniteSetTheorems, TLAPS

(* What a call waits for: each of these sets is reached from the one after.*)
Held == {"watch", "add"}

Termed == {"cell"} \cup Held

Aliased == {"terms"} \cup Termed

Recorded == {"alias"} \cup Aliased

Registering == {"register"} \cup Recorded

Answered == {"name", "refuse"} \cup Registering

Indexed == {"states", "drop", "write", "ask"} \cup Answered

OpenWaits == {"read", "allocate"} \cup Indexed

NodeStates == {"none", "opening", "aborted", "ready", "closed", "settled"}

Flags == UNION {[D -> BOOLEAN] : D \in SUBSET Channels}

OpenJobs == [asked : Asks, index : 0 .. MaxIndex, named : Channels \cup {None}, answer : Answers \cup {None}]

RunJobs ==
    [seen : Flags, todo : SUBSET (Channels \X NodeStates), at : (Channels \X NodeStates) \cup {None},
     absent : SUBSET Channels]

TowerJobs == [todo : SUBSET Channels, open : SUBSET Channels, at : Channels \cup {None}]

(* The types of the calls and runs, *)
OpenTyped(o) ==
    /\ pc[o] \in {"idle"} \cup OpenWaits
    /\ pc[o] # "idle" => job[o] \in OpenJobs
    /\ pc[o] \in Indexed => job[o].index \in Indexes
    /\ pc[o] = "states" => job[o].named \in Channels
    /\ pc[o] \in Answered => job[o].answer \in Answers
    /\ pc[o] \in {"name"} \cup Registering => CheckTenantOpening(job[o].asked, job[o].answer)

RunTyped(r) ==
    /\ pc[r] \in {"idle", "list", "settle", "mark", "forget"}
    /\ pc[r] # "idle" => job[r] \in RunJobs
    /\ pc[r] \in {"mark", "forget"} => job[r].at \in Channels \X NodeStates

TowerTyped(w) ==
    /\ pc[w] \in {"idle", "open", "answer", "remove"}
    /\ pc[w] # "idle" => job[w] \in TowerJobs
    /\ pc[w] = "remove" => job[w].at \in Channels

ActorsTyped ==
    /\ DOMAIN pc = Actors /\ DOMAIN job = Actors
    /\ \A o \in Opens : OpenTyped(o)
    /\ \A r \in Runs : RunTyped(r)
    /\ \A w \in TowerRuns : TowerTyped(w)

(* and of what is stored, as the steps build on it. *)
StoreTyped ==
    /\ pending # None => pending \in [index : Indexes, asked : Asks, channel : Channels \cup {None}]
    /\ \A i \in DOMAIN record : DOMAIN record[i] = {"channel", "asked", "pins", "served"}
    /\ watched \in Flags
    /\ node \in [Channels -> NodeStates]
    /\ \A h \in handed : h.channel \in Channels /\ h.tx # None /\ h.capacity \in Nat
    /\ DOMAIN signed = Indexes /\ \A i \in Indexes : DOMAIN signed[i] = PinNames

Typed == TypeOK /\ StoreTyped /\ ActorsTyped

-----------------------------------------------------------------------------
(* Indexes and names *)

(* No index in use is past the last allocated, *)
IndexesUsed ==
    /\ pending # None => pending.index <= last
    /\ \A i \in DOMAIN record : i <= last
    /\ \A o \in Opens : pc[o] # "idle" => job[o].index <= last

(* one about to be written is nobody else's, *)
WritesFresh ==
    \A o \in Opens : pc[o] = "write" =>
        /\ job[o].index \notin DOMAIN record
        /\ pending # None => pending.index # job[o].index
        /\ \A p \in Opens : p # o /\ pc[p] # "idle" => job[p].index # job[o].index

(* and an opening without a name is registered by nobody. *)
NamedFirst ==
    pending # None =>
        IF pending.channel = None
        THEN /\ pending.index \notin DOMAIN record
             /\ \A o \in Opens : pc[o] \in Registering => job[o].index # pending.index
        ELSE IndexOf(pending.channel) = pending.index

(* A name resolves to the index it is of, which has a record before. *)
AliasesOwn ==
    /\ \A c \in Channels : alias[c] # None => alias[c] = IndexOf(c) /\ IndexOf(c) \in DOMAIN record
    /\ \A o \in Opens : pc[o] \in Aliased => alias[ChannelOf(o)] = job[o].index

NameInv == IndexesUsed /\ WritesFresh /\ NamedFirst /\ AliasesOwn

-----------------------------------------------------------------------------
(* Pins *)

Pins(o) == record[job[o].index].pins

(* A call's index is recorded as what it asked, and holds what it pinned. *)
CallPinned(o) ==
    /\ pc[o] \in Recorded => /\ job[o].index \in DOMAIN record
                             /\ record[job[o].index].asked.script = job[o].asked.script
    /\ pc[o] \in Termed => \A f \in HostTerms : Pins(o)[f] = TermsPins(job[o].answer)[f]
    /\ pc[o] \in Held => \A f \in DOMAIN CellPins(job[o].answer) : Pins(o)[f] = CellPins(job[o].answer)[f]

CallsPinned == \A o \in Opens : CallPinned(o)

(* The layout is pinned after the capacity and both terms it has to fit. *)
Adds(r) ==
    /\ r.pins["liquidCapacity"] # None /\ r.pins["remoteReserved"] # None /\ r.pins["fundingCapacity"] # None
    /\ r.pins["fundingCapacity"] = r.pins["liquidCapacity"] + r.pins["remoteReserved"]
                                   + Reserve(r.asked.script, r.pins["lockLayout"])

LayoutLast == \A i \in DOMAIN record : record[i].pins["lockLayout"] # None => Adds(record[i])

(* A channel handed out has both reserves of some one layout. *)
Fits(r, capacity) ==
    \E l \in Layouts :
        /\ r.pins["remoteCloseScript"] # None
        /\ r.pins["remoteReserved"] # None /\ r.pins["liquidCapacity"] # None
        /\ r.pins["remoteReserved"] = Reserve(r.pins["remoteCloseScript"], l)
        /\ capacity = r.pins["liquidCapacity"] + r.pins["remoteReserved"] + Reserve(r.asked.script, l)

HandedFit == \A h \in handed : Fits(record[IndexOf(h.channel)], h.capacity)

SignedIsStated == \A i \in Indexes, f \in PinNames : None \notin signed[i][f]

PinInv ==
    /\ CallsPinned /\ LayoutLast /\ HandedFit /\ OneFundingPerIndex
    /\ SignedIsStated /\ SignedAsPinned

-----------------------------------------------------------------------------
(* Following *)

Over(c) == node[c] \in {"closed", "settled", "aborted"}

Followed(c) == c \in DOMAIN watched \/ Over(c)

(* What is listed, or about to be, is watched until it is over; *)
ListsWatched ==
    /\ \A c \in listed : Followed(c)
    /\ \A o \in Opens : pc[o] = "add" => Followed(ChannelOf(o))

(* a run answers as over what is, *)
RunSettlesOver(r) ==
    /\ pc[r] # "idle" => \A x \in job[r].todo : x[2] # "ready" => Over(x[1])
    /\ pc[r] = "forget" => Over(job[r].at[1])

SettlesOver == \A r \in Runs : RunSettlesOver(r)

(* and the watchtower step, which reads the list first, removes only that. *)
TowerRemovesOver(w) ==
    /\ pc[w] = "open" => \A c \in job[w].todo : Followed(c)
    /\ pc[w] \in {"answer", "remove"} => \A c \in job[w].todo : c \in job[w].open \/ Over(c)
    /\ pc[w] = "remove" => Over(job[w].at)

RemovesOver == \A w \in TowerRuns : TowerRemovesOver(w)

FollowInv == ListsWatched /\ SettlesOver /\ RemovesOver /\ HandedIsFollowed

(* What is watched, or a run saw watched, is registered, so that its       *)
(* opening is not named for the first time.                                *)
RunSawRecorded(r) ==
    pc[r] # "idle" =>
        /\ \A c \in DOMAIN job[r].seen \cup job[r].absent : IndexOf(c) \in DOMAIN record
        /\ \A x \in job[r].todo : IndexOf(x[1]) \in DOMAIN record
        /\ pc[r] \in {"mark", "forget"} => IndexOf(job[r].at[1]) \in DOMAIN record

WatchedIsRecorded ==
    /\ \A c \in DOMAIN watched : IndexOf(c) \in DOMAIN record
    /\ \A r \in Runs : RunSawRecorded(r)

(* A run marks a channel ready after it cleared its opening. *)
NotPending(c) == IndexOf(c) \in renamed \/ pending = None \/ pending.channel # c

MarksCleared == \A r \in Runs : pc[r] = "mark" => NotPending(job[r].at[1])

AnnounceInv == WatchedIsRecorded /\ MarksCleared /\ AnnouncedIsNotPending

IInv == Typed /\ NameInv /\ PinInv /\ FollowInv /\ AnnounceInv

-----------------------------------------------------------------------------
(* Operators *)

LEMMA MaxOfTwo ==
    ASSUME NEW a \in Int, NEW b \in Int
    PROVE  Max({a, b}) \in {a, b} /\ Max({a, b}) >= a /\ Max({a, b}) >= b
<1>1. \E x \in {a, b} : \A y \in {a, b} : x >= y
  <2>1. CASE a >= b
    BY <2>1
  <2>2. CASE ~(a >= b)
    BY <2>2
  <2> QED
    BY <2>1, <2>2
<1>2. Max({a, b}) \in {a, b} /\ \A y \in {a, b} : Max({a, b}) >= y
  BY <1>1 DEF Max
<1> QED
  BY <1>2

(* Reserve is a number, and no more than a cell holds under one layout when*)
(* it is so under the shorter.                                             *)
LEMMA ReserveTyped ==
    ASSUME NEW s, s.args \in Nat
    PROVE  /\ \A l \in Layouts : Reserve(s, l) \in Nat
           /\ Reserve(s, "legacy") <= MaxCapacity => ReservesByLayout(s)
<1>1. LockArgs["legacy"] \in Nat /\ LockArgs["fullPaymentHash"] \in Nat /\ Occupied \in Nat
  BY PinsAssumption
<1>0. s.args \in Int /\ LockArgs["legacy"] \in Int /\ LockArgs["fullPaymentHash"] \in Int
  BY <1>1
<1>2. /\ Max({s.args, LockArgs["legacy"]}) \in {s.args, LockArgs["legacy"]}
      /\ Max({s.args, LockArgs["legacy"]}) >= s.args
  BY ONLY <1>0, MaxOfTwo, Zenon
<1>3. Max({s.args, LockArgs["fullPaymentHash"]}) \in {s.args, LockArgs["fullPaymentHash"]}
  BY ONLY <1>0, MaxOfTwo, Zenon
<1> QED
  BY <1>1, <1>2, <1>3, PinsAssumption DEF Reserve, ReservesByLayout, Layouts

(* IndexAllocator.allocate: past the last, and past no bound but the guard's.*)
LEMMA NextIndexPast ==
    ASSUME TypeOK, NEW t \in Clock
    PROVE  NextIndex(t) \in Nat /\ NextIndex(t) > last
<1>1. t \in Nat /\ last \in Nat
  BY OpeningAssumption DEF TypeOK
<1>2. Max({t, last + 1}) \in {t, last + 1} /\ Max({t, last + 1}) >= last + 1
  BY <1>1, MaxOfTwo
<1> QED
  BY <1>1, <1>2 DEF NextIndex

(* withChannelPins: what is pinned stays, what is stated is pinned. *)
LEMMA PinsStay ==
    ASSUME NEW pins, NEW stated, NEW fields, NEW f \in PinNames
    PROVE  /\ pins[f] # None => WithPins(pins, stated, fields)[f] = pins[f]
           /\ f \notin fields => WithPins(pins, stated, fields)[f] = pins[f]
  BY DEF WithPins

LEMMA PinsStated ==
    ASSUME NEW pins, NEW stated, NEW fields, NEW script, ~Conflicts(pins, script, stated),
           NEW f \in PinNames \cap DOMAIN stated, f \in fields \/ pins[f] # None
    PROVE  WithPins(pins, stated, fields)[f] = stated[f]
  BY DEF WithPins, Conflicts

(* What a record may hold of a value stated. *)
PinTyped(f, v) ==
    /\ f \in DOMAIN PinForms => v \in PinForms[f]
    /\ f = "liquidCapacity" => v \in Nat
    /\ f = "lockLayout" => v \in Layouts

LEMMA PinsTyped ==
    ASSUME NEW asked, NEW pins, NEW stated, NEW fields, IsChannelPins(asked, pins),
           \A f \in fields \cap DOMAIN stated : PinTyped(f, stated[f])
    PROVE  IsChannelPins(asked, WithPins(pins, stated, fields))
<1> DEFINE next == WithPins(pins, stated, fields)
<1>1. DOMAIN next = PinNames
  BY DEF WithPins
<1>2. \A f \in PinNames : next[f] = pins[f] \/ (f \in fields \cap DOMAIN stated /\ next[f] = stated[f])
  BY DEF WithPins
<1>3. "liquidCapacity" \in PinNames /\ "lockLayout" \in PinNames /\ DOMAIN PinForms \subseteq PinNames
  BY DEF PinNames, FirstSight, Terms, PinForms
<1> HIDE DEF next
<1>4. ASSUME NEW f \in DOMAIN PinForms, next[f] # None PROVE next[f] \in PinForms[f]
  BY <1>2, <1>3, <1>4 DEF IsChannelPins, PinTyped
<1>5. next["liquidCapacity"] # None => next["liquidCapacity"] \in Nat
  BY <1>2, <1>3 DEF IsChannelPins, PinTyped
<1>6. next["lockLayout"] # None => next["lockLayout"] \in Layouts
  BY <1>2, <1>3 DEF IsChannelPins, PinTyped
<1>7. IsChannelPins(asked, next)
  BY <1>1, <1>4, <1>5, <1>6 DEF IsChannelPins
<1> QED
  BY <1>7 DEF next

(* checkTenantOpening: what the host pins of an answer it accepts. *)
LEMMA AnswerPins ==
    ASSUME NEW asked \in Asks, NEW answer \in Answers, CheckTenantOpening(asked, answer)
    PROVE  /\ answer.names = answer.key /\ answer.key \in Keys /\ answer.capacity \in 0 .. MaxCapacity
           /\ DOMAIN TermsPins(answer) = HostTerms
           /\ \A f \in HostTerms : TermsPins(answer)[f] # None /\ PinTyped(f, TermsPins(answer)[f])
           /\ DOMAIN CellPins(answer) = {"fundingOutPoint", "fundingCapacity"}
           /\ \A f \in DOMAIN CellPins(answer) : CellPins(answer)[f] # None /\ PinTyped(f, CellPins(answer)[f])
           /\ \E l \in Layouts :
                 /\ answer.remoteReserve = Reserve(answer.script, l)
                 /\ answer.capacity = TermsPins(answer)["liquidCapacity"] + answer.remoteReserve
                                      + Reserve(asked.script, l)
<1>1. /\ answer.local \in Nat /\ answer.remote \in Nat /\ answer.localReserve \in Nat
      /\ answer.remoteReserve \in Nat /\ answer.script # None /\ answer.tx # None
      /\ answer.key \in Keys /\ answer.key # None
      /\ asked.delay \in 0 .. MaxCapacity /\ asked.rate \in 0 .. MaxCapacity
  BY OpeningAssumption
<1>2. /\ answer.names = answer.key /\ answer.delay = asked.delay /\ answer.rate = asked.rate
      /\ answer.local >= answer.localReserve /\ answer.remote >= answer.remoteReserve
      /\ answer.local + answer.remote <= MaxCapacity /\ answer.capacity = answer.local + answer.remote
      /\ FitReserves(asked, answer)
  BY DEF CheckTenantOpening, FitFundingOutput
<1>3. MaxCapacity \in Nat /\ None \notin Nat
  BY PinsAssumption
<1>4. DOMAIN PinForms = {"fundingCapacity", "commitmentDelayEpoch", "commitmentFeeRate", "remoteReserved"}
      /\ \A f \in DOMAIN PinForms : PinForms[f] = 0 .. MaxCapacity
  BY DEF PinForms
<1>5. /\ answer.capacity \in 0 .. MaxCapacity /\ answer.remoteReserve \in 0 .. MaxCapacity
      /\ answer.capacity - answer.localReserve - answer.remoteReserve \in Nat
  BY <1>1, <1>2, <1>3
<1>6. DOMAIN TermsPins(answer) = HostTerms
      /\ \A f \in HostTerms : TermsPins(answer)[f] # None /\ PinTyped(f, TermsPins(answer)[f])
  <2>1. DOMAIN TermsPins(answer) = HostTerms
    BY DEF TermsPins, HostTerms, Terms
  <2>2. /\ TermsPins(answer)["liquidCapacity"] \in Nat
        /\ TermsPins(answer)["commitmentFeeRate"] \in 0 .. MaxCapacity
        /\ TermsPins(answer)["remoteReserved"] \in 0 .. MaxCapacity
        /\ TermsPins(answer)["remoteCloseScript"] # None
        /\ TermsPins(answer)["remoteKeys"] # None
        /\ TermsPins(answer)["commitmentDelayEpoch"] \in 0 .. MaxCapacity
    BY <1>1, <1>2, <1>5 DEF TermsPins
  <2>3. 0 .. MaxCapacity \subseteq Nat
    BY <1>3
  <2> QED
    BY <2>1, <2>2, <2>3, <1>3, <1>4 DEF HostTerms, Terms, PinTyped
<1>7. DOMAIN CellPins(answer) = {"fundingOutPoint", "fundingCapacity"}
      /\ \A f \in DOMAIN CellPins(answer) : CellPins(answer)[f] # None /\ PinTyped(f, CellPins(answer)[f])
  BY <1>1, <1>3, <1>4, <1>5 DEF CellPins, PinTyped
<1>8. PICK l \in Layouts : /\ Reserve(asked.script, l) = answer.localReserve
                           /\ Reserve(answer.script, l) = answer.remoteReserve
  BY <1>2 DEF FitReserves
<1>9. answer.capacity = TermsPins(answer)["liquidCapacity"] + answer.remoteReserve + Reserve(asked.script, l)
  BY <1>1, <1>2, <1>8 DEF TermsPins
<1> QED
  BY <1>1, <1>2, <1>5, <1>6, <1>7, <1>8, <1>9

(* pinClaim: everything an operation it signs states is pinned as stated,  *)
LEMMA StatedIsPinned ==
    ASSUME NEW pins, NEW script, NEW op, Pinnable(pins, script, op), NEW f \in PinNames, f \in StatedBy(op)
    PROVE  WithPins(pins, Stated(op), FirstSight)[f] = Stated(op)[f] /\ Stated(op)[f] # None
<1>1. DOMAIN Stated(op) = StatedBy(op)
  BY DEF Stated
<1>2. WellFormed(op) /\ ~Conflicts(pins, script, Stated(op)) /\ KnownTerms(pins, Stated(op))
  BY DEF Pinnable
<1>3. f \in FirstSight \/ pins[f] # None
  BY <1>1, <1>2 DEF PinNames, KnownTerms
<1>4. WithPins(pins, Stated(op), FirstSight)[f] = Stated(op)[f]
  BY <1>1, <1>2, <1>3, PinsStated
<1> QED
  BY <1>2, <1>4 DEF WellFormed

(* and a statement of a layout is one of the capacity under it. *)
LEMMA SignedPins ==
    ASSUME NEW asked, NEW pins, NEW op, IsChannelPins(asked, pins), Pinnable(pins, asked.script, op)
    PROVE  LET stated == Stated(op)
               next == WithPins(pins, stated, FirstSight)
           IN  /\ DOMAIN stated = StatedBy(op)
               /\ \A f \in FirstSight : f \in StatedBy(op) => PinTyped(f, stated[f])
               /\ (next["lockLayout"] # None /\ pins["lockLayout"] = None) =>
                     /\ next["liquidCapacity"] # None /\ next["remoteReserved"] # None
                     /\ next["fundingCapacity"] # None
                     /\ next["fundingCapacity"] = next["liquidCapacity"] + next["remoteReserved"]
                                                  + Reserve(asked.script, next["lockLayout"])
<1> DEFINE stated == Stated(op)
           next == WithPins(pins, stated, FirstSight)
<1>1. DOMAIN stated = StatedBy(op) /\ \A f \in StatedBy(op) : stated[f] =
          IF f = "fundingCapacity" THEN CapacityOf(op.input) ELSE op.input[f]
  BY DEF Stated
<1>2. WellFormed(op) /\ CellCovers(op) /\ ~Conflicts(pins, asked.script, stated) /\ KnownTerms(pins, stated)
  BY DEF Pinnable
<1>3. "lockLayout" \in StatedBy(op) => TakesFee(op)
  BY <1>2 DEF WellFormed, StatedBy, TakesFee
<1>4. "fundingCapacity" \in StatedBy(op) => TakesFee(op)
  BY <1>2 DEF WellFormed, StatedBy, TakesFee
<1>5. "commitmentDelayEpoch" \in StatedBy(op) => TakesFee(op)
  BY <1>2 DEF WellFormed, StatedBy, TakesFee
<1>6. TakesFee(op) => /\ op.input.lockLayout \in Layouts /\ op.input.liquidCapacity \in Nat
                      /\ op.input.localReserved \in 0 .. MaxCapacity /\ op.input.remoteReserved \in 0 .. MaxCapacity
                      /\ op.input.commitmentDelayEpoch \in 0 .. MaxCapacity
                      /\ CapacityOf(op.input) <= MaxCapacity
                      /\ {"lockLayout", "liquidCapacity", "fundingCapacity", "localReserved", "remoteReserved"}
                            \subseteq StatedBy(op)
  BY <1>2 DEF WellFormed, CellCovers, TakesFee, StatedBy
<1>7. TakesFee(op) => CapacityOf(op.input) \in 0 .. MaxCapacity
  BY <1>6, PinsAssumption DEF CapacityOf
<1>8. ASSUME NEW f \in FirstSight \cap StatedBy(op) PROVE PinTyped(f, stated[f])
  <2>1. DOMAIN PinForms = {"fundingCapacity", "commitmentDelayEpoch", "commitmentFeeRate", "remoteReserved"}
        /\ \A g \in DOMAIN PinForms : PinForms[g] = 0 .. MaxCapacity
    BY DEF PinForms
  <2> QED
    BY <2>1, <1>1, <1>3, <1>4, <1>5, <1>6, <1>7, <1>8 DEF PinTyped, FirstSight
<1> HIDE DEF stated
<1>9. ASSUME NEW f \in PinNames \cap StatedBy(op) PROVE next[f] = stated[f] /\ stated[f] # None
  BY <1>9, StatedIsPinned DEF stated
<1>10. ASSUME next["lockLayout"] # None, pins["lockLayout"] = None
       PROVE  /\ next["liquidCapacity"] # None /\ next["remoteReserved"] # None
              /\ next["fundingCapacity"] # None
              /\ next["fundingCapacity"] = next["liquidCapacity"] + next["remoteReserved"]
                                           + Reserve(asked.script, next["lockLayout"])
  <2>1. "lockLayout" \in StatedBy(op)
    BY <1>10, <1>1 DEF WithPins, PinNames, FirstSight
  <2>2. TakesFee(op) /\ {"lockLayout", "liquidCapacity", "fundingCapacity", "localReserved", "remoteReserved"}
                            \subseteq StatedBy(op)
    BY <2>1, <1>3, <1>6
  <2>3. {"lockLayout", "liquidCapacity", "fundingCapacity", "remoteReserved"} \subseteq PinNames \cap StatedBy(op)
    BY <2>2 DEF PinNames, FirstSight, Terms
  <2>4. /\ next["lockLayout"] = stated["lockLayout"] /\ next["liquidCapacity"] = stated["liquidCapacity"]
        /\ next["fundingCapacity"] = stated["fundingCapacity"] /\ next["remoteReserved"] = stated["remoteReserved"]
        /\ stated["liquidCapacity"] # None /\ stated["fundingCapacity"] # None /\ stated["remoteReserved"] # None
    BY <2>3, <1>9
  <2>5. stated["localReserved"] = Reserve(asked.script, stated["lockLayout"])
    BY <2>2, <1>1, <1>2 DEF Conflicts, ReserveConflict
  <2>6. stated["fundingCapacity"] = stated["liquidCapacity"] + stated["localReserved"] + stated["remoteReserved"]
    BY <2>2, <1>1 DEF CapacityOf
  <2>7. stated["liquidCapacity"] \in Nat /\ stated["localReserved"] \in Nat /\ stated["remoteReserved"] \in Nat
    BY <2>2, <1>1, <1>6
  <2>8. stated["fundingCapacity"] = stated["liquidCapacity"] + stated["remoteReserved"] + stated["localReserved"]
    BY <2>6, <2>7
  <2> QED
    BY <2>4, <2>5, <2>8
<1> QED
  BY <1>1, <1>8, <1>10 DEF stated

-----------------------------------------------------------------------------
(* Types *)

(* Only one call or run moves. *)
Moves(a) ==
    /\ DOMAIN pc' = Actors /\ DOMAIN job' = Actors
    /\ \A b \in Actors \ {a} : pc'[b] = pc[b] /\ job'[b] = job[b]

LEMMA GoMoves ==
    ASSUME Typed, NEW a \in Actors, NEW p, NEW j, Go(a, p), job' = [job EXCEPT ![a] = j]
    PROVE  Moves(a) /\ pc'[a] = p /\ job'[a] = j
  BY DEF Typed, ActorsTyped, Go, Moves

LEMMA GoStays ==
    ASSUME Typed, NEW a \in Actors, NEW p, Go(a, p), UNCHANGED job
    PROVE  Moves(a) /\ pc'[a] = p /\ job'[a] = job[a]
  BY DEF Typed, ActorsTyped, Go, Moves

LEMMA EndMoves ==
    ASSUME Typed, NEW a \in Actors, End(a)
    PROVE  Moves(a) /\ pc'[a] = "idle"
  BY GoMoves DEF End

LEMMA OpenMoveTyped ==
    ASSUME Typed, NEW o \in Opens, Moves(o), OpenTyped(o)'
    PROVE  ActorsTyped'
  BY OpeningAssumption DEF Typed, ActorsTyped, Moves, Actors, OpenTyped, RunTyped, TowerTyped

LEMMA RunMoveTyped ==
    ASSUME Typed, NEW r \in Runs, Moves(r), RunTyped(r)'
    PROVE  ActorsTyped'
  BY OpeningAssumption DEF Typed, ActorsTyped, Moves, Actors, OpenTyped, RunTyped, TowerTyped

LEMMA TowerMoveTyped ==
    ASSUME Typed, NEW w \in TowerRuns, Moves(w), TowerTyped(w)'
    PROVE  ActorsTyped'
  BY OpeningAssumption DEF Typed, ActorsTyped, Moves, Actors, OpenTyped, RunTyped, TowerTyped

(* A fault is one more within the bound. *)
LEMMA FaultTyped == ASSUME Typed, Fault PROVE faults' \in 0 .. bound.faults
<1>1. faults \in 0 .. bound.faults /\ faults < bound.faults /\ faults' = faults + 1 /\ bound.faults \in Nat
  BY OpeningAssumption DEF Typed, TypeOK, Fault
<1> QED
  BY <1>1

(* What is stored, the node and the history stay, or change with their     *)
(* types.                                                                  *)
LEMMA StoreStays ==
    ASSUME Typed, UNCHANGED <<stored, node, handed, signed, bound>>,
           calls' \in 0 .. bound.calls, faults' \in 0 .. bound.faults
    PROVE  TypeOK' /\ StoreTyped'
<1>1. TypeOK'
  BY DEF Typed, TypeOK, stored, IsPendingOpening
<1>2. StoreTyped'
  BY DEF Typed, StoreTyped, stored
<1> QED
  BY <1>1, <1>2

LEMMA PendingChanges ==
    ASSUME Typed, UNCHANGED <<last, record, alias, watched, listed, node, handed, signed, bound, calls, faults>>,
           pending' # None => pending' \in [index : Indexes, asked : Asks, channel : Channels \cup {None}]
    PROVE  TypeOK' /\ StoreTyped'
<1>1. TypeOK'
  BY DEF Typed, TypeOK, IsPendingOpening
<1>2. StoreTyped'
  BY DEF Typed, StoreTyped
<1> QED
  BY <1>1, <1>2

LEMMA RecordChanges ==
    ASSUME Typed, UNCHANGED <<pending, last, alias, watched, listed, node, handed, bound, calls>>,
           faults' \in 0 .. bound.faults, DOMAIN record' \subseteq Indexes,
           \A i \in DOMAIN record' : /\ DOMAIN record'[i] = {"channel", "asked", "pins", "served"}
                                     /\ record'[i].channel \in Channels /\ record'[i].asked \in Asks
                                     /\ IsChannelPins(record'[i].asked, record'[i].pins)
                                     /\ record'[i].served \in BOOLEAN,
           DOMAIN signed' = Indexes, \A i \in Indexes : DOMAIN signed'[i] = PinNames
    PROVE  TypeOK' /\ StoreTyped'
<1>1. TypeOK'
  BY DEF Typed, TypeOK, IsPendingOpening
<1>2. StoreTyped'
  BY DEF Typed, StoreTyped
<1> QED
  BY <1>1, <1>2

LEMMA NodeChanges ==
    ASSUME Typed, UNCHANGED <<stored, handed, signed, bound, calls>>, faults' \in 0 .. bound.faults,
           NEW c \in Channels, NEW s \in NodeStates, node' = [node EXCEPT ![c] = s]
    PROVE  TypeOK' /\ StoreTyped'
<1>1. TypeOK'
  BY DEF Typed, TypeOK, stored, IsPendingOpening
<1>2. node' \in [Channels -> NodeStates]
  BY DEF Typed, StoreTyped
<1>3. StoreTyped'
  BY <1>2 DEF Typed, StoreTyped, stored
<1> QED
  BY <1>1, <1>3

LEMMA WatchedChanges ==
    ASSUME Typed, UNCHANGED <<pending, last, record, alias, listed, node, handed, signed, bound, calls, faults>>,
           watched' \in Flags
    PROVE  TypeOK' /\ StoreTyped'
<1>1. DOMAIN watched' \subseteq Channels
  BY DEF Flags
<1>2. TypeOK'
  BY <1>1 DEF Typed, TypeOK, IsPendingOpening
<1>3. StoreTyped'
  BY DEF Typed, StoreTyped
<1> QED
  BY <1>2, <1>3

(* A call's names and index, as its wait has them. *)
LEMMA CallTyped ==
    ASSUME Typed, NEW o \in Opens, pc[o] # "idle"
    PROVE  /\ o \in Actors /\ job[o] \in OpenJobs /\ OpenTyped(o)
           /\ pc[o] \in {"name"} \cup Registering =>
                 /\ job[o].answer \in Answers /\ job[o].index \in Indexes
                 /\ ChannelOf(o) \in Channels /\ IndexOf(ChannelOf(o)) = job[o].index
                 /\ ChannelOf(o) = <<job[o].index, job[o].answer.key>>
<1>1. o \in Actors /\ OpenTyped(o) /\ job[o] \in OpenJobs
  BY DEF Typed, ActorsTyped, Actors, OpenTyped
<1>2. ASSUME pc[o] \in {"name"} \cup Registering
      PROVE  /\ job[o].answer \in Answers /\ job[o].index \in Indexes
             /\ CheckTenantOpening(job[o].asked, job[o].answer) /\ job[o].asked \in Asks
  BY <1>1, <1>2 DEF OpenTyped, Answered, Indexed, OpenJobs
<1>3. ASSUME pc[o] \in {"name"} \cup Registering
      PROVE  job[o].answer.names = job[o].answer.key /\ job[o].answer.key \in Keys
  BY <1>2, <1>3, AnswerPins
<1> QED
  BY <1>1, <1>2, <1>3 DEF ChannelOf, Channels, IndexOf

(* The calls: what each step leaves them with. *)
LEMMA CallMovesTyped ==
    ASSUME Typed, NEW o \in Opens, pc[o] # "idle", NEW p \in OpenWaits, Go(o, p), UNCHANGED job,
           p \in Indexed => job[o].index \in Indexes, p = "states" => job[o].named \in Channels,
           p \in Answered => job[o].answer \in Answers,
           p \in {"name"} \cup Registering => CheckTenantOpening(job[o].asked, job[o].answer)
    PROVE  ActorsTyped'
<1>1. o \in Actors /\ job[o] \in OpenJobs
  BY CallTyped
<1>2. Moves(o) /\ pc'[o] = p /\ job'[o] = job[o]
  BY <1>1, GoStays
<1>3. OpenTyped(o)'
  BY <1>1, <1>2 DEF OpenTyped
<1> QED
  BY <1>2, <1>3, OpenMoveTyped

LEMMA CallEndTyped ==
    ASSUME Typed, NEW o \in Opens, End(o)
    PROVE  ActorsTyped'
<1>1. o \in Actors
  BY DEF Actors
<1>2. Moves(o) /\ pc'[o] = "idle"
  BY <1>1, EndMoves
<1>3. OpenTyped(o)'
  BY <1>2 DEF OpenTyped, Held, Termed, Aliased, Recorded, Registering, Answered, Indexed
<1> QED
  BY <1>2, <1>3, OpenMoveTyped

LEMMA RunEndTyped ==
    ASSUME Typed, NEW r \in Runs \cup TowerRuns, End(r)
    PROVE  ActorsTyped'
<1>1. r \in Actors
  BY DEF Actors
<1>2. Moves(r) /\ pc'[r] = "idle"
  BY <1>1, EndMoves
<1>3. RunTyped(r)' /\ TowerTyped(r)'
  BY <1>2 DEF RunTyped, TowerTyped
<1> QED
  BY <1>2, <1>3, RunMoveTyped, TowerMoveTyped

(* Taking an answer. *)
LEMMA TakeTyped ==
    ASSUME Typed, NEW o \in Opens, pc[o] = "ask", NEW answer \in Answers, Take(o, answer)
    PROVE  ActorsTyped'
<1>1. o \in Actors /\ job[o] \in OpenJobs /\ OpenTyped(o)
  BY CallTyped
<1> DEFINE j == [job[o] EXCEPT !.answer = answer]
           p == IF CheckTenantOpening(job[o].asked, answer) THEN "name" ELSE "refuse"
<1>2. j \in OpenJobs /\ j.answer = answer /\ j.index = job[o].index /\ j.asked = job[o].asked
  BY <1>1 DEF OpenJobs
<1>3. Go(o, p) /\ job' = [job EXCEPT ![o] = j]
  BY DEF Take
<1>4. job[o].index \in Indexes
  BY <1>1 DEF OpenTyped, Indexed
<1> HIDE DEF j
<1>5. Moves(o) /\ pc'[o] = p /\ job'[o] = j
  BY <1>1, <1>3, GoMoves
<1>6. OpenTyped(o)'
  BY <1>2, <1>4, <1>5 DEF OpenTyped, Held, Termed, Aliased, Recorded, Registering, Answered, Indexed, OpenWaits
<1> QED
  BY <1>5, <1>6, OpenMoveTyped

LEMMA PinTypes ==
    ASSUME Typed, AliasesOwn, NEW o \in Opens, NEW stated, NEW fields, NEW next,
           pc[o] \in {"terms", "cell"}, next \in {"cell", "watch"},
           Pin(o, stated, fields, next),
           \A f \in fields \cap DOMAIN stated : PinTyped(f, stated[f])
    PROVE  Typed'
<1>1. pc[o] \in Aliased /\ pc[o] \in {"name"} \cup Registering /\ pc[o] # "idle"
  BY DEF Held, Termed, Aliased, Recorded, Registering
<1>2. /\ job[o].answer \in Answers /\ job[o].index \in Indexes /\ ChannelOf(o) \in Channels /\ OpenTyped(o)
      /\ job[o] \in OpenJobs
  BY <1>1, CallTyped
<1>3. alias[ChannelOf(o)] = job[o].index
  BY <1>1 DEF AliasesOwn
<1>4. job[o].index # None
  BY <1>2, PinsAssumption DEF Indexes
<1>5. job[o].index \in DOMAIN record
  BY <1>1, <1>2, <1>3, <1>4 DEF AliasesOwn
<1>6. PICK p \in {"refuse", next} : Go(o, p)
  BY DEF Pin
<1>7. ActorsTyped'
  <2>1. UNCHANGED job /\ p \in OpenWaits /\ p # "states"
    BY DEF Pin, Held, Termed, Aliased, Recorded, Registering, Answered, Indexed, OpenWaits
  <2>2. CheckTenantOpening(job[o].asked, job[o].answer)
    BY <1>1, <1>2 DEF OpenTyped
  <2> QED
    BY <2>1, <2>2, <1>1, <1>2, <1>6, CallMovesTyped
<1>8. TypeOK' /\ StoreTyped'
  <2>1. CASE UNCHANGED record
    BY <2>1, StoreStays DEF Pin, stored, history, Typed, TypeOK
  <2>2. CASE record' = [record EXCEPT ![job[o].index].pins = WithPins(@, stated, fields)]
    <3> DEFINE i == job[o].index
    <3>0. DOMAIN record' = DOMAIN record /\ DOMAIN record \subseteq Indexes
      BY <2>2 DEF Typed, TypeOK
    <3>1. ASSUME NEW j \in DOMAIN record, j # i
          PROVE  record'[j] = record[j]
      BY <2>2, <3>1
    <3>2. /\ DOMAIN record'[i] = DOMAIN record[i] /\ record'[i].channel = record[i].channel
          /\ record'[i].asked = record[i].asked /\ record'[i].served = record[i].served
          /\ record'[i].pins = WithPins(record[i].pins, stated, fields)
      BY <2>2, <1>5 DEF Typed, StoreTyped
    <3>3. IsChannelPins(record'[i].asked, record'[i].pins)
      BY <3>2, <1>5, PinsTyped DEF Typed, TypeOK
    <3>4. \A j \in DOMAIN record' : /\ DOMAIN record'[j] = {"channel", "asked", "pins", "served"}
                                     /\ record'[j].channel \in Channels /\ record'[j].asked \in Asks
                                     /\ IsChannelPins(record'[j].asked, record'[j].pins)
                                     /\ record'[j].served \in BOOLEAN
      BY <3>0, <3>1, <3>2, <3>3, <1>5 DEF Typed, TypeOK, StoreTyped
    <3>5. /\ UNCHANGED <<pending, last, alias, watched, listed, node, handed, bound, calls, faults, signed>>
          /\ faults \in 0 .. bound.faults /\ DOMAIN signed = Indexes /\ \A k \in Indexes : DOMAIN signed[k] = PinNames
      BY DEF Pin, history, Typed, TypeOK, StoreTyped
    <3> QED
      BY <3>0, <3>4, <3>5, RecordChanges
  <2> QED
    BY <2>1, <2>2, <1>3 DEF Pin
<1> QED
  BY <1>7, <1>8 DEF Typed

LEMMA OpenStepTypes ==
    ASSUME Typed, AliasesOwn, NEW o \in Opens, OpenStep(o)
    PROVE  Typed'
<1> USE DEF history
<1>0. calls \in 0 .. bound.calls /\ faults \in 0 .. bound.faults /\ o \in Actors
  BY DEF Typed, TypeOK, Actors
<1>1. CASE Read(o)
  <2>1. job[o] \in OpenJobs /\ OpenTyped(o)
    BY <1>1, CallTyped DEF Read
  <2>2. CASE Matching(job[o].asked)
    <3>1. pending \in [index : Indexes, asked : Asks, channel : Channels \cup {None}]
      BY <2>2 DEF Matching, Typed, StoreTyped
    <3> DEFINE j == [job[o] EXCEPT !.index = pending.index, !.named = pending.channel]
               p == IF pending.channel = None THEN "ask" ELSE "states"
    <3>2. j \in OpenJobs /\ j.index \in Indexes /\ j.named = pending.channel
      <4>1. pending.index \in Indexes /\ pending.index \in 0 .. MaxIndex /\ pending.channel \in Channels \cup {None}
        BY <3>1 DEF Indexes
      <4> DEFINE k == [job[o] EXCEPT !.index = pending.index]
      <4>2. k \in OpenJobs /\ k.index = pending.index
        BY <4>1, <2>1 DEF OpenJobs
      <4>3. j = [k EXCEPT !.named = pending.channel]
        OBVIOUS
      <4> HIDE DEF j, k
      <4>4. j \in OpenJobs /\ j.index = k.index /\ j.named = pending.channel
        BY <4>1, <4>2, <4>3 DEF OpenJobs
      <4> QED
        BY <4>1, <4>2, <4>4
    <3>3. Go(o, p) /\ job' = [job EXCEPT ![o] = j]
      BY <1>1, <2>2 DEF Read
    <3> HIDE DEF j
    <3>4. Moves(o) /\ pc'[o] = p /\ job'[o] = j
      BY <1>0, <3>3, GoMoves
    <3>5. OpenTyped(o)'
      BY <3>1, <3>2, <3>4 DEF OpenTyped, Held, Termed, Aliased, Recorded, Registering, Answered, Indexed, OpenWaits
    <3> QED
      BY <3>4, <3>5, <1>0, <1>1, OpenMoveTyped, StoreStays DEF Read, Typed
  <2>3. CASE ~Matching(job[o].asked)
    <3>1. Go(o, "allocate") /\ UNCHANGED job /\ pc[o] # "idle"
      BY <1>1, <2>3 DEF Read
    <3>2. ActorsTyped'
      BY <3>1, CallMovesTyped DEF Held, Termed, Aliased, Recorded, Registering, Answered, Indexed, OpenWaits
    <3> QED
      BY <3>2, <1>0, <1>1, StoreStays DEF Read, Typed
  <2> QED
    BY <2>2, <2>3
<1>2. CASE States(o)
  <2>1. PICK p \in {"drop", "ask"} : Go(o, p)
    BY <1>2 DEF States
  <2>2. UNCHANGED job /\ pc[o] = "states" /\ job[o].index \in Indexes
    BY <1>2, CallTyped DEF States, OpenTyped, Indexed
  <2>3. ActorsTyped'
    BY <2>1, <2>2, CallMovesTyped DEF Held, Termed, Aliased, Recorded, Registering, Answered, Indexed, OpenWaits
  <2> QED
    BY <2>3, <1>0, <1>2, StoreStays DEF States, Typed
<1>3. CASE Drop(o)
  <2>1. Go(o, "allocate") /\ UNCHANGED job /\ pc[o] # "idle"
    BY <1>3 DEF Drop
  <2>2. ActorsTyped'
    BY <2>1, CallMovesTyped DEF Held, Termed, Aliased, Recorded, Registering, Answered, Indexed, OpenWaits
  <2>3. pending' # None => pending' \in [index : Indexes, asked : Asks, channel : Channels \cup {None}]
    BY <1>3 DEF Drop, Cleared, Typed, StoreTyped
  <2> QED
    BY <2>2, <2>3, <1>3, PendingChanges DEF Drop, Typed
<1>4. ASSUME NEW t \in Clock, Allocate(o, t) PROVE Typed'
  <2>1. job[o] \in OpenJobs /\ NextIndex(t) \in Indexes
    <3>1. NextIndex(t) \in Nat /\ NextIndex(t) > last /\ last \in Nat /\ NextIndex(t) <= MaxIndex
      BY <1>4, NextIndexPast DEF Allocate, Typed, TypeOK
    <3> QED
      BY <3>1, <1>4, CallTyped, OpeningAssumption DEF Allocate, Indexes
  <2> DEFINE j == [job[o] EXCEPT !.index = NextIndex(t)]
  <2>2. j \in OpenJobs /\ j.index \in Indexes
    BY <2>1 DEF OpenJobs, Indexes
  <2>3. Go(o, "write") /\ job' = [job EXCEPT ![o] = j]
    BY <1>4 DEF Allocate
  <2> HIDE DEF j
  <2>4. Moves(o) /\ pc'[o] = "write" /\ job'[o] = j
    BY <1>0, <2>3, GoMoves
  <2>5. OpenTyped(o)'
    BY <2>2, <2>4 DEF OpenTyped, Held, Termed, Aliased, Recorded, Registering, Answered, Indexed, OpenWaits
  <2>6. ActorsTyped'
    BY <2>4, <2>5, OpenMoveTyped
  <2>7. last' \in 0 .. MaxIndex
    BY <1>4, <2>1 DEF Allocate, Indexes
  <2>8. TypeOK'
    BY <2>7, <1>4 DEF Allocate, Typed, TypeOK, IsPendingOpening
  <2>9. StoreTyped'
    BY <1>4 DEF Allocate, Typed, StoreTyped
  <2> QED
    BY <2>6, <2>8, <2>9 DEF Typed
<1>5. CASE Write(o)
  <2>1. UNCHANGED job /\ pc[o] = "write" /\ job[o].index \in Indexes /\ job[o] \in OpenJobs
    BY <1>5, CallTyped DEF Write, OpenTyped, Indexed
  <2>2. ActorsTyped'
    BY <2>1, <1>5, CallMovesTyped DEF Write, Held, Termed, Aliased, Recorded, Registering, Answered, Indexed, OpenWaits
  <2>3. pending' \in [index : Indexes, asked : Asks, channel : Channels \cup {None}]
    BY <2>1, <1>5 DEF Write, OpenJobs
  <2> QED
    BY <2>2, <2>3, <1>5, PendingChanges DEF Write, Typed
<1>6. ASSUME NEW answer \in Answers, Ask(o, answer) PROVE Typed'
  <2>1. ActorsTyped'
    BY <1>6, TakeTyped DEF Ask
  <2>2. <<job[o].index, answer.key>> \in Channels
    BY <1>6, CallTyped, OpeningAssumption DEF Ask, OpenTyped, Indexed, Channels
  <2>3. "opening" \in NodeStates
    BY DEF NodeStates
  <2> QED
    BY <2>1, <2>2, <2>3, <1>0, <1>6, NodeChanges DEF Ask, Typed
<1>7. CASE AskRefused(o)
  BY <1>0, <1>7, CallEndTyped, StoreStays DEF AskRefused, Typed
<1>8. CASE Name(o)
  <2>1. /\ UNCHANGED job /\ pc[o] = "name" /\ job[o].index \in Indexes /\ job[o].answer \in Answers
        /\ ChannelOf(o) \in Channels /\ CheckTenantOpening(job[o].asked, job[o].answer)
    BY <1>8, CallTyped DEF Name, OpenTyped
  <2>2. ActorsTyped'
    BY <2>1, <1>8, CallMovesTyped DEF Name, Held, Termed, Aliased, Recorded, Registering, Answered, Indexed, OpenWaits
  <2>3. pending' # None => pending' \in [index : Indexes, asked : Asks, channel : Channels \cup {None}]
    BY <2>1, <1>8 DEF Name, Typed, StoreTyped
  <2> QED
    BY <2>2, <2>3, <1>8, PendingChanges DEF Name, Typed
<1>9. CASE Register(o)
  <2> DEFINE i == job[o].index
  <2>1. /\ UNCHANGED job /\ pc[o] = "register" /\ i \in Indexes /\ job[o].answer \in Answers
        /\ ChannelOf(o) \in Channels /\ CheckTenantOpening(job[o].asked, job[o].answer) /\ job[o].asked \in Asks
    BY <1>9, CallTyped DEF Register, OpenTyped, OpenJobs, Registering
  <2>2. PICK p \in {"alias", "refuse"} : Go(o, p)
    BY <1>9 DEF Register
  <2>3. ActorsTyped'
    BY <2>1, <2>2, CallMovesTyped DEF Held, Termed, Aliased, Recorded, Registering, Answered, Indexed, OpenWaits
  <2>4. CASE UNCHANGED record
    BY <2>3, <2>4, <1>0, <1>9, StoreStays DEF Register, stored, Typed
  <2>5. CASE record' = [j \in DOMAIN record \cup {i} |->
                           IF j # i THEN record[j]
                           ELSE IF i \in DOMAIN record THEN [record[i] EXCEPT !.channel = ChannelOf(o)]
                           ELSE [channel |-> ChannelOf(o), asked |-> job[o].asked, pins |-> NoPins, served |-> FALSE]]
    <3>1. IsChannelPins(job[o].asked, NoPins)
      <4>1. job[o].asked.funded <= MaxCapacity /\ Reserve(job[o].asked.script, "legacy") <= MaxCapacity
        <5>1. /\ job[o].asked.script.args \in Nat /\ job[o].asked.funded \in Nat
              /\ job[o].asked.funded < MaxCapacity
              /\ job[o].asked.funded >= Reserve(job[o].asked.script, "legacy")
          BY <2>1, OpeningAssumption DEF MayOpen
        <5>2. Reserve(job[o].asked.script, "legacy") \in Nat
          BY <5>1, ReserveTyped DEF Layouts
        <5> QED
          BY <5>1, <5>2, PinsAssumption
      <4>2. ReservesByLayout(job[o].asked.script)
        BY <4>1, <2>1, OpeningAssumption, ReserveTyped
      <4> QED
        BY <4>1, <4>2 DEF IsChannelPins, NoPins, PinNames, FirstSight, Terms, PinForms
    <3>2. DOMAIN record' = DOMAIN record \cup {i} /\ DOMAIN record' \subseteq Indexes
      BY <2>5, <2>1 DEF Typed, TypeOK
    <3>3. ASSUME NEW j \in DOMAIN record', j # i PROVE record'[j] = record[j] /\ j \in DOMAIN record
      BY <2>5, <3>2, <3>3
    <3>4. ASSUME i \in DOMAIN record
          PROVE  /\ DOMAIN record'[i] = DOMAIN record[i] /\ record'[i].channel = ChannelOf(o)
                 /\ record'[i].asked = record[i].asked /\ record'[i].served = record[i].served
                 /\ record'[i].pins = record[i].pins
      BY <2>5, <3>4 DEF Typed, StoreTyped
    <3>5. ASSUME i \notin DOMAIN record
          PROVE  /\ DOMAIN record'[i] = {"channel", "asked", "pins", "served"} /\ record'[i].channel = ChannelOf(o)
                 /\ record'[i].asked = job[o].asked /\ record'[i].served = FALSE
                 /\ record'[i].pins = NoPins
      BY <2>5, <3>5
    <3>6. /\ DOMAIN record'[i] = {"channel", "asked", "pins", "served"}
          /\ record'[i].channel \in Channels /\ record'[i].asked \in Asks
          /\ IsChannelPins(record'[i].asked, record'[i].pins) /\ record'[i].served \in BOOLEAN
      BY <3>1, <3>4, <3>5, <2>1 DEF Typed, TypeOK, StoreTyped
    <3>7. \A j \in DOMAIN record' : /\ DOMAIN record'[j] = {"channel", "asked", "pins", "served"}
                                     /\ record'[j].channel \in Channels /\ record'[j].asked \in Asks
                                     /\ IsChannelPins(record'[j].asked, record'[j].pins)
                                     /\ record'[j].served \in BOOLEAN
      BY <3>2, <3>3, <3>6 DEF Typed, TypeOK, StoreTyped
    <3>8. /\ UNCHANGED <<pending, last, alias, watched, listed, node, handed, bound, calls, faults, signed>>
          /\ DOMAIN signed = Indexes /\ \A k \in Indexes : DOMAIN signed[k] = PinNames
      BY <1>9 DEF Register, Typed, StoreTyped
    <3> QED
      BY <3>2, <3>7, <3>8, <2>3, <1>0, RecordChanges DEF Typed
  <2> QED
    BY <2>4, <2>5, <1>9 DEF Register
<1>10. CASE Alias(o)
  <2>1. /\ UNCHANGED job /\ pc[o] = "alias" /\ job[o].index \in Indexes /\ job[o].answer \in Answers
        /\ ChannelOf(o) \in Channels /\ CheckTenantOpening(job[o].asked, job[o].answer)
    BY <1>10, CallTyped DEF Alias, OpenTyped, Registering, Recorded
  <2>2. ActorsTyped'
    BY <2>1, <1>10, CallMovesTyped DEF Alias, Held, Termed, Aliased, Recorded, Registering, Answered, Indexed, OpenWaits
  <2>3. alias' \in [Channels -> Indexes \cup {None}]
    BY <2>1, <1>10 DEF Alias, Typed, TypeOK
  <2>4. TypeOK'
    BY <2>3, <1>10 DEF Alias, Typed, TypeOK, IsPendingOpening
  <2>5. StoreTyped'
    BY <1>10 DEF Alias, Typed, StoreTyped
  <2> QED
    BY <2>2, <2>4, <2>5 DEF Typed
<1>11. CASE PinTerms(o)
  <2>1. job[o].asked \in Asks /\ job[o].answer \in Answers /\ CheckTenantOpening(job[o].asked, job[o].answer)
    BY <1>11, CallTyped DEF PinTerms, OpenTyped, OpenJobs, Registering, Recorded, Aliased
  <2>2. \A f \in HostTerms \cap DOMAIN TermsPins(job[o].answer) : PinTyped(f, TermsPins(job[o].answer)[f])
    BY <2>1, AnswerPins
  <2> QED
    BY <2>2, <1>11, PinTypes DEF PinTerms
<1>12. CASE PinCell(o)
  <2>1. job[o].asked \in Asks /\ job[o].answer \in Answers /\ CheckTenantOpening(job[o].asked, job[o].answer)
    BY <1>12, CallTyped DEF PinCell, OpenTyped, OpenJobs, Registering, Recorded, Aliased, Termed
  <2>2. \A f \in FirstSight \cap DOMAIN CellPins(job[o].answer) : PinTyped(f, CellPins(job[o].answer)[f])
    BY <2>1, AnswerPins
  <2> QED
    BY <2>2, <1>12, PinTypes DEF PinCell
<1>13. CASE Watch(o)
  <2>1. /\ UNCHANGED job /\ pc[o] = "watch" /\ job[o].index \in Indexes /\ job[o].answer \in Answers
        /\ ChannelOf(o) \in Channels /\ CheckTenantOpening(job[o].asked, job[o].answer)
    BY <1>13, CallTyped DEF Watch, OpenTyped, Registering, Recorded, Aliased, Termed, Held
  <2>2. ActorsTyped'
    BY <2>1, <1>13, CallMovesTyped DEF Watch, Held, Termed, Aliased, Recorded, Registering, Answered, Indexed, OpenWaits
  <2>3. watched' \in Flags
    <3>1. DOMAIN watched \cup {ChannelOf(o)} \in SUBSET Channels
      BY <2>1 DEF Typed, TypeOK
    <3>2. watched' \in [DOMAIN watched \cup {ChannelOf(o)} -> BOOLEAN]
      <4>1. \A d \in DOMAIN watched : watched[d] \in BOOLEAN
        BY DEF Typed, StoreTyped, Flags
      <4>2. watched' = [d \in DOMAIN watched \cup {ChannelOf(o)} |-> IF d \in DOMAIN watched THEN watched[d] ELSE FALSE]
        BY <1>13 DEF Watch, Watched
      <4> QED
        BY <4>1, <4>2
    <3> QED
      BY <3>1, <3>2 DEF Flags
  <2> QED
    BY <2>2, <2>3, <1>13, WatchedChanges DEF Watch, Typed
<1>14. CASE Add(o)
  <2>1. /\ ChannelOf(o) \in Channels /\ job[o].answer \in Answers /\ job[o].asked \in Asks
        /\ CheckTenantOpening(job[o].asked, job[o].answer)
    BY <1>14, CallTyped DEF Add, OpenTyped, OpenJobs, Registering, Recorded, Aliased, Termed, Held
  <2>2. job[o].answer.tx # None /\ job[o].answer.capacity \in Nat
    BY <2>1, AnswerPins, OpeningAssumption
  <2>3. ActorsTyped'
    BY <1>14, CallEndTyped DEF Add
  <2>4. TypeOK'
    BY <2>1, <1>14 DEF Add, Typed, TypeOK, IsPendingOpening
  <2>5. StoreTyped'
    BY <2>1, <2>2, <1>14 DEF Add, Typed, StoreTyped
  <2> QED
    BY <2>3, <2>4, <2>5 DEF Typed
<1>15. CASE Refuse(o)
  <2>1. pending' # None => pending' \in [index : Indexes, asked : Asks, channel : Channels \cup {None}]
    BY <1>15 DEF Refuse, Cleared, Typed, StoreTyped
  <2> QED
    BY <2>1, <1>15, CallEndTyped, PendingChanges DEF Refuse, Typed
<1> QED
  BY <1>1, <1>2, <1>3, <1>4, <1>5, <1>6, <1>7, <1>8, <1>9, <1>10, <1>11, <1>12, <1>13, <1>14, <1>15 DEF OpenStep

(* The runs. *)
LEMMA RunGoesTyped ==
    ASSUME Typed, NEW r \in Runs, NEW p \in {"list", "settle", "mark", "forget"}, NEW j \in RunJobs,
           Go(r, p), job' = [job EXCEPT ![r] = j], p \in {"mark", "forget"} => j.at \in Channels \X NodeStates
    PROVE  ActorsTyped'
<1>1. r \in Actors
  BY DEF Actors
<1>2. Moves(r) /\ pc'[r] = p /\ job'[r] = j
  BY <1>1, GoMoves
<1>3. RunTyped(r)'
  BY <1>2 DEF RunTyped
<1> QED
  BY <1>2, <1>3, RunMoveTyped

LEMMA TowerGoesTyped ==
    ASSUME Typed, NEW w \in TowerRuns, NEW p \in {"open", "answer", "remove"}, NEW j \in TowerJobs,
           Go(w, p), job' = [job EXCEPT ![w] = j], p = "remove" => j.at \in Channels
    PROVE  ActorsTyped'
<1>1. w \in Actors
  BY DEF Actors
<1>2. Moves(w) /\ pc'[w] = p /\ job'[w] = j
  BY <1>1, GoMoves
<1>3. TowerTyped(w)'
  BY <1>2 DEF TowerTyped
<1> QED
  BY <1>2, <1>3, TowerMoveTyped

LEMMA RunStepTypes ==
    ASSUME Typed, NEW r \in Runs, RunStep(r)
    PROVE  Typed'
<1> USE DEF history
<1>0. /\ calls \in 0 .. bound.calls /\ faults \in 0 .. bound.faults /\ r \in Actors
      /\ pc[r] # "idle" => job[r] \in RunJobs
      /\ pc[r] \in {"mark", "forget"} => job[r].at \in Channels \X NodeStates
  BY DEF Typed, TypeOK, Actors, ActorsTyped, RunTyped, RunJobs
<1>1. CASE ReadWatched(r)
  <2> DEFINE j == [seen |-> watched, todo |-> {}, at |-> None, absent |-> {}]
  <2>1. j \in RunJobs
    BY DEF Typed, StoreTyped, RunJobs
  <2>2. ActorsTyped'
    BY <2>1, <1>1, RunGoesTyped DEF ReadWatched
  <2> QED
    BY <2>2, <1>0, <1>1, StoreStays DEF ReadWatched, Typed
<1>2. CASE ListStates(r)
  <2> DEFINE shown == {c \in Channels : node[c] \notin {"none", "aborted"}}
             todo == {<<c, node[c]>> : c \in Due(r, shown)}
             absent == DOMAIN job[r].seen \ shown
             j == [job[r] EXCEPT !.todo = todo, !.absent = absent]
  <2>1. job[r] \in RunJobs
    BY <1>0, <1>2 DEF ListStates
  <2>2. DOMAIN job[r].seen \subseteq Channels
    BY <2>1 DEF RunJobs, Flags
  <2>3. todo \subseteq Channels \X NodeStates /\ absent \subseteq Channels
    BY <2>2 DEF Due, Typed, StoreTyped
  <2> HIDE DEF todo, absent
  <2> DEFINE k == [job[r] EXCEPT !.todo = todo]
  <2>4. k \in RunJobs
    BY <2>1, <2>3 DEF RunJobs
  <2>5. j = [k EXCEPT !.absent = absent]
    OBVIOUS
  <2>6. job' = [job EXCEPT ![r] = j] /\ Go(r, "settle")
    BY <1>2 DEF ListStates, todo, absent
  <2> HIDE DEF j, k
  <2>7. j \in RunJobs
    BY <2>3, <2>4, <2>5 DEF RunJobs
  <2>8. ActorsTyped'
    BY <2>6, <2>7, RunGoesTyped
  <2> QED
    BY <2>8, <1>0, <1>2, StoreStays DEF ListStates, Typed
<1>3. CASE ListPending(r)
  <2> DEFINE todo == {<<c, "aborted">> : c \in {d \in job[r].absent : node[d] = "aborted"}}
             j == [job[r] EXCEPT !.todo = todo, !.absent = {}]
             k == [job[r] EXCEPT !.todo = todo]
  <2>1. job[r] \in RunJobs /\ pc[r] = "settle"
    BY <1>0, <1>3 DEF ListPending
  <2>2. todo \subseteq Channels \X NodeStates
    BY <2>1 DEF RunJobs, NodeStates
  <2> HIDE DEF todo
  <2>3. k \in RunJobs
    BY <2>1, <2>2 DEF RunJobs
  <2>4. j = [k EXCEPT !.absent = {}]
    OBVIOUS
  <2>5. job' = [job EXCEPT ![r] = j] /\ UNCHANGED pc
    BY <1>3 DEF ListPending, todo
  <2> HIDE DEF j, k
  <2>6. j \in RunJobs
    BY <2>3, <2>4 DEF RunJobs
  <2>7. Moves(r) /\ pc'[r] = "settle" /\ job'[r] = j
    BY <2>1, <2>5, <1>0 DEF Moves, Typed, ActorsTyped
  <2>8. RunTyped(r)'
    BY <2>6, <2>7 DEF RunTyped
  <2> QED
    BY <2>7, <2>8, <1>0, <1>3, RunMoveTyped, StoreStays DEF ListPending, Typed
<1>4. CASE StepEnds(r)
  BY <1>0, <1>4, RunEndTyped, StoreStays DEF StepEnds, Typed
<1>5. ASSUME NEW x \in job[r].todo, ClearOpening(r, x) PROVE Typed'
  <2> DEFINE p == IF x[2] = "ready" THEN "mark" ELSE "forget"
             j == [job[r] EXCEPT !.todo = @ \ {x}, !.at = x]
             k == [job[r] EXCEPT !.todo = @ \ {x}]
  <2>1. job[r] \in RunJobs /\ x \in Channels \X NodeStates
    BY <1>0, <1>5 DEF ClearOpening, RunJobs
  <2>3. k \in RunJobs
    BY <2>1 DEF RunJobs
  <2>4. j = [k EXCEPT !.at = x]
    OBVIOUS
  <2>5. job' = [job EXCEPT ![r] = j] /\ Go(r, p)
    BY <1>5 DEF ClearOpening
  <2> HIDE DEF j, k
  <2>6. j \in RunJobs /\ j.at = x
    BY <2>1, <2>3, <2>4 DEF RunJobs
  <2>7. ActorsTyped'
    BY <2>1, <2>5, <2>6, RunGoesTyped
  <2>8. pending' # None => pending' \in [index : Indexes, asked : Asks, channel : Channels \cup {None}]
    BY <1>5 DEF ClearOpening, Cleared, Typed, StoreTyped
  <2> QED
    BY <2>7, <2>8, <1>5, PendingChanges DEF ClearOpening, Typed
<1>6. CASE Mark(r)
  <2> DEFINE j == [job[r] EXCEPT !.at = None]
  <2>1. j \in RunJobs /\ job' = [job EXCEPT ![r] = j] /\ Go(r, "settle")
    BY <1>0, <1>6 DEF Mark, RunJobs
  <2>2. ActorsTyped'
    BY <2>1, RunGoesTyped
  <2>3. watched' \in Flags
    <3>1. PICK D \in SUBSET Channels : watched \in [D -> BOOLEAN]
      BY DEF Typed, StoreTyped, Flags
    <3>2. watched' \in [D -> BOOLEAN]
      BY <3>1, <1>6 DEF Mark
    <3> QED
      BY <3>2 DEF Flags
  <2> QED
    BY <2>2, <2>3, <1>6, WatchedChanges DEF Mark, Typed
<1>7. CASE Forget(r)
  <2> DEFINE j == [job[r] EXCEPT !.at = None]
  <2>1. j \in RunJobs /\ job' = [job EXCEPT ![r] = j] /\ Go(r, "settle")
    BY <1>0, <1>7 DEF Forget, RunJobs
  <2>2. ActorsTyped'
    BY <2>1, RunGoesTyped
  <2>3. watched' \in Flags
    <3>1. PICK D \in SUBSET Channels : watched \in [D -> BOOLEAN]
      BY DEF Typed, StoreTyped, Flags
    <3>2. watched' \in [D \ {job[r].at[1]} -> BOOLEAN] /\ D \ {job[r].at[1]} \in SUBSET Channels
      BY <3>1, <1>7 DEF Forget
    <3> QED
      BY <3>2 DEF Flags
  <2> QED
    BY <2>2, <2>3, <1>7, WatchedChanges DEF Forget, Typed
<1> QED
  BY <1>1, <1>2, <1>3, <1>4, <1>5, <1>6, <1>7 DEF RunStep

LEMMA TowerStepTypes ==
    ASSUME Typed, NEW w \in TowerRuns, TowerStep(w)
    PROVE  Typed'
<1> USE DEF history
<1>0. /\ calls \in 0 .. bound.calls /\ faults \in 0 .. bound.faults /\ w \in Actors
      /\ pc[w] # "idle" => job[w] \in TowerJobs
      /\ pc[w] = "remove" => job[w].at \in Channels
  BY DEF Typed, TypeOK, Actors, ActorsTyped, TowerTyped, TowerJobs
<1>1. CASE ReadListed(w)
  <2> DEFINE j == [todo |-> listed, open |-> {}, at |-> None]
  <2>1. j \in TowerJobs
    BY DEF Typed, TypeOK, TowerJobs
  <2>2. ActorsTyped'
    BY <2>1, <1>1, TowerGoesTyped DEF ReadListed
  <2> QED
    BY <2>2, <1>0, <1>1, StoreStays DEF ReadListed, Typed
<1>2. CASE ReadOpen(w)
  <2> DEFINE j == [job[w] EXCEPT !.open = DOMAIN watched]
  <2>1. j \in TowerJobs /\ job' = [job EXCEPT ![w] = j]
    BY <1>0, <1>2 DEF ReadOpen, Typed, TypeOK, TowerJobs
  <2>2. ActorsTyped'
    BY <2>1, <1>2, TowerGoesTyped DEF ReadOpen
  <2> QED
    BY <2>2, <1>0, <1>2, StoreStays DEF ReadOpen, Typed
<1>3. ASSUME NEW c \in job[w].todo, Answer(w, c) PROVE Typed'
  <2> DEFINE gone == alias[c] # None /\ node[c] \notin {"ready", "closed"} /\ c \notin job[w].open
             at == IF gone THEN c ELSE None
             p == IF gone THEN "remove" ELSE "answer"
             j == [job[w] EXCEPT !.todo = @ \ {c}, !.at = at]
             k == [job[w] EXCEPT !.todo = @ \ {c}]
  <2>1. job[w] \in TowerJobs /\ c \in Channels
    BY <1>0, <1>3 DEF Answer, TowerJobs
  <2>2. at \in Channels \cup {None} /\ (p = "remove" => at \in Channels)
    BY <2>1
  <2>3. k \in TowerJobs
    BY <2>1 DEF TowerJobs
  <2>4. j = [k EXCEPT !.at = at]
    OBVIOUS
  <2>5. job' = [job EXCEPT ![w] = j] /\ Go(w, p)
    BY <1>3 DEF Answer
  <2> HIDE DEF j, k, at
  <2>6. j \in TowerJobs /\ j.at = at
    BY <2>2, <2>3, <2>4 DEF TowerJobs
  <2>7. ActorsTyped'
    BY <2>2, <2>5, <2>6, TowerGoesTyped
  <2> QED
    BY <2>7, <1>0, <1>3, StoreStays DEF Answer, Typed
<1>4. CASE Remove(w)
  <2> DEFINE j == [job[w] EXCEPT !.at = None]
  <2>1. j \in TowerJobs /\ job' = [job EXCEPT ![w] = j]
    BY <1>0, <1>4 DEF Remove, TowerJobs
  <2>2. ActorsTyped'
    BY <2>1, <1>4, TowerGoesTyped DEF Remove
  <2>3. TypeOK'
    BY <1>4 DEF Remove, Typed, TypeOK, IsPendingOpening
  <2>4. StoreTyped'
    BY <1>4 DEF Remove, Typed, StoreTyped
  <2> QED
    BY <2>2, <2>3, <2>4 DEF Typed
<1>5. CASE TowerEnds(w)
  BY <1>0, <1>5, RunEndTyped, StoreStays DEF TowerEnds, Typed
<1> QED
  BY <1>1, <1>2, <1>3, <1>4, <1>5 DEF TowerStep

(* The signing step. *)
LEMMA ServeTypes ==
    ASSUME Typed, AliasesOwn, NEW c \in Channels, NEW op, Serve(c, op)
    PROVE  Typed'
<1> DEFINE i == alias[c]
           next == WithPins(record[i].pins, Stated(op), FirstSight)
<1>1. i \in DOMAIN record /\ i \in Indexes /\ UNCHANGED <<pc, job>>
  BY DEF Serve, AliasesOwn, Typed, TypeOK
<1>2. record' = [record EXCEPT ![i] = [record[i] EXCEPT !.pins = next, !.served = TRUE]]
  BY <1>1 DEF Serve
<1>3. DOMAIN record' = DOMAIN record /\ \A j \in DOMAIN record : j # i => record'[j] = record[j]
  BY <1>2
<1>4. /\ DOMAIN record'[i] = DOMAIN record[i] /\ record'[i].channel = record[i].channel
      /\ record'[i].asked = record[i].asked /\ record'[i].served = TRUE /\ record'[i].pins = next
  BY <1>1, <1>2 DEF Typed, StoreTyped
<1>5. IsChannelPins(record[i].asked, record[i].pins) /\ Pinnable(record[i].pins, record[i].asked.script, op)
  BY <1>1 DEF Serve, Typed, TypeOK
<1>6. \A f \in FirstSight \cap DOMAIN Stated(op) : PinTyped(f, Stated(op)[f])
  BY <1>5, SignedPins
<1>7. IsChannelPins(record'[i].asked, record'[i].pins)
  BY <1>4, <1>5, <1>6, PinsTyped
<1>8. \A j \in DOMAIN record' : /\ DOMAIN record'[j] = {"channel", "asked", "pins", "served"}
                                 /\ record'[j].channel \in Channels /\ record'[j].asked \in Asks
                                 /\ IsChannelPins(record'[j].asked, record'[j].pins)
                                 /\ record'[j].served \in BOOLEAN
  <2> HIDE DEF i, next
  <2>1. /\ DOMAIN record'[i] = {"channel", "asked", "pins", "served"}
        /\ record'[i].channel \in Channels /\ record'[i].asked \in Asks /\ record'[i].served \in BOOLEAN
    BY <1>1, <1>4 DEF Typed, TypeOK, StoreTyped
  <2>2. \A j \in DOMAIN record : /\ DOMAIN record[j] = {"channel", "asked", "pins", "served"}
                                  /\ record[j].channel \in Channels /\ record[j].asked \in Asks
                                  /\ IsChannelPins(record[j].asked, record[j].pins)
                                  /\ record[j].served \in BOOLEAN
    BY DEF Typed, TypeOK, StoreTyped
  <2> QED
    BY <2>1, <2>2, <1>3, <1>7
<1>9. DOMAIN signed' = Indexes /\ \A j \in Indexes : DOMAIN signed'[j] = PinNames
  BY <1>1 DEF Serve, Typed, StoreTyped
<1>10. faults' \in 0 .. bound.faults
  <2>1. faults \in 0 .. bound.faults /\ (UNCHANGED faults \/ Fault)
    BY DEF Serve, Typed, TypeOK
  <2> QED
    BY <2>1, FaultTyped
<1>11. UNCHANGED <<pending, last, alias, watched, listed, node, handed, bound, calls>> /\ DOMAIN record' \subseteq Indexes
  BY <1>3 DEF Serve, Typed, TypeOK
<1>12. TypeOK' /\ StoreTyped'
  BY <1>8, <1>9, <1>10, <1>11, RecordChanges
<1>13. ActorsTyped'
  BY <1>1 DEF Typed, ActorsTyped, OpenTyped, RunTyped, TowerTyped
<1> QED
  BY <1>12, <1>13 DEF Typed

(* The node: a channel goes from one state to another. *)
Turns(c, from, to) == node[c] = from /\ node' = [node EXCEPT ![c] = to]

LEMMA NodeStepTurns ==
    ASSUME NEW c \in Channels, NodeStep(c) \/ Abort(c)
    PROVE  /\ \/ Turns(c, "opening", "aborted") \/ Turns(c, "opening", "ready")
              \/ Turns(c, "ready", "closed") \/ Turns(c, "closed", "settled")
           /\ UNCHANGED <<stored, pc, job, history, bound, calls>> /\ (UNCHANGED faults \/ Fault)
<1>1. CASE Abort(c)
  BY <1>1 DEF Abort, Turns
<1>2. CASE Funded(c)
  BY <1>2 DEF Funded, Turns
<1>3. ASSUME NEW q \in CloseRates, CloseChannel(c, q)
      PROVE  Turns(c, "ready", "closed") /\ UNCHANGED <<stored, pc, job, history, bound, calls, faults>>
  BY <1>3 DEF CloseChannel, Turns
<1>4. CASE Closes(c)
  BY <1>4 DEF Closes, Turns
<1>5. CASE Settles(c)
  BY <1>5 DEF Settles, Turns
<1> QED
  BY <1>1, <1>2, <1>3, <1>4, <1>5 DEF NodeStep

LEMMA NodeStepTypes ==
    ASSUME Typed, NEW c \in Channels, NodeStep(c) \/ Abort(c)
    PROVE  Typed'
<1>1. /\ UNCHANGED <<stored, pc, job, history, bound, calls>> /\ (UNCHANGED faults \/ Fault)
      /\ \E to \in NodeStates : node' = [node EXCEPT ![c] = to]
  BY NodeStepTurns DEF Turns, NodeStates
<1>2. faults' \in 0 .. bound.faults
  BY <1>1, FaultTyped DEF Typed, TypeOK
<1>3. TypeOK' /\ StoreTyped'
  BY <1>1, <1>2, NodeChanges DEF history
<1>4. ActorsTyped'
  BY <1>1 DEF Typed, ActorsTyped, OpenTyped, RunTyped, TowerTyped
<1> QED
  BY <1>3, <1>4 DEF Typed

LEMMA BeginTypes ==
    ASSUME Typed, NEW o \in Opens, NEW asked \in Asks, Begin(o, asked)
    PROVE  Typed'
<1> DEFINE j == [asked |-> asked, index |-> 0, named |-> None, answer |-> None]
<1>1. j \in OpenJobs /\ o \in Actors
  BY OpeningAssumption DEF OpenJobs, Actors
<1>2. Moves(o) /\ pc'[o] = "read" /\ job'[o] = j
  BY <1>1, GoMoves DEF Begin
<1>3. OpenTyped(o)'
  BY <1>1, <1>2 DEF OpenTyped, Held, Termed, Aliased, Recorded, Registering, Answered, Indexed, OpenWaits
<1>4. calls' \in 0 .. bound.calls
  <2>1. calls \in 0 .. bound.calls /\ bound.calls \in Nat
    BY OpeningAssumption DEF Typed, TypeOK
  <2>2. UNCHANGED calls \/ (calls < bound.calls /\ calls' = calls + 1)
    BY DEF Begin
  <2> QED
    BY <2>1, <2>2
<1>5. faults \in 0 .. bound.faults
  BY DEF Typed, TypeOK
<1> QED
  BY <1>2, <1>3, <1>4, <1>5, OpenMoveTyped, StoreStays DEF Begin, Typed, history

LEMMA CrashTypes ==
    ASSUME Typed, Crash
    PROVE  Typed'
<1>1. DOMAIN pc' = Actors /\ DOMAIN job' = Actors /\ \A a \in Actors : pc'[a] = "idle"
  BY DEF Crash
<1>2. ActorsTyped'
  BY <1>1 DEF ActorsTyped, OpenTyped, RunTyped, TowerTyped, Actors,
              Held, Termed, Aliased, Recorded, Registering, Answered, Indexed
<1>3. TypeOK' /\ StoreTyped'
  BY FaultTyped, StoreStays DEF Crash, history, Typed, TypeOK
<1> QED
  BY <1>2, <1>3 DEF Typed

(* Every step keeps the types. *)
LEMMA TypedStep == ASSUME IInv, Next PROVE Typed'
<1> USE DEF history
<1>0. Typed /\ AliasesOwn /\ calls \in 0 .. bound.calls /\ faults \in 0 .. bound.faults
  BY DEF IInv, NameInv, Typed, TypeOK
<1>1. ASSUME NEW o \in Opens, NEW asked \in Asks, Begin(o, asked) PROVE Typed'
  BY <1>0, <1>1, BeginTypes
<1>2. ASSUME NEW o \in Opens, OpenStep(o) PROVE Typed'
  BY <1>0, <1>2, OpenStepTypes
<1>3. ASSUME NEW o \in Opens, OpenFails(o) PROVE Typed'
  BY <1>0, <1>3, CallEndTyped, FaultTyped, StoreStays DEF OpenFails, Typed
<1>4. ASSUME NEW o \in Opens, NEW answer \in Answers, AskLiar(o, answer) PROVE Typed'
  BY <1>0, <1>4, TakeTyped, FaultTyped, StoreStays DEF AskLiar, Typed
<1>5. ASSUME NEW r \in Runs, RunStep(r) PROVE Typed'
  BY <1>0, <1>5, RunStepTypes
<1>6. ASSUME NEW r \in Runs \cup TowerRuns, RunFails(r) PROVE Typed'
  BY <1>0, <1>6, RunEndTyped, FaultTyped, StoreStays DEF RunFails, Typed
<1>7. ASSUME NEW w \in TowerRuns, TowerStep(w) PROVE Typed'
  BY <1>0, <1>7, TowerStepTypes
<1>8. ASSUME NEW c \in Channels, NodeStep(c) \/ Abort(c) PROVE Typed'
  BY <1>0, <1>8, NodeStepTypes
<1>9. ASSUME NEW c \in Channels, NEW tx, Submit(c, tx) PROVE Typed'
  <2>1. UNCHANGED <<stored, node, handed, signed, bound, pc, job, calls, faults>>
    BY <1>9 DEF Submit
  <2>2. TypeOK' /\ StoreTyped'
    BY <2>1, <1>0, StoreStays
  <2>3. ActorsTyped'
    BY <2>1, <1>0 DEF Typed, ActorsTyped, OpenTyped, RunTyped, TowerTyped
  <2> QED
    BY <2>2, <2>3 DEF Typed
<1>10. ASSUME NEW c \in Channels, NEW op, Serve(c, op) PROVE Typed'
  BY <1>0, <1>10, ServeTypes
<1>11. CASE Crash
  BY <1>0, <1>11, CrashTypes
<1> QED
  BY <1>1, <1>2, <1>3, <1>4, <1>5, <1>6, <1>7, <1>8, <1>9, <1>10, <1>11 DEF Next

-----------------------------------------------------------------------------
(* Indexes and names *)

(* Steps that allocate, write, name and register nothing. *)
LEMMA RestKeepsNames ==
    ASSUME NameInv, UNCHANGED <<last, alias>>, DOMAIN record' = DOMAIN record, pending' \in {pending, None},
           \A o \in Opens : pc'[o] = "idle" \/ (pc'[o] = pc[o] /\ job'[o] = job[o])
    PROVE  NameInv'
<1> USE DEF NameInv, Held, Termed, Aliased, Recorded, Registering
<1>1. IndexesUsed'
  BY DEF IndexesUsed
<1>2. WritesFresh'
  BY DEF WritesFresh
<1>3. NamedFirst'
  BY DEF NamedFirst
<1>4. AliasesOwn'
  BY DEF AliasesOwn, ChannelOf
<1> QED
  BY <1>1, <1>2, <1>3, <1>4

(* Steps of a call that do none of these either. *)
LEMMA CallKeepsNames ==
    ASSUME NameInv, NEW o \in Opens, Moves(o), UNCHANGED <<last, alias>>, DOMAIN record' = DOMAIN record,
           pending' \in {pending, None}, pc'[o] # "write",
           pc'[o] \in Registering => pc[o] \in Registering /\ job'[o] = job[o],
           pc'[o] \in Aliased => pc[o] \in Aliased,
           job'[o].index <= last,
           \A q \in Opens \ {o} : pc[q] = "write" => job'[o].index # job[q].index
    PROVE  NameInv'
<1> USE DEF NameInv, Moves, Actors
<1>1. IndexesUsed'
  BY DEF IndexesUsed
<1>2. WritesFresh'
  BY DEF WritesFresh
<1>3. NamedFirst'
  BY DEF NamedFirst
<1>4. AliasesOwn'
  BY DEF AliasesOwn, ChannelOf, Aliased, Registering, Recorded
<1> QED
  BY <1>1, <1>2, <1>3, <1>4

(* A call that keeps its index is told apart from one about to be written. *)
LEMMA IndexKept ==
    ASSUME NameInv, NEW o \in Opens, pc[o] # "idle"
    PROVE  /\ job[o].index <= last
           /\ \A q \in Opens \ {o} : pc[q] = "write" => job[o].index # job[q].index
  BY DEF NameInv, IndexesUsed, WritesFresh

LEMMA TakeNames ==
    ASSUME Typed, NameInv, NEW o \in Opens, NEW answer \in Answers, pc[o] = "ask", Take(o, answer), UNCHANGED stored
    PROVE  NameInv'
<1> DEFINE j == [job[o] EXCEPT !.answer = answer]
           p == IF CheckTenantOpening(job[o].asked, answer) THEN "name" ELSE "refuse"
<1>1. Go(o, p) /\ job' = [job EXCEPT ![o] = j] /\ job[o] \in OpenJobs /\ o \in Actors
  BY CallTyped DEF Take
<1>2. j.index = job[o].index
  BY <1>1 DEF OpenJobs
<1> HIDE DEF j
<1>3. Moves(o) /\ pc'[o] \in {"name", "refuse"} /\ job'[o] = j
  BY <1>1, GoMoves
<1>4. pc'[o] # "write" /\ pc'[o] \notin Registering /\ pc'[o] \notin Aliased
  BY <1>3 DEF Held, Termed, Aliased, Recorded, Registering
<1> QED
  BY <1>2, <1>3, <1>4, IndexKept, CallKeepsNames DEF stored

LEMMA OpenStepNames ==
    ASSUME IInv, NEW o \in Opens, OpenStep(o), Typed'
    PROVE  NameInv'
<1> USE DEF history, stored
<1>0. Typed /\ NameInv /\ o \in Actors /\ last \in Nat
  BY DEF IInv, Actors, Typed, TypeOK
<1>1. CASE Read(o)
  <2>1. pc[o] # "idle" /\ UNCHANGED <<last, alias, record, pending>> /\ job[o] \in OpenJobs
    BY <1>0, <1>1, CallTyped DEF Read
  <2>2. CASE Matching(job[o].asked)
    <3>1. pending # None /\ pending.index <= last
      BY <1>0, <2>2 DEF Matching, NameInv, IndexesUsed
    <3> DEFINE j == [job[o] EXCEPT !.index = pending.index, !.named = pending.channel]
               p == IF pending.channel = None THEN "ask" ELSE "states"
    <3>2. j.index = pending.index
      BY <2>1 DEF OpenJobs
    <3>3. Go(o, p) /\ job' = [job EXCEPT ![o] = j]
      BY <1>1, <2>2 DEF Read
    <3> HIDE DEF j
    <3>4. Moves(o) /\ pc'[o] = p /\ job'[o] = j
      BY <1>0, <3>3, GoMoves
    <3>5. \A q \in Opens \ {o} : pc[q] = "write" => job'[o].index # job[q].index
      BY <1>0, <3>1, <3>2, <3>4 DEF NameInv, WritesFresh
    <3>6. pc'[o] # "write" /\ pc'[o] \notin Registering /\ pc'[o] \notin Aliased
      BY <3>4 DEF Held, Termed, Aliased, Recorded, Registering
    <3> QED
      BY <3>1, <3>2, <3>4, <3>5, <3>6, <2>1, <1>0, CallKeepsNames
  <2>3. CASE ~Matching(job[o].asked)
    <3>1. Moves(o) /\ pc'[o] = "allocate" /\ job'[o] = job[o]
      BY <1>0, <1>1, <2>3, GoStays DEF Read
    <3>2. pc'[o] # "write" /\ pc'[o] \notin Registering /\ pc'[o] \notin Aliased
      BY <3>1 DEF Held, Termed, Aliased, Recorded, Registering
    <3> QED
      BY <3>1, <3>2, <2>1, <1>0, IndexKept, CallKeepsNames
  <2> QED
    BY <2>2, <2>3
<1>2. CASE States(o) \/ Drop(o)
  <2>1. /\ pc[o] # "idle" /\ UNCHANGED <<last, alias, record, job>> /\ pending' \in {pending, None}
        /\ \E p \in {"drop", "ask", "allocate"} : Go(o, p)
    BY <1>2 DEF States, Drop, Cleared
  <2>2. Moves(o) /\ pc'[o] \in {"drop", "ask", "allocate"} /\ job'[o] = job[o]
    BY <2>1, <1>0, GoStays
  <2>3. pc'[o] # "write" /\ pc'[o] \notin Registering /\ pc'[o] \notin Aliased
    BY <2>2 DEF Held, Termed, Aliased, Recorded, Registering
  <2> QED
    BY <2>1, <2>2, <2>3, <1>0, IndexKept, CallKeepsNames
<1>3. ASSUME NEW t \in Clock, Allocate(o, t) PROVE NameInv'
  <2> DEFINE i == NextIndex(t)
             j == [job[o] EXCEPT !.index = i]
  <2>1. i \in Nat /\ i > last /\ last' = i /\ UNCHANGED <<pending, record, alias>>
    BY <1>0, <1>3, NextIndexPast DEF Typed, Allocate
  <2>2. job[o] \in OpenJobs /\ pc[o] # "idle"
    BY <1>0, <1>3, CallTyped DEF Allocate
  <2>3. j.index = i
    BY <2>2 DEF OpenJobs
  <2>4. Go(o, "write") /\ job' = [job EXCEPT ![o] = j]
    BY <1>3 DEF Allocate
  <2> HIDE DEF i, j
  <2>5. Moves(o) /\ pc'[o] = "write" /\ job'[o] = j
    BY <1>0, <2>4, GoMoves
  <2>6. /\ pending # None => pending.index \in Nat /\ pending.index <= last
        /\ \A k \in DOMAIN record : k \in Nat /\ k <= last
        /\ \A q \in Opens : pc[q] # "idle" => job[q].index \in Nat /\ job[q].index <= last
    <3>1. \A q \in Opens : pc[q] # "idle" => job[q].index \in Nat
      BY <1>0, CallTyped DEF OpenJobs
    <3>2. DOMAIN record \subseteq Nat /\ (pending # None => pending.index \in Nat)
      BY <1>0 DEF Typed, TypeOK, IsPendingOpening, Indexes
    <3> QED
      BY <1>0, <3>1, <3>2 DEF NameInv, IndexesUsed
  <2>7. IndexesUsed'
    BY <1>0, <2>1, <2>3, <2>5, <2>6 DEF IndexesUsed, Moves, Actors
  <2>8. WritesFresh'
    BY <1>0, <2>1, <2>3, <2>5, <2>6 DEF WritesFresh, NameInv, Moves, Actors
  <2>9. NamedFirst' /\ AliasesOwn'
    BY <1>0, <2>1, <2>5 DEF NamedFirst, AliasesOwn, NameInv, Moves, Actors, ChannelOf,
                           Held, Termed, Aliased, Recorded, Registering
  <2> QED
    BY <2>7, <2>8, <2>9 DEF NameInv
<1>4. CASE Write(o)
  <2>1. /\ Moves(o) /\ pc'[o] = "ask" /\ job'[o] = job[o] /\ pc[o] = "write"
        /\ UNCHANGED <<last, record, alias>>
    BY <1>0, <1>4, GoStays DEF Write
  <2>2. pending' = [index |-> job[o].index, asked |-> job[o].asked, channel |-> None]
    BY <1>4 DEF Write
  <2>3. IndexesUsed'
    BY <1>0, <2>1, <2>2 DEF IndexesUsed, NameInv, Moves, Actors
  <2>4. WritesFresh'
    BY <1>0, <2>1, <2>2 DEF WritesFresh, NameInv, Moves, Actors
  <2>5. NamedFirst'
    <3>1. job[o].index \notin DOMAIN record
      BY <1>0, <2>1 DEF WritesFresh, NameInv
    <3>2. ASSUME NEW q \in Opens, pc'[q] \in Registering PROVE job'[q].index # job[o].index
      <4>1. q # o
        BY <2>1, <3>2 DEF Held, Termed, Aliased, Recorded, Registering
      <4>2. pc[q] = pc'[q] /\ job[q] = job'[q] /\ pc[q] # "idle"
        BY <4>1, <2>1, <3>2 DEF Moves, Actors, Held, Termed, Aliased, Recorded, Registering
      <4> QED
        BY <4>1, <4>2, <2>1, <1>0 DEF WritesFresh, NameInv
    <3> QED
      BY <2>1, <2>2, <3>1, <3>2 DEF NamedFirst
  <2>6. AliasesOwn'
    BY <1>0, <2>1 DEF AliasesOwn, NameInv, Moves, Actors, ChannelOf, Held, Termed, Aliased
  <2> QED
    BY <2>3, <2>4, <2>5, <2>6 DEF NameInv
<1>6. CASE AskRefused(o) \/ Add(o) \/ Refuse(o)
  <2>1. End(o) /\ UNCHANGED <<last, alias, record>> /\ pending' \in {pending, None}
    BY <1>6 DEF AskRefused, Add, Refuse, Cleared
  <2>2. Moves(o) /\ pc'[o] = "idle"
    BY <1>0, <2>1, EndMoves
  <2>3. \A q \in Opens : pc'[q] = "idle" \/ (pc'[q] = pc[q] /\ job'[q] = job[q])
    BY <2>2 DEF Moves, Actors
  <2> QED
    BY <2>1, <2>3, <1>0, RestKeepsNames
<1>7. CASE Name(o)
  <2>1. /\ Moves(o) /\ pc'[o] = "register" /\ job'[o] = job[o] /\ pc[o] = "name"
        /\ UNCHANGED <<last, record, alias>>
    BY <1>0, <1>7, GoStays DEF Name
  <2>2. ChannelOf(o) \in Channels /\ IndexOf(ChannelOf(o)) = job[o].index /\ ChannelOf(o) # None
    BY <1>0, <2>1, CallTyped, OpeningAssumption DEF Channels, Indexes
  <2>3. /\ pending' = IF pending # None /\ pending.index = job[o].index
                      THEN [pending EXCEPT !.channel = ChannelOf(o)] ELSE pending
        /\ pending # None => pending \in [index : Indexes, asked : Asks, channel : Channels \cup {None}]
    BY <1>0, <1>7 DEF Name, Typed, StoreTyped
  <2>4. \/ pending' = pending /\ (pending # None => pending.index # job[o].index)
        \/ /\ pending # None /\ pending.index = job[o].index
           /\ pending'.index = pending.index /\ pending'.channel = ChannelOf(o)
    BY <2>3
  <2>5. IndexesUsed'
    BY <1>0, <2>1, <2>4 DEF IndexesUsed, NameInv, Moves, Actors
  <2>6. WritesFresh'
    BY <1>0, <2>1, <2>4 DEF WritesFresh, NameInv, Moves, Actors
  <2>7. NamedFirst'
    <3>1. CASE pending' = pending /\ (pending # None => pending.index # job[o].index)
      BY <1>0, <2>1, <3>1 DEF NamedFirst, NameInv, Moves, Actors
    <3>2. CASE pending'.index = job[o].index /\ pending'.channel = ChannelOf(o)
      BY <3>2, <2>2 DEF NamedFirst
    <3> QED
      BY <2>4, <3>1, <3>2
  <2>8. AliasesOwn'
    BY <1>0, <2>1 DEF AliasesOwn, NameInv, Moves, Actors, ChannelOf, Held, Termed, Aliased
  <2> QED
    BY <2>5, <2>6, <2>7, <2>8 DEF NameInv
<1>8. CASE Register(o)
  <2>1. pc[o] = "register" /\ job[o].index <= last /\ UNCHANGED <<last, alias, pending, job>>
    BY <1>0, <1>8, IndexKept DEF Register
  <2>2. PICK p \in {"alias", "refuse"} : Go(o, p)
    BY <1>8 DEF Register
  <2>3. Moves(o) /\ pc'[o] = p /\ job'[o] = job[o]
    BY <1>0, <2>1, <2>2, GoStays
  <2>4. DOMAIN record' \in {DOMAIN record, DOMAIN record \cup {job[o].index}}
    BY <1>8 DEF Register
  <2>5. IndexesUsed'
    BY <1>0, <2>1, <2>3, <2>4 DEF IndexesUsed, NameInv, Moves, Actors
  <2>6. WritesFresh'
    <3>1. SUFFICES ASSUME NEW q \in Opens, pc'[q] = "write"
                   PROVE  /\ job'[q].index \notin DOMAIN record'
                          /\ pending' # None => pending'.index # job'[q].index
                          /\ \A u \in Opens : u # q /\ pc'[u] # "idle" => job'[u].index # job'[q].index
      BY DEF WritesFresh
    <3>2. q # o /\ pc[q] = "write" /\ job'[q] = job[q]
      BY <3>1, <2>3 DEF Moves, Actors
    <3>3. job[q].index \notin DOMAIN record /\ job[o].index # job[q].index
      BY <3>2, <2>1, <1>0 DEF WritesFresh, NameInv
    <3> QED
      BY <3>2, <3>3, <2>1, <2>3, <2>4, <1>0 DEF WritesFresh, NameInv, Moves, Actors
  <2>7. NamedFirst'
    <3>1. pending # None /\ pending.channel = None => job[o].index # pending.index
      BY <1>0, <2>1 DEF NamedFirst, NameInv, Registering
    <3> QED
      BY <1>0, <3>1, <2>1, <2>3, <2>4 DEF NamedFirst, NameInv, Moves, Actors
  <2>8. AliasesOwn'
    <3>1. \A c \in Channels : alias'[c] # None => alias'[c] = IndexOf(c) /\ IndexOf(c) \in DOMAIN record'
      BY <1>0, <2>1, <2>4 DEF AliasesOwn, NameInv
    <3>2. \A q \in Opens : pc'[q] \in Aliased => pc[q] \in Aliased
      BY <2>3 DEF Moves, Actors, Held, Termed, Aliased
    <3> QED
      BY <1>0, <2>1, <3>1, <3>2 DEF AliasesOwn, NameInv, ChannelOf
  <2> QED
    BY <2>5, <2>6, <2>7, <2>8 DEF NameInv
<1>9. CASE Alias(o)
  <2>1. /\ Moves(o) /\ pc'[o] = "terms" /\ job'[o] = job[o] /\ pc[o] = "alias"
        /\ UNCHANGED <<last, record, pending, job>> /\ alias' = [alias EXCEPT ![ChannelOf(o)] = job[o].index]
    BY <1>0, <1>9, GoStays DEF Alias
  <2>2. ChannelOf(o) \in Channels /\ IndexOf(ChannelOf(o)) = job[o].index /\ job[o].index \in DOMAIN record
    BY <1>0, <2>1, CallTyped DEF IInv, PinInv, CallsPinned, CallPinned, Registering, Recorded
  <2>3. IndexesUsed' /\ WritesFresh'
    BY <1>0, <2>1 DEF IndexesUsed, WritesFresh, NameInv, Moves, Actors
  <2>4. NamedFirst'
    BY <1>0, <2>1 DEF NamedFirst, NameInv, Moves, Actors, Registering, Recorded
  <2>5. AliasesOwn'
    <3>1. DOMAIN alias = Channels
      BY <1>0 DEF Typed, TypeOK
    <3>2. \A c \in Channels : alias'[c] # None => alias'[c] = IndexOf(c) /\ IndexOf(c) \in DOMAIN record'
      BY <1>0, <2>1, <2>2, <3>1 DEF AliasesOwn, NameInv
    <3>3. ASSUME NEW q \in Opens, pc'[q] \in Aliased PROVE alias'[ChannelOf(q)] = job[q].index
      <4>1. CASE q = o
        BY <4>1, <2>1, <2>2, <3>1
      <4>2. CASE q # o
        <5>1. pc[q] \in Aliased /\ alias[ChannelOf(q)] = job[q].index
          BY <4>2, <3>3, <2>1, <1>0 DEF AliasesOwn, NameInv, Moves, Actors
        <5>2. ChannelOf(q) \in Channels /\ IndexOf(ChannelOf(q)) = job[q].index
          BY <5>1, <1>0, CallTyped DEF Registering, Recorded, Aliased, Termed, Held
        <5> QED
          BY <5>1, <5>2, <2>1, <2>2, <3>1
      <4> QED
        BY <4>1, <4>2
    <3> QED
      BY <2>1, <3>2, <3>3 DEF AliasesOwn, ChannelOf
  <2> QED
    BY <2>3, <2>4, <2>5 DEF NameInv
<1>10. CASE PinTerms(o) \/ PinCell(o) \/ Watch(o)
  <2>1. /\ pc[o] \in {"terms", "cell", "watch"} /\ UNCHANGED <<last, alias, pending, job>>
        /\ \E p \in {"cell", "watch", "add", "refuse"} : Go(o, p)
        /\ DOMAIN record' = DOMAIN record
    BY <1>10 DEF PinTerms, PinCell, Pin, Watch
  <2>2. Moves(o) /\ pc'[o] \in {"cell", "watch", "add", "refuse"} /\ job'[o] = job[o]
    BY <2>1, <1>0, GoStays
  <2>3. pc'[o] # "write" /\ pc[o] \in Registering /\ pc[o] \in Aliased /\ pc[o] # "idle"
    BY <2>1, <2>2 DEF Held, Termed, Aliased, Recorded, Registering
  <2> QED
    BY <2>1, <2>2, <2>3, <1>0, IndexKept, CallKeepsNames
<1>11. ASSUME NEW answer \in Answers, Ask(o, answer) PROVE NameInv'
  BY <1>0, <1>11, TakeNames DEF Ask
<1> QED
  BY <1>1, <1>2, <1>3, <1>4, <1>6, <1>7, <1>8, <1>9, <1>10, <1>11 DEF OpenStep

(* The runs move themselves, and write little. *)
LEMMA RunStepMoves ==
    ASSUME Typed, NEW r \in Runs, RunStep(r)
    PROVE  /\ Moves(r) /\ pending' \in {pending, None}
           /\ UNCHANGED <<last, record, alias, listed, node, history, bound, calls, faults>>
<1>0. r \in Actors /\ DOMAIN pc = Actors /\ DOMAIN job = Actors
  BY DEF Actors, Typed, ActorsTyped
<1>1. CASE ReadWatched(r)
  BY <1>0, <1>1 DEF ReadWatched, Go, Moves, stored
<1>2. CASE ListStates(r)
  BY <1>0, <1>2 DEF ListStates, Go, Moves, stored
<1>3. CASE ListPending(r)
  BY <1>0, <1>3 DEF ListPending, Moves, stored
<1>4. CASE StepEnds(r)
  BY <1>0, <1>4 DEF StepEnds, End, Go, Moves, stored
<1>5. ASSUME NEW x \in job[r].todo, ClearOpening(r, x)
      PROVE  /\ Moves(r) /\ pending' \in {pending, None}
             /\ UNCHANGED <<last, record, alias, listed, node, history, bound, calls, faults>>
  BY <1>0, <1>5 DEF ClearOpening, Cleared, Go, Moves
<1>6. CASE Mark(r)
  BY <1>0, <1>6 DEF Mark, Go, Moves
<1>7. CASE Forget(r)
  BY <1>0, <1>7 DEF Forget, Go, Moves
<1> QED
  BY <1>1, <1>2, <1>3, <1>4, <1>5, <1>6, <1>7 DEF RunStep

LEMMA TowerStepMoves ==
    ASSUME Typed, NEW w \in TowerRuns, TowerStep(w)
    PROVE  /\ Moves(w) /\ UNCHANGED <<pending, last, record, alias, watched, node, history, bound, calls, faults>>
<1>0. w \in Actors /\ DOMAIN pc = Actors /\ DOMAIN job = Actors
  BY DEF Actors, Typed, ActorsTyped
<1>1. CASE ReadListed(w)
  BY <1>0, <1>1 DEF ReadListed, Go, Moves, stored
<1>2. CASE ReadOpen(w)
  BY <1>0, <1>2 DEF ReadOpen, Go, Moves, stored
<1>3. ASSUME NEW c \in job[w].todo, Answer(w, c)
      PROVE  Moves(w) /\ UNCHANGED <<pending, last, record, alias, watched, node, history, bound, calls, faults>>
  BY <1>0, <1>3 DEF Answer, Go, Moves, stored
<1>4. CASE Remove(w)
  BY <1>0, <1>4 DEF Remove, Go, Moves
<1>5. CASE TowerEnds(w)
  BY <1>0, <1>5 DEF TowerEnds, End, Go, Moves, stored
<1> QED
  BY <1>1, <1>2, <1>3, <1>4, <1>5 DEF TowerStep

(* Every step keeps the indexes and names. *)
LEMMA NameStep == ASSUME IInv, Next, Typed' PROVE NameInv'
<1> USE DEF history, stored
<1>0. Typed /\ NameInv /\ last \in Nat
  BY DEF IInv, Typed, TypeOK
<1>1. ASSUME NEW o \in Opens, NEW asked \in Asks, Begin(o, asked) PROVE NameInv'
  <2> DEFINE j == [asked |-> asked, index |-> 0, named |-> None, answer |-> None]
  <2>1. Moves(o) /\ pc'[o] = "read" /\ job'[o] = j
    BY <1>0, <1>1, GoMoves DEF Begin, Actors
  <2>2. \A q \in Opens : pc[q] = "write" => job[q].index # 0
    BY <1>0, CallTyped DEF OpenTyped, Indexed, Indexes
  <2>3. pc'[o] # "write" /\ pc'[o] \notin Registering /\ pc'[o] \notin Aliased
    BY <2>1 DEF Held, Termed, Aliased, Recorded, Registering
  <2>4. job'[o].index = 0 /\ 0 <= last
    BY <2>1, <1>0
  <2> QED
    BY <2>1, <2>2, <2>3, <2>4, <1>0, <1>1, CallKeepsNames DEF Begin
<1>2. ASSUME NEW o \in Opens, OpenStep(o) PROVE NameInv'
  BY <1>2, OpenStepNames
<1>3. ASSUME NEW o \in Opens, NEW answer \in Answers, AskLiar(o, answer) PROVE NameInv'
  BY <1>0, <1>3, TakeNames DEF AskLiar
<1>4. ASSUME NEW a \in Actors, Moves(a), a \in Opens => pc'[a] = "idle",
             UNCHANGED <<last, alias, record>>, pending' \in {pending, None}
      PROVE  NameInv'
  <2>1. \A o \in Opens : pc'[o] = "idle" \/ (pc'[o] = pc[o] /\ job'[o] = job[o])
    BY <1>4 DEF Moves, Actors
  <2> QED
    BY <2>1, <1>0, <1>4, RestKeepsNames
<1>5. ASSUME NEW a \in Actors, OpenFails(a) \/ RunFails(a) PROVE NameInv'
  BY <1>0, <1>4, <1>5, EndMoves DEF OpenFails, RunFails
<1>6. ASSUME NEW r \in Runs, RunStep(r) PROVE NameInv'
  <2>1. Moves(r) /\ UNCHANGED <<last, alias, record>> /\ pending' \in {pending, None}
    BY <1>0, <1>6, RunStepMoves
  <2> QED
    BY <2>1, <1>4, OpeningAssumption DEF Actors
<1>7. ASSUME NEW w \in TowerRuns, TowerStep(w) PROVE NameInv'
  <2>1. Moves(w) /\ UNCHANGED <<last, alias, record, pending>>
    BY <1>0, <1>7, TowerStepMoves
  <2> QED
    BY <2>1, <1>4, OpeningAssumption DEF Actors
<1>8. ASSUME NEW c \in Channels, NodeStep(c) \/ Abort(c) PROVE NameInv'
  BY <1>0, <1>8, NodeStepTurns, RestKeepsNames
<1>9. ASSUME NEW c \in Channels, NEW tx, Submit(c, tx) PROVE NameInv'
  BY <1>0, <1>9, RestKeepsNames DEF Submit
<1>10. ASSUME NEW c \in Channels, NEW op, Serve(c, op) PROVE NameInv'
  <2>1. DOMAIN record' = DOMAIN record /\ UNCHANGED <<last, alias, pending, pc, job>>
    BY <1>10 DEF Serve
  <2> QED
    BY <2>1, <1>0, RestKeepsNames
<1>11. CASE Crash
  <2>1. UNCHANGED stored /\ \A o \in Opens : pc'[o] = "idle"
    BY <1>11 DEF Crash, Actors
  <2> QED
    BY <2>1, <1>0, RestKeepsNames
<1> QED
  BY <1>1, <1>2, <1>3, <1>5, <1>6, <1>7, <1>8, <1>9, <1>10, <1>11 DEF Next, Actors

-----------------------------------------------------------------------------
(* Pins *)

(* Nothing that was pinned, asked or named changes. *)
PinsGrow ==
    /\ DOMAIN record \subseteq DOMAIN record'
    /\ \A i \in DOMAIN record :
          /\ record'[i].asked = record[i].asked
          /\ \A f \in PinNames : record[i].pins[f] # None => record'[i].pins[f] = record[i].pins[f]

NamesGrow == \A c \in Channels : alias[c] # None => alias'[c] = alias[c]

(* What is asked of a step that may pin a layout. *)
LayoutsAdd ==
    \A i \in DOMAIN record' : record'[i].pins["lockLayout"] # None =>
        (i \in DOMAIN record /\ record[i].pins["lockLayout"] # None) \/ Adds(record'[i])

LEMMA PinNameList ==
    /\ {"fundingOutPoint", "fundingCapacity", "remoteKeys", "lockLayout", "liquidCapacity", "remoteReserved",
        "remoteCloseScript"} \subseteq PinNames
    /\ HostTerms \subseteq PinNames
    /\ {"remoteKeys", "liquidCapacity", "remoteReserved", "remoteCloseScript"} \subseteq HostTerms
    /\ "lockLayout" \notin HostTerms
  BY DEF PinNames, FirstSight, Terms, HostTerms

LEMMA CallStaysPinned ==
    ASSUME Typed, PinsGrow, NEW o \in Opens, CallPinned(o), pc'[o] = pc[o], job'[o] = job[o]
    PROVE  CallPinned(o)'
<1>1. ASSUME pc[o] \in Recorded
      PROVE  /\ job[o].index \in DOMAIN record' /\ record'[job[o].index].asked.script = job[o].asked.script
             /\ job[o].index \in DOMAIN record /\ job[o].answer \in Answers /\ job[o].asked \in Asks
             /\ CheckTenantOpening(job[o].asked, job[o].answer)
  <2>1. pc[o] # "idle" /\ pc[o] \in {"name"} \cup Registering
    BY <1>1 DEF Held, Termed, Aliased, Recorded, Registering
  <2>2. job[o].answer \in Answers /\ job[o].asked \in Asks /\ CheckTenantOpening(job[o].asked, job[o].answer)
    BY <2>1, CallTyped DEF OpenTyped, OpenJobs
  <2> QED
    BY <2>2, <1>1 DEF CallPinned, PinsGrow
<1>2. ASSUME pc[o] \in Termed
      PROVE  \A f \in HostTerms : record'[job[o].index].pins[f] = TermsPins(job[o].answer)[f]
  <2>1. pc[o] \in Recorded
    BY <1>2 DEF Recorded, Aliased
  <2>2. \A f \in HostTerms : Pins(o)[f] = TermsPins(job[o].answer)[f] /\ TermsPins(job[o].answer)[f] # None
    BY <2>1, <1>1, <1>2, AnswerPins DEF CallPinned
  <2> QED
    BY <2>1, <2>2, <1>1, PinNameList DEF PinsGrow, Pins
<1>3. ASSUME pc[o] \in Held
      PROVE  \A f \in DOMAIN CellPins(job[o].answer) : record'[job[o].index].pins[f] = CellPins(job[o].answer)[f]
  <2>1. pc[o] \in Recorded
    BY <1>3 DEF Recorded, Aliased, Termed
  <2>2. /\ DOMAIN CellPins(job[o].answer) = {"fundingOutPoint", "fundingCapacity"}
        /\ \A f \in DOMAIN CellPins(job[o].answer) :
              Pins(o)[f] = CellPins(job[o].answer)[f] /\ CellPins(job[o].answer)[f] # None
    BY <2>1, <1>1, <1>3, AnswerPins DEF CallPinned
  <2> QED
    BY <2>1, <2>2, <1>1, PinNameList DEF PinsGrow, Pins
<1> QED
  BY <1>1, <1>2, <1>3 DEF CallPinned, Pins

LEMMA FitStays ==
    ASSUME Typed, PinsGrow, NEW i \in DOMAIN record, NEW capacity, Fits(record[i], capacity)
    PROVE  Fits(record'[i], capacity)
  BY PinNameList DEF PinsGrow, Fits

(* The handed openings fit as before, and so does what was signed. *)
LEMMA PinsHold ==
    ASSUME Typed, PinInv, PinsGrow, NamesGrow, LayoutsAdd, UNCHANGED handed,
           \A o \in Opens : CallPinned(o)'
    PROVE  CallsPinned' /\ LayoutLast' /\ HandedFit' /\ OneFundingPerIndex'
<1>1. CallsPinned'
  BY DEF CallsPinned
<1>2. LayoutLast'
  <2>1. SUFFICES ASSUME NEW i \in DOMAIN record', record'[i].pins["lockLayout"] # None PROVE Adds(record'[i])
    BY DEF LayoutLast
  <2>2. CASE i \in DOMAIN record /\ record[i].pins["lockLayout"] # None
    <3>1. Adds(record[i])
      BY <2>2 DEF PinInv, LayoutLast
    <3> QED
      BY <2>2, <3>1, PinNameList DEF Adds, PinsGrow
  <2> QED
    BY <2>1, <2>2 DEF LayoutsAdd
<1>3. ASSUME NEW h \in handed
      PROVE  /\ h.channel \in Channels /\ h.channel[2] \in Keys /\ h.tx # None /\ h.capacity # None
             /\ IndexOf(h.channel) \in DOMAIN record /\ alias[h.channel] = IndexOf(h.channel)
             /\ IndexOf(h.channel) # None
  <2>1. h.channel \in Channels /\ h.tx # None /\ h.capacity # None
    BY PinsAssumption DEF Typed, StoreTyped
  <2>2. h.channel[2] \in Keys /\ IndexOf(h.channel) \in Nat
    BY <2>1 DEF Channels, Indexes, IndexOf
  <2> QED
    BY <2>1, <2>2, PinsAssumption DEF PinInv, OneFundingPerIndex
<1>4. HandedFit'
  BY <1>3, FitStays DEF PinInv, HandedFit
<1>5. OneFundingPerIndex'
  <2>1. ASSUME NEW h \in handed
        PROVE  /\ alias'[h.channel] = IndexOf(h.channel) /\ IndexOf(h.channel) \in DOMAIN record'
               /\ record'[IndexOf(h.channel)].pins["fundingOutPoint"] = h.tx
               /\ record'[IndexOf(h.channel)].pins["fundingCapacity"] = h.capacity
               /\ record'[IndexOf(h.channel)].pins["remoteKeys"] = h.channel[2]
    <3>1. /\ record[IndexOf(h.channel)].pins["fundingOutPoint"] = h.tx
          /\ record[IndexOf(h.channel)].pins["fundingCapacity"] = h.capacity
          /\ record[IndexOf(h.channel)].pins["remoteKeys"] = h.channel[2]
      BY DEF PinInv, OneFundingPerIndex
    <3> QED
      BY <3>1, <1>3, PinNameList, OpeningAssumption DEF PinsGrow, NamesGrow
  <2> QED
    BY <2>1 DEF OneFundingPerIndex
<1> QED
  BY <1>1, <1>2, <1>4, <1>5

LEMMA PinsKept ==
    ASSUME Typed, PinInv, PinsGrow, NamesGrow, LayoutsAdd, UNCHANGED <<handed, signed>>,
           \A o \in Opens : CallPinned(o)'
    PROVE  PinInv'
<1>1. CallsPinned' /\ LayoutLast' /\ HandedFit' /\ OneFundingPerIndex'
  BY PinsHold
<1>2. SignedIsStated'
  BY DEF PinInv, SignedIsStated
<1>3. SignedAsPinned'
  BY DEF PinInv, SignedIsStated, SignedAsPinned, PinsGrow
<1> QED
  BY <1>1, <1>2, <1>3 DEF PinInv

(* Steps that leave the records and names, and take no call further. *)
LEMMA RestKeepsPins ==
    ASSUME Typed, PinInv, UNCHANGED <<record, alias, handed, signed>>,
           \A o \in Opens : pc'[o] \notin Recorded \/ (pc'[o] = pc[o] /\ job'[o] = job[o])
    PROVE  PinInv'
<1>1. PinsGrow /\ NamesGrow /\ LayoutsAdd
  BY DEF PinsGrow, NamesGrow, LayoutsAdd
<1>2. ASSUME NEW o \in Opens PROVE CallPinned(o)'
  <2>1. CASE pc'[o] \notin Recorded
    BY <2>1 DEF CallPinned, Recorded, Aliased, Termed
  <2>2. CASE pc'[o] = pc[o] /\ job'[o] = job[o]
    BY <2>2, <1>1, CallStaysPinned DEF PinInv, CallsPinned
  <2> QED
    BY <2>1, <2>2
<1> QED
  BY <1>1, <1>2, PinsKept

(* A call moves, with the records growing or not. *)
LEMMA CallKeepsPins ==
    ASSUME Typed, PinInv, NEW o \in Opens, Moves(o), PinsGrow, NamesGrow, LayoutsAdd,
           UNCHANGED <<handed, signed>>, CallPinned(o)'
    PROVE  PinInv'
<1>1. ASSUME NEW q \in Opens PROVE CallPinned(q)'
  <2>1. CASE q # o
    BY <2>1, CallStaysPinned DEF PinInv, CallsPinned, Moves, Actors
  <2> QED
    BY <2>1
<1> QED
  BY <1>1, PinsKept

LEMMA CallLeavesPins ==
    ASSUME Typed, PinInv, NEW o \in Opens, Moves(o), UNCHANGED <<record, alias, handed, signed>>,
           pc'[o] \notin Recorded
    PROVE  PinInv'
<1>1. \A q \in Opens : pc'[q] \notin Recorded \/ (pc'[q] = pc[q] /\ job'[q] = job[q])
  BY DEF Moves, Actors
<1> QED
  BY <1>1, RestKeepsPins

(* pinHostValues: the record grows, and holds what was stated. *)
LEMMA PinPins ==
    ASSUME Typed, NameInv, PinInv, NEW o \in Opens, NEW stated, NEW fields, NEW next,
           pc[o] \in {"terms", "cell"}, Pin(o, stated, fields, next), "lockLayout" \notin DOMAIN stated
    PROVE  /\ PinsGrow /\ NamesGrow /\ LayoutsAdd /\ UNCHANGED <<handed, signed, job>>
           /\ Moves(o) /\ job'[o] = job[o] /\ pc'[o] \in {"refuse", next}
           /\ \/ pc'[o] = "refuse"
              \/ \A f \in PinNames \cap fields \cap DOMAIN stated : record'[job[o].index].pins[f] = stated[f]
<1> DEFINE i == job[o].index
<1>1. pc[o] \in Recorded /\ pc[o] \in Aliased
  BY DEF Held, Termed, Aliased, Recorded
<1>2. i \in DOMAIN record /\ alias[ChannelOf(o)] = i
  BY <1>1 DEF PinInv, CallsPinned, CallPinned, NameInv, AliasesOwn
<1>3. UNCHANGED <<alias, handed, signed, job>> /\ NamesGrow
  BY DEF Pin, history, NamesGrow
<1>4. PICK p \in {"refuse", next} : Go(o, p)
  BY DEF Pin
<1>5. Moves(o) /\ pc'[o] = p /\ job'[o] = job[o]
  BY <1>3, <1>4, GoStays DEF Actors
<1>6. CASE Go(o, "refuse") /\ UNCHANGED record
  <2>1. pc'[o] = "refuse"
    BY <1>6 DEF Go, Typed, ActorsTyped, Actors
  <2> QED
    BY <2>1, <1>3, <1>5, <1>6 DEF PinsGrow, LayoutsAdd
<1>7. CASE /\ ~Conflicts(record[i].pins, record[i].asked.script, stated)
           /\ record' = [record EXCEPT ![i].pins = WithPins(@, stated, fields)]
  <2>1. DOMAIN record' = DOMAIN record /\ \A k \in DOMAIN record : k # i => record'[k] = record[k]
    BY <1>7
  <2>2. record'[i].asked = record[i].asked /\ record'[i].pins = WithPins(record[i].pins, stated, fields)
    BY <1>2, <1>7 DEF Typed, StoreTyped
  <2>3. PinsGrow
    BY <2>1, <2>2, <1>2, PinsStay DEF PinsGrow
  <2>4. record'[i].pins["lockLayout"] = record[i].pins["lockLayout"]
    BY <2>2, PinNameList DEF WithPins
  <2>5. LayoutsAdd
    BY <2>1, <2>4, <1>2 DEF LayoutsAdd
  <2>6. \A f \in PinNames \cap fields \cap DOMAIN stated : record'[i].pins[f] = stated[f]
    BY <2>2, <1>7, PinsStated
  <2> QED
    BY <2>3, <2>5, <2>6, <1>3, <1>5
<1> QED
  BY <1>2, <1>6, <1>7 DEF Pin

LEMMA OpenStepPins ==
    ASSUME IInv, NEW o \in Opens, OpenStep(o), Typed'
    PROVE  PinInv'
<1> USE DEF history, stored
<1>0. Typed /\ NameInv /\ PinInv /\ o \in Actors
  BY DEF IInv, Actors
<1>1. CASE Read(o)
  <2>1. UNCHANGED stored /\ UNCHANGED <<handed, signed>>
        /\ \E p \in {"allocate", "ask", "states"} : Go(o, p)
    BY <1>1 DEF Read
  <2>2. Moves(o) /\ pc'[o] \in {"allocate", "ask", "states"}
    BY <2>1, <1>0, <1>1 DEF Read, Go, Moves, Typed, ActorsTyped
  <2>3. pc'[o] \notin Recorded
    BY <2>2 DEF Held, Termed, Aliased, Recorded
  <2> QED
    BY <2>1, <2>2, <2>3, <1>0, CallLeavesPins
<1>2. CASE States(o) \/ Drop(o) \/ Write(o) \/ Name(o)
  <2>1. /\ UNCHANGED <<record, alias, handed, signed, job>>
        /\ \E p \in {"drop", "ask", "allocate", "register"} : Go(o, p)
    BY <1>2 DEF States, Drop, Write, Name
  <2>2. Moves(o) /\ pc'[o] \in {"drop", "ask", "allocate", "register"}
    BY <2>1, <1>0, GoStays
  <2>3. pc'[o] \notin Recorded
    BY <2>2 DEF Held, Termed, Aliased, Recorded
  <2> QED
    BY <2>1, <2>2, <2>3, <1>0, CallLeavesPins
<1>3. ASSUME NEW t \in Clock, Allocate(o, t) PROVE PinInv'
  <2>1. UNCHANGED <<record, alias, handed, signed>> /\ Go(o, "write")
    BY <1>3 DEF Allocate
  <2>2. Moves(o) /\ pc'[o] = "write"
    BY <2>1, <1>0, <1>3 DEF Allocate, Go, Moves, Typed, ActorsTyped
  <2>3. pc'[o] \notin Recorded
    BY <2>2 DEF Held, Termed, Aliased, Recorded
  <2> QED
    BY <2>1, <2>2, <2>3, <1>0, CallLeavesPins
<1>4. ASSUME NEW answer \in Answers, Ask(o, answer) PROVE PinInv'
  <2>1. Moves(o) /\ pc'[o] \in {"name", "refuse"}
    BY <1>0, <1>4 DEF Ask, Take, Go, Moves, Typed, ActorsTyped
  <2>2. pc'[o] \notin Recorded
    BY <2>1 DEF Held, Termed, Aliased, Recorded
  <2> QED
    BY <2>1, <2>2, <1>0, <1>4, CallLeavesPins DEF Ask
<1>5. CASE AskRefused(o) \/ Refuse(o)
  <2>1. Moves(o) /\ pc'[o] = "idle" /\ UNCHANGED <<record, alias, handed, signed>>
    BY <1>0, <1>5, EndMoves DEF AskRefused, Refuse
  <2>2. pc'[o] \notin Recorded
    BY <2>1 DEF Held, Termed, Aliased, Recorded
  <2> QED
    BY <2>1, <2>2, <1>0, CallLeavesPins
<1>6. CASE Register(o)
  <2> DEFINE i == job[o].index
  <2>1. UNCHANGED <<alias, handed, signed, job>> /\ NamesGrow
    BY <1>6 DEF Register, NamesGrow
  <2>2. CASE Go(o, "refuse") /\ UNCHANGED record
    <3>1. Moves(o) /\ pc'[o] = "refuse"
      BY <1>0, <2>1, <2>2, GoStays
    <3>2. pc'[o] \notin Recorded
      BY <3>1 DEF Held, Termed, Aliased, Recorded
    <3> QED
      BY <3>1, <3>2, <2>1, <2>2, <1>0, CallLeavesPins
  <2>3. CASE /\ Registered(o) /\ Go(o, "alias")
             /\ record' = [j \in DOMAIN record \cup {i} |->
                     IF j # i THEN record[j]
                     ELSE IF i \in DOMAIN record THEN [record[i] EXCEPT !.channel = ChannelOf(o)]
                     ELSE [channel |-> ChannelOf(o), asked |-> job[o].asked, pins |-> NoPins, served |-> FALSE]]
    <3>1. Moves(o) /\ pc'[o] = "alias" /\ job'[o] = job[o]
      BY <1>0, <2>1, <2>3, GoStays
    <3>2. DOMAIN record' = DOMAIN record \cup {i} /\ \A j \in DOMAIN record : j # i => record'[j] = record[j]
      BY <2>3
    <3>3. i \in DOMAIN record => record'[i].asked = record[i].asked /\ record'[i].pins = record[i].pins
      BY <1>0, <2>3 DEF Typed, StoreTyped
    <3>4. i \notin DOMAIN record => record'[i].asked = job[o].asked /\ record'[i].pins = NoPins
      BY <2>3
    <3>5. PinsGrow
      BY <3>2, <3>3 DEF PinsGrow
    <3>6. NoPins["lockLayout"] = None
      BY PinNameList DEF NoPins
    <3>7. LayoutsAdd
      BY <3>2, <3>3, <3>4, <3>6 DEF LayoutsAdd
    <3>8. record'[i].asked.script = job[o].asked.script
      BY <3>3, <3>4, <2>3 DEF Registered
    <3>9. CallPinned(o)'
      BY <3>1, <3>2, <3>8 DEF CallPinned, Held, Termed
    <3> QED
      BY <3>1, <3>5, <3>7, <3>9, <2>1, <1>0, CallKeepsPins
  <2> QED
    BY <2>2, <2>3, <1>6 DEF Register
<1>7. CASE Alias(o)
  <2>1. /\ UNCHANGED <<record, handed, signed, job>> /\ alias' = [alias EXCEPT ![ChannelOf(o)] = job[o].index]
        /\ Moves(o) /\ pc'[o] = "terms" /\ job'[o] = job[o] /\ pc[o] = "alias"
    BY <1>0, <1>7, GoStays DEF Alias
  <2>2. ChannelOf(o) \in Channels /\ IndexOf(ChannelOf(o)) = job[o].index /\ DOMAIN alias = Channels
    BY <1>0, <2>1, CallTyped DEF Registering, Recorded, Typed, TypeOK
  <2>3. NamesGrow
    BY <1>0, <2>1, <2>2 DEF NamesGrow, NameInv, AliasesOwn
  <2>4. PinsGrow /\ LayoutsAdd
    BY <2>1 DEF PinsGrow, LayoutsAdd
  <2>5. CallPinned(o)'
    BY <1>0, <2>1 DEF PinInv, CallsPinned, CallPinned, Recorded, Termed, Held
  <2> QED
    BY <2>1, <2>3, <2>4, <2>5, <1>0, CallKeepsPins
<1>8. CASE PinTerms(o) \/ PinCell(o)
  <2>1. /\ pc[o] \in {"terms", "cell"} /\ pc[o] \in {"name"} \cup Registering /\ pc[o] \in Recorded /\ pc[o] # "idle"
        /\ pc[o] = "cell" => pc[o] \in Termed
    BY <1>8 DEF PinTerms, PinCell, Held, Termed, Aliased, Recorded, Registering
  <2>2. job[o].asked \in Asks /\ job[o].answer \in Answers /\ CheckTenantOpening(job[o].asked, job[o].answer)
    BY <1>0, <2>1, CallTyped DEF OpenTyped, OpenJobs
  <2>3. /\ DOMAIN TermsPins(job[o].answer) = HostTerms
        /\ \A f \in HostTerms : TermsPins(job[o].answer)[f] # None
        /\ DOMAIN CellPins(job[o].answer) = {"fundingOutPoint", "fundingCapacity"}
    BY <2>2, AnswerPins
  <2>4. "lockLayout" \notin DOMAIN TermsPins(job[o].answer) /\ "lockLayout" \notin DOMAIN CellPins(job[o].answer)
    BY <2>3, PinNameList
  <2>5. ASSUME PinsGrow
        PROVE  /\ job[o].index \in DOMAIN record'
               /\ record'[job[o].index].asked.script = job[o].asked.script
    BY <1>0, <2>1, <2>5 DEF PinsGrow, PinInv, CallsPinned, CallPinned
  <2>6. CASE PinTerms(o)
    <3>1. pc[o] = "terms" /\ Pin(o, TermsPins(job[o].answer), HostTerms, "cell")
      BY <2>6 DEF PinTerms
    <3>2. /\ PinsGrow /\ NamesGrow /\ LayoutsAdd /\ UNCHANGED <<handed, signed, job>>
          /\ Moves(o) /\ job'[o] = job[o] /\ pc'[o] \in {"refuse", "cell"}
          /\ \/ pc'[o] = "refuse"
             \/ \A f \in PinNames \cap HostTerms \cap DOMAIN TermsPins(job[o].answer) :
                   record'[job[o].index].pins[f] = TermsPins(job[o].answer)[f]
      BY <3>1, <2>4, <1>0, PinPins
    <3>3. CallPinned(o)'
      BY <3>2, <2>3, <2>5, PinNameList DEF CallPinned, Pins, Held, Termed, Aliased, Recorded
    <3> QED
      BY <3>2, <3>3, <1>0, CallKeepsPins
  <2>7. CASE PinCell(o)
    <3>1. pc[o] = "cell" /\ Pin(o, CellPins(job[o].answer), FirstSight, "watch")
      BY <2>7 DEF PinCell
    <3>2. /\ PinsGrow /\ NamesGrow /\ LayoutsAdd /\ UNCHANGED <<handed, signed, job>>
          /\ Moves(o) /\ job'[o] = job[o] /\ pc'[o] \in {"refuse", "watch"}
          /\ \/ pc'[o] = "refuse"
             \/ \A f \in PinNames \cap FirstSight \cap DOMAIN CellPins(job[o].answer) :
                   record'[job[o].index].pins[f] = CellPins(job[o].answer)[f]
      BY <3>1, <2>4, <1>0, PinPins
    <3>3. \A f \in HostTerms : record'[job[o].index].pins[f] = TermsPins(job[o].answer)[f]
      <4>1. job[o].index \in DOMAIN record
            /\ \A f \in HostTerms : record[job[o].index].pins[f] = TermsPins(job[o].answer)[f]
        BY <3>1, <2>1, <1>0 DEF PinInv, CallsPinned, CallPinned, Pins
      <4> QED
        BY <4>1, <3>2, <2>3, PinNameList DEF PinsGrow
    <3>4. DOMAIN CellPins(job[o].answer) \subseteq PinNames \cap FirstSight
      BY <2>3 DEF FirstSight, PinNames
    <3>5. CallPinned(o)'
      BY <3>2, <3>3, <3>4, <2>5 DEF CallPinned, Pins, Held, Termed, Aliased, Recorded
    <3> QED
      BY <3>2, <3>5, <1>0, CallKeepsPins
  <2> QED
    BY <2>6, <2>7, <1>8
<1>9. CASE Watch(o)
  <2>1. /\ UNCHANGED <<record, alias, handed, signed, job>>
        /\ Moves(o) /\ pc'[o] = "add" /\ job'[o] = job[o] /\ pc[o] = "watch"
    BY <1>0, <1>9, GoStays DEF Watch
  <2>2. PinsGrow /\ NamesGrow /\ LayoutsAdd
    BY <2>1 DEF PinsGrow, NamesGrow, LayoutsAdd
  <2>3. CallPinned(o)'
    BY <1>0, <2>1 DEF PinInv, CallsPinned, CallPinned, Pins, Held, Termed, Aliased, Recorded
  <2> QED
    BY <2>1, <2>2, <2>3, <1>0, CallKeepsPins
<1>10. CASE Add(o)
  <2> DEFINE new == [asked |-> job[o].asked, channel |-> ChannelOf(o), tx |-> job[o].answer.tx,
                     capacity |-> job[o].answer.capacity]
             r == record[job[o].index]
  <2>1. /\ UNCHANGED <<record, alias, signed>> /\ handed' = handed \cup {new}
        /\ Moves(o) /\ pc'[o] = "idle" /\ pc[o] = "add"
    BY <1>0, <1>10, EndMoves DEF Add
  <2>2. pc[o] \in Aliased /\ pc[o] \in Held /\ pc[o] \in Termed /\ pc[o] \in Recorded
        /\ pc[o] \in {"name"} \cup Registering /\ pc[o] # "idle"
    BY <2>1 DEF Held, Termed, Aliased, Recorded, Registering
  <2>3. /\ job[o].asked \in Asks /\ job[o].answer \in Answers /\ CheckTenantOpening(job[o].asked, job[o].answer)
        /\ IndexOf(ChannelOf(o)) = job[o].index /\ ChannelOf(o)[2] = job[o].answer.key
    BY <1>0, <2>2, CallTyped DEF OpenTyped, OpenJobs
  <2>4. /\ job[o].index \in DOMAIN record /\ r.asked.script = job[o].asked.script
        /\ \A f \in HostTerms : r.pins[f] = TermsPins(job[o].answer)[f]
        /\ \A f \in DOMAIN CellPins(job[o].answer) : r.pins[f] = CellPins(job[o].answer)[f]
        /\ alias[ChannelOf(o)] = job[o].index
    BY <1>0, <2>2 DEF PinInv, CallsPinned, CallPinned, Pins, NameInv, AliasesOwn
  <2>5. /\ \A f \in HostTerms : TermsPins(job[o].answer)[f] # None
        /\ DOMAIN CellPins(job[o].answer) = {"fundingOutPoint", "fundingCapacity"}
        /\ \E l \in Layouts :
              /\ job[o].answer.remoteReserve = Reserve(job[o].answer.script, l)
              /\ job[o].answer.capacity = TermsPins(job[o].answer)["liquidCapacity"] + job[o].answer.remoteReserve
                                          + Reserve(job[o].asked.script, l)
    BY <2>3, AnswerPins
  <2>6. /\ r.pins["remoteReserved"] = job[o].answer.remoteReserve /\ r.pins["remoteReserved"] # None
        /\ r.pins["remoteCloseScript"] = job[o].answer.script /\ r.pins["remoteCloseScript"] # None
        /\ r.pins["remoteKeys"] = job[o].answer.key
        /\ r.pins["liquidCapacity"] = TermsPins(job[o].answer)["liquidCapacity"] /\ r.pins["liquidCapacity"] # None
    <3>1. /\ TermsPins(job[o].answer)["remoteReserved"] = job[o].answer.remoteReserve
          /\ TermsPins(job[o].answer)["remoteCloseScript"] = job[o].answer.script
          /\ TermsPins(job[o].answer)["remoteKeys"] = job[o].answer.key
      BY DEF TermsPins
    <3> QED
      BY <3>1, <2>4, <2>5, PinNameList
  <2>7. r.pins["fundingOutPoint"] = job[o].answer.tx /\ r.pins["fundingCapacity"] = job[o].answer.capacity
    BY <2>4, <2>5 DEF CellPins
  <2>8. Fits(r, new.capacity)
    BY <2>4, <2>5, <2>6 DEF Fits
  <2>9. HandedFit'
    BY <1>0, <2>1, <2>3, <2>8 DEF PinInv, HandedFit
  <2>10. OneFundingPerIndex'
    BY <1>0, <2>1, <2>3, <2>4, <2>6, <2>7 DEF PinInv, OneFundingPerIndex
  <2>11. CallsPinned'
    <3>1. ASSUME NEW q \in Opens PROVE CallPinned(q)'
      <4>1. CASE q = o
        BY <4>1, <2>1 DEF CallPinned, Held, Termed, Aliased, Recorded
      <4>2. CASE q # o
        BY <4>2, <1>0, <2>1 DEF PinInv, CallsPinned, CallPinned, Pins, Moves, Actors
      <4> QED
        BY <4>1, <4>2
    <3> QED
      BY <3>1 DEF CallsPinned
  <2>12. LayoutLast' /\ SignedIsStated' /\ SignedAsPinned'
    BY <1>0, <2>1 DEF PinInv, LayoutLast, SignedIsStated, SignedAsPinned
  <2> QED
    BY <2>9, <2>10, <2>11, <2>12 DEF PinInv
<1> QED
  BY <1>1, <1>2, <1>3, <1>4, <1>5, <1>6, <1>7, <1>8, <1>9, <1>10 DEF OpenStep

(* The signing step: the record holds everything the operation states, so  *)
(* what was signed before and is now is what it holds.                     *)
LEMMA ServePins ==
    ASSUME Typed, NameInv, PinInv, NEW c \in Channels, NEW op, Serve(c, op)
    PROVE  PinInv'
<1> DEFINE i == alias[c]
           stated == Stated(op)
           next == WithPins(record[i].pins, stated, FirstSight)
<1>1. i \in DOMAIN record /\ i \in Indexes /\ UNCHANGED <<pc, job, alias, handed>>
  BY DEF Serve, NameInv, AliasesOwn, Typed, TypeOK
<1>2. record' = [record EXCEPT ![i] = [record[i] EXCEPT !.pins = next, !.served = TRUE]]
  BY <1>1 DEF Serve
<1>3. DOMAIN record' = DOMAIN record /\ \A j \in DOMAIN record : j # i => record'[j] = record[j]
  BY <1>2
<1>4. record'[i].asked = record[i].asked /\ record'[i].pins = next
  BY <1>1, <1>2 DEF Typed, StoreTyped
<1>5. IsChannelPins(record[i].asked, record[i].pins) /\ Pinnable(record[i].pins, record[i].asked.script, op)
  BY <1>1 DEF Serve, Typed, TypeOK
<1>6. /\ DOMAIN stated = StatedBy(op)
      /\ \A f \in PinNames \cap StatedBy(op) : next[f] = stated[f] /\ stated[f] # None
      /\ (next["lockLayout"] # None /\ record[i].pins["lockLayout"] = None) =>
            /\ next["liquidCapacity"] # None /\ next["remoteReserved"] # None
            /\ next["fundingCapacity"] # None
            /\ next["fundingCapacity"] = next["liquidCapacity"] + next["remoteReserved"]
                                         + Reserve(record[i].asked.script, next["lockLayout"])
  <2>1. DOMAIN stated = StatedBy(op)
    BY <1>5, SignedPins
  <2>2. ASSUME NEW f \in PinNames \cap StatedBy(op) PROVE next[f] = stated[f] /\ stated[f] # None
    BY <2>2, <1>5, StatedIsPinned
  <2>3. ASSUME next["lockLayout"] # None, record[i].pins["lockLayout"] = None
        PROVE  /\ next["liquidCapacity"] # None /\ next["remoteReserved"] # None
               /\ next["fundingCapacity"] # None
               /\ next["fundingCapacity"] = next["liquidCapacity"] + next["remoteReserved"]
                                            + Reserve(record[i].asked.script, next["lockLayout"])
    BY <2>3, <1>5, SignedPins
  <2> QED
    BY <2>1, <2>2, <2>3
<1>7. \A f \in PinNames : record[i].pins[f] # None => next[f] = record[i].pins[f]
  BY PinsStay
<1>8. signed' = [signed EXCEPT ![i] =
          [f \in PinNames |-> @[f] \cup IF f \in StatedBy(op) THEN {stated[f]} ELSE {}]]
  BY DEF Serve
<1> HIDE DEF i, stated, next
<1>9. PinsGrow
  BY <1>1, <1>3, <1>4, <1>7 DEF PinsGrow
<1>10. NamesGrow
  BY <1>1 DEF NamesGrow
<1>11. LayoutsAdd
  <2>1. SUFFICES ASSUME NEW k \in DOMAIN record', record'[k].pins["lockLayout"] # None,
                        record[k].pins["lockLayout"] = None
                 PROVE  Adds(record'[k])
    BY <1>3 DEF LayoutsAdd
  <2>2. k = i
    BY <2>1, <1>3
  <2> QED
    BY <2>1, <2>2, <1>4, <1>6 DEF Adds
<1>12. \A o \in Opens : CallPinned(o)'
  BY <1>1, <1>9, CallStaysPinned DEF PinInv, CallsPinned
<1>13. \A k \in Indexes, f \in PinNames : \A v :
          v \in signed'[k][f] => v \in signed[k][f] \/ (k = i /\ f \in StatedBy(op) /\ v = stated[f])
  <2>1. ASSUME NEW k \in Indexes, NEW f \in PinNames, NEW v, v \in signed'[k][f]
        PROVE  v \in signed[k][f] \/ (k = i /\ f \in StatedBy(op) /\ v = stated[f])
    <3>1. CASE k # i
      BY <2>1, <3>1, <1>1, <1>8 DEF Typed, StoreTyped
    <3>2. CASE k = i
      <4>1. signed'[i] = [g \in PinNames |-> signed[i][g] \cup IF g \in StatedBy(op) THEN {stated[g]} ELSE {}]
        BY <1>1, <1>8 DEF Typed, StoreTyped
      <4>2. v \in signed[i][f] \cup IF f \in StatedBy(op) THEN {stated[f]} ELSE {}
        BY <4>1, <2>1, <3>2
      <4> QED
        BY <4>2, <3>2
    <3> QED
      BY <3>1, <3>2
  <2> QED
    BY <2>1
<1>14. SignedIsStated'
  BY <1>6, <1>13 DEF PinInv, SignedIsStated
<1>15. SignedAsPinned'
  <2>1. ASSUME NEW k \in Indexes, NEW f \in PinNames, NEW v \in signed'[k][f]
        PROVE  k \in DOMAIN record' /\ record'[k].pins[f] = v
    <3>1. CASE v \in signed[k][f]
      <4>1. k \in DOMAIN record /\ record[k].pins[f] = v /\ v # None
        BY <3>1 DEF PinInv, SignedAsPinned, SignedIsStated
      <4> QED
        BY <4>1, <1>9 DEF PinsGrow
    <3>2. CASE k = i /\ f \in StatedBy(op) /\ v = stated[f]
      BY <3>2, <1>1, <1>3, <1>4, <1>6
    <3> QED
      BY <3>1, <3>2, <1>13
  <2> QED
    BY <2>1 DEF SignedAsPinned
<1>16. CallsPinned' /\ LayoutLast' /\ HandedFit' /\ OneFundingPerIndex'
  BY <1>1, <1>9, <1>10, <1>11, <1>12, PinsHold DEF PinInv
<1> QED
  BY <1>14, <1>15, <1>16 DEF PinInv

(* Every step keeps the pins. *)
LEMMA PinStep == ASSUME IInv, Next, Typed' PROVE PinInv'
<1> USE DEF history, stored
<1>0. Typed /\ NameInv /\ PinInv
  BY DEF IInv
<1>1. ASSUME NEW o \in Opens, NEW asked \in Asks, Begin(o, asked) PROVE PinInv'
  <2>1. Moves(o) /\ pc'[o] = "read"
    BY <1>0, <1>1, GoMoves DEF Begin, Actors
  <2>2. pc'[o] \notin Recorded
    BY <2>1 DEF Held, Termed, Aliased, Recorded
  <2> QED
    BY <2>1, <2>2, <1>0, <1>1, CallLeavesPins DEF Begin
<1>2. ASSUME NEW o \in Opens, OpenStep(o) PROVE PinInv'
  BY <1>2, OpenStepPins
<1>3. ASSUME NEW o \in Opens, NEW answer \in Answers, AskLiar(o, answer) PROVE PinInv'
  <2>1. Moves(o) /\ pc'[o] \in {"name", "refuse"}
    BY <1>0, <1>3 DEF AskLiar, Take, Go, Moves, Typed, ActorsTyped, Actors
  <2>2. pc'[o] \notin Recorded
    BY <2>1 DEF Held, Termed, Aliased, Recorded
  <2> QED
    BY <2>1, <2>2, <1>0, <1>3, CallLeavesPins DEF AskLiar
<1>4. ASSUME NEW a \in Actors, Moves(a), a \in Opens => pc'[a] = "idle",
             UNCHANGED <<record, alias, handed, signed>>
      PROVE  PinInv'
  <2>1. \A o \in Opens : pc'[o] \notin Recorded \/ (pc'[o] = pc[o] /\ job'[o] = job[o])
    BY <1>4 DEF Moves, Actors, Held, Termed, Aliased, Recorded
  <2> QED
    BY <2>1, <1>0, <1>4, RestKeepsPins
<1>5. ASSUME NEW a \in Actors, OpenFails(a) \/ RunFails(a) PROVE PinInv'
  BY <1>0, <1>4, <1>5, EndMoves DEF OpenFails, RunFails
<1>6. ASSUME NEW r \in Runs, RunStep(r) PROVE PinInv'
  <2>1. Moves(r) /\ UNCHANGED <<record, alias, handed, signed>>
    BY <1>0, <1>6, RunStepMoves
  <2> QED
    BY <2>1, <1>4, OpeningAssumption DEF Actors
<1>7. ASSUME NEW w \in TowerRuns, TowerStep(w) PROVE PinInv'
  <2>1. Moves(w) /\ UNCHANGED <<record, alias, handed, signed>>
    BY <1>0, <1>7, TowerStepMoves
  <2> QED
    BY <2>1, <1>4, OpeningAssumption DEF Actors
<1>8. ASSUME NEW c \in Channels, NodeStep(c) \/ Abort(c) PROVE PinInv'
  BY <1>0, <1>8, NodeStepTurns, RestKeepsPins
<1>9. ASSUME NEW c \in Channels, NEW tx, Submit(c, tx) PROVE PinInv'
  BY <1>0, <1>9, RestKeepsPins DEF Submit
<1>10. ASSUME NEW c \in Channels, NEW op, Serve(c, op) PROVE PinInv'
  BY <1>0, <1>10, ServePins
<1>11. CASE Crash
  <2>1. UNCHANGED <<stored, history>> /\ \A o \in Opens : pc'[o] \notin Recorded
    BY <1>11 DEF Crash, Actors, Held, Termed, Aliased, Recorded
  <2> QED
    BY <2>1, <1>0, RestKeepsPins
<1> QED
  BY <1>1, <1>2, <1>3, <1>5, <1>6, <1>7, <1>8, <1>9, <1>10, <1>11 DEF Next, Actors

-----------------------------------------------------------------------------
(* Following *)

(* What is over stays over, and what is watched is watched until then. *)
FollowsStay ==
    /\ \A c \in Channels : Over(c) => Over(c)'
    /\ \A c \in DOMAIN watched : c \in DOMAIN watched' \/ Over(c)'

LEMMA FollowedStays ==
    ASSUME FollowsStay, NEW c \in Channels, Followed(c)
    PROVE  Followed(c)'
  BY DEF FollowsStay, Followed

LEMMA RunStaysOver ==
    ASSUME Typed, FollowsStay, NEW r \in Runs, RunSettlesOver(r),
           pc'[r] = "idle" \/ (pc'[r] = pc[r] /\ job'[r] = job[r])
    PROVE  RunSettlesOver(r)'
<1>1. CASE pc'[r] = "idle"
  BY <1>1 DEF RunSettlesOver
<1>2. CASE pc'[r] # "idle" /\ pc'[r] = pc[r] /\ job'[r] = job[r]
  <2>1. \A x \in job[r].todo : x[1] \in Channels
    BY <1>2 DEF Typed, ActorsTyped, RunTyped, RunJobs
  <2>2. pc[r] = "forget" => job[r].at[1] \in Channels
    BY DEF Typed, ActorsTyped, RunTyped
  <2>3. \A x \in job[r].todo : x[2] # "ready" => Over(x[1])'
    BY <1>2, <2>1 DEF RunSettlesOver, FollowsStay
  <2>4. pc[r] = "forget" => node'[job[r].at[1]] \in {"closed", "settled", "aborted"}
    BY <2>2 DEF RunSettlesOver, FollowsStay, Over
  <2> QED
    BY <1>2, <2>3, <2>4 DEF RunSettlesOver, Over
<1> QED
  BY <1>1, <1>2

LEMMA TowerStaysOver ==
    ASSUME Typed, FollowsStay, NEW w \in TowerRuns, TowerRemovesOver(w),
           pc'[w] = "idle" \/ (pc'[w] = pc[w] /\ job'[w] = job[w])
    PROVE  TowerRemovesOver(w)'
<1>1. CASE pc'[w] = "idle"
  BY <1>1 DEF TowerRemovesOver
<1>2. CASE pc'[w] # "idle" /\ pc'[w] = pc[w] /\ job'[w] = job[w]
  <2>1. job[w].todo \subseteq Channels /\ (pc[w] = "remove" => job[w].at \in Channels)
    BY <1>2 DEF Typed, ActorsTyped, TowerTyped, TowerJobs
  <2>2. pc[w] = "open" => \A c \in job[w].todo : Followed(c)'
    BY <2>1, FollowedStays DEF TowerRemovesOver
  <2>3. pc[w] \in {"answer", "remove"} => \A c \in job[w].todo : c \in job[w].open \/ Over(c)'
    BY <2>1 DEF TowerRemovesOver, FollowsStay
  <2>4. pc[w] = "remove" => node'[job[w].at] \in {"closed", "settled", "aborted"}
    BY <2>1 DEF TowerRemovesOver, FollowsStay, Over
  <2> QED
    BY <1>2, <2>2, <2>3, <2>4 DEF TowerRemovesOver, Over, Followed
<1> QED
  BY <1>1, <1>2

(* What a step has to show of the list, the calls and what is handed out. *)
LEMMA FollowKept ==
    ASSUME Typed, FollowInv, FollowsStay,
           \A c \in listed : c \in listed' \/ Over(c)',
           \A c \in listed' : c \in listed \/ Followed(c)',
           \A h \in handed' : h \in handed \/ (Followed(h.channel)' /\ h.channel \in listed'),
           \A o \in Opens : pc'[o] = "add" => (pc[o] = "add" /\ job'[o] = job[o]) \/ Followed(ChannelOf(o))',
           \A r \in Runs : RunSettlesOver(r)',
           \A w \in TowerRuns : TowerRemovesOver(w)'
    PROVE  FollowInv'
<1>1. \A c \in listed' : Followed(c)'
  BY FollowedStays DEF FollowInv, ListsWatched, Typed, TypeOK
<1>2. ASSUME NEW o \in Opens, pc'[o] = "add" PROVE Followed(ChannelOf(o))'
  <2>1. CASE pc[o] = "add" /\ job'[o] = job[o]
    <3>1. ChannelOf(o) \in Channels
      BY <2>1, CallTyped DEF Held, Termed, Aliased, Recorded, Registering
    <3>2. Followed(ChannelOf(o))
      BY <2>1 DEF FollowInv, ListsWatched
    <3> QED
      BY <2>1, <3>1, <3>2, FollowedStays DEF ChannelOf, Followed, Over
  <2> QED
    BY <1>2, <2>1
<1>3. ASSUME NEW h \in handed', ~Over(h.channel)' PROVE h.channel \in DOMAIN watched' \cap listed'
  <2>1. CASE h \in handed
    <3>1. h.channel \in Channels
      BY <2>1 DEF Typed, StoreTyped
    <3>2. ~Over(h.channel)
      BY <3>1, <1>3 DEF FollowsStay
    <3>3. h.channel \in DOMAIN watched \cap listed
      BY <2>1, <3>2 DEF FollowInv, HandedIsFollowed, Over
    <3> QED
      BY <3>1, <3>3, <1>3 DEF FollowsStay
  <2> QED
    BY <2>1, <1>3 DEF Followed
<1>4. ListsWatched' /\ SettlesOver' /\ RemovesOver'
  BY <1>1, <1>2 DEF ListsWatched, SettlesOver, RemovesOver
<1>5. HandedIsFollowed'
  BY <1>3 DEF HandedIsFollowed, Over
<1> QED
  BY <1>4, <1>5 DEF FollowInv

(* Steps that leave the lists, and take no call, run or tower further. *)
LEMMA RestKeepsFollowing ==
    ASSUME Typed, FollowInv, UNCHANGED <<watched, listed, handed>>,
           \A c \in Channels : Over(c) => Over(c)',
           \A o \in Opens : pc'[o] # "add" \/ (pc'[o] = pc[o] /\ job'[o] = job[o]),
           \A r \in Runs \cup TowerRuns : pc'[r] = "idle" \/ (pc'[r] = pc[r] /\ job'[r] = job[r])
    PROVE  FollowInv'
<1>1. FollowsStay
  BY DEF FollowsStay
<1>2. \A r \in Runs : RunSettlesOver(r)'
  BY <1>1, RunStaysOver DEF FollowInv, SettlesOver
<1>3. \A w \in TowerRuns : TowerRemovesOver(w)'
  BY <1>1, TowerStaysOver DEF FollowInv, RemovesOver
<1> QED
  BY <1>1, <1>2, <1>3, FollowKept

(* What the steps of a run leave it with. *)
LEMMA RunStarts ==
    ASSUME Typed, NEW r \in Runs, ReadWatched(r)
    PROVE  pc'[r] = "list" /\ job'[r].seen = watched /\ job'[r].todo = {} /\ job'[r].absent = {}
  BY DEF ReadWatched, Go, Typed, ActorsTyped, Actors

LEMMA RunLists ==
    ASSUME Typed, NEW r \in Runs, ListStates(r)
    PROVE  /\ pc[r] # "idle" /\ pc'[r] = "settle" /\ job'[r].seen = job[r].seen
           /\ job'[r].absent \subseteq DOMAIN job[r].seen
           /\ \A x \in job'[r].todo : x[1] \in DOMAIN job[r].seen /\ (x[2] # "ready" => Over(x[1]))
<1> DEFINE shown == {c \in Channels : node[c] \notin {"none", "aborted"}}
           todo == {<<c, node[c]>> : c \in Due(r, shown)}
           absent == DOMAIN job[r].seen \ shown
           k == [job[r] EXCEPT !.todo = todo]
           j == [job[r] EXCEPT !.todo = todo, !.absent = absent]
<1>1. pc[r] = "list" /\ job[r] \in RunJobs /\ r \in Actors
  BY DEF ListStates, Typed, ActorsTyped, RunTyped, Actors
<1>2. \A x \in todo : x[1] \in DOMAIN job[r].seen /\ (x[2] # "ready" => Over(x[1]))
  BY DEF Due, Over
<1>3. absent \subseteq DOMAIN job[r].seen
  OBVIOUS
<1>4. job' = [job EXCEPT ![r] = j] /\ Go(r, "settle")
  BY DEF ListStates
<1> HIDE DEF todo, absent
<1>5. k.seen = job[r].seen /\ k.todo = todo /\ k \in [seen : {job[r].seen}, todo : {todo}, at : {job[r].at}, absent : {job[r].absent}]
  BY <1>1 DEF RunJobs
<1>6. j = [k EXCEPT !.absent = absent]
  OBVIOUS
<1> HIDE DEF j, k
<1>7. j.seen = job[r].seen /\ j.todo = todo /\ j.absent = absent
  BY <1>5, <1>6
<1>8. pc'[r] = "settle" /\ job'[r] = j
  BY <1>1, <1>4, GoMoves
<1> QED
  BY <1>1, <1>2, <1>3, <1>7, <1>8

LEMMA RunListsPending ==
    ASSUME Typed, NEW r \in Runs, ListPending(r)
    PROVE  /\ pc[r] # "idle" /\ pc'[r] = "settle" /\ job'[r].seen = job[r].seen
           /\ job'[r].absent = {}
           /\ \A x \in job'[r].todo : x[1] \in job[r].absent /\ Over(x[1])
<1> DEFINE todo == {<<c, "aborted">> : c \in {d \in job[r].absent : node[d] = "aborted"}}
           k == [job[r] EXCEPT !.todo = todo]
           j == [job[r] EXCEPT !.todo = todo, !.absent = {}]
<1>1. pc[r] = "settle" /\ job[r] \in RunJobs /\ r \in Actors /\ UNCHANGED pc
  BY DEF ListPending, Typed, ActorsTyped, RunTyped, Actors
<1>2. \A x \in todo : x[1] \in job[r].absent /\ Over(x[1])
  BY DEF Over
<1>3. job' = [job EXCEPT ![r] = j]
  BY DEF ListPending
<1> HIDE DEF todo
<1>4. k.seen = job[r].seen /\ k.todo = todo /\ k \in [seen : {job[r].seen}, todo : {todo}, at : {job[r].at}, absent : {job[r].absent}]
  BY <1>1 DEF RunJobs
<1>5. j = [k EXCEPT !.absent = {}]
  OBVIOUS
<1> HIDE DEF j, k
<1>6. j.seen = job[r].seen /\ j.todo = todo /\ j.absent = {}
  BY <1>4, <1>5
<1>7. job'[r] = j
  BY <1>1, <1>3 DEF Typed, ActorsTyped
<1> QED
  BY <1>1, <1>2, <1>6, <1>7

LEMMA RunClears ==
    ASSUME Typed, NEW r \in Runs, NEW x \in job[r].todo, ClearOpening(r, x)
    PROVE  /\ pc[r] # "idle" /\ pc'[r] = (IF x[2] = "ready" THEN "mark" ELSE "forget")
           /\ job'[r].seen = job[r].seen /\ job'[r].absent = job[r].absent
           /\ job'[r].todo \subseteq job[r].todo /\ job'[r].at = x
<1> DEFINE k == [job[r] EXCEPT !.todo = @ \ {x}]
           j == [job[r] EXCEPT !.todo = @ \ {x}, !.at = x]
           p == IF x[2] = "ready" THEN "mark" ELSE "forget"
<1>1. pc[r] = "settle" /\ job[r] \in RunJobs /\ r \in Actors
  BY DEF ClearOpening, Typed, ActorsTyped, RunTyped, Actors
<1>2. job' = [job EXCEPT ![r] = j] /\ Go(r, p)
  BY DEF ClearOpening
<1>3. k.seen = job[r].seen /\ k.absent = job[r].absent /\ k.todo = job[r].todo \ {x} /\ k \in RunJobs
  BY <1>1 DEF RunJobs
<1>4. j = [k EXCEPT !.at = x]
  OBVIOUS
<1> HIDE DEF j, k
<1>5. j.seen = job[r].seen /\ j.absent = job[r].absent /\ j.todo = job[r].todo \ {x} /\ j.at = x
  BY <1>3, <1>4 DEF RunJobs
<1>6. pc'[r] = p /\ job'[r] = j
  BY <1>1, <1>2, GoMoves
<1> QED
  BY <1>1, <1>5, <1>6

LEMMA RunSettled ==
    ASSUME Typed, NEW r \in Runs, Mark(r) \/ Forget(r)
    PROVE  /\ pc[r] \in {"mark", "forget"} /\ pc'[r] = "settle" /\ job'[r].seen = job[r].seen
           /\ job'[r].absent = job[r].absent /\ job'[r].todo = job[r].todo
<1> DEFINE j == [job[r] EXCEPT !.at = None]
<1>1. pc[r] \in {"mark", "forget"} /\ job[r] \in RunJobs /\ r \in Actors
  BY DEF Mark, Forget, Typed, ActorsTyped, RunTyped, Actors
<1>2. job' = [job EXCEPT ![r] = j] /\ Go(r, "settle")
  BY DEF Mark, Forget
<1>3. j.seen = job[r].seen /\ j.absent = job[r].absent /\ j.todo = job[r].todo
  BY <1>1 DEF RunJobs
<1> HIDE DEF j
<1>4. pc'[r] = "settle" /\ job'[r] = j
  BY <1>1, <1>2, GoMoves
<1> QED
  BY <1>1, <1>3, <1>4

LEMMA RunStepFollows ==
    ASSUME Typed, FollowInv, NEW r \in Runs, RunStep(r)
    PROVE  FollowInv'
<1>0. /\ Moves(r) /\ UNCHANGED <<listed, node, handed>> /\ RunSettlesOver(r)
      /\ pc[r] # "idle" => job[r] \in RunJobs
      /\ pc[r] \in {"mark", "forget"} => job[r].at[1] \in Channels
  BY RunStepMoves DEF history, FollowInv, SettlesOver, Typed, ActorsTyped, RunTyped
<1>1. FollowsStay
  <2>1. \A c \in Channels : Over(c) => Over(c)'
    BY <1>0 DEF Over
  <2>2. CASE Forget(r)
    <3>1. Over(job[r].at[1]) /\ watched' = [c \in DOMAIN watched \ {job[r].at[1]} |-> watched[c]]
      BY <1>0, <2>2 DEF Forget, RunSettlesOver
    <3>2. \A c \in DOMAIN watched : c \in DOMAIN watched' \/ Over(c)
      BY <3>1
    <3> QED
      BY <3>2, <2>1, <1>0 DEF FollowsStay, Typed, TypeOK
  <2>3. CASE Mark(r)
    BY <2>1, <2>3 DEF Mark, FollowsStay
  <2>4. CASE ~Forget(r) /\ ~Mark(r)
    <3>1. UNCHANGED watched
      BY <2>4 DEF RunStep, ReadWatched, ListStates, ListPending, StepEnds, ClearOpening, stored
    <3> QED
      BY <2>1, <3>1 DEF FollowsStay
  <2> QED
    BY <2>2, <2>3, <2>4
<1>2. RunSettlesOver(r)'
  <2>1. CASE ReadWatched(r)
    BY <2>1, RunStarts DEF RunSettlesOver
  <2>2. CASE ListStates(r)
    BY <2>2, <1>0, RunLists DEF RunSettlesOver, Over
  <2>3. CASE ListPending(r)
    BY <2>3, <1>0, RunListsPending DEF RunSettlesOver, Over
  <2>4. CASE StepEnds(r)
    <3>1. pc'[r] = "idle"
      BY <2>4, EndMoves DEF StepEnds, Actors
    <3> QED
      BY <3>1 DEF RunSettlesOver
  <2>5. ASSUME NEW x \in job[r].todo, ClearOpening(r, x) PROVE RunSettlesOver(r)'
    <3>1. /\ pc[r] # "idle" /\ pc'[r] = (IF x[2] = "ready" THEN "mark" ELSE "forget")
          /\ job'[r].todo \subseteq job[r].todo /\ job'[r].at = x
      BY <2>5, RunClears
    <3> QED
      BY <3>1, <1>0 DEF RunSettlesOver, Over
  <2>6. CASE Mark(r) \/ Forget(r)
    BY <2>6, <1>0, RunSettled DEF RunSettlesOver, Over
  <2> QED
    BY <2>1, <2>2, <2>3, <2>4, <2>5, <2>6 DEF RunStep
<1>3. \A q \in Runs : RunSettlesOver(q)'
  <2>1. \A q \in Runs \ {r} : pc'[q] = pc[q] /\ job'[q] = job[q]
    BY <1>0 DEF Moves, Actors
  <2> QED
    BY <2>1, <1>1, <1>2, RunStaysOver DEF FollowInv, SettlesOver
<1>4. \A w \in TowerRuns : TowerRemovesOver(w)'
  <2>1. \A w \in TowerRuns : pc'[w] = pc[w] /\ job'[w] = job[w]
    BY <1>0, OpeningAssumption DEF Moves, Actors
  <2> QED
    BY <2>1, <1>1, TowerStaysOver DEF FollowInv, RemovesOver
<1>5. \A o \in Opens : pc'[o] = pc[o] /\ job'[o] = job[o]
  BY <1>0, OpeningAssumption DEF Moves, Actors
<1> QED
  BY <1>0, <1>1, <1>3, <1>4, <1>5, FollowKept

LEMMA TowerStepFollows ==
    ASSUME Typed, FollowInv, NEW w \in TowerRuns, TowerStep(w)
    PROVE  FollowInv'
<1>0. /\ Moves(w) /\ UNCHANGED <<watched, node, handed>> /\ TowerRemovesOver(w) /\ w \in Actors
      /\ pc[w] # "idle" => job[w] \in TowerJobs
  BY TowerStepMoves DEF history, FollowInv, RemovesOver, Typed, ActorsTyped, TowerTyped, Actors
<1>1. FollowsStay
  BY <1>0 DEF FollowsStay, Over
<1>2. TowerRemovesOver(w)' /\ (\A c \in listed : c \in listed' \/ Over(c)) /\ listed' \subseteq listed
  <2>1. CASE ReadListed(w)
    <3>1. pc'[w] = "open" /\ job'[w].todo = listed /\ UNCHANGED listed
      BY <2>1, <1>0 DEF ReadListed, Go, Typed, ActorsTyped, stored
    <3> QED
      BY <3>1, <1>0 DEF TowerRemovesOver, FollowInv, ListsWatched, Followed, Over
  <2>2. CASE ReadOpen(w)
    <3>1. pc[w] = "open" /\ pc'[w] = "answer" /\ UNCHANGED listed /\ job' = [job EXCEPT ![w].open = DOMAIN watched]
      BY <2>2, <1>0 DEF ReadOpen, Go, Typed, ActorsTyped, stored
    <3>2. job'[w].todo = job[w].todo /\ job'[w].open = DOMAIN watched
      BY <3>1, <1>0 DEF Typed, ActorsTyped, TowerJobs
    <3> QED
      BY <3>1, <3>2, <1>0 DEF TowerRemovesOver, Followed, Over
  <2>3. ASSUME NEW c \in job[w].todo, Answer(w, c)
        PROVE  TowerRemovesOver(w)' /\ UNCHANGED listed
    <3> DEFINE gone == alias[c] # None /\ node[c] \notin {"ready", "closed"} /\ c \notin job[w].open
               at == IF gone THEN c ELSE None
               p == IF gone THEN "remove" ELSE "answer"
               k == [job[w] EXCEPT !.todo = @ \ {c}]
               j == [job[w] EXCEPT !.todo = @ \ {c}, !.at = at]
    <3>1. pc[w] = "answer" /\ job[w] \in TowerJobs /\ UNCHANGED listed
      BY <1>0, <2>3 DEF Answer, stored
    <3>2. job' = [job EXCEPT ![w] = j] /\ Go(w, p)
      BY <2>3 DEF Answer
    <3>3. gone => Over(c)
      BY <3>1, <1>0, <2>3 DEF TowerRemovesOver
    <3>4. p = "remove" => at = c /\ Over(at)
      BY <3>3
    <3>5. p \in {"remove", "answer"}
      OBVIOUS
    <3> HIDE DEF at, p
    <3>6. k.todo = job[w].todo \ {c} /\ k.open = job[w].open /\ DOMAIN k = {"todo", "open", "at"}
      BY <3>1 DEF TowerJobs
    <3>7. j = [k EXCEPT !.at = at]
      OBVIOUS
    <3> HIDE DEF j, k
    <3>8. j.todo = job[w].todo \ {c} /\ j.open = job[w].open /\ j.at = at
      BY <3>6, <3>7
    <3>9. pc'[w] = p /\ job'[w] = j
      BY <3>2, <1>0, GoMoves
    <3> QED
      BY <3>1, <3>4, <3>5, <3>8, <3>9, <1>0 DEF TowerRemovesOver, Over
  <2>4. CASE Remove(w)
    <3>1. pc[w] = "remove" /\ pc'[w] = "answer" /\ listed' = listed \ {job[w].at} /\ Over(job[w].at)
          /\ job' = [job EXCEPT ![w].at = None]
      BY <2>4, <1>0 DEF Remove, Go, Typed, ActorsTyped, TowerRemovesOver
    <3>2. job'[w].todo = job[w].todo /\ job'[w].open = job[w].open
      BY <3>1, <1>0 DEF Typed, ActorsTyped, TowerJobs
    <3> QED
      BY <3>1, <3>2, <1>0 DEF TowerRemovesOver, Over
  <2>5. CASE TowerEnds(w)
    <3>1. pc'[w] = "idle" /\ UNCHANGED listed
      BY <2>5, <1>0, EndMoves DEF TowerEnds, stored
    <3> QED
      BY <3>1 DEF TowerRemovesOver
  <2> QED
    BY <2>1, <2>2, <2>3, <2>4, <2>5 DEF TowerStep
<1>3. \A v \in TowerRuns : TowerRemovesOver(v)'
  <2>1. \A v \in TowerRuns \ {w} : pc'[v] = pc[v] /\ job'[v] = job[v]
    BY <1>0 DEF Moves, Actors
  <2> QED
    BY <2>1, <1>1, <1>2, TowerStaysOver DEF FollowInv, RemovesOver
<1>4. \A r \in Runs : RunSettlesOver(r)'
  <2>1. \A r \in Runs : pc'[r] = pc[r] /\ job'[r] = job[r]
    BY <1>0, OpeningAssumption DEF Moves, Actors
  <2> QED
    BY <2>1, <1>1, RunStaysOver DEF FollowInv, SettlesOver
<1>5. \A o \in Opens : pc'[o] = pc[o] /\ job'[o] = job[o]
  BY <1>0, OpeningAssumption DEF Moves, Actors
<1>6. \A c \in listed : c \in listed' \/ Over(c)'
  BY <1>0, <1>2 DEF Over
<1> QED
  BY <1>0, <1>1, <1>2, <1>3, <1>4, <1>5, <1>6, FollowKept

(* A call that leaves the lists and the node, and is not about to list. *)
Passes(o) == Moves(o) /\ pc'[o] # "add" /\ UNCHANGED <<watched, listed, handed, node>>

LEMMA TakePasses ==
    ASSUME Typed, NEW o \in Opens, NEW answer, Take(o, answer)
    PROVE  Moves(o) /\ pc'[o] \in {"name", "refuse"}
  BY DEF Take, Go, Moves, Typed, ActorsTyped, Actors

LEMMA OpenStepPasses ==
    ASSUME Typed, NEW o \in Opens, OpenStep(o), ~Watch(o), ~Add(o), ~\E a \in Answers : Ask(o, a)
    PROVE  Passes(o)
<1> USE DEF Passes, history, stored
<1>0. o \in Actors /\ DOMAIN pc = Actors /\ DOMAIN job = Actors
  BY DEF Actors, Typed, ActorsTyped
<1>1. CASE Read(o)
  BY <1>0, <1>1 DEF Read, Go, Moves
<1>2. CASE States(o) \/ Drop(o) \/ Write(o) \/ Name(o) \/ Register(o) \/ Alias(o)
  <2>1. UNCHANGED <<job, watched, listed, handed, node>>
        /\ \E p \in {"drop", "ask", "allocate", "register", "alias", "refuse", "terms"} : Go(o, p)
    BY <1>2 DEF States, Drop, Write, Name, Register, Alias
  <2> QED
    BY <2>1, <1>0, GoStays
<1>3. ASSUME NEW t \in Clock, Allocate(o, t) PROVE Passes(o)
  BY <1>0, <1>3 DEF Allocate, Go, Moves
<1>4. CASE AskRefused(o) \/ Refuse(o)
  BY <1>0, <1>4, EndMoves DEF AskRefused, Refuse
<1>5. CASE PinTerms(o) \/ PinCell(o)
  <2>1. UNCHANGED <<job, watched, listed, handed, node>> /\ \E p \in {"cell", "watch", "refuse"} : Go(o, p)
    BY <1>5 DEF PinTerms, PinCell, Pin
  <2> QED
    BY <2>1, <1>0, GoStays
<1> QED
  BY <1>1, <1>2, <1>3, <1>4, <1>5 DEF OpenStep

LEMMA OpenStepFollows ==
    ASSUME Typed, FollowInv, NEW o \in Opens, OpenStep(o)
    PROVE  FollowInv'
<1> USE DEF history, stored
<1>0. o \in Actors /\ DOMAIN pc = Actors /\ DOMAIN job = Actors
  BY DEF Actors, Typed, ActorsTyped
<1>1. ASSUME Moves(o)
      PROVE  /\ \A r \in Runs \cup TowerRuns : pc'[r] = pc[r] /\ job'[r] = job[r]
             /\ \A q \in Opens \ {o} : pc'[q] = pc[q] /\ job'[q] = job[q]
  BY <1>1, OpeningAssumption DEF Moves, Actors
<1>2. ASSUME FollowsStay, Moves(o)
      PROVE  (\A r \in Runs : RunSettlesOver(r)') /\ (\A w \in TowerRuns : TowerRemovesOver(w)')
  BY <1>1, <1>2, RunStaysOver, TowerStaysOver DEF FollowInv, SettlesOver, RemovesOver
<1>3. ASSUME NEW answer \in Answers, Ask(o, answer) PROVE FollowInv'
  <2> DEFINE c == <<job[o].index, answer.key>>
  <2>1. /\ UNCHANGED <<watched, listed, handed>> /\ node' = [node EXCEPT ![c] = "opening"]
        /\ node[c] \in {"none", "opening"} /\ Take(o, answer)
    BY <1>3 DEF Ask, Honest
  <2>2. \A d \in Channels : Over(d) => Over(d)'
    BY <2>1 DEF Over, Typed, StoreTyped
  <2>3. Moves(o) /\ pc'[o] # "add"
    BY <2>1, TakePasses
  <2> QED
    BY <2>1, <2>2, <2>3, <1>1, RestKeepsFollowing
<1>4. CASE Watch(o)
  <2> DEFINE c == ChannelOf(o)
  <2>1. Moves(o) /\ pc'[o] = "add" /\ job'[o] = job[o] /\ UNCHANGED <<listed, handed, node, job>> /\ pc[o] = "watch"
    BY <1>0, <1>4, GoStays DEF Watch
  <2>2. DOMAIN watched' = DOMAIN watched \cup {c}
    BY <1>4 DEF Watch, Watched
  <2>3. FollowsStay
    BY <2>1, <2>2 DEF FollowsStay, Over
  <2>4. Followed(ChannelOf(o))'
    BY <2>1, <2>2 DEF Followed, ChannelOf
  <2> QED
    BY <2>1, <2>3, <2>4, <1>1, <1>2, FollowKept
<1>5. CASE Add(o)
  <2> DEFINE c == ChannelOf(o)
             new == [asked |-> job[o].asked, channel |-> c, tx |-> job[o].answer.tx,
                     capacity |-> job[o].answer.capacity]
  <2>1. /\ Moves(o) /\ pc'[o] = "idle" /\ pc[o] = "add" /\ UNCHANGED <<watched, node>>
        /\ listed' = listed \cup {c} /\ handed' = handed \cup {new}
    BY <1>0, <1>5, EndMoves DEF Add
  <2>2. FollowsStay
    BY <2>1 DEF FollowsStay, Over
  <2>3. c \in DOMAIN watched \/ Over(c)
    BY <2>1 DEF FollowInv, ListsWatched, Followed
  <2>4. \A d \in listed' : d \in listed \/ Followed(d)'
    BY <2>1, <2>3 DEF Followed, Over
  <2>5. new.channel = c
    OBVIOUS
  <2> HIDE DEF c, new
  <2>6. \A h \in handed' : h \in handed \/ (Followed(h.channel)' /\ h.channel \in listed')
    <3>1. ASSUME NEW h \in handed', h \notin handed PROVE Followed(h.channel)' /\ h.channel \in listed'
      <4>1. h.channel = c
        BY <3>1, <2>1, <2>5
      <4> QED
        BY <4>1, <2>1, <2>3 DEF Followed, Over
    <3> QED
      BY <3>1
  <2>7. \A q \in Opens : pc'[q] = "add" => (pc[q] = "add" /\ job'[q] = job[q]) \/ Followed(ChannelOf(q))'
    BY <2>1, <1>1
  <2> QED
    BY <2>1, <2>2, <2>4, <2>6, <2>7, <1>2, FollowKept
<1>6. CASE Passes(o)
  <2>1. \A d \in Channels : Over(d) => Over(d)'
    BY <1>6 DEF Passes, Over
  <2> QED
    BY <2>1, <1>1, <1>6, RestKeepsFollowing DEF Passes
<1> QED
  BY <1>3, <1>4, <1>5, <1>6, OpenStepPasses

(* Every step keeps following. *)
LEMMA FollowStep == ASSUME IInv, Next PROVE FollowInv'
<1> USE DEF history, stored
<1>0. Typed /\ FollowInv
  BY DEF IInv
<1>1. ASSUME UNCHANGED <<watched, listed, handed, node>>,
             \A o \in Opens : pc'[o] # "add" \/ (pc'[o] = pc[o] /\ job'[o] = job[o]),
             \A r \in Runs \cup TowerRuns : pc'[r] = "idle" \/ (pc'[r] = pc[r] /\ job'[r] = job[r])
      PROVE  FollowInv'
  <2>1. \A c \in Channels : Over(c) => Over(c)'
    BY <1>1 DEF Over
  <2> QED
    BY <2>1, <1>0, <1>1, RestKeepsFollowing
<1>2. ASSUME NEW o \in Opens, Passes(o) PROVE FollowInv'
  <2>1. \A q \in Opens : pc'[q] # "add" \/ (pc'[q] = pc[q] /\ job'[q] = job[q])
    BY <1>2 DEF Passes, Moves, Actors
  <2>2. \A r \in Runs \cup TowerRuns : pc'[r] = pc[r] /\ job'[r] = job[r]
    BY <1>2, OpeningAssumption DEF Passes, Moves, Actors
  <2> QED
    BY <2>1, <2>2, <1>1, <1>2 DEF Passes
<1>3. ASSUME NEW o \in Opens, NEW asked \in Asks, Begin(o, asked) PROVE FollowInv'
  <2>1. Moves(o) /\ pc'[o] = "read"
    BY <1>0, <1>3, GoMoves DEF Begin, Actors
  <2> QED
    BY <2>1, <1>2, <1>3 DEF Passes, Begin
<1>4. ASSUME NEW o \in Opens, OpenStep(o) PROVE FollowInv'
  BY <1>0, <1>4, OpenStepFollows
<1>5. ASSUME NEW o \in Opens, NEW answer \in Answers, AskLiar(o, answer) PROVE FollowInv'
  <2>1. Moves(o) /\ pc'[o] \in {"name", "refuse"}
    BY <1>0, <1>5, TakePasses DEF AskLiar
  <2> QED
    BY <2>1, <1>2, <1>5 DEF Passes, AskLiar
<1>6. ASSUME NEW a \in Actors, OpenFails(a) \/ RunFails(a) PROVE FollowInv'
  <2>1. Moves(a) /\ pc'[a] = "idle" /\ UNCHANGED <<watched, listed, handed, node>>
    BY <1>0, <1>6, EndMoves DEF OpenFails, RunFails
  <2>2. \A b \in Actors : pc'[b] = "idle" \/ (pc'[b] = pc[b] /\ job'[b] = job[b])
    BY <2>1 DEF Moves
  <2> QED
    BY <2>1, <2>2, <1>1 DEF Actors
<1>7. ASSUME NEW r \in Runs, RunStep(r) PROVE FollowInv'
  BY <1>0, <1>7, RunStepFollows
<1>8. ASSUME NEW w \in TowerRuns, TowerStep(w) PROVE FollowInv'
  BY <1>0, <1>8, TowerStepFollows
<1>9. ASSUME NEW c \in Channels, NodeStep(c) \/ Abort(c) PROVE FollowInv'
  <2>1. /\ \/ Turns(c, "opening", "aborted") \/ Turns(c, "opening", "ready")
           \/ Turns(c, "ready", "closed") \/ Turns(c, "closed", "settled")
        /\ UNCHANGED <<stored, pc, job, handed>>
    BY <1>9, NodeStepTurns
  <2>2. \A d \in Channels : Over(d) => Over(d)'
    BY <1>0, <2>1 DEF Turns, Over, Typed, StoreTyped
  <2> QED
    BY <2>1, <2>2, <1>0, RestKeepsFollowing
<1>10. ASSUME NEW c \in Channels, NEW x, Submit(c, x) \/ Serve(c, x) PROVE FollowInv'
  BY <1>1, <1>10 DEF Submit, Serve
<1>11. CASE Crash
  <2>1. UNCHANGED <<stored, handed, node>> /\ \A a \in Actors : pc'[a] = "idle"
    BY <1>11 DEF Crash
  <2> QED
    BY <2>1, <1>1 DEF Actors
<1> QED
  BY <1>3, <1>4, <1>5, <1>6, <1>7, <1>8, <1>9, <1>10, <1>11 DEF Next, Actors

-----------------------------------------------------------------------------
(* Announcing *)

(* A registered channel that is not pending becomes so only by a renaming. *)
ClearsStay == \A c \in Channels : IndexOf(c) \in DOMAIN record /\ NotPending(c) => NotPending(c)'

LEMMA ClearedStays ==
    ASSUME pending' \in {pending, None}, renamed \subseteq renamed'
    PROVE  ClearsStay
  BY DEF ClearsStay, NotPending

LEMMA RunStaysRecorded ==
    ASSUME NEW r \in Runs, RunSawRecorded(r), DOMAIN record \subseteq DOMAIN record',
           pc'[r] = "idle" \/ (pc'[r] = pc[r] /\ job'[r] = job[r])
    PROVE  RunSawRecorded(r)'
  BY DEF RunSawRecorded

LEMMA AnnounceKept ==
    ASSUME Typed, AnnounceInv, ClearsStay, DOMAIN record \subseteq DOMAIN record',
           \A c \in DOMAIN watched' :
               /\ IndexOf(c) \in DOMAIN record'
               /\ watched'[c] => (c \in DOMAIN watched /\ watched[c]) \/ NotPending(c)',
           \A r \in Runs : RunSawRecorded(r)',
           \A r \in Runs : pc'[r] = "mark" => (pc[r] = "mark" /\ job'[r] = job[r]) \/ NotPending(job[r].at[1])'
    PROVE  AnnounceInv'
<1>1. WatchedIsRecorded'
  BY DEF WatchedIsRecorded
<1>2. ASSUME NEW c \in DOMAIN watched', watched'[c] PROVE NotPending(c)'
  <2>1. CASE c \in DOMAIN watched /\ watched[c]
    <3>1. NotPending(c) /\ IndexOf(c) \in DOMAIN record /\ c \in Channels
      BY <2>1 DEF AnnounceInv, AnnouncedIsNotPending, NotPending, WatchedIsRecorded, Typed, TypeOK
    <3> QED
      BY <3>1 DEF ClearsStay
  <2> QED
    BY <2>1, <1>2
<1>3. AnnouncedIsNotPending'
  BY <1>2 DEF AnnouncedIsNotPending, NotPending
<1>4. ASSUME NEW r \in Runs, pc'[r] = "mark" PROVE NotPending(job[r].at[1])'
  <2>1. CASE pc[r] = "mark" /\ job'[r] = job[r]
    <3>1. NotPending(job[r].at[1]) /\ job[r].at[1] \in Channels /\ IndexOf(job[r].at[1]) \in DOMAIN record
      BY <2>1 DEF AnnounceInv, MarksCleared, WatchedIsRecorded, RunSawRecorded, Typed, ActorsTyped, RunTyped
    <3>2. PICK c \in Channels : c = job[r].at[1]
      BY <3>1
    <3>3. NotPending(c)'
      BY <3>1, <3>2 DEF ClearsStay
    <3> QED
      BY <3>2, <3>3, <2>1 DEF NotPending
  <2> QED
    BY <2>1, <1>4
<1>5. MarksCleared'
  BY <1>4 DEF MarksCleared
<1> QED
  BY <1>1, <1>3, <1>5 DEF AnnounceInv

LEMMA RestKeepsAnnounced ==
    ASSUME Typed, AnnounceInv, ClearsStay, DOMAIN record \subseteq DOMAIN record', UNCHANGED watched,
           \A r \in Runs : pc'[r] = "idle" \/ (pc'[r] = pc[r] /\ job'[r] = job[r])
    PROVE  AnnounceInv'
<1>1. \A c \in DOMAIN watched' :
          /\ IndexOf(c) \in DOMAIN record'
          /\ watched'[c] => (c \in DOMAIN watched /\ watched[c]) \/ NotPending(c)'
  BY DEF AnnounceInv, WatchedIsRecorded
<1>2. \A r \in Runs : RunSawRecorded(r)'
  BY RunStaysRecorded DEF AnnounceInv, WatchedIsRecorded
<1>3. \A r \in Runs : pc'[r] = "mark" => (pc[r] = "mark" /\ job'[r] = job[r]) \/ NotPending(job[r].at[1])'
  OBVIOUS
<1> QED
  BY <1>1, <1>2, <1>3, AnnounceKept

(* setChannelId: an opening that had no name is not registered yet, and    *)
(* one that had another is renamed.                                        *)
LEMMA NameClears ==
    ASSUME Typed, NameInv, NEW o \in Opens, Name(o)
    PROVE  ClearsStay /\ renamed \subseteq renamed'
<1> DEFINE own == pending # None /\ pending.index = job[o].index
<1>1. /\ pc[o] = "name"
      /\ pending' = IF own THEN [pending EXCEPT !.channel = ChannelOf(o)] ELSE pending
      /\ renamed' = IF own /\ pending.channel \notin {None, ChannelOf(o)}
                    THEN renamed \cup {job[o].index} ELSE renamed
  BY DEF Name
<1>2. IndexOf(ChannelOf(o)) = job[o].index
  BY <1>1, CallTyped
<1>3. renamed \subseteq renamed'
  BY <1>1
<1>4. ASSUME NEW c \in Channels, IndexOf(c) \in DOMAIN record, NotPending(c) PROVE NotPending(c)'
  <2>1. CASE ~own
    BY <2>1, <1>1, <1>3, <1>4 DEF NotPending
  <2>2. CASE own
    <3>1. pending'.channel = ChannelOf(o)
      BY <2>2, <1>1 DEF Typed, StoreTyped
    <3>2. CASE c # ChannelOf(o)
      BY <3>1, <3>2 DEF NotPending
    <3>3. CASE c = ChannelOf(o)
      <4>1. pending.channel # None
        BY <2>2, <3>3, <1>2, <1>4 DEF NameInv, NamedFirst
      <4>2. CASE pending.channel = ChannelOf(o)
        BY <4>2, <3>3, <2>2, <1>3, <1>4 DEF NotPending
      <4>3. CASE pending.channel # ChannelOf(o)
        <5>1. job[o].index \in renamed'
          BY <4>1, <4>3, <2>2, <1>1
        <5> QED
          BY <5>1, <3>3, <1>2 DEF NotPending
      <4> QED
        BY <4>2, <4>3
    <3> QED
      BY <3>2, <3>3
  <2> QED
    BY <2>1, <2>2
<1> QED
  BY <1>3, <1>4 DEF ClearsStay

LEMMA OpenStepAnnounces ==
    ASSUME Typed, NameInv, PinInv, AnnounceInv, NEW o \in Opens, OpenStep(o)
    PROVE  AnnounceInv'
<1> USE DEF history, stored
<1>0. o \in Actors
  BY DEF Actors
<1>1. ASSUME Moves(o) PROVE \A r \in Runs : pc'[r] = pc[r] /\ job'[r] = job[r]
  BY <1>1, OpeningAssumption DEF Moves, Actors
<1>2. CASE Watch(o)
  <2> DEFINE c == ChannelOf(o)
  <2>1. Moves(o) /\ pc[o] = "watch" /\ UNCHANGED <<pending, record, renamed>>
    BY <1>0, <1>2, GoStays DEF Watch
  <2>2. IndexOf(c) \in DOMAIN record
    BY <2>1, CallTyped DEF PinInv, CallsPinned, CallPinned, Held, Termed, Aliased, Recorded, Registering
  <2>3. watched' = [d \in DOMAIN watched \cup {c} |-> IF d \in DOMAIN watched THEN watched[d] ELSE FALSE]
    BY <1>2 DEF Watch, Watched
  <2> HIDE DEF c
  <2>4. ClearsStay
    BY <2>1, ClearedStays
  <2>5. \A d \in DOMAIN watched' :
            /\ IndexOf(d) \in DOMAIN record'
            /\ watched'[d] => (d \in DOMAIN watched /\ watched[d]) \/ NotPending(d)'
    BY <2>1, <2>2, <2>3 DEF AnnounceInv, WatchedIsRecorded
  <2>6. \A r \in Runs : RunSawRecorded(r)'
    BY <2>1, <1>1, RunStaysRecorded DEF AnnounceInv, WatchedIsRecorded
  <2>7. \A r \in Runs : pc'[r] = "mark" => (pc[r] = "mark" /\ job'[r] = job[r]) \/ NotPending(job[r].at[1])'
    BY <2>1, <1>1
  <2> QED
    BY <2>1, <2>4, <2>5, <2>6, <2>7, AnnounceKept
<1>3. CASE Add(o)
  <2>1. Moves(o) /\ UNCHANGED <<pending, record, watched, renamed>>
    BY <1>0, <1>3, EndMoves DEF Add
  <2> QED
    BY <2>1, <1>1, ClearedStays, RestKeepsAnnounced
<1>4. ASSUME NEW answer \in Answers, Ask(o, answer) PROVE AnnounceInv'
  <2>1. Moves(o) /\ UNCHANGED <<pending, record, watched, renamed>>
    BY <1>4, TakePasses DEF Ask
  <2> QED
    BY <2>1, <1>1, ClearedStays, RestKeepsAnnounced
<1>5. CASE Passes(o)
  <2>1. DOMAIN record \subseteq DOMAIN record'
    BY <1>5 DEF OpenStep, Read, States, Drop, Allocate, Write, Ask, AskRefused, Name, Register, Alias,
               PinTerms, PinCell, Pin, Watch, Add, Refuse
  <2>2. CASE Name(o)
    BY <2>1, <2>2, <1>1, <1>5, NameClears, RestKeepsAnnounced DEF Passes
  <2>3. CASE Write(o)
    <3>1. pending'.channel = None /\ renamed' = renamed
      BY <2>3 DEF Write
    <3>2. ClearsStay
      BY <3>1, OpeningAssumption DEF ClearsStay, NotPending, Channels, Indexes
    <3> QED
      BY <2>1, <3>2, <1>1, <1>5, RestKeepsAnnounced DEF Passes
  <2>4. CASE ~Name(o) /\ ~Write(o)
    <3>1. pending' \in {pending, None} /\ UNCHANGED renamed
      BY <2>4 DEF OpenStep, Read, States, Drop, Allocate, Ask, AskRefused, Register, Alias,
               PinTerms, PinCell, Pin, Watch, Add, Refuse, Cleared
    <3> QED
      BY <2>1, <3>1, <1>1, <1>5, ClearedStays, RestKeepsAnnounced DEF Passes
  <2> QED
    BY <2>2, <2>3, <2>4
<1> QED
  BY <1>2, <1>3, <1>4, <1>5, OpenStepPasses

LEMMA RunStepAnnounces ==
    ASSUME Typed, AnnounceInv, NEW r \in Runs, RunStep(r)
    PROVE  AnnounceInv'
<1>0. Moves(r) /\ pending' \in {pending, None} /\ UNCHANGED <<record, renamed>> /\ RunSawRecorded(r)
  BY RunStepMoves DEF history, AnnounceInv, WatchedIsRecorded
<1>1. ClearsStay
  BY <1>0, ClearedStays
<1>2. RunSawRecorded(r)'
  <2>1. CASE ReadWatched(r)
    BY <2>1, <1>0, RunStarts DEF RunSawRecorded, AnnounceInv, WatchedIsRecorded
  <2>2. CASE ListStates(r)
    BY <2>2, <1>0, RunLists DEF RunSawRecorded
  <2>3. CASE ListPending(r)
    BY <2>3, <1>0, RunListsPending DEF RunSawRecorded
  <2>4. CASE StepEnds(r)
    <3>1. pc'[r] = "idle"
      BY <2>4, EndMoves DEF StepEnds, Actors
    <3> QED
      BY <3>1 DEF RunSawRecorded
  <2>5. ASSUME NEW x \in job[r].todo, ClearOpening(r, x) PROVE RunSawRecorded(r)'
    <3>1. /\ pc[r] # "idle" /\ job'[r].todo \subseteq job[r].todo /\ job'[r].at = x
          /\ job'[r].seen = job[r].seen /\ job'[r].absent = job[r].absent
      BY <2>5, RunClears
    <3> QED
      BY <3>1, <1>0 DEF RunSawRecorded
  <2>6. CASE Mark(r) \/ Forget(r)
    BY <2>6, <1>0, RunSettled DEF RunSawRecorded
  <2> QED
    BY <2>1, <2>2, <2>3, <2>4, <2>5, <2>6 DEF RunStep
<1>3. \A q \in Runs \ {r} : pc'[q] = pc[q] /\ job'[q] = job[q]
  BY <1>0 DEF Moves, Actors
<1>4. \A q \in Runs : RunSawRecorded(q)'
  BY <1>0, <1>2, <1>3, RunStaysRecorded DEF AnnounceInv, WatchedIsRecorded
<1>5. \A q \in Runs : pc'[q] = "mark" => (pc[q] = "mark" /\ job'[q] = job[q]) \/ NotPending(job[q].at[1])'
  <2>1. ASSUME pc'[r] = "mark" PROVE NotPending(job[r].at[1])'
    <3>1. PICK x \in job[r].todo : ClearOpening(r, x)
      <4>1. ~Mark(r) /\ ~Forget(r) /\ ~ReadWatched(r) /\ ~ListStates(r) /\ ~ListPending(r)
        BY <2>1, RunSettled, RunStarts, RunLists, RunListsPending
      <4>2. ~StepEnds(r)
        BY <2>1, EndMoves DEF StepEnds, Actors
      <4> QED
        BY <4>1, <4>2 DEF RunStep
    <3>2. job'[r].at = x /\ pending' = Cleared(pending.channel = x[1])
      BY <3>1, RunClears DEF ClearOpening
    <3>3. pending' = None \/ pending'.channel # x[1]
      BY <3>2 DEF Cleared
    <3> QED
      BY <3>2, <3>3 DEF NotPending
  <2> QED
    BY <2>1, <1>3
<1>6. \A c \in DOMAIN watched' :
          /\ IndexOf(c) \in DOMAIN record'
          /\ watched'[c] => (c \in DOMAIN watched /\ watched[c]) \/ NotPending(c)'
  <2>0. \A c \in DOMAIN watched : IndexOf(c) \in DOMAIN record'
    BY <1>0 DEF AnnounceInv, WatchedIsRecorded
  <2>1. CASE Mark(r)
    <3> DEFINE d == job[r].at[1]
    <3>1. pc[r] = "mark" /\ UNCHANGED <<pending, renamed>>
          /\ watched' = IF d \in DOMAIN watched THEN [watched EXCEPT ![d] = TRUE] ELSE watched
      BY <2>1 DEF Mark, history
    <3>2. NotPending(d)
      BY <3>1 DEF AnnounceInv, MarksCleared
    <3> HIDE DEF d
    <3>3. ASSUME NEW c \in DOMAIN watched', watched'[c], ~(c \in DOMAIN watched /\ watched[c]) PROVE NotPending(c)'
      <4>1. c = d
        BY <3>1, <3>3
      <4> QED
        BY <4>1, <3>1, <3>2 DEF NotPending
    <3>4. DOMAIN watched' = DOMAIN watched
      BY <3>1
    <3> QED
      BY <3>3, <3>4, <2>0
  <2>2. CASE Forget(r)
    BY <2>0, <2>2 DEF Forget
  <2>3. CASE ~Mark(r) /\ ~Forget(r)
    <3>1. UNCHANGED watched
      BY <2>3 DEF RunStep, ReadWatched, ListStates, ListPending, StepEnds, ClearOpening, stored
    <3> QED
      BY <2>0, <3>1
  <2> QED
    BY <2>1, <2>2, <2>3
<1> QED
  BY <1>0, <1>1, <1>4, <1>5, <1>6, AnnounceKept

(* Every step keeps what is announced. *)
LEMMA AnnounceStep == ASSUME IInv, Next PROVE AnnounceInv'
<1> USE DEF history, stored
<1>0. Typed /\ NameInv /\ PinInv /\ AnnounceInv
  BY DEF IInv
<1>1. ASSUME NEW o \in Opens, OpenStep(o) PROVE AnnounceInv'
  BY <1>0, <1>1, OpenStepAnnounces
<1>2. ASSUME NEW r \in Runs, RunStep(r) PROVE AnnounceInv'
  BY <1>0, <1>2, RunStepAnnounces
<1>3. ASSUME UNCHANGED <<pending, renamed, watched>>, DOMAIN record \subseteq DOMAIN record',
             \A r \in Runs : pc'[r] = "idle" \/ (pc'[r] = pc[r] /\ job'[r] = job[r])
      PROVE  AnnounceInv'
  BY <1>0, <1>3, ClearedStays, RestKeepsAnnounced
<1>4. ASSUME NEW a \in Actors, Moves(a), a \in Runs => pc'[a] = "idle",
             UNCHANGED <<pending, renamed, watched, record>>
      PROVE  AnnounceInv'
  <2>1. \A r \in Runs : pc'[r] = "idle" \/ (pc'[r] = pc[r] /\ job'[r] = job[r])
    BY <1>4 DEF Moves, Actors
  <2> QED
    BY <2>1, <1>3, <1>4
<1>5. ASSUME NEW o \in Opens, NEW asked \in Asks, Begin(o, asked) PROVE AnnounceInv'
  <2>1. Moves(o)
    BY <1>0, <1>5, GoMoves DEF Begin, Actors
  <2> QED
    BY <2>1, <1>4, <1>5, OpeningAssumption DEF Begin, Actors
<1>6. ASSUME NEW o \in Opens, NEW answer \in Answers, AskLiar(o, answer) PROVE AnnounceInv'
  <2>1. Moves(o)
    BY <1>0, <1>6, TakePasses DEF AskLiar
  <2> QED
    BY <2>1, <1>4, <1>6, OpeningAssumption DEF AskLiar, Actors
<1>7. ASSUME NEW a \in Actors, OpenFails(a) \/ RunFails(a) PROVE AnnounceInv'
  BY <1>0, <1>4, <1>7, EndMoves DEF OpenFails, RunFails
<1>8. ASSUME NEW w \in TowerRuns, TowerStep(w) PROVE AnnounceInv'
  <2>1. Moves(w) /\ UNCHANGED <<pending, renamed, watched, record>>
    BY <1>0, <1>8, TowerStepMoves
  <2> QED
    BY <2>1, <1>4, OpeningAssumption DEF Actors
<1>9. ASSUME NEW c \in Channels, NodeStep(c) \/ Abort(c) PROVE AnnounceInv'
  BY <1>3, <1>9, NodeStepTurns
<1>10. ASSUME NEW c \in Channels, NEW x, Submit(c, x) \/ Serve(c, x) PROVE AnnounceInv'
  BY <1>3, <1>10 DEF Submit, Serve
<1>11. CASE Crash
  <2>1. UNCHANGED <<stored, renamed>> /\ \A r \in Runs : pc'[r] = "idle"
    BY <1>11 DEF Crash, Actors
  <2> QED
    BY <2>1, <1>3
<1> QED
  BY <1>1, <1>2, <1>5, <1>6, <1>7, <1>8, <1>9, <1>10, <1>11 DEF Next, Actors

-----------------------------------------------------------------------------
(* The inductive invariant *)

LEMMA InitHolds == Init => IInv
<1>0. SUFFICES ASSUME Init PROVE IInv
  OBVIOUS
<1>1. /\ pending = None /\ last = 0 /\ DOMAIN record = {} /\ alias = [c \in Channels |-> None]
      /\ watched = [c \in {} |-> FALSE] /\ listed = {} /\ DOMAIN pc = Actors /\ DOMAIN job = Actors
      /\ node = [c \in Channels |-> "none"] /\ handed = {}
      /\ signed = [i \in Indexes |-> [f \in PinNames |-> {}]]
      /\ bound \in Bounds /\ calls = 0 /\ faults = 0
  BY <1>0 DEF Init
<1>2. \A a \in Opens \cup Runs \cup TowerRuns : pc[a] = "idle"
  BY <1>0 DEF Init, Actors
<1>3. TypeOK
  <2>1. bound.calls \in Nat /\ bound.faults \in Nat /\ MaxIndex \in Nat
    BY <1>1, OpeningAssumption
  <2> QED
    BY <1>1, <2>1 DEF TypeOK
<1>4. StoreTyped
  <2>1. watched \in [{} -> BOOLEAN] /\ {} \in SUBSET Channels
    BY <1>1
  <2>2. watched \in Flags
    BY <2>1 DEF Flags
  <2>3. node \in [Channels -> NodeStates]
    BY <1>1 DEF NodeStates
  <2> QED
    BY <1>1, <2>2, <2>3 DEF StoreTyped
<1>5. ActorsTyped
  BY <1>1, <1>2 DEF ActorsTyped, OpenTyped, RunTyped, TowerTyped, Held, Termed, Aliased, Recorded,
                    Registering, Answered, Indexed
<1>6. NameInv
  BY <1>1, <1>2 DEF NameInv, IndexesUsed, WritesFresh, NamedFirst, AliasesOwn,
                    Held, Termed, Aliased, Recorded, Registering
<1>7. PinInv
  BY <1>1, <1>2 DEF PinInv, CallsPinned, CallPinned, LayoutLast, HandedFit, OneFundingPerIndex, SignedIsStated,
                    SignedAsPinned, Held, Termed, Aliased, Recorded
<1>8. FollowInv
  BY <1>1, <1>2 DEF FollowInv, ListsWatched, SettlesOver, RunSettlesOver, RemovesOver, TowerRemovesOver,
                    HandedIsFollowed
<1>9. AnnounceInv
  BY <1>1, <1>2 DEF AnnounceInv, WatchedIsRecorded, RunSawRecorded, MarksCleared, AnnouncedIsNotPending
<1> QED
  BY <1>3, <1>4, <1>5, <1>6, <1>7, <1>8, <1>9 DEF IInv, Typed

LEMMA StutterHolds == ASSUME IInv, UNCHANGED vars PROVE IInv'
<1> USE DEF vars, stored, history, IInv
<1>1. Typed'
  BY DEF Typed, TypeOK, IsPendingOpening, StoreTyped, ActorsTyped, OpenTyped, RunTyped, TowerTyped
<1>2. NameInv'
  BY DEF NameInv, IndexesUsed, WritesFresh, NamedFirst, AliasesOwn, ChannelOf
<1>3. PinInv'
  BY DEF PinInv, CallsPinned, CallPinned, Pins, LayoutLast, HandedFit, OneFundingPerIndex, SignedIsStated,
         SignedAsPinned
<1>4. FollowInv'
  BY DEF FollowInv, ListsWatched, SettlesOver, RunSettlesOver, RemovesOver, TowerRemovesOver, HandedIsFollowed,
         Followed, Over, ChannelOf
<1>5. AnnounceInv'
  BY DEF AnnounceInv, WatchedIsRecorded, RunSawRecorded, MarksCleared, NotPending, AnnouncedIsNotPending
<1> QED
  BY <1>1, <1>2, <1>3, <1>4, <1>5

LEMMA InvariantHolds == Spec => []IInv
<1>1. Init => IInv
  BY InitHolds
<1>2. IInv /\ [Next]_vars => IInv'
  <2>1. ASSUME IInv, Next PROVE IInv'
    BY <2>1, TypedStep, NameStep, PinStep, FollowStep, AnnounceStep DEF IInv
  <2> QED
    BY <2>1, StutterHolds
<1> QED
  BY <1>1, <1>2, PTL DEF Spec

-----------------------------------------------------------------------------
(* The types of everything openings store, for any number of calls, runs,  *)
(* lies, failures and crashes: a record or a pending opening that failed   *)
(* its guard (isPendingOpening, isChannelPins) could not be read again.    *)
THEOREM OpeningsTypeOK == Spec => []TypeOK
<1>1. IInv => TypeOK
  BY DEF IInv, Typed
<1> QED
  BY <1>1, InvariantHolds, PTL

(* registerChannel, pinOpening, openWithNode: a name resolves to a record, *)
(* the openings handed out of one index are one channel and one funding    *)
(* cell, and a pending opening that holds pins has a name.                 *)
THEOREM OneChannelPerOpening == Spec => []OneChannelPerIndex
<1>1. ASSUME IInv PROVE OneChannelPerIndex
  <2>1. TypeOK /\ OneFundingPerIndex
    BY <1>1 DEF IInv, Typed, PinInv
  <2>2. AliasResolves
    BY <1>1 DEF IInv, NameInv, AliasesOwn, AliasResolves
  <2>3. PinnedIsNamed
    BY <1>1 DEF IInv, NameInv, NamedFirst, PinnedIsNamed
  <2> QED
    BY <2>1, <2>2, <2>3 DEF OneChannelPerIndex
<1> QED
  BY <1>1, InvariantHolds, PTL

(* pinOpening, settle, answer: a channel handed to the host is watched and *)
(* listed until it is over, whatever runs of the channel step and of the   *)
(* watchtower step, abandoned ones too, read it when; and one announced    *)
(* ready is not pending, unless its opening was renamed meanwhile.         *)
THEOREM HandedIsFollowedUntilOver == Spec => []FollowedUntilClosed
<1>1. IInv => FollowedUntilClosed
  BY DEF IInv, FollowInv, AnnounceInv, FollowedUntilClosed
<1> QED
  BY <1>1, InvariantHolds, PTL

(* pinClaim, pinHostValues: everything ever signed for an index states the *)
(* values its record holds, for any answers, operations and interleaving.  *)
THEOREM SignsWhatIsPinned == Spec => []SignedAsPinned
<1>1. IInv => SignedAsPinned
  BY DEF IInv, PinInv
<1> QED
  BY <1>1, InvariantHolds, PTL

(* fundingCapacityPins, checkOpeningReserves: under a pinned layout the    *)
(* funding cell holds the liquid capacity and both reserves, and both      *)
(* reserves of a channel handed out are of that layout, where the device's *)
(* own reserve differs between the layouts.                                *)
THEOREM CapacitiesFit == Spec => []PinnedCapacityFits
<1>1. ASSUME IInv PROVE CapacityAdds
  BY <1>1 DEF IInv, PinInv, LayoutLast, Adds, CapacityAdds
<1>2. ASSUME IInv, NEW h \in handed, record[IndexOf(h.channel)].pins["lockLayout"] # None,
             Cardinality({Reserve(record[IndexOf(h.channel)].asked.script, m) : m \in Layouts}) > 1
      PROVE  record[IndexOf(h.channel)].pins["remoteReserved"] =
                Reserve(record[IndexOf(h.channel)].pins["remoteCloseScript"],
                        record[IndexOf(h.channel)].pins["lockLayout"])
  <2> DEFINE i == IndexOf(h.channel)
             r == record[i]
             l == r.pins["lockLayout"]
             reserves == {Reserve(r.asked.script, m) : m \in Layouts}
  <2>1. i \in DOMAIN record /\ r.pins["fundingCapacity"] = h.capacity
    BY <1>2 DEF IInv, PinInv, OneFundingPerIndex
  <2>2. /\ IsChannelPins(r.asked, r.pins) /\ r.asked \in Asks
        /\ l \in Layouts
    BY <1>2, <2>1 DEF IInv, Typed, TypeOK, IsChannelPins
  <2>3. Adds(r)
    BY <1>2, <2>1 DEF IInv, PinInv, LayoutLast
  <2>4. PICK m \in Layouts :
            /\ r.pins["remoteReserved"] = Reserve(r.pins["remoteCloseScript"], m)
            /\ h.capacity = r.pins["liquidCapacity"] + r.pins["remoteReserved"] + Reserve(r.asked.script, m)
    BY <1>2 DEF IInv, PinInv, HandedFit, Fits
  <2>5. r.pins["remoteReserved"] \in Nat /\ r.pins["liquidCapacity"] \in Nat
    <3>1. "remoteReserved" \in DOMAIN PinForms /\ PinForms["remoteReserved"] = 0 .. MaxCapacity
      BY DEF PinForms
    <3> QED
      BY <2>2, <2>3, <3>1, PinsAssumption DEF IsChannelPins, Adds
  <2>6. Reserve(r.asked.script, l) \in Nat /\ Reserve(r.asked.script, m) \in Nat
    BY <2>2, ReserveTyped, OpeningAssumption
  <2>7. Reserve(r.asked.script, l) = Reserve(r.asked.script, m)
    <3>1. r.pins["fundingCapacity"] = r.pins["liquidCapacity"] + r.pins["remoteReserved"] + Reserve(r.asked.script, l)
      BY <2>3 DEF Adds
    <3>2. r.pins["fundingCapacity"] = r.pins["liquidCapacity"] + r.pins["remoteReserved"] + Reserve(r.asked.script, m)
      BY <2>1, <2>4
    <3> HIDE DEF r, l
    <3> QED
      BY <3>1, <3>2, <2>5, <2>6
  <2>8. l = m
    <3>1. SUFFICES ASSUME l # m PROVE FALSE
      OBVIOUS
    <3>2. Layouts = {l, m}
      BY <3>1, <2>2 DEF Layouts
    <3>3. reserves = {Reserve(r.asked.script, l)}
      <4> HIDE DEF l, r
      <4> QED
        BY <3>2, <2>7
    <3>4. Cardinality(reserves) = 1
      BY <3>3, FS_Singleton
    <3> QED
      BY <3>4, <1>2
  <2> QED
    BY <2>4, <2>8
<1>3. ASSUME IInv PROVE ReservesOfOneLayout
  BY <1>2, <1>3 DEF ReservesOfOneLayout
<1>4. IInv => PinnedCapacityFits
  BY <1>1, <1>3 DEF PinnedCapacityFits
<1> QED
  BY <1>4, InvariantHolds, PTL

=============================================================================
