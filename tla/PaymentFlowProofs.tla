-------------------------- MODULE PaymentFlowProofs --------------------------
(***************************************************************************)
(* Proofs about PaymentFlow: as long as no abandoned run takes the mark off*)
(* the payment that the run after it reads, no payment is sent while it is *)
(* read, every open intent is watched, and a run closes and forgets only   *)
(* the attempt whose end it read.                                          *)
(*                                                                         *)
(* The marks keep transfers away from the payment the run in force reads.  *)
(* A run that was abandoned has no such mark to rely on: what keeps it     *)
(* harmless is the lanes.  It is before the next run's list when it is     *)
(* about to forget, before its close when it is about to close, and before *)
(* the watch of any transfer called since.                                 *)
(***************************************************************************)
EXTENDS PaymentFlow, TLAPS

(* The waits of a transfer in progress, and of a run about a payment. *)
Sending == {"watch", "record", "call", "withdraw", "drop"}

Answering == {"read", "check", "look", "close", "forget"}

AboutPayment ==
    /\ \A t \in Transfers : pc[t] \in {"idle"} \cup Sending
    /\ \A t \in Transfers : pc[t] \in Sending => hash[t] \in sending
    /\ \A t, u \in Transfers : t # u /\ pc[t] \in Sending /\ pc[u] \in Sending => hash[t] # hash[u]
    /\ \A r \in Runs : pc[r] \in {"idle", "list", "pick"} \cup Answering
    /\ \A r \in Runs : pc[r] \in Answering => hash[r] \in Hashes

(* The run the poller waits for lists behind those about to forget, *)
ForgetsFirst ==
    \A r, q \in Runs : (live = q /\ r # q /\ pc[r] = "forget") => pc[q] = "list" /\ Before(r, q)

(* closes behind those about to close, *)
ClosesInOrder ==
    \A r, q \in Runs : (live = q /\ r # q /\ pc[r] = "close" /\ pc[q] = "close") => Before(r, q)

(* and none forgets a payment another is about to close, which has an      *)
(* intent.                                                                 *)
ClosesBeforeForgetting ==
    /\ \A r, q \in Runs : r # q /\ pc[r] = "close" /\ pc[q] = "forget" => hash[r] # hash[q]
    /\ \A r \in Runs : pc[r] = "close" => intent[hash[r]] # "none"

(* No transfer is in progress of the payment the run in force is about. *)
ReadsAlone ==
    \A r \in Runs : live = r /\ pc[r] \in Answering =>
        /\ hash[r] \in reading /\ hash[r] \notin sending
        /\ seen[r] = attempt[hash[r]]
        /\ pc[r] = "look" => hash[r] \in watched

(* One of a payment about to be closed finds it watched, and gives up; *)
ClosesAlone ==
    \A r \in Runs : pc[r] = "close" =>
        /\ hash[r] \in watched /\ seen[r] = attempt[hash[r]]
        /\ \A t \in Transfers : pc[t] \in Sending /\ hash[t] = hash[r] => pc[t] = "watch"

(* one of a payment about to be forgotten waits behind the forgetting. *)
ForgetsAlone ==
    \A r \in Runs : pc[r] = "forget" =>
        /\ intent[hash[r]] # "open" /\ seen[r] = attempt[hash[r]]
        /\ \A t \in Transfers : pc[t] \in Sending /\ hash[t] = hash[r] =>
               pc[t] = "watch" /\ Before(r, t)

(* An intent is opened under a watch, and dropped when it is not open. *)
SendsWatched ==
    /\ \A t \in Transfers : pc[t] = "record" => hash[t] \in watched
    /\ \A t \in Transfers : pc[t] = "drop" => intent[hash[t]] # "open"

MarkedInv ==
    /\ ReadsAlone /\ ClosesAlone /\ ForgetsAlone /\ SendsWatched /\ OpenIsWatched

IInv ==
    /\ TypeOK /\ AboutPayment
    /\ ForgetsFirst /\ ClosesInOrder /\ ClosesBeforeForgetting
    /\ ~unmarked => MarkedInv

-----------------------------------------------------------------------------
(* Moves in the lanes *)

(* The types of what a move in the lanes leaves to the action. *)
RestTyped ==
    /\ watched \subseteq Hashes /\ charged \subseteq Hashes
    /\ intent \in [Hashes -> {"none", "open", "closed"}]
    /\ sending \subseteq Hashes /\ reading \subseteq Hashes
    /\ hash \in [Actors -> Hashes \cup {None}]
    /\ todo \in [Runs -> SUBSET Hashes] /\ live \in Runs \cup {None}
    /\ attempt \in [Hashes -> Nat] /\ seen \in [Runs -> Nat] /\ unmarked \in BOOLEAN
    /\ calls \in 0 .. MaxCalls /\ faults \in 0 .. MaxFaults

LEMMA TypedRest == TypeOK => RestTyped
  BY DEF TypeOK, RestTyped

(* Go: those that do not move keep their order, *)
LEMMA GoKeepsOrder ==
    ASSUME NEW a \in Actors, NEW p, Go(a, p), NEW b, NEW c \in Actors, b # a, c # a, Before(b, c)
    PROVE  Before(b, c)'
  BY DEF Go, Before

(* and whoever joins a lane is behind all who wait in it. *)
LEMMA GoJoinsLast ==
    ASSUME NEW a \in Actors, NEW p, Go(a, p), LaneOf(p) # "",
           NEW b \in Actors, b # a, LaneOf(pc[b]) = LaneOf(p)
    PROVE  Before(b, a)'
  BY DEF Go, Before, WaitIn

(* Whose turn it is has nobody before it. *)
LEMMA FirstHasNoneBefore ==
    ASSUME NEW c, At(c, pc[c]), NEW b
    PROVE  ~Before(b, c)
  BY DEF At, Before

(* At, Go: the types. *)
LEMMA MoveTypes ==
    ASSUME TypeOK, NEW a \in Actors, NEW p \in Waits, At(a, pc[a]), Go(a, p), RestTyped'
    PROVE  TypeOK'
<1>1. pc' \in [Actors -> Waits] /\ ahead' \in [Actors -> SUBSET Actors]
  BY DEF Go, TypeOK, WaitIn
<1> QED
  BY <1>1 DEF TypeOK, RestTyped

(* A fault is one more within the bound. *)
LEMMA FaultTyped == ASSUME TypeOK, Fault PROVE faults' \in 0 .. MaxFaults
<1>1. faults \in 0 .. MaxFaults /\ faults < MaxFaults /\ faults' = faults + 1
  BY DEF TypeOK, Fault
<1> QED
  BY <1>1, PaymentAssumption

(* The lanes of the waits the order matters at. *)
LEMMA LaneNames ==
    /\ LaneOf("list") = "activity" /\ LaneOf("forget") = "activity" /\ LaneOf("watch") = "activity"
    /\ LaneOf("close") = "balance"
  BY DEF LaneOf

(* Only the run in force comes to close or to forget, so every move but a  *)
(* run's start keeps the order of the runs.                                *)
LEMMA MoveKeepsRunOrder ==
    ASSUME IInv, NEW a \in Actors, NEW p \in Waits, At(a, pc[a]), Go(a, p),
           live' \in {live, None}, p \in {"close", "forget"} => live = a
    PROVE  ForgetsFirst' /\ ClosesInOrder'
<1> USE DEF IInv
<1>0. pc' = [pc EXCEPT ![a] = p] /\ pc \in [Actors -> Waits]
  BY DEF Go, TypeOK
<1>1. ASSUME NEW r \in Runs, NEW q \in Runs, live' = q, r # q, pc'[r] = "forget"
      PROVE  pc'[q] = "list" /\ Before(r, q)'
  <2>1. live = q /\ a # r /\ pc[r] = "forget" /\ r \in Actors /\ q \in Actors
    BY <1>0, <1>1, PaymentAssumption DEF Actors
  <2>2. pc[q] = "list" /\ Before(r, q)
    BY <2>1, <1>1 DEF ForgetsFirst
  <2>3. q # a
    BY <2>1, <2>2, <1>0, <1>1, LaneNames, FirstHasNoneBefore
  <2> QED
    BY <2>1, <2>2, <2>3, <1>0, LaneNames, GoKeepsOrder
<1>2. ASSUME NEW r \in Runs, NEW q \in Runs, live' = q, r # q, pc'[r] = "close", pc'[q] = "close"
      PROVE  Before(r, q)'
  <2>1. live = q /\ a # r /\ pc[r] = "close" /\ r \in Actors /\ q \in Actors
    BY <1>0, <1>2, PaymentAssumption DEF Actors
  <2>2. CASE q = a
    <3>1. p = "close"
      BY <2>2, <1>0, <1>2
    <3> QED
      BY <3>1, <2>1, <2>2, <1>0, <1>2, LaneNames, GoJoinsLast
  <2>3. CASE q # a
    <3>1. pc[q] = "close"
      BY <2>3, <2>1, <1>0, <1>2
    <3>2. Before(r, q)
      BY <3>1, <2>1, <1>2 DEF ClosesInOrder
    <3> QED
      BY <3>2, <2>1, <2>3, <1>0, LaneNames, GoKeepsOrder
  <2> QED
    BY <2>2, <2>3
<1> QED
  BY <1>1, <1>2 DEF ForgetsFirst, ClosesInOrder

-----------------------------------------------------------------------------
(* Transfers *)

(* A transfer whose turn it is is never of a payment about to be forgotten,*)
(* and past its watch of none that a run is about to close or reads.       *)
LEMMA SendsAlone ==
    ASSUME IInv, ~unmarked, NEW t \in Transfers, At(t, pc[t]), pc[t] \in Sending,
           NEW r \in Runs, hash[r] = hash[t]
    PROVE  /\ pc[r] # "forget"
           /\ pc[t] # "watch" => pc[r] # "close"
           /\ live = r => pc[r] \notin Answering
<1> USE DEF IInv, MarkedInv
<1>1. t \in Actors /\ r \in Actors /\ t # r
  BY PaymentAssumption DEF Actors
<1>2. pc[r] # "forget"
  <2> SUFFICES ASSUME pc[r] = "forget" PROVE FALSE
    OBVIOUS
  <2>1. pc[t] = "watch" /\ Before(r, t)
    BY DEF ForgetsAlone
  <2> QED
    BY <2>1, <1>1, LaneNames, FirstHasNoneBefore
<1>3. pc[t] # "watch" => pc[r] # "close"
  BY DEF ClosesAlone
<1>4. live = r => pc[r] \notin Answering
  BY DEF ReadsAlone, AboutPayment
<1> QED
  BY <1>2, <1>3, <1>4

(* What a transfer in progress does concerns its payment alone; it opens an*)
(* intent under a watch, and gives up where the payment is watched already.*)
SendMove(t, p) ==
    /\ At(t, pc[t]) /\ pc[t] \in Sending /\ Go(t, p)
    /\ \/ p = "idle" /\ hash' = [hash EXCEPT ![t] = None] /\ sending' = sending \ {hash[t]}
       \/ p \in Sending \ {"watch"} /\ UNCHANGED <<hash, sending>>
    /\ UNCHANGED <<reading, todo, live, seen, unmarked>>
    /\ \A h \in Hashes \ {hash[t]} :
           (h \in watched' <=> h \in watched) /\ intent'[h] = intent[h] /\ attempt'[h] = attempt[h]
    /\ intent[hash[t]] # "none" => intent'[hash[t]] # "none"
    /\ pc[t] = "watch" => /\ watched \subseteq watched' /\ UNCHANGED <<intent, attempt>>
                          /\ hash[t] \in watched => p = "idle"
    /\ p = "record" => hash[t] \in watched'
    /\ p = "drop" => intent'[hash[t]] # "open"
    /\ (OpenIsWatched /\ SendsWatched) => (intent'[hash[t]] = "open" => hash[t] \in watched')

LEMMA SendMoveKeeps ==
    ASSUME IInv, NEW t \in Transfers, NEW p, SendMove(t, p), RestTyped'
    PROVE  IInv'
<1> USE DEF IInv
<1>1. t \in Actors /\ t \notin Runs /\ p \in Waits /\ p \in {"idle"} \cup (Sending \ {"watch"})
  BY PaymentAssumption DEF Actors, SendMove, Sending, Waits
<1>2. At(t, pc[t]) /\ Go(t, p) /\ live' = live /\ pc[t] \in Sending
  BY DEF SendMove
<1>3. TypeOK'
  BY <1>1, <1>2, MoveTypes
<1>4. ForgetsFirst' /\ ClosesInOrder'
  BY <1>1, <1>2, MoveKeepsRunOrder DEF Sending
<1>5. pc' = [pc EXCEPT ![t] = p] /\ pc \in [Actors -> Waits] /\ hash \in [Actors -> Hashes \cup {None}]
  BY <1>2 DEF Go, TypeOK
<1>6. \A r \in Runs : pc'[r] = pc[r] /\ hash'[r] = hash[r]
  BY <1>1, <1>5 DEF SendMove, Actors
<1>7. \A u \in Transfers : u # t => pc'[u] = pc[u] /\ hash'[u] = hash[u]
  BY <1>1, <1>5 DEF SendMove, Actors
<1>8. pc'[t] = p /\ (p # "idle" => hash'[t] = hash[t])
  BY <1>1, <1>5 DEF SendMove
<1>9. AboutPayment'
  BY <1>1, <1>2, <1>6, <1>7, <1>8 DEF AboutPayment, SendMove, Sending
<1>10. hash[t] \in Hashes
  BY <1>2 DEF AboutPayment, TypeOK
<1>11. ClosesBeforeForgetting'
  <2>1. \A r \in Runs : pc[r] = "close" => hash[r] \in Hashes
    BY DEF AboutPayment, Answering
  <2> QED
    BY <1>6, <2>1 DEF ClosesBeforeForgetting, SendMove
<1>12. ASSUME ~unmarked' PROVE MarkedInv'
  <2> USE <1>12 DEF MarkedInv
  <2>1. ~unmarked
    BY DEF SendMove
  <2>2. \A r \in Runs : pc[r] \in Answering => hash[r] \in Hashes
    BY DEF AboutPayment
  <2>3. \A r \in Runs : hash[r] = hash[t] =>
            /\ pc[r] # "forget" /\ (pc[t] # "watch" => pc[r] # "close")
            /\ live = r => pc[r] \notin Answering
    BY <1>2, <2>1, SendsAlone
  <2>4. ReadsAlone'
    <3> SUFFICES ASSUME NEW r \in Runs, live = r, pc[r] \in Answering
                 PROVE  /\ hash[r] \in reading' /\ hash[r] \notin sending'
                        /\ seen'[r] = attempt'[hash[r]]
                        /\ pc[r] = "look" => hash[r] \in watched'
      BY <1>2, <1>6 DEF ReadsAlone
    <3>1. hash[r] \in Hashes /\ hash[r] # hash[t]
      BY <2>2, <2>3
    <3> QED
      BY <3>1, <2>1 DEF ReadsAlone, SendMove
  <2>5. ClosesAlone'
    <3> SUFFICES ASSUME NEW r \in Runs, pc[r] = "close"
                 PROVE  /\ hash[r] \in watched' /\ seen'[r] = attempt'[hash[r]]
                        /\ \A u \in Transfers : pc'[u] \in Sending /\ hash'[u] = hash[r] => pc'[u] = "watch"
      BY <1>6 DEF ClosesAlone
    <3>1. hash[r] \in Hashes
      BY <2>2 DEF Answering
    <3>2. /\ hash[r] \in watched /\ seen[r] = attempt[hash[r]]
          /\ \A u \in Transfers : pc[u] \in Sending /\ hash[u] = hash[r] => pc[u] = "watch"
      BY <2>1 DEF ClosesAlone
    <3>3. hash[r] = hash[t] => p = "idle" /\ watched \subseteq watched' /\ UNCHANGED attempt
      BY <3>2, <2>3 DEF SendMove
    <3>4. hash[r] \in watched' /\ seen'[r] = attempt'[hash[r]]
      BY <3>1, <3>2, <3>3 DEF SendMove
    <3>5. \A u \in Transfers : pc'[u] \in Sending /\ hash'[u] = hash[r] => pc'[u] = "watch"
      BY <3>2, <3>3, <1>7, <1>8 DEF Sending
    <3> QED
      BY <3>4, <3>5
  <2>6. ForgetsAlone'
    <3> SUFFICES ASSUME NEW r \in Runs, pc[r] = "forget"
                 PROVE  /\ intent'[hash[r]] # "open" /\ seen'[r] = attempt'[hash[r]]
                        /\ \A u \in Transfers : pc'[u] \in Sending /\ hash'[u] = hash[r] =>
                               pc'[u] = "watch" /\ Before(r, u)'
      BY <1>6 DEF ForgetsAlone
    <3>1. hash[r] \in Hashes /\ hash[r] # hash[t]
      BY <2>2, <2>3 DEF Answering
    <3>2. /\ intent[hash[r]] # "open" /\ seen[r] = attempt[hash[r]]
          /\ \A u \in Transfers : pc[u] \in Sending /\ hash[u] = hash[r] =>
                 pc[u] = "watch" /\ Before(r, u)
      BY <2>1 DEF ForgetsAlone
    <3>3. intent'[hash[r]] # "open" /\ seen'[r] = attempt'[hash[r]]
      BY <3>1, <3>2 DEF SendMove
    <3>4. ASSUME NEW u \in Transfers, pc'[u] \in Sending, hash'[u] = hash[r]
          PROVE  pc'[u] = "watch" /\ Before(r, u)'
      <4>1. u # t
        BY <3>1, <3>4, <1>8 DEF Sending
      <4>2. pc'[u] = "watch" /\ Before(r, u)
        BY <4>1, <3>2, <3>4, <1>7
      <4> QED
        BY <4>1, <4>2, <1>1, <1>2, LaneNames, GoKeepsOrder DEF Actors
    <3> QED
      BY <3>3, <3>4
  <2>7. SendsWatched'
    <3>1. \A u \in Transfers : u # t /\ pc[u] \in Sending => hash[u] \in Hashes \ {hash[t]}
      BY <1>2 DEF AboutPayment, TypeOK
    <3>2. \A u \in Transfers : u # t => /\ pc'[u] = "record" => hash'[u] \in watched'
                                        /\ pc'[u] = "drop" => intent'[hash'[u]] # "open"
      BY <3>1, <2>1, <1>7 DEF SendsWatched, SendMove, Sending
    <3>3. /\ p = "record" => hash'[t] \in watched'
          /\ p = "drop" => intent'[hash'[t]] # "open"
      BY <1>8 DEF SendMove
    <3> QED
      BY <3>2, <3>3, <1>8 DEF SendsWatched
  <2>8. OpenIsWatched'
    BY <2>1, <1>10 DEF OpenIsWatched, SendMove
  <2> QED
    BY <2>4, <2>5, <2>6, <2>7, <2>8
<1> QED
  BY <1>3, <1>4, <1>9, <1>11, <1>12

(* transferSdkPayment: a transfer begins where its payment is neither sent *)
(* nor read, and queues behind whoever is about to forget it.              *)
LEMMA BeginKeeps ==
    ASSUME IInv, NEW t \in Transfers, NEW h \in Hashes, Begin(t, h)
    PROVE  IInv'
<1> USE DEF IInv
<1>1. t \in Actors /\ t \notin Runs /\ "watch" \in Waits
  BY PaymentAssumption DEF Actors, Waits
<1>2. /\ At(t, pc[t]) /\ pc[t] = "idle" /\ Go(t, "watch") /\ h \notin sending /\ h \notin reading
      /\ sending' = sending \cup {h} /\ hash' = [hash EXCEPT ![t] = h]
      /\ UNCHANGED <<watched, intent, charged, reading, todo, live, attempt, seen, unmarked, faults>>
      /\ calls' \in 0 .. MaxCalls
  <2>1. calls' \in 0 .. MaxCalls
    BY PaymentAssumption DEF Begin, TypeOK
  <2> QED
    BY <2>1 DEF Begin, At, MayBegin, stored, history
<1>3. RestTyped'
  BY <1>1, <1>2 DEF RestTyped, TypeOK
<1>4. TypeOK'
  BY <1>1, <1>2, <1>3, MoveTypes
<1>5. ForgetsFirst' /\ ClosesInOrder'
  BY <1>1, <1>2, MoveKeepsRunOrder
<1>6. pc' = [pc EXCEPT ![t] = "watch"] /\ pc \in [Actors -> Waits] /\ hash \in [Actors -> Hashes \cup {None}]
  BY <1>2 DEF Go, TypeOK
<1>7. \A r \in Runs : pc'[r] = pc[r] /\ hash'[r] = hash[r]
  BY <1>1, <1>2, <1>6 DEF Actors
<1>8. \A u \in Transfers : u # t => pc'[u] = pc[u] /\ hash'[u] = hash[u]
  BY <1>1, <1>2, <1>6 DEF Actors
<1>9. pc'[t] = "watch" /\ hash'[t] = h
  BY <1>1, <1>2, <1>6
<1>10. AboutPayment'
  BY <1>2, <1>7, <1>8, <1>9 DEF AboutPayment, Sending
<1>11. ClosesBeforeForgetting'
  BY <1>2, <1>7 DEF ClosesBeforeForgetting
<1>12. ASSUME ~unmarked' PROVE MarkedInv'
  <2> USE <1>12 DEF MarkedInv
  <2>1. ~unmarked
    BY <1>2
  <2>2. ReadsAlone'
    BY <2>1, <1>2, <1>7 DEF ReadsAlone
  <2>3. ClosesAlone'
    BY <2>1, <1>2, <1>7, <1>8, <1>9 DEF ClosesAlone
  <2>4. ForgetsAlone'
    <3> SUFFICES ASSUME NEW r \in Runs, pc[r] = "forget", NEW u \in Transfers,
                        pc'[u] \in Sending, hash'[u] = hash[r]
                 PROVE  pc'[u] = "watch" /\ Before(r, u)'
      BY <2>1, <1>2, <1>7 DEF ForgetsAlone
    <3>1. r \in Actors /\ r # t
      BY <1>1 DEF Actors
    <3>2. CASE u = t
      BY <3>1, <3>2, <1>1, <1>2, <1>9, LaneNames, GoJoinsLast
    <3>3. CASE u # t
      <4>1. pc'[u] = "watch" /\ Before(r, u)
        BY <3>3, <2>1, <1>8 DEF ForgetsAlone
      <4> QED
        BY <4>1, <3>1, <3>3, <1>1, <1>2, LaneNames, GoKeepsOrder DEF Actors
    <3> QED
      BY <3>2, <3>3
  <2>5. SendsWatched'
    BY <2>1, <1>2, <1>8, <1>9 DEF SendsWatched
  <2>6. OpenIsWatched'
    BY <2>1, <1>2 DEF OpenIsWatched
  <2> QED
    BY <2>2, <2>3, <2>4, <2>5, <2>6
<1> QED
  BY <1>4, <1>5, <1>10, <1>11, <1>12

(* sendWatchedPayment: every step of a transfer is such a move. *)
LEMMA TransferKeeps ==
    ASSUME IInv, NEW t \in Transfers, TransferStep(t) \/ TransferFails(t)
    PROVE  IInv'
<1> USE DEF IInv
<1>1. t \in Actors /\ RestTyped
  BY TypedRest DEF Actors
<1>2. pc[t] \in Sending => hash[t] \in Hashes
  BY DEF AboutPayment, TypeOK
<1> SUFFICES \E p : SendMove(t, p) /\ RestTyped'
  BY SendMoveKeeps
<1>3. CASE Watch(t)
  <2>1. At(t, pc[t]) /\ pc[t] = "watch" /\ UNCHANGED <<intent, charged, reading, todo, live, attempt, seen, unmarked, bounds>>
    BY <1>3 DEF Watch, At, history
  <2>2. CASE hash[t] \in watched
    <3>1. Settle(t) /\ UNCHANGED watched
      BY <1>3, <2>2 DEF Watch
    <3>2. SendMove(t, "idle")
      BY <2>1, <2>2, <3>1 DEF SendMove, Settle, Sending
    <3> QED
      BY <3>2, <2>1, <3>1, <1>1 DEF RestTyped, Settle, bounds
  <2>3. CASE hash[t] \notin watched
    <3>1. watched' = watched \cup {hash[t]} /\ Go(t, "record") /\ UNCHANGED <<hash, sending>>
      BY <1>3, <2>3 DEF Watch
    <3>2. SendMove(t, "record")
      BY <2>1, <2>3, <3>1 DEF SendMove, Sending
    <3> QED
      BY <3>2, <2>1, <3>1, <1>1, <1>2 DEF RestTyped, Sending, bounds
  <2> QED
    BY <2>2, <2>3
<1>4. CASE Record(t)
  <2> DEFINE h == hash[t]
             refused == h \in Unpayable \cup charged
  <2>1. At(t, pc[t]) /\ pc[t] = "record" /\ UNCHANGED <<watched, charged, reading, todo, live, seen, unmarked, bounds>>
    BY <1>4 DEF Record, At
  <2>2. h \in Hashes
    BY <1>2, <2>1 DEF Sending
  <2>3. CASE intent[h] = "open"
    <3>1. Settle(t) /\ UNCHANGED <<intent, attempt>>
      BY <1>4, <2>3 DEF Record
    <3>2. SendMove(t, "idle")
      BY <2>1, <3>1, <2>2 DEF SendMove, Settle, Sending, OpenIsWatched
    <3> QED
      BY <3>2, <2>1, <3>1, <1>1 DEF RestTyped, Settle, bounds
  <2>4. CASE intent[h] # "open" /\ refused
    <3>1. Go(t, "drop") /\ UNCHANGED <<intent, attempt, hash, sending>>
      BY <1>4, <2>4 DEF Record
    <3>2. SendMove(t, "drop")
      BY <2>1, <3>1, <2>4 DEF SendMove, Sending
    <3> QED
      BY <3>2, <2>1, <3>1, <1>1 DEF RestTyped, bounds
  <2>5. CASE intent[h] # "open" /\ ~refused
    <3>1. /\ Go(t, "call") /\ UNCHANGED <<hash, sending>>
          /\ intent' = [intent EXCEPT ![h] = "open"] /\ attempt' = [attempt EXCEPT ![h] = @ + 1]
      BY <1>4, <2>5 DEF Record
    <3>2. SendMove(t, "call")
      BY <2>1, <2>2, <3>1 DEF SendMove, Sending, SendsWatched, TypeOK
    <3> QED
      BY <3>2, <2>1, <2>2, <3>1, <1>1 DEF RestTyped, bounds
  <2> QED
    BY <2>3, <2>4, <2>5
<1>5. CASE SendKept(t)
  <2>1. At(t, pc[t]) /\ pc[t] = "call" /\ Settle(t) /\ UNCHANGED <<stored, reading, todo, live, history, bounds>>
    BY <1>5 DEF SendKept, At
  <2>2. SendMove(t, "idle")
    BY <2>1, <1>2 DEF SendMove, Settle, Sending, OpenIsWatched, stored, history
  <2> QED
    BY <2>1, <2>2, <1>1 DEF RestTyped, Settle, stored, history, bounds
<1>6. CASE SendRefused(t)
  <2>1. At(t, pc[t]) /\ pc[t] = "call" /\ Go(t, "withdraw") /\ UNCHANGED <<stored, marks, hash, todo, live, history, bounds>>
    BY <1>6 DEF SendRefused, At
  <2>2. SendMove(t, "withdraw")
    BY <2>1, <1>2 DEF SendMove, Sending, OpenIsWatched, stored, marks, history
  <2> QED
    BY <2>1, <2>2, <1>1 DEF RestTyped, stored, marks, history, bounds
<1>7. CASE Withdraw(t)
  <2>1. /\ At(t, pc[t]) /\ pc[t] = "withdraw" /\ Go(t, "drop") /\ intent' = [intent EXCEPT ![hash[t]] = "closed"]
        /\ UNCHANGED <<watched, charged, marks, hash, todo, live, history, bounds>>
    BY <1>7 DEF Withdraw, At
  <2>2. hash[t] \in Hashes
    BY <1>2, <2>1 DEF Sending
  <2>3. SendMove(t, "drop")
    BY <2>1, <2>2 DEF SendMove, Sending, TypeOK, marks, history
  <2> QED
    BY <2>1, <2>3, <1>1 DEF RestTyped, marks, history, bounds
<1>8. CASE Drop(t)
  <2>1. /\ At(t, pc[t]) /\ pc[t] = "drop" /\ Settle(t) /\ watched' = watched \ {hash[t]}
        /\ UNCHANGED <<intent, charged, reading, todo, live, history, bounds>>
    BY <1>8 DEF Drop, At
  <2>2. SendMove(t, "idle")
    BY <2>1, <1>2 DEF SendMove, Settle, Sending, SendsWatched, history
  <2> QED
    BY <2>1, <2>2, <1>1 DEF RestTyped, Settle, history, bounds
<1>9. CASE TransferFails(t)
  <2>1. /\ At(t, pc[t]) /\ Settle(t) /\ faults' \in 0 .. MaxFaults /\ LaneOf(pc[t]) # ""
        /\ UNCHANGED <<stored, reading, todo, live, history, calls>>
    BY <1>9, FaultTyped DEF TransferFails
  <2>2. pc[t] \in Sending
    BY <2>1 DEF AboutPayment, LaneOf
  <2>3. SendMove(t, "idle")
    BY <2>1, <2>2, <1>2 DEF SendMove, Settle, OpenIsWatched, stored, history
  <2> QED
    BY <2>1, <2>3, <1>1 DEF RestTyped, Settle, stored, history
<1> QED
  BY <1>3, <1>4, <1>5, <1>6, <1>7, <1>8, <1>9 DEF TransferStep

-----------------------------------------------------------------------------
(* Runs *)

(* A run goes on with its payment: it has found it watched, has read its   *)
(* intent, or has closed it, and past that only while it is in force.      *)
AnswerMove(r, p) ==
    /\ At(r, pc[r]) /\ pc[r] \in Answering /\ p \in {"check", "look", "close", "forget"} /\ Go(r, p)
    /\ UNCHANGED <<watched, charged, sending, reading, hash, todo, live, attempt, seen, unmarked, calls, faults>>
    /\ p = "look" => hash[r] \in watched
    /\ p \in {"close", "forget"} => live = r
    /\ p = "close" => pc[r] = "look" /\ intent[hash[r]] # "none"
    /\ \/ intent' = intent /\ (p = "forget" => pc[r] = "look" /\ intent[hash[r]] = "none")
       \/ intent' = [intent EXCEPT ![hash[r]] = "closed"] /\ p = "forget" /\ pc[r] = "close"

LEMMA AnswerMoveKeeps ==
    ASSUME IInv, NEW r \in Runs, NEW p, AnswerMove(r, p)
    PROVE  IInv'
<1> USE DEF IInv
<1>1. r \in Actors /\ r \notin Transfers /\ p \in Waits /\ p \in Answering
  BY PaymentAssumption DEF Actors, AnswerMove, Waits, Answering
<1>2. /\ At(r, pc[r]) /\ Go(r, p) /\ live' = live /\ pc[r] \in Answering /\ hash[r] \in Hashes
      /\ p \in {"close", "forget"} => live = r
  BY DEF AnswerMove, AboutPayment
<1>3. RestTyped'
  BY <1>2, TypedRest DEF AnswerMove, RestTyped
<1>4. TypeOK'
  BY <1>1, <1>2, <1>3, MoveTypes
<1>5. ForgetsFirst' /\ ClosesInOrder'
  BY <1>1, <1>2, MoveKeepsRunOrder
<1>6. pc' = [pc EXCEPT ![r] = p] /\ pc \in [Actors -> Waits] /\ hash' = hash
  BY <1>2 DEF Go, TypeOK, AnswerMove
<1>7. \A q \in Runs : q # r => pc'[q] = pc[q]
  BY <1>1, <1>6 DEF Actors
<1>8. pc'[r] = p /\ \A t \in Transfers : pc'[t] = pc[t]
  BY <1>1, <1>6 DEF Actors
<1>9. AboutPayment'
  BY <1>1, <1>2, <1>6, <1>7, <1>8 DEF AboutPayment, AnswerMove
<1>10. /\ \A h \in Hashes : intent[h] # "none" => intent'[h] # "none"
       /\ \A h \in Hashes : intent'[h] = "open" => intent[h] = "open"
  BY <1>2 DEF AnswerMove, TypeOK
<1>11. ClosesBeforeForgetting'
  <2>1. ASSUME NEW q \in Runs, NEW s \in Runs, q # s, pc'[q] = "close", pc'[s] = "forget", hash[q] = hash[s]
        PROVE  FALSE
    <3>1. CASE q # r /\ s # r
      BY <2>1, <3>1, <1>7 DEF ClosesBeforeForgetting
    <3>2. CASE q = r
      <4>1. live = r /\ pc[r] = "look" /\ pc[s] = "forget"
        BY <2>1, <3>2, <1>7, <1>8 DEF AnswerMove
      <4> QED
        BY <4>1, <2>1, <3>2 DEF ForgetsFirst
    <3>3. CASE s = r
      <4>1. live = r /\ p = "forget" /\ pc[q] = "close"
        BY <2>1, <3>3, <1>2, <1>7, <1>8
      <4>2. CASE pc[r] = "close"
        <5>1. Before(q, r)
          BY <4>1, <4>2, <2>1, <3>3 DEF ClosesInOrder
        <5> QED
          BY <5>1, <4>1, <4>2, <2>1, <3>3, <1>1, <1>2, LaneNames, FirstHasNoneBefore DEF Actors
      <4>3. CASE pc[r] # "close"
        <5>1. intent[hash[r]] = "none"
          BY <4>1, <4>3 DEF AnswerMove
        <5> QED
          BY <5>1, <4>1, <2>1, <3>3 DEF ClosesBeforeForgetting
      <4> QED
        BY <4>2, <4>3
    <3> QED
      BY <3>1, <3>2, <3>3
  <2>2. ASSUME NEW q \in Runs, pc'[q] = "close" PROVE intent'[hash[q]] # "none"
    <3>1. CASE q = r
      <4>1. p = "close"
        BY <2>2, <3>1, <1>8
      <4> QED
        BY <4>1, <3>1, <1>2, <1>10 DEF AnswerMove
    <3>2. CASE q # r
      <4>1. pc[q] = "close" /\ hash[q] \in Hashes
        BY <2>2, <3>2, <1>7 DEF AboutPayment, Answering
      <4> QED
        BY <4>1, <1>10 DEF ClosesBeforeForgetting
    <3> QED
      BY <3>1, <3>2
  <2> QED
    BY <2>1, <2>2, <1>6 DEF ClosesBeforeForgetting
<1>12. ASSUME ~unmarked' PROVE MarkedInv'
  <2> USE <1>12 DEF MarkedInv
  <2>1. ~unmarked /\ UNCHANGED <<watched, sending, reading, live, attempt, seen>>
    BY DEF AnswerMove
  <2>2. live = r => /\ hash[r] \in reading /\ hash[r] \notin sending /\ seen[r] = attempt[hash[r]]
                    /\ pc[r] = "look" => hash[r] \in watched
    BY <1>2, <2>1 DEF ReadsAlone
  <2>3. live = r => \A t \in Transfers : pc[t] \in Sending => hash[t] # hash[r]
    BY <2>2 DEF AboutPayment
  <2>4. ReadsAlone'
    <3>1. p = "look" => hash[r] \in watched
      BY DEF AnswerMove
    <3> QED
      BY <3>1, <2>1, <2>2, <1>6, <1>7, <1>8 DEF ReadsAlone
  <2>5. ClosesAlone'
    <3>1. p = "close" => live = r /\ pc[r] = "look"
      BY DEF AnswerMove
    <3> QED
      BY <3>1, <2>1, <2>2, <2>3, <1>6, <1>7, <1>8 DEF ClosesAlone
  <2>6. ForgetsAlone'
    <3> SUFFICES ASSUME NEW q \in Runs, pc'[q] = "forget"
                 PROVE  /\ intent'[hash[q]] # "open" /\ seen[q] = attempt[hash[q]]
                        /\ \A t \in Transfers : pc[t] \in Sending /\ hash[t] = hash[q] =>
                               pc[t] = "watch" /\ Before(q, t)'
      BY <2>1, <1>6, <1>8 DEF ForgetsAlone
    <3>1. CASE q = r
      <4>1. p = "forget" /\ live = r
        BY <3>1, <1>2, <1>8
      <4>2. intent'[hash[r]] # "open"
        BY <4>1, <1>2 DEF AnswerMove, TypeOK
      <4> QED
        BY <4>1, <4>2, <3>1, <2>2, <2>3
    <3>2. CASE q # r
      <4>1. pc[q] = "forget" /\ hash[q] \in Hashes
        BY <3>2, <1>7 DEF AboutPayment, Answering
      <4>2. /\ intent'[hash[q]] # "open" /\ seen[q] = attempt[hash[q]]
            /\ \A t \in Transfers : pc[t] \in Sending /\ hash[t] = hash[q] =>
                   pc[t] = "watch" /\ Before(q, t)
        BY <4>1, <2>1, <1>10 DEF ForgetsAlone
      <4>3. \A t \in Transfers : Before(q, t) => Before(q, t)'
        BY <3>2, <1>1, <1>2, LaneNames, GoKeepsOrder DEF Actors
      <4> QED
        BY <4>2, <4>3
    <3> QED
      BY <3>1, <3>2
  <2>7. SendsWatched'
    <3>1. \A t \in Transfers : pc[t] \in Sending => hash[t] \in Hashes
      BY DEF AboutPayment, TypeOK
    <3> QED
      BY <3>1, <2>1, <1>6, <1>8, <1>10 DEF SendsWatched, Sending
  <2>8. OpenIsWatched'
    BY <2>1, <1>10 DEF OpenIsWatched
  <2> QED
    BY <2>4, <2>5, <2>6, <2>7, <2>8
<1> QED
  BY <1>4, <1>5, <1>9, <1>11, <1>12

(* A run is done with its payment, or ends: what it closes or forgets on   *)
(* its way is its payment, and only an abandoned run takes a mark off one  *)
(* the run in force reads.                                                 *)
RestMove(r, p) ==
    /\ At(r, pc[r]) /\ p \in {"idle", "pick"} /\ Go(r, p) /\ live' \in {live, None}
    /\ UNCHANGED <<sending, attempt, seen>> /\ \A a \in Actors \ {r} : hash'[a] = hash[a]
    /\ ~unmarked' => /\ ~unmarked
                     /\ \A q \in Runs \ {r} : live = q /\ pc[q] \in Answering /\ hash[q] \in reading
                            => hash[q] \in reading'
    /\ intent' = intent \/ (pc[r] = "close" /\ intent' = [intent EXCEPT ![hash[r]] = "closed"])
    /\ watched' = watched \/ (pc[r] = "forget" /\ watched' = watched \ {hash[r]})

LEMMA RestMoveKeeps ==
    ASSUME IInv, NEW r \in Runs, NEW p, RestMove(r, p), RestTyped'
    PROVE  IInv'
<1> USE DEF IInv
<1>1. r \in Actors /\ r \notin Transfers /\ p \in Waits /\ p \notin Answering /\ p \in {"idle", "pick"}
  BY PaymentAssumption DEF Actors, RestMove, Waits, Answering
<1>2. At(r, pc[r]) /\ Go(r, p) /\ live' \in {live, None}
  BY DEF RestMove
<1>3. TypeOK'
  BY <1>1, <1>2, MoveTypes
<1>4. ForgetsFirst' /\ ClosesInOrder'
  BY <1>1, <1>2, MoveKeepsRunOrder
<1>5. pc' = [pc EXCEPT ![r] = p] /\ pc \in [Actors -> Waits]
  BY <1>2 DEF Go, TypeOK
<1>6. \A q \in Runs : q # r => pc'[q] = pc[q] /\ hash'[q] = hash[q]
  BY <1>1, <1>5 DEF Actors, RestMove
<1>7. pc'[r] = p /\ \A t \in Transfers : pc'[t] = pc[t] /\ hash'[t] = hash[t]
  BY <1>1, <1>5 DEF Actors, RestMove
<1>8. \A q \in Runs : pc'[q] \in Answering => q # r /\ pc[q] \in Answering /\ hash'[q] \in Hashes
  BY <1>1, <1>6, <1>7 DEF AboutPayment
<1>9. AboutPayment'
  BY <1>1, <1>6, <1>7, <1>8 DEF AboutPayment, RestMove
<1>10. /\ \A h \in Hashes : intent[h] # "none" => intent'[h] # "none"
       /\ \A h \in Hashes : intent'[h] = "open" => intent[h] = "open"
  <2>1. pc[r] = "close" => hash[r] \in Hashes
    BY DEF AboutPayment, Answering
  <2> QED
    BY <2>1 DEF RestMove, TypeOK
<1>11. ClosesBeforeForgetting'
  BY <1>6, <1>8, <1>10 DEF ClosesBeforeForgetting, Answering
<1>12. ASSUME ~unmarked' PROVE MarkedInv'
  <2> USE <1>12 DEF MarkedInv
  <2>1. /\ ~unmarked /\ UNCHANGED <<sending, attempt, seen>>
        /\ \A q \in Runs : q # r /\ live = q /\ pc[q] \in Answering /\ hash[q] \in reading => hash[q] \in reading'
    BY DEF RestMove
  <2>2. \A h \in Hashes : h \in watched /\ h \notin watched' => pc[r] = "forget" /\ h = hash[r]
    BY DEF RestMove
  <2>3. ReadsAlone'
    <3> SUFFICES ASSUME NEW q \in Runs, live' = q, pc'[q] \in Answering
                 PROVE  /\ hash'[q] \in reading' /\ hash'[q] \notin sending'
                        /\ seen'[q] = attempt'[hash'[q]]
                        /\ pc'[q] = "look" => hash'[q] \in watched'
      BY DEF ReadsAlone
    <3>1. live = q /\ q # r /\ pc'[q] = pc[q] /\ hash'[q] = hash[q] /\ pc[q] \in Answering /\ hash[q] \in Hashes
      BY <1>2, <1>6, <1>8, PaymentAssumption
    <3>2. pc[q] = "look" => hash[q] \in watched'
      <4>1. pc[q] = "look" => pc[r] # "forget"
        BY <3>1 DEF ForgetsFirst
      <4> QED
        BY <4>1, <3>1, <2>1, <2>2 DEF ReadsAlone
    <3> QED
      BY <3>1, <3>2, <2>1 DEF ReadsAlone
  <2>4. ClosesAlone'
    <3> SUFFICES ASSUME NEW q \in Runs, pc'[q] = "close"
                 PROVE  /\ hash'[q] \in watched' /\ seen'[q] = attempt'[hash'[q]]
                        /\ \A t \in Transfers : pc'[t] \in Sending /\ hash'[t] = hash'[q] => pc'[t] = "watch"
      BY DEF ClosesAlone
    <3>1. q # r /\ pc[q] = "close" /\ hash'[q] = hash[q] /\ hash[q] \in Hashes
      BY <1>6, <1>8 DEF Answering
    <3>2. hash[q] \in watched'
      <4>1. pc[r] = "forget" => hash[q] # hash[r]
        BY <3>1 DEF ClosesBeforeForgetting
      <4> QED
        BY <4>1, <3>1, <2>1, <2>2 DEF ClosesAlone
    <3> QED
      BY <3>1, <3>2, <2>1, <1>7 DEF ClosesAlone
  <2>5. ForgetsAlone'
    <3> SUFFICES ASSUME NEW q \in Runs, pc'[q] = "forget"
                 PROVE  /\ intent'[hash'[q]] # "open" /\ seen'[q] = attempt'[hash'[q]]
                        /\ \A t \in Transfers : pc'[t] \in Sending /\ hash'[t] = hash'[q] =>
                               pc'[t] = "watch" /\ Before(q, t)'
      BY DEF ForgetsAlone
    <3>1. q # r /\ pc[q] = "forget" /\ hash'[q] = hash[q] /\ hash[q] \in Hashes
      BY <1>6, <1>8 DEF Answering
    <3>2. /\ intent'[hash[q]] # "open" /\ seen[q] = attempt[hash[q]]
          /\ \A t \in Transfers : pc[t] \in Sending /\ hash[t] = hash[q] =>
                 pc[t] = "watch" /\ Before(q, t)
      BY <3>1, <2>1, <1>10 DEF ForgetsAlone
    <3>3. \A t \in Transfers : Before(q, t) => Before(q, t)'
      BY <3>1, <1>1, <1>2, LaneNames, GoKeepsOrder DEF Actors
    <3> QED
      BY <3>1, <3>2, <3>3, <2>1, <1>7
  <2>6. SendsWatched'
    <3>1. \A t \in Transfers : pc[t] \in Sending => hash[t] \in Hashes
      BY DEF AboutPayment, TypeOK
    <3>2. \A t \in Transfers : pc[t] = "record" => hash[t] \in watched'
      <4>1. \A t \in Transfers : pc[t] = "record" /\ pc[r] = "forget" => hash[t] # hash[r]
        BY <2>1 DEF ForgetsAlone, Sending
      <4> QED
        BY <4>1, <3>1, <2>1, <2>2 DEF SendsWatched, Sending
    <3>3. \A t \in Transfers : pc[t] = "drop" => intent'[hash[t]] # "open"
      BY <3>1, <2>1, <1>10 DEF SendsWatched, Sending
    <3> QED
      BY <3>2, <3>3, <1>7 DEF SendsWatched
  <2>7. OpenIsWatched'
    <3>1. pc[r] = "forget" => intent[hash[r]] # "open"
      BY <2>1 DEF ForgetsAlone
    <3> QED
      BY <3>1, <2>1, <2>2, <1>10 DEF OpenIsWatched
  <2> QED
    BY <2>3, <2>4, <2>5, <2>6, <2>7
<1> QED
  BY <1>3, <1>4, <1>9, <1>11, <1>12

(* Start: the run joins the activity lane behind those about to forget. *)
LEMMA StartKeeps ==
    ASSUME IInv, NEW r \in Runs, Start(r)
    PROVE  IInv'
<1> USE DEF IInv
<1>1. r \in Actors /\ r \notin Transfers /\ "list" \in Waits /\ r # None
  BY PaymentAssumption DEF Actors, Waits
<1>2. /\ At(r, pc[r]) /\ pc[r] = "idle" /\ live = None /\ live' = r /\ Go(r, "list")
      /\ UNCHANGED <<watched, intent, charged, sending, reading, hash, todo, attempt, seen, unmarked, calls, faults>>
  BY DEF Start, At, stored, marks, history, bounds
<1>3. RestTyped'
  BY <1>2, TypedRest DEF RestTyped
<1>4. TypeOK'
  BY <1>1, <1>2, <1>3, MoveTypes
<1>5. pc' = [pc EXCEPT ![r] = "list"] /\ pc \in [Actors -> Waits] /\ hash' = hash
  BY <1>2 DEF Go, TypeOK
<1>6. pc'[r] = "list" /\ \A a \in Actors : a # r => pc'[a] = pc[a]
  BY <1>1, <1>5
<1>7. \A q \in Runs : pc'[q] \in Answering => pc[q] = pc'[q] /\ q # r
  BY <1>6 DEF Actors, Answering
<1>8. \A t \in Transfers : pc'[t] = pc[t]
  BY <1>1, <1>6 DEF Actors
<1>9. ForgetsFirst'
  <2> SUFFICES ASSUME NEW q \in Runs, q # r, pc'[q] = "forget"
               PROVE  Before(q, r)'
    BY <1>2, <1>6 DEF ForgetsFirst
  <2>1. q \in Actors /\ pc[q] = "forget"
    BY <1>6 DEF Actors
  <2> QED
    BY <1>1, <1>2, <2>1, LaneNames, GoJoinsLast
<1>10. ClosesInOrder'
  BY <1>2, <1>6 DEF ClosesInOrder
<1>11. AboutPayment'
  BY <1>2, <1>5, <1>6, <1>7, <1>8 DEF AboutPayment, Actors
<1>12. ClosesBeforeForgetting'
  BY <1>2, <1>5, <1>7 DEF ClosesBeforeForgetting, Answering
<1>13. ASSUME ~unmarked' PROVE MarkedInv'
  <2> USE <1>13 DEF MarkedInv
  <2>1. ~unmarked
    BY <1>2
  <2>2. ReadsAlone'
    BY <1>2, <1>7 DEF ReadsAlone
  <2>3. ClosesAlone'
    BY <2>1, <1>2, <1>5, <1>7, <1>8 DEF ClosesAlone, Answering
  <2>4. ForgetsAlone'
    <3>1. \A q \in Runs, t \in Transfers : q # r /\ Before(q, t) => Before(q, t)'
      BY <1>1, <1>2, LaneNames, GoKeepsOrder, PaymentAssumption DEF Actors
    <3> QED
      BY <3>1, <2>1, <1>2, <1>5, <1>7, <1>8 DEF ForgetsAlone, Answering
  <2>5. SendsWatched' /\ OpenIsWatched'
    BY <2>1, <1>2, <1>8 DEF SendsWatched, OpenIsWatched
  <2> QED
    BY <2>2, <2>3, <2>4, <2>5
<1> QED
  BY <1>4, <1>9, <1>10, <1>11, <1>12, <1>13

(* answer: a payment is read where no transfer of it is in progress. *)
LEMMA PickKeeps ==
    ASSUME IInv, NEW r \in Runs, NEW h \in Hashes, Pick(r, h), MayRead(h)
    PROVE  IInv'
<1> USE DEF IInv
<1>1. r \in Actors /\ r \notin Transfers /\ "read" \in Waits
  BY PaymentAssumption DEF Actors, Waits
<1>2. /\ At(r, pc[r]) /\ pc[r] = "pick" /\ live = r /\ Go(r, "read") /\ h \notin sending
      /\ reading' = reading \cup {h} /\ hash' = [hash EXCEPT ![r] = h]
      /\ seen' = [seen EXCEPT ![r] = attempt[h]] /\ todo' = [todo EXCEPT ![r] = @ \ {h}]
      /\ UNCHANGED <<watched, intent, charged, sending, live, attempt, unmarked, calls, faults>>
  BY DEF Pick, At, MayRead, stored, bounds
<1>3. RestTyped'
  BY <1>1, <1>2, TypedRest DEF RestTyped
<1>4. TypeOK'
  BY <1>1, <1>2, <1>3, MoveTypes
<1>5. ForgetsFirst' /\ ClosesInOrder'
  BY <1>1, <1>2, MoveKeepsRunOrder
<1>6. /\ pc' = [pc EXCEPT ![r] = "read"] /\ pc \in [Actors -> Waits]
      /\ hash \in [Actors -> Hashes \cup {None}] /\ seen \in [Runs -> Nat]
  BY <1>2 DEF Go, TypeOK
<1>7. pc'[r] = "read" /\ hash'[r] = h /\ seen'[r] = attempt[h]
  BY <1>1, <1>2, <1>6
<1>8. \A q \in Runs : q # r => pc'[q] = pc[q] /\ hash'[q] = hash[q] /\ seen'[q] = seen[q]
  BY <1>1, <1>2, <1>6 DEF Actors
<1>9. \A t \in Transfers : pc'[t] = pc[t] /\ hash'[t] = hash[t]
  BY <1>1, <1>2, <1>6 DEF Actors
<1>10. AboutPayment'
  BY <1>2, <1>7, <1>8, <1>9 DEF AboutPayment, Answering
<1>11. ClosesBeforeForgetting'
  BY <1>2, <1>7, <1>8 DEF ClosesBeforeForgetting
<1>12. ASSUME ~unmarked' PROVE MarkedInv'
  <2> USE <1>12 DEF MarkedInv
  <2>1. ~unmarked
    BY <1>2
  <2>2. ReadsAlone'
    BY <1>2, <1>7 DEF ReadsAlone
  <2>3. ClosesAlone'
    BY <2>1, <1>2, <1>7, <1>8, <1>9 DEF ClosesAlone
  <2>4. ForgetsAlone'
    <3>1. \A q \in Runs, t \in Transfers : q # r /\ Before(q, t) => Before(q, t)'
      BY <1>1, <1>2, LaneNames, GoKeepsOrder, PaymentAssumption DEF Actors
    <3> QED
      BY <3>1, <2>1, <1>2, <1>7, <1>8, <1>9 DEF ForgetsAlone
  <2>5. SendsWatched' /\ OpenIsWatched'
    BY <2>1, <1>2, <1>9 DEF SendsWatched, OpenIsWatched
  <2> QED
    BY <2>2, <2>3, <2>4, <2>5
<1> QED
  BY <1>4, <1>5, <1>10, <1>11, <1>12

(* Nobody moves: a view is charged, a run abandoned, a payment left unread.*)
LEMMA StandStillKeeps ==
    ASSUME IInv, UNCHANGED <<watched, intent, sending, reading, pc, hash, ahead, attempt, seen, unmarked>>,
           live' \in {live, None}, RestTyped'
    PROVE  IInv'
<1> USE DEF IInv
<1>1. TypeOK'
  BY DEF TypeOK, RestTyped
<1>2. \A b, c : Before(b, c)' <=> Before(b, c)
  BY DEF Before
<1>3. \A q \in Runs : live' = q => live = q
  BY PaymentAssumption
<1>4. AboutPayment' /\ ForgetsFirst' /\ ClosesInOrder' /\ ClosesBeforeForgetting'
  BY <1>2, <1>3 DEF AboutPayment, ForgetsFirst, ClosesInOrder, ClosesBeforeForgetting
<1>5. ASSUME ~unmarked' PROVE MarkedInv'
  <2>1. MarkedInv
    BY <1>5
  <2>2. ReadsAlone' /\ ClosesAlone'
    BY <2>1, <1>3 DEF MarkedInv, ReadsAlone, ClosesAlone
  <2>3. ForgetsAlone' /\ SendsWatched' /\ OpenIsWatched'
    BY <2>1, <1>2 DEF MarkedInv, ForgetsAlone, SendsWatched, OpenIsWatched
  <2> QED
    BY <2>2, <2>3 DEF MarkedInv
<1> QED
  BY <1>1, <1>2, <1>4, <1>5

(* answerEachPolled, answer, finish: every step of a run is such a move. *)
LEMMA RunKeeps ==
    ASSUME IInv, NEW r \in Runs, RunStep(r) \/ ReadStep(r) \/ RunFails(r)
    PROVE  IInv'
<1> USE DEF IInv
<1>1. r \in Actors /\ RestTyped /\ hash \in [Actors -> Hashes \cup {None}]
  BY TypedRest DEF Actors, TypeOK
<1>2. ASSUME Done(r), UNCHANGED <<sending, todo, live, attempt, seen, charged, calls>>, At(r, pc[r]),
             faults' \in 0 .. MaxFaults,
             intent' = intent \/ (pc[r] = "close" /\ intent' = [intent EXCEPT ![hash[r]] = "closed"]),
             watched' = watched \/ (pc[r] = "forget" /\ watched' = watched \ {hash[r]})
      PROVE  IInv'
  <2>1. /\ Go(r, "pick") /\ hash' = [hash EXCEPT ![r] = None] /\ reading' = reading \ {hash[r]}
        /\ unmarked' = (unmarked \/ (live \notin {r, None} /\ hash[live] = hash[r]))
    BY <1>2 DEF Done
  <2>2. \A a \in Actors \ {r} : hash'[a] = hash[a]
    BY <2>1, <1>1
  <2>3. ~unmarked' => ~unmarked /\ \A q \in Runs \ {r} : live = q => hash[q] # hash[r]
    BY <2>1, PaymentAssumption
  <2>4. RestMove(r, "pick")
    BY <1>2, <2>1, <2>2, <2>3 DEF RestMove
  <2>5. RestTyped'
    <3>1. intent' \in [Hashes -> {"none", "open", "closed"}] /\ watched' \subseteq Hashes
      BY <1>1, <1>2 DEF RestTyped
    <3>2. hash' \in [Actors -> Hashes \cup {None}] /\ unmarked' \in BOOLEAN
      BY <1>1, <2>1
    <3> QED
      BY <3>1, <3>2, <2>1, <1>1, <1>2 DEF RestTyped
  <2> QED
    BY <2>4, <2>5, RestMoveKeeps
<1>3. ASSUME End(r), UNCHANGED <<stored, marks, hash, history, calls>>, At(r, pc[r]), faults' \in 0 .. MaxFaults
      PROVE  IInv'
  <2>1. RestMove(r, "idle")
    BY <1>3 DEF End, RestMove, stored, marks, history
  <2>2. RestTyped'
    BY <1>1, <1>3 DEF End, RestTyped, stored, marks, history
  <2> QED
    BY <2>1, <2>2, RestMoveKeeps
<1>4. faults \in 0 .. MaxFaults
  BY <1>1 DEF RestTyped
<1>5. CASE List(r)
  <2>1. RestMove(r, "pick")
    BY <1>5 DEF List, At, RestMove, stored, marks, history
  <2>2. RestTyped'
    BY <1>1, <1>5 DEF List, RestTyped, stored, marks, history, bounds
  <2> QED
    BY <2>1, <2>2, RestMoveKeeps
<1>6. CASE Leave(r)
  BY <1>3, <1>4, <1>6 DEF Leave, At, bounds
<1>7. ASSUME NEW h \in Hashes, Pick(r, h) PROVE IInv'
  <2>1. CASE MayRead(h)
    BY <1>7, <2>1, PickKeeps
  <2>2. CASE ~MayRead(h)
    <3>1. /\ todo' = [todo EXCEPT ![r] = @ \ {h}]
          /\ UNCHANGED <<stored, sending, reading, hash, seen, pc, ahead, live, attempt, unmarked, bounds>>
      BY <1>7, <2>2 DEF Pick
    <3>2. RestTyped'
      BY <3>1, <1>1 DEF RestTyped, stored, bounds
    <3> QED
      BY <3>1, <3>2, StandStillKeeps DEF stored
  <2> QED
    BY <2>1, <2>2
<1>8. CASE ReadNothing(r)
  BY <1>2, <1>4, <1>8 DEF ReadNothing, At, stored, recorded, bounds
<1>9. CASE ReadEnd(r)
  <2>1. AnswerMove(r, "check")
    BY <1>9 DEF ReadEnd, At, AnswerMove, Answering, stored, marks, history, bounds
  <2> QED
    BY <2>1, AnswerMoveKeeps
<1>10. CASE Check(r)
  <2>1. At(r, pc[r]) /\ pc[r] = "check" /\ UNCHANGED <<stored, sending, todo, live, recorded, bounds>>
    BY <1>10 DEF Check, At
  <2>2. CASE hash[r] \in watched
    <3>1. AnswerMove(r, "look")
      BY <1>10, <2>1, <2>2 DEF Check, AnswerMove, Answering, stored, recorded, bounds
    <3> QED
      BY <3>1, AnswerMoveKeeps
  <2>3. CASE hash[r] \notin watched
    BY <1>2, <1>4, <1>10, <2>1, <2>3 DEF Check, stored, recorded, bounds
  <2> QED
    BY <2>2, <2>3
<1>11. CASE Look(r)
  <2>1. At(r, pc[r]) /\ pc[r] = "look" /\ UNCHANGED <<stored, sending, todo, live, recorded, bounds>>
    BY <1>11 DEF Look, At
  <2>2. CASE live = r
    <3>1. /\ Go(r, IF intent[hash[r]] = "none" THEN "forget" ELSE "close")
          /\ UNCHANGED <<reading, hash, unmarked>>
      BY <1>11, <2>2 DEF Look
    <3>2. AnswerMove(r, IF intent[hash[r]] = "none" THEN "forget" ELSE "close")
      BY <2>1, <2>2, <3>1 DEF AnswerMove, Answering, stored, recorded, bounds
    <3> QED
      BY <3>2, AnswerMoveKeeps
  <2>3. CASE live # r
    BY <1>2, <1>4, <1>11, <2>1, <2>3 DEF Look, stored, recorded, bounds
  <2> QED
    BY <2>2, <2>3
<1>12. CASE Close(r)
  <2>1. /\ At(r, pc[r]) /\ pc[r] = "close" /\ intent' = [intent EXCEPT ![hash[r]] = "closed"]
        /\ UNCHANGED <<watched, charged, sending, todo, live, recorded, bounds>>
    BY <1>12 DEF Close, At
  <2>2. CASE live = r
    <3>1. AnswerMove(r, "forget")
      BY <1>12, <2>1, <2>2 DEF Close, AnswerMove, Answering, recorded, bounds
    <3> QED
      BY <3>1, AnswerMoveKeeps
  <2>3. CASE live # r
    BY <1>2, <1>4, <1>12, <2>1, <2>3 DEF Close, recorded, bounds
  <2> QED
    BY <2>2, <2>3
<1>13. CASE Forget(r)
  BY <1>2, <1>4, <1>13 DEF Forget, At, recorded, bounds
<1>14. CASE RunFails(r)
  <2>1. /\ At(r, pc[r]) /\ faults' \in 0 .. MaxFaults /\ UNCHANGED <<stored, sending, recorded, calls>>
    BY <1>14, FaultTyped DEF RunFails
  <2>2. CASE pc[r] = "list"
    BY <1>3, <1>14, <2>1, <2>2 DEF RunFails, marks, recorded, history
  <2>3. CASE pc[r] # "list"
    BY <1>2, <1>14, <2>1, <2>3 DEF RunFails, stored, recorded
  <2> QED
    BY <2>2, <2>3
<1> QED
  BY <1>5, <1>6, <1>7, <1>8, <1>9, <1>10, <1>11, <1>12, <1>13, <1>14 DEF RunStep, ReadStep

(* Charge, Abandon, Crash: nobody moves, or everybody is gone. *)
LEMMA OutsideKeeps ==
    ASSUME IInv, (\E h \in Hashes : Charge(h)) \/ Abandon \/ Crash \/ UNCHANGED vars
    PROVE  IInv'
<1> USE DEF IInv
<1>1. RestTyped
  BY TypedRest
<1>2. ASSUME NEW h \in Hashes, Charge(h) PROVE IInv'
  BY <1>1, <1>2, StandStillKeeps DEF Charge, marks, where, history, bounds, RestTyped
<1>3. CASE UNCHANGED vars
  BY <1>1, <1>3, StandStillKeeps DEF vars, stored, marks, where, history, bounds, RestTyped
<1>4. CASE Abandon
  <2>1. faults' \in 0 .. MaxFaults /\ live' = None
    BY <1>4, FaultTyped DEF Abandon
  <2> QED
    BY <2>1, <1>1, <1>4, StandStillKeeps DEF Abandon, stored, marks, history, RestTyped
<1>5. CASE Crash
  <2>1. /\ sending' = {} /\ reading' = {} /\ pc' = [a \in Actors |-> "idle"] /\ hash' = [a \in Actors |-> None]
        /\ todo' = [r \in Runs |-> {}] /\ live' = None /\ ahead' = Unqueued
        /\ faults' \in 0 .. MaxFaults
        /\ UNCHANGED <<watched, intent, charged, attempt, seen, unmarked, calls>>
    BY <1>5, FaultTyped DEF Crash, stored, history
  <2>2. TypeOK'
    BY <2>1 DEF TypeOK, Waits, Unqueued
  <2>4. \A a \in Actors : pc'[a] = "idle"
    BY <2>1
  <2>5. AboutPayment' /\ ForgetsFirst' /\ ClosesInOrder' /\ ClosesBeforeForgetting'
    BY <2>4 DEF AboutPayment, ForgetsFirst, ClosesInOrder, ClosesBeforeForgetting, Actors, Sending, Answering
  <2>6. ReadsAlone' /\ ClosesAlone' /\ ForgetsAlone' /\ SendsWatched'
    BY <2>4 DEF ReadsAlone, ClosesAlone, ForgetsAlone, SendsWatched, Actors, Answering
  <2>7. ASSUME ~unmarked' PROVE MarkedInv'
    BY <2>1, <2>6, <2>7 DEF MarkedInv, OpenIsWatched
  <2> QED
    BY <2>2, <2>5, <2>7
<1> QED
  BY <1>2, <1>3, <1>4, <1>5

-----------------------------------------------------------------------------
(* The invariant holds of every state. *)
LEMMA MarksInductive == Init /\ [][Next]_vars => []IInv
<1>1. Init => IInv
  <2> SUFFICES ASSUME Init PROVE IInv
    OBVIOUS
  <2>1. TypeOK
    <3>1. calls = 0 /\ faults = 0 /\ unmarked \in BOOLEAN
      BY DEF Init
    <3>2. pc \in [Actors -> Waits] /\ ahead \in [Actors -> SUBSET Actors]
      BY DEF Init, Waits, Unqueued
    <3>3. 0 \in 0 .. MaxCalls /\ 0 \in 0 .. MaxFaults
      BY PaymentAssumption
    <3> QED
      BY <3>1, <3>2, <3>3 DEF Init, TypeOK
  <2>3. \A a \in Actors : pc[a] = "idle"
    BY DEF Init
  <2>4. AboutPayment /\ ForgetsFirst /\ ClosesInOrder /\ ClosesBeforeForgetting
    BY <2>3 DEF AboutPayment, ForgetsFirst, ClosesInOrder, ClosesBeforeForgetting, Actors, Sending, Answering
  <2>5. MarkedInv
    BY <2>3 DEF Init, MarkedInv, ReadsAlone, ClosesAlone, ForgetsAlone, SendsWatched, OpenIsWatched,
       Actors, Answering
  <2> QED
    BY <2>1, <2>4, <2>5 DEF IInv
<1>2. IInv /\ [Next]_vars => IInv'
  <2> SUFFICES ASSUME IInv, [Next]_vars PROVE IInv'
    OBVIOUS
  <2>1. ASSUME NEW t \in Transfers, (\E h \in Hashes : Begin(t, h)) \/ TransferStep(t) \/ TransferFails(t)
        PROVE  IInv'
    BY <2>1, BeginKeeps, TransferKeeps
  <2>2. ASSUME NEW r \in Runs, Start(r) \/ RunStep(r) \/ ReadStep(r) \/ RunFails(r)
        PROVE  IInv'
    BY <2>2, StartKeeps, RunKeeps
  <2>3. CASE (\E h \in Hashes : Charge(h)) \/ Abandon \/ Crash \/ UNCHANGED vars
    BY <2>3, OutsideKeeps
  <2> QED
    BY <2>1, <2>2, <2>3 DEF Next
<1> QED
  BY <1>1, <1>2, PTL

(* The type invariant. *)
THEOREM PaymentsTypeOK == Spec => []TypeOK
<1>1. IInv => TypeOK
  BY DEF IInv
<1> QED
  BY <1>1, MarksInductive, PTL DEF Spec

(* transferSdkPayment, sendWatchedPayment: however many transfers and runs *)
(* interleave, with failures and crashes, as long as no abandoned run took *)
(* the mark off what the next one reads, no payment is sent mid-read and   *)
(* every open intent is watched.                                           *)
THEOREM OpenStaysWatched == Spec => []MarksKeepWatch
<1>1. IInv => MarksKeepWatch
  <2> SUFFICES ASSUME IInv, ~unmarked PROVE OpenIsWatched /\ NeverSentMidRead
    BY DEF MarksKeepWatch
  <2>1. OpenIsWatched /\ ReadsAlone /\ AboutPayment
    BY DEF IInv, MarkedInv
  <2>2. NeverSentMidRead
    BY <2>1 DEF NeverSentMidRead, ReadsAlone, AboutPayment, Answering, Sending
  <2> QED
    BY <2>1, <2>2
<1> QED
  BY <1>1, MarksInductive, PTL DEF Spec

(* answer, finish: likewise, every run, abandoned or in force, closes and  *)
(* forgets only the attempt whose end it read.                             *)
THEOREM OnlyReadIsFinished == Spec => []FinishesWhatItRead
<1>1. IInv => FinishesWhatItRead
  BY DEF IInv, MarkedInv, ClosesAlone, ForgetsAlone, FinishesWhatItRead
<1> QED
  BY <1>1, MarksInductive, PTL DEF Spec

=============================================================================
