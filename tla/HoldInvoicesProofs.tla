-------------------------- MODULE HoldInvoicesProofs -------------------------
(***************************************************************************)
(* Proofs about HoldInvoices: the allocator never gives an index twice, and*)
(* an invoice whose preimage is out is followed to its end.                *)
(*                                                                         *)
(* The second rests on the activity lane.  A run that was abandoned may    *)
(* still be about to forget an invoice it reported expired; the run that   *)
(* follows it lists what is watched behind it in the lane, so it never     *)
(* works on an invoice that is about to be forgotten under it.             *)
(***************************************************************************)
EXTENDS HoldInvoices, TLAPS

(* Nothing past the last index was ever given, so the next one is new. *)
AllocationInv ==
    /\ last \in Nat
    /\ allocated \in [Indexes -> Nat]
    /\ \A i \in Indexes : allocated[i] <= 1 /\ (i > last => allocated[i] = 0)

(* allocate: the index proposed is past the last one, whatever the clock.  *)
LEMMA ProposedIsNew ==
    ASSUME AllocationInv, NEW clock \in Indexes
    PROVE  Proposed(clock) > last
  BY InvoiceAssumption DEF AllocationInv, Proposed, Larger, Indexes

(* Init, allocate: the inductive invariant of the allocator. *)
LEMMA AllocationInductive == Init /\ [][Next]_vars => []AllocationInv
<1>1. Init => AllocationInv
  BY InvoiceAssumption DEF Init, AllocationInv, Indexes
<1>2. AllocationInv /\ [Next]_vars => AllocationInv'
  <2> SUFFICES ASSUME AllocationInv, [Next]_vars PROVE AllocationInv'
    OBVIOUS
  <2>1. ASSUME NEW c \in Creations, NEW clock \in Indexes, Allocate(c, clock)
        PROVE  AllocationInv'
    <3> DEFINE i == Proposed(clock)
    <3>1. i \in Indexes /\ last' = i /\ allocated' = [allocated EXCEPT ![i] = @ + 1]
      BY <2>1 DEF Allocate
    <3>2. i > last
      BY ProposedIsNew
    <3>3. allocated[i] = 0
      BY <3>1, <3>2 DEF AllocationInv
    <3> HIDE DEF i
    <3> QED
      BY <3>1, <3>2, <3>3, InvoiceAssumption DEF AllocationInv, Indexes
  <2>2. ASSUME UNCHANGED <<last, allocated>>
        PROVE  AllocationInv'
    BY <2>2 DEF AllocationInv
  <2>3. CASE UNCHANGED vars
    BY <2>2, <2>3 DEF vars, stored, history
  <2>4. ASSUME NEW c \in Creations, CreationStep(c) \/ CreationFails(c)
        PROVE  AllocationInv'
    BY <2>2, <2>4 DEF CreationStep, CreationFails, RecordHoldInvoice, NewInvoice,
       NewInvoiceRefused, Watch, stored, history
  <2>5. ASSUME NEW i \in Indexes, NEW h \in Holdings, Hold(i, h)
        PROVE  AllocationInv'
    BY <2>2, <2>5 DEF Hold, history
  <2>6. ASSUME NEW r \in Runs, Start(r) \/ RunStep(r) \/ NodeStep(r) \/ RunFails(r)
        PROVE  AllocationInv'
    <3>1. CASE Start(r) \/ NodeStep(r) \/ RunFails(r)
      BY <2>2, <3>1 DEF Start, NodeStep, AnswerOpen, AnswerReceived, AnswerFinal,
         Settled, RunFails, stored, history
    <3>2. CASE RunStep(r)
      BY <2>2, <3>2 DEF RunStep, List, Leave, Pick, Mark, ReadRecord, Release,
         ReleaseRefused, Listed, Paid, Unpaid, Forget, stored, history
    <3> QED
      BY <2>6, <3>1, <3>2
  <2>7. CASE Abandon \/ Crash
    BY <2>2, <2>7 DEF Abandon, Crash, stored, history
  <2> QED
    BY <2>1, <2>3, <2>4, <2>5, <2>6, <2>7 DEF Next
<1> QED
  BY <1>1, <1>2, PTL

(* allocate: for every bound on the index, however many creations run at   *)
(* once and however the clock moves, no index is given twice.              *)
THEOREM IndexesAreUnique == Spec => []OneInvoicePerIndex
<1>1. AllocationInv => OneInvoicePerIndex
  BY DEF AllocationInv, OneInvoicePerIndex
<1> QED
  BY <1>1, AllocationInductive, PTL DEF Spec

-----------------------------------------------------------------------------
(* The inductive invariant *)

(* What a run at these waits is about is an invoice it has yet to answer. *)
Answering == {"get", "mark", "read", "release", "listed", "settle", "paid", "unpaid", "forget"}

AboutInvoice ==
    /\ \A c \in Creations : pc[c] \in {"record", "new", "watch"} => index[c] \in Indexes
    /\ \A c \in Creations : pc[c] \in {"idle", "record", "new", "watch"}
    /\ \A r \in Runs : pc[r] \in {"idle", "list", "pick"} \cup Answering
    /\ \A r \in Runs : pc[r] \in Answering => index[r] \in Indexes /\ todo[r][index[r]] # "absent"
    /\ \A r \in Runs : pc[r] \in {"idle", "list"} => \A i \in Indexes : todo[r][i] = "absent"

(* The run the poller waits for has not listed yet what an earlier one is  *)
(* about to forget, and lists after it.                                    *)
ForgetsFirst ==
    \A r, q \in Runs : (live = q /\ r # q /\ pc[r] = "forget") => pc[q] = "list" /\ Before(r, q)

(* What the run the poller waits for has yet to answer is watched. *)
ListedIsWatched ==
    \A r \in Runs : live = r => \A i \in Indexes : todo[r][i] # "absent" => watched[i] # "absent"

(* What is forgotten was received, or its preimage never left; and what is *)
(* about to be found without a TLC was refused its release.                *)
ForgetsNoneHanded ==
    /\ \A r \in Runs : pc[r] = "forget" => index[r] \notin handed \/ "RECEIVED" \in reported[index[r]]
    /\ \A r \in Runs : live = r /\ pc[r] = "listed" => index[r] \notin handed

IInv ==
    /\ TypeOK /\ AboutInvoice /\ ForgetsFirst
    /\ ListedIsWatched /\ ForgetsNoneHanded /\ HandedIsFollowed

-----------------------------------------------------------------------------
(* What a move does to the part of the state that says where each actor is.*)

WhereOK ==
    /\ pc \in [Actors -> Waits] /\ index \in [Actors -> Indexes \cup {None}]
    /\ todo \in [Runs -> [Indexes -> Entries]] /\ live \in Runs \cup {None}
    /\ ahead \in [Actors -> SUBSET Actors]
    /\ AboutInvoice /\ ForgetsFirst

(* A run goes on with its invoice, is done with it, or ends. *)
GoesOn(r, p) == Go(r, p) /\ pc[r] \in Answering /\ p \in Answering /\ UNCHANGED <<index, todo, live>>

IsDone(r) == Done(r) /\ pc[r] \in Answering /\ UNCHANGED live

(* What it has yet to answer only shrinks. *)
ListShrinks ==
    \A q \in Runs : /\ live' = q => live = q
                    /\ \A i \in Indexes : todo'[q][i] # "absent" => todo[q][i] # "absent"

(* Go: those that do not move keep their order, *)
LEMMA GoKeepsOrder ==
    ASSUME NEW a \in Actors, NEW p, Go(a, p), NEW b, NEW c \in Actors, b # a, c # a, Before(b, c)
    PROVE  Before(b, c)'
  BY DEF Go, Before

(* and whoever joins a lane is behind all who wait in it. *)
LEMMA GoJoinsLast ==
    ASSUME NEW a \in Actors, NEW p, Go(a, p), LaneOf(p) # "",
           NEW b \in Actors, b # a, LaneOf(pc[b]) = LaneOf(p)
    PROVE  Before(b, a)'
  BY DEF Go, Before, WaitIn

(* Whose turn it is has nobody before it. *)
LEMMA FirstHasNoneBefore ==
    ASSUME NEW c, At(c, pc[c]), NEW b
    PROVE  ~Before(b, c)
  BY DEF At, Before

LEMMA MoveTypes ==
    ASSUME TypeOK, NEW a \in Actors, NEW p \in Waits, At(a, pc[a]), Go(a, p)
    PROVE  pc' \in [Actors -> Waits] /\ ahead' \in [Actors -> SUBSET Actors]
  BY DEF Go, TypeOK, WaitIn

(* Every move but a run's start: only the run the poller waits for comes to*)
(* forget, and it lists only after those before it forgot.                 *)
LEMMA MoveForgetsFirst ==
    ASSUME IInv, NEW a \in Actors, NEW p \in Waits, At(a, pc[a]), Go(a, p),
           live' \in {live, None}, p = "forget" => live = a
    PROVE  ForgetsFirst'
<1> USE DEF IInv
<1> SUFFICES ASSUME NEW r \in Runs, NEW q \in Runs, live' = q, r # q, pc'[r] = "forget"
             PROVE  pc'[q] = "list" /\ Before(r, q)'
  BY DEF ForgetsFirst
<1>1. live = q /\ a # r /\ pc[r] = "forget" /\ r \in Actors /\ q \in Actors
  BY InvoiceAssumption DEF Go, TypeOK, Actors
<1>2. pc[q] = "list" /\ Before(r, q)
  BY <1>1 DEF ForgetsFirst
<1>3. LaneOf("list") = "activity" /\ LaneOf("forget") = "activity"
  BY DEF LaneOf
<1>4. q # a
  BY <1>1, <1>2, <1>3, FirstHasNoneBefore
<1> QED
  BY <1>1, <1>2, <1>3, <1>4, GoKeepsOrder DEF Go, TypeOK

LEMMA RunGoesOn ==
    ASSUME IInv, NEW r \in Runs, NEW p, At(r, pc[r]), GoesOn(r, p), p = "forget" => live = r
    PROVE  WhereOK' /\ ListShrinks
<1> USE DEF IInv
<1>1. r \in Actors /\ p \in Waits /\ Go(r, p)
  BY DEF Actors, GoesOn, Answering, Waits
<1>2. ForgetsFirst'
  BY <1>1, MoveForgetsFirst DEF GoesOn
<1>3. pc' \in [Actors -> Waits] /\ ahead' \in [Actors -> SUBSET Actors]
  BY <1>1, MoveTypes
<1>4. AboutInvoice'
  BY InvoiceAssumption DEF AboutInvoice, GoesOn, Go, Answering, TypeOK, Actors
<1> QED
  BY <1>2, <1>3, <1>4 DEF WhereOK, ListShrinks, GoesOn, TypeOK

LEMMA RunIsDone ==
    ASSUME IInv, NEW r \in Runs, At(r, pc[r]), IsDone(r)
    PROVE  WhereOK' /\ ListShrinks
<1> USE DEF IInv
<1>1. r \in Actors /\ Go(r, "pick") /\ "pick" \in Waits
  BY DEF Actors, IsDone, Done, Waits
<1>2. ForgetsFirst'
  BY <1>1, MoveForgetsFirst DEF IsDone
<1>3. pc' \in [Actors -> Waits] /\ ahead' \in [Actors -> SUBSET Actors]
  BY <1>1, MoveTypes
<1>4. /\ todo' = [todo EXCEPT ![r] = [todo[r] EXCEPT ![index[r]] = "absent"]]
      /\ index' = [index EXCEPT ![r] = None] /\ live' = live
      /\ pc' = [pc EXCEPT ![r] = "pick"]
  BY DEF IsDone, Done, Go
<1>5. todo' \in [Runs -> [Indexes -> Entries]] /\ index' \in [Actors -> Indexes \cup {None}]
  BY <1>4, <1>1 DEF TypeOK, Entries
<1>6. AboutInvoice'
  BY <1>4, InvoiceAssumption DEF AboutInvoice, Answering, TypeOK, Actors
<1>7. ListShrinks
  BY <1>4 DEF ListShrinks, TypeOK
<1> QED
  BY <1>2, <1>3, <1>4, <1>5, <1>6, <1>7 DEF WhereOK, TypeOK

LEMMA RunEnds ==
    ASSUME IInv, NEW r \in Runs, At(r, pc[r]), End(r), UNCHANGED index
    PROVE  WhereOK' /\ ListShrinks
<1> USE DEF IInv
<1>1. r \in Actors /\ Go(r, "idle") /\ "idle" \in Waits
  BY DEF Actors, End, Waits
<1>2. ForgetsFirst'
  BY <1>1, MoveForgetsFirst DEF End
<1>3. pc' \in [Actors -> Waits] /\ ahead' \in [Actors -> SUBSET Actors]
  BY <1>1, MoveTypes
<1>4. /\ todo' = [todo EXCEPT ![r] = [i \in Indexes |-> "absent"]]
      /\ live' \in {live, None} /\ index' = index
      /\ pc' = [pc EXCEPT ![r] = "idle"]
  BY DEF End, Go
<1>5. todo' \in [Runs -> [Indexes -> Entries]]
  BY <1>4 DEF TypeOK, Entries
<1>6. AboutInvoice'
  BY <1>4, InvoiceAssumption DEF AboutInvoice, Answering, TypeOK, Actors
<1>7. ListShrinks
  BY <1>4, InvoiceAssumption DEF ListShrinks, TypeOK
<1> QED
  BY <1>2, <1>3, <1>4, <1>5, <1>6, <1>7 DEF WhereOK, TypeOK

(* A move that leaves the records and the history alone. *)
LEMMA QuietMove ==
    ASSUME IInv, WhereOK', ListShrinks, UNCHANGED <<stored, history>>, faults' \in 0 .. MaxFaults,
           \A q \in Runs : pc'[q] = "forget" => pc[q] = "forget" /\ index'[q] = index[q],
           \A q \in Runs : live' = q /\ pc'[q] = "listed" =>
               index'[q] \notin handed \/ (live = q /\ pc[q] = "listed" /\ index'[q] = index[q])
    PROVE  IInv'
<1> USE DEF IInv, WhereOK, stored, history
<1>1. TypeOK'
  BY DEF TypeOK
<1>2. ListedIsWatched'
  BY DEF ListedIsWatched, ListShrinks
<1>3. ForgetsNoneHanded'
  BY DEF ForgetsNoneHanded
<1>4. HandedIsFollowed'
  BY DEF HandedIsFollowed
<1> QED
  BY <1>1, <1>2, <1>3, <1>4

(* A run that is done with an invoice and changed nothing else. *)
LEMMA QuietDone ==
    ASSUME IInv, NEW r \in Runs, At(r, pc[r]), pc[r] \in Answering, Done(r),
           UNCHANGED <<stored, live, history>>, faults' \in 0 .. MaxFaults
    PROVE  IInv'
<1>1. WhereOK' /\ ListShrinks
  BY RunIsDone DEF IsDone
<1>2. pc' = [pc EXCEPT ![r] = "pick"] /\ index' = [index EXCEPT ![r] = None] /\ live' = live
  BY DEF Done, Go
<1> QED
  BY <1>1, <1>2, QuietMove DEF IInv, TypeOK, Actors

(* One that goes on, other than to forget. *)
LEMMA QuietGoesOn ==
    ASSUME IInv, NEW r \in Runs, NEW p \in Answering \ {"forget"}, At(r, pc[r]), pc[r] \in Answering,
           Go(r, p), UNCHANGED <<stored, index, todo, live, history, faults>>,
           p = "listed" => index[r] \notin handed
    PROVE  IInv'
<1>1. WhereOK' /\ ListShrinks
  BY RunGoesOn DEF GoesOn
<1>2. pc' = [pc EXCEPT ![r] = p] /\ index' = index /\ live' = live /\ faults' = faults
  BY DEF Go
<1> QED
  BY <1>1, <1>2, QuietMove DEF IInv, TypeOK, Actors

(* settle: the preimage of a released invoice leaves.  The run is the one  *)
(* the poller waits for, so nobody is about to forget the invoice.         *)
LEMMA HandsOver ==
    ASSUME IInv, NEW r \in Runs, At(r, pc[r]), pc[r] \in {"read", "release"}, live = r, HandOver(r),
           record' = [record EXCEPT ![index[r]] = "released"],
           UNCHANGED <<last, watched, held, live, allocated, reported, faults>>
    PROVE  IInv'
<1> USE DEF IInv
<1>1. WhereOK' /\ ListShrinks
  BY RunGoesOn DEF GoesOn, HandOver, Answering
<1>2. /\ pc' = [pc EXCEPT ![r] = "settle"] /\ index' = index /\ live' = live
      /\ handed' = handed \cup {index[r]}
  BY DEF HandOver, Go
<1>3. index[r] \in Indexes /\ todo[r][index[r]] # "absent"
  BY DEF AboutInvoice, Answering
<1>4. watched[index[r]] # "absent"
  BY <1>3 DEF ListedIsWatched
<1>5. \A q \in Runs : q # r => pc[q] # "forget"
  BY DEF ForgetsFirst
<1>6. TypeOK'
  BY <1>1, <1>2, <1>3 DEF TypeOK, WhereOK
<1>7. ListedIsWatched'
  BY <1>1 DEF ListedIsWatched, ListShrinks
<1>8. ForgetsNoneHanded'
  BY <1>2, <1>5 DEF ForgetsNoneHanded, TypeOK, Actors
<1>9. HandedIsFollowed'
  BY <1>2, <1>3, <1>4 DEF HandedIsFollowed, TypeOK
<1> QED
  BY <1>1, <1>6, <1>7, <1>8, <1>9 DEF WhereOK

(* finish: an invoice that was received, or never handed over, is reported *)
(* and about to be forgotten; or the run was abandoned.                    *)
LEMMA Finishes ==
    ASSUME IInv, NEW r \in Runs, At(r, pc[r]), pc[r] \in Answering,
           NEW event \in {"RECEIVED", "EXPIRED"}, Finish(r, event),
           event = "EXPIRED" /\ live = r => index[r] \notin handed,
           UNCHANGED <<stored, live, allocated, handed, faults>>
    PROVE  IInv'
<1> USE DEF IInv
<1>1. CASE live # r
  <2>1. Done(r) /\ UNCHANGED reported
    BY <1>1 DEF Finish
  <2> QED
    BY <2>1, QuietDone DEF history, TypeOK
<1>2. CASE live = r
  <2>1. /\ reported' = [reported EXCEPT ![index[r]] = @ \cup {event}]
        /\ Go(r, "forget") /\ UNCHANGED <<index, todo>>
    BY <1>2 DEF Finish
  <2>2. WhereOK' /\ ListShrinks
    BY <2>1, <1>2, RunGoesOn DEF GoesOn, Answering
  <2>3. pc' = [pc EXCEPT ![r] = "forget"] /\ index[r] \in Indexes
    BY <2>1 DEF Go, AboutInvoice
  <2>4. TypeOK'
    BY <2>1, <2>2, <2>3 DEF TypeOK, WhereOK, stored
  <2>5. ListedIsWatched'
    BY <2>2 DEF ListedIsWatched, ListShrinks, stored
  <2>6. ForgetsNoneHanded'
    BY <2>1, <2>3, <1>2 DEF ForgetsNoneHanded, TypeOK, Actors
  <2>7. HandedIsFollowed'
    BY <2>1, <2>3 DEF HandedIsFollowed, TypeOK, stored
  <2> QED
    BY <2>2, <2>4, <2>5, <2>6, <2>7 DEF WhereOK
<1> QED
  BY <1>1, <1>2

-----------------------------------------------------------------------------
(* Every action keeps the invariant. *)

(* A creation's moves: its waits are not those of a run. *)
LEMMA CreationKeeps ==
    ASSUME IInv, NEW c \in Creations,
           (\E t \in Indexes : Allocate(c, t)) \/ CreationStep(c) \/ CreationFails(c)
    PROVE  IInv'
<1> USE DEF IInv
<1>1. c \in Actors /\ c \notin Runs
  BY InvoiceAssumption DEF Actors
<1>2. PICK p \in {"idle", "record", "new", "watch"} :
        /\ At(c, pc[c]) /\ Go(c, p) /\ UNCHANGED <<todo, live, held, handed, reported>>
        /\ faults' \in 0 .. MaxFaults
        /\ index' = [index EXCEPT ![c] = index'[c]] /\ index'[c] \in Indexes \cup {None}
        /\ p \in {"record", "new", "watch"} => index'[c] \in Indexes
  <2>1. CASE \E t \in Indexes : Allocate(c, t)
    BY <2>1, <1>1 DEF Allocate, At, TypeOK
  <2>2. CASE RecordHoldInvoice(c)
    BY <2>2, <1>1 DEF RecordHoldInvoice, At, history, TypeOK, AboutInvoice
  <2>3. CASE NewInvoice(c)
    BY <2>3, <1>1 DEF NewInvoice, At, stored, history, TypeOK, AboutInvoice
  <2>4. CASE NewInvoiceRefused(c)
    BY <2>4, <1>1 DEF NewInvoiceRefused, Return, At, stored, history, TypeOK
  <2>5. CASE Watch(c)
    BY <2>5, <1>1 DEF Watch, Return, At, history, TypeOK
  <2>6. CASE CreationFails(c)
    <3>1. /\ At(c, pc[c]) /\ Go(c, "idle") /\ UNCHANGED <<todo, live, held, handed, reported>>
          /\ index' = [index EXCEPT ![c] = None] /\ faults < MaxFaults /\ faults' = faults + 1
      BY <2>6 DEF CreationFails, Return, Fault, stored, history
    <3>2. faults' \in 0 .. MaxFaults
      BY <3>1, InvoiceAssumption DEF TypeOK
    <3> QED
      BY <3>1, <3>2, <1>1 DEF TypeOK
  <2> QED
    BY <2>1, <2>2, <2>3, <2>4, <2>5, <2>6 DEF CreationStep
<1>3. p \in Waits /\ p # "forget"
  BY DEF Waits
<1>4. pc' \in [Actors -> Waits] /\ ahead' \in [Actors -> SUBSET Actors]
  BY <1>1, <1>2, <1>3, MoveTypes
<1>5. ForgetsFirst'
  BY <1>1, <1>2, <1>3, MoveForgetsFirst
<1>6. \A r \in Runs : pc'[r] = pc[r] /\ index'[r] = index[r]
  BY <1>1, <1>2 DEF Go, TypeOK, Actors
<1>7. \A d \in Creations \ {c} : pc'[d] = pc[d] /\ index'[d] = index[d]
  BY <1>1, <1>2 DEF Go, TypeOK, Actors
<1>8. pc'[c] = p
  BY <1>1, <1>2 DEF Go, TypeOK
<1>9. AboutInvoice'
  BY <1>2, <1>6, <1>7, <1>8 DEF AboutInvoice
<1>10. /\ \A i \in Indexes : record[i] = "released" => record'[i] = "released"
       /\ \A i \in Indexes : watched[i] # "absent" => watched'[i] # "absent"
       /\ last' \in Indexes \cup {0} /\ allocated' \in [Indexes -> Nat]
       /\ record' \in [Indexes -> {"none", "recorded", "released"}] /\ watched' \in [Indexes -> Entries]
  <2>1. CASE \E t \in Indexes : Allocate(c, t)
    BY <2>1 DEF Allocate, TypeOK
  <2>2. CASE RecordHoldInvoice(c)
    BY <2>2 DEF RecordHoldInvoice, history, TypeOK
  <2>3. CASE NewInvoice(c) \/ NewInvoiceRefused(c) \/ CreationFails(c)
    BY <2>3 DEF NewInvoice, NewInvoiceRefused, CreationFails, stored, history, TypeOK
  <2>4. CASE Watch(c)
    BY <2>4 DEF Watch, history, TypeOK, Entries
  <2> QED
    BY <2>1, <2>2, <2>3, <2>4 DEF CreationStep
<1>11. index' \in [Actors -> Indexes \cup {None}]
  BY <1>1, <1>2 DEF TypeOK
<1>12. TypeOK'
  BY <1>2, <1>4, <1>10, <1>11 DEF TypeOK
<1>13. ListedIsWatched'
  BY <1>2, <1>10 DEF ListedIsWatched
<1>14. ForgetsNoneHanded'
  BY <1>2, <1>6 DEF ForgetsNoneHanded
<1>15. HandedIsFollowed'
  BY <1>2, <1>10 DEF HandedIsFollowed, TypeOK
<1> QED
  BY <1>4, <1>5, <1>9, <1>12, <1>13, <1>14, <1>15

(* A run starts behind whoever is about to forget, *)
LEMMA StartKeeps ==
    ASSUME IInv, NEW r \in Runs, Start(r)
    PROVE  IInv'
<1> USE DEF IInv
<1>1. r \in Actors /\ "list" \in Waits /\ LaneOf("list") = "activity"
  BY DEF Actors, Waits, LaneOf
<1>2. /\ At(r, pc[r]) /\ Go(r, "list") /\ live = None /\ live' = r /\ pc[r] = "idle"
      /\ UNCHANGED <<stored, index, todo, history, faults>>
  BY DEF Start, At
<1>3. pc' \in [Actors -> Waits] /\ ahead' \in [Actors -> SUBSET Actors]
  BY <1>1, <1>2, MoveTypes
<1>4. pc' = [pc EXCEPT ![r] = "list"]
  BY <1>2 DEF Go
<1>5. ForgetsFirst'
  <2> SUFFICES ASSUME NEW b \in Runs, b # r
               PROVE  pc'[r] = "list" /\ (pc'[b] = "forget" => Before(b, r)')
    BY <1>2 DEF ForgetsFirst
  <2>1. b \in Actors /\ LaneOf("forget") = "activity"
    BY DEF Actors, LaneOf
  <2>2. pc'[r] = "list" /\ pc'[b] = pc[b]
    BY <1>1, <1>4 DEF TypeOK
  <2> QED
    BY <1>1, <1>2, <2>1, <2>2, GoJoinsLast
<1>6. AboutInvoice'
  BY <1>2, <1>4, InvoiceAssumption DEF AboutInvoice, Answering, TypeOK, Actors
<1>7. TypeOK'
  BY <1>2, <1>3 DEF TypeOK, stored, history
<1>8. ListedIsWatched'
  BY <1>2 DEF ListedIsWatched, AboutInvoice
<1>9. ForgetsNoneHanded'
  BY <1>1, <1>2, <1>4 DEF ForgetsNoneHanded, TypeOK, history
<1>10. HandedIsFollowed'
  BY <1>2 DEF HandedIsFollowed, stored, history
<1> QED
  BY <1>3, <1>5, <1>6, <1>7, <1>8, <1>9, <1>10

(* lists what is watched then, *)
LEMMA ListKeeps ==
    ASSUME IInv, NEW r \in Runs, List(r)
    PROVE  IInv'
<1> USE DEF IInv
<1>1. r \in Actors /\ "pick" \in Waits
  BY DEF Actors, Waits
<1>2. /\ At(r, pc[r]) /\ Go(r, "pick") /\ todo' = [todo EXCEPT ![r] = watched]
      /\ UNCHANGED <<stored, index, live, history, faults>>
  BY DEF List, At
<1>3. pc' \in [Actors -> Waits] /\ ahead' \in [Actors -> SUBSET Actors]
  BY <1>1, <1>2, MoveTypes
<1>4. pc' = [pc EXCEPT ![r] = "pick"]
  BY <1>2 DEF Go
<1>5. ForgetsFirst'
  BY <1>1, <1>2, MoveForgetsFirst
<1>6. AboutInvoice'
  BY <1>2, <1>4, InvoiceAssumption DEF AboutInvoice, Answering, TypeOK, Actors
<1>7. TypeOK'
  BY <1>2, <1>3 DEF TypeOK, stored, history
<1>8. ListedIsWatched'
  BY <1>2 DEF ListedIsWatched, TypeOK, stored
<1>9. ForgetsNoneHanded'
  BY <1>1, <1>2, <1>4 DEF ForgetsNoneHanded, TypeOK, history
<1>10. HandedIsFollowed'
  BY <1>2 DEF HandedIsFollowed, stored, history
<1> QED
  BY <1>3, <1>5, <1>6, <1>7, <1>8, <1>9, <1>10

(* and picks one of it. *)
LEMMA PickKeeps ==
    ASSUME IInv, NEW r \in Runs, NEW i \in Indexes, Pick(r, i)
    PROVE  IInv'
<1> USE DEF IInv
<1>1. r \in Actors /\ "get" \in Waits
  BY DEF Actors, Waits
<1>2. /\ At(r, pc[r]) /\ Go(r, "get") /\ index' = [index EXCEPT ![r] = i] /\ todo[r][i] # "absent"
      /\ UNCHANGED <<stored, todo, live, history, faults>>
  BY DEF Pick, At
<1>3. pc' \in [Actors -> Waits] /\ ahead' \in [Actors -> SUBSET Actors]
  BY <1>1, <1>2, MoveTypes
<1>4. pc' = [pc EXCEPT ![r] = "get"]
  BY <1>2 DEF Go
<1>5. ForgetsFirst'
  BY <1>1, <1>2, MoveForgetsFirst
<1>6. AboutInvoice'
  BY <1>1, <1>2, <1>4, InvoiceAssumption DEF AboutInvoice, Answering, TypeOK, Actors
<1>7. WhereOK'
  BY <1>1, <1>2, <1>3, <1>5, <1>6 DEF WhereOK, TypeOK
<1>8. ListShrinks
  BY <1>2 DEF ListShrinks
<1> QED
  BY <1>1, <1>2, <1>4, <1>7, <1>8, QuietMove DEF TypeOK

(* The rest of a run's step. *)
LEMMA RunStepKeeps ==
    ASSUME IInv, NEW r \in Runs, RunStep(r)
    PROVE  IInv'
<1> USE DEF IInv
<1>0. faults \in 0 .. MaxFaults
  BY DEF TypeOK
<1>1. CASE List(r)
  BY <1>1, ListKeeps
<1>2. CASE Leave(r)
  <2>1. At(r, pc[r]) /\ End(r) /\ UNCHANGED <<stored, index, history, faults>>
    BY <1>2 DEF Leave, At
  <2>2. WhereOK' /\ ListShrinks
    BY <2>1, RunEnds
  <2>3. pc' = [pc EXCEPT ![r] = "idle"]
    BY <2>1 DEF End, Go
  <2>4. \A q \in Runs : live' = q => live = q
    BY <2>2 DEF ListShrinks
  <2> QED
    BY <2>1, <2>2, <2>3, <2>4, <1>0, QuietMove DEF TypeOK, Actors
<1>3. CASE \E i \in Indexes : Pick(r, i)
  BY <1>3, PickKeeps
<1>4. CASE Mark(r)
  <2>1. At(r, pc[r]) /\ pc[r] = "mark" /\ UNCHANGED <<last, record, held, live, history, faults>>
    BY <1>4 DEF Mark, At
  <2>2. CASE watched[index[r]] = "absent"
    BY <1>4, <2>1, <2>2, <1>0, QuietDone DEF Mark, Answering, stored
  <2>3. CASE watched[index[r]] # "absent"
    <3>1. /\ watched' = [watched EXCEPT ![index[r]] = "Received"]
          /\ Go(r, "read") /\ UNCHANGED <<index, todo>>
      BY <1>4, <2>3 DEF Mark
    <3>2. WhereOK' /\ ListShrinks
      BY <3>1, <2>1, RunGoesOn DEF GoesOn, Answering
    <3>3. pc' = [pc EXCEPT ![r] = "read"]
      BY <3>1 DEF Go
    <3>4. TypeOK'
      BY <3>1, <3>2, <2>1 DEF TypeOK, WhereOK, history, Entries
    <3>5. ListedIsWatched'
      BY <3>1, <3>2 DEF ListedIsWatched, ListShrinks, TypeOK
    <3>6. ForgetsNoneHanded'
      BY <3>1, <3>3, <2>1 DEF ForgetsNoneHanded, TypeOK, Actors, history
    <3>7. HandedIsFollowed'
      BY <3>1, <2>1 DEF HandedIsFollowed, TypeOK, history
    <3> QED
      BY <3>2, <3>4, <3>5, <3>6, <3>7 DEF WhereOK
  <2> QED
    BY <2>2, <2>3
<1>5. CASE ReadRecord(r)
  <2>1. At(r, pc[r]) /\ pc[r] = "read" /\ UNCHANGED <<stored, live, allocated, reported, faults>>
    BY <1>5 DEF ReadRecord, At
  <2>2. CASE live # r
    BY <1>5, <2>1, <2>2, <1>0, QuietDone DEF ReadRecord, Answering, history
  <2>3. CASE live = r /\ record[index[r]] = "released"
    <3>1. HandOver(r)
      BY <1>5, <2>3 DEF ReadRecord
    <3>2. record' = [record EXCEPT ![index[r]] = "released"]
      BY <2>1, <2>3 DEF stored, TypeOK
    <3> QED
      BY <2>1, <2>3, <3>1, <3>2, HandsOver DEF stored
  <2>4. CASE live = r /\ record[index[r]] # "released"
    <3>1. Go(r, "release") /\ UNCHANGED <<index, todo, handed>>
      BY <1>5, <2>4 DEF ReadRecord
    <3> QED
      BY <2>1, <3>1, QuietGoesOn DEF Answering, history
  <2> QED
    BY <2>2, <2>3, <2>4
<1>6. CASE Release(r)
  <2>1. /\ At(r, pc[r]) /\ pc[r] = "release" /\ record' = [record EXCEPT ![index[r]] = "released"]
        /\ UNCHANGED <<last, watched, held, live, allocated, reported, faults>>
    BY <1>6 DEF Release, At
  <2>2. CASE live = r
    BY <1>6, <2>1, <2>2, HandsOver DEF Release
  <2>3. CASE live # r
    <3>1. Done(r) /\ UNCHANGED handed
      BY <1>6, <2>3 DEF Release
    <3>2. WhereOK' /\ ListShrinks
      BY <3>1, <2>1, RunIsDone DEF IsDone, Answering
    <3>3. pc' = [pc EXCEPT ![r] = "pick"] /\ index' = [index EXCEPT ![r] = None]
      BY <3>1 DEF Done, Go
    <3>4. TypeOK'
      BY <3>1, <3>2, <2>1 DEF TypeOK, WhereOK
    <3>5. ListedIsWatched'
      BY <3>2, <2>1 DEF ListedIsWatched, ListShrinks
    <3>6. ForgetsNoneHanded'
      BY <3>1, <3>3, <2>1 DEF ForgetsNoneHanded, TypeOK, Actors
    <3>7. HandedIsFollowed'
      BY <3>1, <2>1 DEF HandedIsFollowed, TypeOK
    <3> QED
      BY <3>2, <3>4, <3>5, <3>6, <3>7 DEF WhereOK
  <2> QED
    BY <2>2, <2>3
<1>7. CASE ReleaseRefused(r)
  <2>1. At(r, pc[r]) /\ pc[r] = "release" /\ UNCHANGED <<stored, live, history, faults>>
    BY <1>7 DEF ReleaseRefused, At
  <2>2. index[r] \notin handed
    BY <1>7 DEF ReleaseRefused, MayRelease, HandedIsFollowed
  <2>3. CASE Done(r)
    BY <2>1, <2>3, <1>0, QuietDone DEF Answering
  <2>4. CASE Go(r, "listed") /\ UNCHANGED <<index, todo>>
    BY <2>1, <2>2, <2>4, QuietGoesOn DEF Answering
  <2> QED
    BY <1>7, <2>3, <2>4 DEF ReleaseRefused
<1>8. CASE Listed(r)
  <2>1. At(r, pc[r]) /\ pc[r] = "listed" /\ UNCHANGED <<stored, live, allocated, handed, faults>>
    BY <1>8 DEF Listed, At
  <2>2. CASE Finish(r, "EXPIRED")
    BY <2>1, <2>2, Finishes DEF Answering, ForgetsNoneHanded
  <2>3. CASE Done(r) /\ UNCHANGED reported
    BY <2>1, <2>3, <1>0, QuietDone DEF Answering, history
  <2> QED
    BY <1>8, <2>2, <2>3 DEF Listed
<1>9. CASE Paid(r)
  <2>1. At(r, pc[r]) /\ pc[r] = "paid" /\ UNCHANGED <<stored, live, allocated, handed, faults>>
    BY <1>9 DEF Paid, At
  <2>2. CASE Finish(r, "RECEIVED")
    BY <2>1, <2>2, Finishes DEF Answering
  <2>3. CASE Done(r) /\ UNCHANGED reported
    BY <2>1, <2>3, <1>0, QuietDone DEF Answering, history
  <2> QED
    BY <1>9, <2>2, <2>3 DEF Paid
<1>10. CASE Unpaid(r)
  <2>1. At(r, pc[r]) /\ pc[r] = "unpaid" /\ UNCHANGED <<stored, live, allocated, handed, faults>>
    BY <1>10 DEF Unpaid, At
  <2>2. CASE record[index[r]] # "released" /\ Finish(r, "EXPIRED")
    BY <2>1, <2>2, Finishes DEF Answering, HandedIsFollowed
  <2>3. CASE Done(r) /\ UNCHANGED reported
    BY <2>1, <2>3, <1>0, QuietDone DEF Answering, history
  <2> QED
    BY <1>10, <2>2, <2>3 DEF Unpaid
<1>11. CASE Forget(r)
  <2>1. /\ At(r, pc[r]) /\ pc[r] = "forget" /\ Done(r) /\ UNCHANGED <<last, record, held, live, history, faults>>
        /\ watched' = [watched EXCEPT ![index[r]] = "absent"]
    BY <1>11 DEF Forget, At
  <2>2. WhereOK' /\ ListShrinks
    BY <2>1, RunIsDone DEF IsDone, Answering
  <2>3. /\ pc' = [pc EXCEPT ![r] = "pick"] /\ index' = [index EXCEPT ![r] = None]
        /\ todo' = [todo EXCEPT ![r] = [todo[r] EXCEPT ![index[r]] = "absent"]]
    BY <2>1 DEF Done, Go
  <2>4. TypeOK'
    BY <2>1, <2>2 DEF TypeOK, WhereOK, history, Entries
  <2>5. ListedIsWatched'
    <3> SUFFICES ASSUME NEW q \in Runs, live = q, NEW i \in Indexes, todo'[q][i] # "absent"
                 PROVE  watched'[i] # "absent"
      BY <2>1 DEF ListedIsWatched
    <3>1. todo[q][i] # "absent" /\ watched[i] # "absent"
      BY <2>2 DEF ListShrinks, ListedIsWatched
    <3>2. CASE q = r
      BY <3>1, <3>2, <2>1, <2>3 DEF TypeOK
    <3>3. CASE q # r
      BY <3>1, <3>3, <2>1 DEF ForgetsFirst, AboutInvoice
    <3> QED
      BY <3>2, <3>3
  <2>6. ForgetsNoneHanded'
    BY <2>1, <2>3 DEF ForgetsNoneHanded, TypeOK, Actors, history
  <2>7. HandedIsFollowed'
    BY <2>1 DEF HandedIsFollowed, ForgetsNoneHanded, TypeOK, history
  <2> QED
    BY <2>2, <2>4, <2>5, <2>6, <2>7 DEF WhereOK
<1> QED
  BY <1>1, <1>2, <1>3, <1>4, <1>5, <1>6, <1>7, <1>8, <1>9, <1>10, <1>11, Zenon DEF RunStep

(* What the node answers, and what fails. *)
LEMMA NodeStepKeeps ==
    ASSUME IInv, NEW r \in Runs, NodeStep(r) \/ RunFails(r)
    PROVE  IInv'
<1> USE DEF IInv
<1>0. faults \in 0 .. MaxFaults
  BY DEF TypeOK
<1>1. CASE AnswerOpen(r) \/ Settled(r)
  BY <1>1, <1>0, QuietDone DEF AnswerOpen, Settled, Answering, At
<1>2. CASE AnswerReceived(r)
  <2>1. At(r, pc[r]) /\ pc[r] = "get" /\ UNCHANGED <<stored, live, history, faults>>
    BY <1>2 DEF AnswerReceived, At
  <2>2. CASE Done(r)
    BY <2>1, <2>2, <1>0, QuietDone DEF Answering
  <2>3. ASSUME NEW p \in {"mark", "read"}, Go(r, p), UNCHANGED <<index, todo>>
        PROVE  IInv'
    BY <2>1, <2>3, QuietGoesOn DEF Answering
  <2> QED
    BY <1>2, <2>2, <2>3 DEF AnswerReceived
<1>3. CASE AnswerFinal(r)
  <2>1. At(r, pc[r]) /\ pc[r] = "get" /\ UNCHANGED <<stored, index, todo, live, history, faults>>
    BY <1>3 DEF AnswerFinal, At
  <2>2. PICK p \in {"paid", "unpaid"} : Go(r, p)
    BY <1>3 DEF AnswerFinal
  <2> QED
    BY <2>1, <2>2, QuietGoesOn DEF Answering
<1>4. CASE RunFails(r)
  <2>1. faults' \in 0 .. MaxFaults /\ At(r, pc[r]) /\ UNCHANGED <<stored, history>>
    BY <1>4, InvoiceAssumption DEF RunFails, Fault, TypeOK
  <2>2. CASE pc[r] # "list"
    BY <1>4, <2>1, <2>2, QuietDone DEF RunFails, Answering
  <2>3. CASE pc[r] = "list"
    <3>1. End(r) /\ UNCHANGED index
      BY <1>4, <2>3 DEF RunFails
    <3>2. WhereOK' /\ ListShrinks
      BY <2>1, <3>1, RunEnds
    <3>3. pc' = [pc EXCEPT ![r] = "idle"]
      BY <3>1 DEF End, Go
    <3>4. \A q \in Runs : live' = q => live = q
      BY <3>2 DEF ListShrinks
    <3> QED
      BY <2>1, <3>1, <3>2, <3>3, <3>4, QuietMove DEF TypeOK, Actors
  <2> QED
    BY <2>2, <2>3
<1> QED
  BY <1>1, <1>2, <1>3, <1>4 DEF NodeStep

(* Hold, Abandon, Crash: nobody moves, or everybody is gone. *)
LEMMA OutsideKeeps ==
    ASSUME IInv, (\E i \in Indexes, h \in Holdings : Hold(i, h)) \/ Abandon \/ Crash \/ UNCHANGED vars
    PROVE  IInv'
<1> USE DEF IInv
<1>1. ASSUME NEW i \in Indexes, NEW h \in Holdings, Hold(i, h)
      PROVE  IInv'
  BY <1>1 DEF Hold, where, history, TypeOK, AboutInvoice, ForgetsFirst, Before,
     ListedIsWatched, ForgetsNoneHanded, HandedIsFollowed
<1>2. CASE UNCHANGED vars
  BY <1>2 DEF vars, stored, where, history, TypeOK, AboutInvoice, ForgetsFirst, Before,
     ListedIsWatched, ForgetsNoneHanded, HandedIsFollowed
<1>3. CASE Abandon
  <2>1. live' = None /\ faults' \in 0 .. MaxFaults /\ UNCHANGED <<stored, pc, index, todo, ahead, history>>
    BY <1>3, InvoiceAssumption DEF Abandon, Fault, TypeOK
  <2>2. ForgetsFirst' /\ ListShrinks
    BY <2>1, InvoiceAssumption DEF ForgetsFirst, ListShrinks
  <2>3. AboutInvoice'
    BY <2>1 DEF AboutInvoice
  <2>4. WhereOK'
    BY <2>1, <2>2, <2>3 DEF WhereOK, TypeOK
  <2> QED
    BY <2>1, <2>2, <2>4, QuietMove, InvoiceAssumption
<1>4. CASE Crash
  <2>1. /\ pc' = [a \in Actors |-> "idle"] /\ index' = [a \in Actors |-> None]
        /\ todo' = [r \in Runs |-> [i \in Indexes |-> "absent"]] /\ live' = None
        /\ ahead' = Unqueued /\ faults' \in 0 .. MaxFaults /\ UNCHANGED <<stored, history>>
    BY <1>4, InvoiceAssumption DEF Crash, Fault, TypeOK
  <2>2. ahead' \in [Actors -> SUBSET Actors]
    BY <2>1 DEF Unqueued
  <2>4. AboutInvoice'
    BY <2>1 DEF AboutInvoice, Answering, Actors
  <2>5. ForgetsFirst' /\ ListShrinks
    BY <2>1, InvoiceAssumption DEF ForgetsFirst, ListShrinks
  <2>6. WhereOK'
    BY <2>1, <2>2, <2>4, <2>5 DEF WhereOK, Waits, Entries
  <2> QED
    BY <2>1, <2>5, <2>6, QuietMove, InvoiceAssumption DEF Actors
<1> QED
  BY <1>1, <1>2, <1>3, <1>4

(* The invariant holds of every state. *)
LEMMA FollowingInductive == Init /\ [][Next]_vars => []IInv
<1>1. Init => IInv
  <2> SUFFICES ASSUME Init PROVE IInv
    OBVIOUS
  <2> USE InvoiceAssumption DEF Init
  <2>1. TypeOK
    BY DEF TypeOK, Waits, Entries, Holdings, Unqueued
  <2>4. AboutInvoice /\ ForgetsFirst
    BY DEF AboutInvoice, ForgetsFirst, Answering, Actors
  <2>5. ListedIsWatched /\ ForgetsNoneHanded /\ HandedIsFollowed
    BY DEF ListedIsWatched, ForgetsNoneHanded, HandedIsFollowed, Actors
  <2> QED
    BY <2>1, <2>4, <2>5 DEF IInv
<1>2. IInv /\ [Next]_vars => IInv'
  BY CreationKeeps, StartKeeps, RunStepKeeps, NodeStepKeeps, OutsideKeeps DEF Next
<1> QED
  BY <1>1, <1>2, PTL

(* Types of the state, for any number of creations, runs and faults. *)
THEOREM InvoicesTypeOK == Spec => []TypeOK
<1>1. IInv => TypeOK
  BY DEF IInv
<1> QED
  BY <1>1, FollowingInductive, PTL DEF Spec

(* answer, release, finish: for any number of runs that overlap, failures  *)
(* and crashes, an invoice whose preimage is out is marked released, and is*)
(* watched until the host is told it was received.                         *)
THEOREM HandedInvoiceIsFollowed == Spec => []HandedIsFollowed
<1>1. IInv => HandedIsFollowed
  BY DEF IInv
<1> QED
  BY <1>1, FollowingInductive, PTL DEF Spec

=============================================================================
