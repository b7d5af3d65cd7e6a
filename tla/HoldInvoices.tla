---------------------------- MODULE HoldInvoices -----------------------------
(***************************************************************************)
(* Being paid: the creation of hold invoices (invoice-creation.ts), their  *)
(* indexes (allocator.ts) and the poll step that releases a preimage, hands*)
(* it to the node and reports how the invoice ended (invoice-step.ts).     *)
(*                                                                         *)
(* As in PaymentFlow, creations and runs are coroutines that interleave at *)
(* every await, and an operation on the activity record or in the balance  *)
(* lane waits its turn there.  An invoice is its index, from which its hash*)
(* and its preimage derive.  What the channels hold for it is what Funds   *)
(* judges; here it only changes as the node likes.                         *)
(***************************************************************************)
EXTENDS Naturals, FiniteSets

CONSTANTS
    MaxIndex,       \* MAX_CHANNEL_INDEX, the allocator's last index
    Creations,      \* creations that may be in progress at once
    Runs,           \* runs of the invoice step that may be unwinding at once
    None,           \* no run, no index
    MaxFaults       \* bound on failed operations, abandoned runs and crashes

Indexes == 1 .. MaxIndex

ASSUME InvoiceAssumption ==
    /\ MaxIndex \in Nat /\ MaxFaults \in Nat
    /\ IsFiniteSet(Runs) /\ Creations \cap Runs = {}
    /\ None \notin Indexes \cup Runs

VARIABLES
    last,           \* stored: the last index allocated, 0 before the first
    record,         \* stored, per index: the policy's record of the invoice
    watched,        \* stored, per index: its entry in the activity record
    held,           \* stored, per index: what the channels' views show of it
    pc,             \* per creation and run: what it waits for
    index,          \* per creation and run: the invoice it is about
    todo,           \* per run: the listed entries it has yet to answer
    live,           \* the run the poller waits for, or None
    ahead,          \* per actor: who waits in its lane since before it joined
    allocated,      \* history, per index: how often it was allocated
    handed,         \* history: invoices whose preimage left the device
    reported,       \* history, per index: the final events the host was given
    faults          \* faults so far

stored == <<last, record, watched, held>>
where == <<pc, index, todo, live, ahead>>
history == <<allocated, handed, reported>>
vars == <<stored, where, history, faults>>

Actors == Creations \cup Runs

(* An entry of the activity record: absent, announced as nothing yet, or   *)
(* as pending.                                                             *)
Entries == {"absent", "new", "Received"}

(* What markHoldInvoiceReleased finds: no TLC, some that may not be        *)
(* released (or not yet), or all of the invoice's amount.                  *)
Holdings == {"nothing", "some", "all"}

LaneOf(p) ==
    CASE p \in {"watch", "list", "mark", "forget"} -> "activity"
      [] p \in {"record", "release"} -> "balance"
      [] OTHER -> ""

(* At, Go: an actor's turn comes when it is first in its lane. *)
INSTANCE LaneQueues

Init ==
    /\ last = 0
    /\ record = [i \in Indexes |-> "none"]
    /\ watched = [i \in Indexes |-> "absent"]
    /\ held = [i \in Indexes |-> "nothing"]
    /\ pc = [a \in Actors |-> "idle"] /\ index = [a \in Actors |-> None]
    /\ todo = [r \in Runs |-> [i \in Indexes |-> "absent"]] /\ live = None
    /\ ahead = Unqueued
    /\ allocated = [i \in Indexes |-> 0]
    /\ handed = {} /\ reported = [i \in Indexes |-> {}]
    /\ faults = 0

-----------------------------------------------------------------------------
Fault == faults < MaxFaults /\ faults' = faults + 1

Larger(m, n) == IF m < n THEN n ELSE m

-----------------------------------------------------------------------------
(* createSdkInvoice *)

(* A mutant of Proposed: the clock alone, which may stand still or go back.*)
ProposedByClock(clock) == clock

(* allocate: the clock's reading, or the index after the last. *)
Proposed(clock) == IF last = 0 THEN clock ELSE Larger(clock, last + 1)

(* allocateInvoiceIndex: an index past the bound is refused. *)
Allocate(c, clock) ==
    LET i == Proposed(clock)
    IN  /\ At(c, "idle") /\ i \in Indexes
        /\ last' = i
        /\ allocated' = [allocated EXCEPT ![i] = @ + 1]
        /\ index' = [index EXCEPT ![c] = i]
        /\ Go(c, "record")
        /\ UNCHANGED <<record, watched, held, todo, live, handed, reported, faults>>

(* The creation returns or throws. *)
Return(c) ==
    /\ Go(c, "idle")
    /\ index' = [index EXCEPT ![c] = None]

(* recordHoldInvoice: a repeat leaves the record as it is. *)
RecordHoldInvoice(c) ==
    /\ At(c, "record")
    /\ record' = [record EXCEPT ![index[c]] = IF @ = "none" THEN "recorded" ELSE @]
    /\ Go(c, "new")
    /\ UNCHANGED <<last, watched, held, index, todo, live, history, faults>>

(* newInvoice answered, and the node's string is the one asked for. *)
NewInvoice(c) ==
    /\ At(c, "new")
    /\ Go(c, "watch")
    /\ UNCHANGED <<stored, index, todo, live, history, faults>>

(* It failed, or checkTenantInvoice refuses the string. *)
NewInvoiceRefused(c) ==
    /\ At(c, "new")
    /\ Return(c)
    /\ UNCHANGED <<stored, todo, live, history, faults>>

Watch(c) ==
    /\ At(c, "watch")
    /\ watched' = [watched EXCEPT ![index[c]] = IF @ = "absent" THEN "new" ELSE @]
    /\ Return(c)
    /\ UNCHANGED <<last, record, held, todo, live, history, faults>>

CreationFails(c) ==
    /\ Fault
    /\ LaneOf(pc[c]) # "" /\ At(c, pc[c])
    /\ Return(c)
    /\ UNCHANGED <<stored, todo, live, history>>

(* The signing step claims commitments that add or remove the invoice's    *)
(* TLCs; a channel is filed on a recorded invoice only, and once that is   *)
(* released nothing here asks what is held.                                *)
Hold(i, h) ==
    /\ record[i] = "recorded" /\ held[i] # h
    /\ held' = [held EXCEPT ![i] = h]
    /\ UNCHANGED <<last, record, watched, where, history, faults>>

-----------------------------------------------------------------------------
(* buildInvoiceStep *)

Start(r) ==
    /\ At(r, "idle") /\ live = None
    /\ live' = r
    /\ Go(r, "list")
    /\ UNCHANGED <<stored, index, todo, history, faults>>

List(r) ==
    /\ At(r, "list")
    /\ todo' = [todo EXCEPT ![r] = watched]
    /\ Go(r, "pick")
    /\ UNCHANGED <<stored, index, live, history, faults>>

(* The step settles: the poller waits for it no more. *)
End(r) ==
    /\ Go(r, "idle")
    /\ todo' = [todo EXCEPT ![r] = [i \in Indexes |-> "absent"]]
    /\ live' = IF live = r THEN None ELSE live

(* answerEachPolled: nothing is left to answer, or the run was abandoned. *)
Leave(r) ==
    /\ At(r, "pick")
    /\ live # r \/ \A i \in Indexes : todo[r][i] = "absent"
    /\ End(r)
    /\ UNCHANGED <<stored, index, history, faults>>

Pick(r, i) ==
    /\ At(r, "pick") /\ live = r /\ todo[r][i] # "absent"
    /\ index' = [index EXCEPT ![r] = i]
    /\ Go(r, "get")
    /\ UNCHANGED <<stored, todo, live, history, faults>>

(* The answer of one invoice returns or throws. *)
Done(r) ==
    /\ Go(r, "pick")
    /\ todo' = [todo EXCEPT ![r][index[r]] = "absent"]
    /\ index' = [index EXCEPT ![r] = None]

(* getInvoice says "Open", or fails. *)
AnswerOpen(r) ==
    /\ At(r, "get")
    /\ Done(r)
    /\ UNCHANGED <<stored, live, history, faults>>

(* "Received": announced as pending first, unless the entry says it was. *)
AnswerReceived(r) ==
    /\ At(r, "get")
    /\ IF todo[r][index[r]] = "new" /\ live # r
       THEN Done(r)
       ELSE /\ Go(r, IF todo[r][index[r]] = "new" THEN "mark" ELSE "read")
            /\ UNCHANGED <<index, todo>>
    /\ UNCHANGED <<stored, live, history, faults>>

(* "Paid", or "Expired" and "Cancelled": the record is read. *)
AnswerFinal(r) ==
    /\ At(r, "get")
    /\ \E p \in {"paid", "unpaid"} : Go(r, p)
    /\ UNCHANGED <<stored, index, todo, live, history, faults>>

(* activity.mark throws when the invoice is watched no more. *)
Mark(r) ==
    /\ At(r, "mark")
    /\ IF watched[index[r]] = "absent"
       THEN Done(r) /\ UNCHANGED watched
       ELSE /\ watched' = [watched EXCEPT ![index[r]] = "Received"]
            /\ Go(r, "read") /\ UNCHANGED <<index, todo>>
    /\ UNCHANGED <<last, record, held, live, history, faults>>

(* settle: from the call on the preimage is the node's. *)
HandOver(r) ==
    /\ Go(r, "settle")
    /\ handed' = handed \cup {index[r]}
    /\ UNCHANGED <<index, todo>>

(* A mutant of ReadRecord: one released before is taken for settled. *)
ReadRecordOnce(r) ==
    /\ At(r, "read")
    /\ IF live # r \/ record[index[r]] = "released" THEN Done(r)
       ELSE Go(r, "release") /\ UNCHANGED <<index, todo>>
    /\ UNCHANGED <<stored, live, history, faults>>

(* release, up to the mark: one released before is settled again. *)
ReadRecord(r) ==
    /\ At(r, "read")
    /\ IF live # r THEN Done(r) /\ UNCHANGED handed
       ELSE IF record[index[r]] = "released" THEN HandOver(r)
       ELSE Go(r, "release") /\ UNCHANGED <<index, todo, handed>>
    /\ UNCHANGED <<stored, live, allocated, reported, faults>>

(* judgeHoldInvoiceRelease passes, or did for an earlier mark. *)
MayRelease(i) == record[i] = "released" \/ held[i] = "all"

(* markHoldInvoiceReleased, and the settlement it is for. *)
Release(r) ==
    /\ At(r, "release")
    /\ MayRelease(index[r])
    /\ record' = [record EXCEPT ![index[r]] = "released"]
    /\ IF live = r THEN HandOver(r) ELSE Done(r) /\ UNCHANGED handed
    /\ UNCHANGED <<last, watched, held, live, allocated, reported, faults>>

(* Refused.  One of RELEASE_WAITS, for an invoice past its expiry, may mean *)
(* that it ended; else the next run tries again.                           *)
ReleaseRefused(r) ==
    /\ At(r, "release")
    /\ ~MayRelease(index[r])
    /\ \/ Done(r)
       \/ Go(r, "listed") /\ UNCHANGED <<index, todo>>
    /\ UNCHANGED <<stored, live, history, faults>>

(* The node took the preimage, says the invoice is paid, or failed. *)
Settled(r) ==
    /\ At(r, "settle")
    /\ Done(r)
    /\ UNCHANGED <<stored, live, history, faults>>

(* A mutant of Finish: an abandoned run forgets all the same. *)
FinishAbandoned(r, event) ==
    /\ reported' = [reported EXCEPT ![index[r]] = @ \cup IF live = r THEN {event} ELSE {}]
    /\ Go(r, "forget") /\ UNCHANGED <<index, todo>>

(* finish: the event, then forget, unless the run was abandoned. *)
Finish(r, event) ==
    IF live = r
    THEN /\ reported' = [reported EXCEPT ![index[r]] = @ \cup {event}]
         /\ Go(r, "forget") /\ UNCHANGED <<index, todo>>
    ELSE Done(r) /\ UNCHANGED reported

(* listsHoldInvoiceTlc *)
Listed(r) ==
    /\ At(r, "listed")
    /\ IF held[index[r]] = "nothing" THEN Finish(r, "EXPIRED") ELSE Done(r) /\ UNCHANGED reported
    /\ UNCHANGED <<stored, live, allocated, handed, faults>>

(* Only the device's preimage pays the invoice: an anomaly otherwise. *)
Paid(r) ==
    /\ At(r, "paid")
    /\ IF record[index[r]] = "released" THEN Finish(r, "RECEIVED") ELSE Done(r) /\ UNCHANGED reported
    /\ UNCHANGED <<stored, live, allocated, handed, faults>>

(* Only an invoice never released ends unpaid: an anomaly otherwise. *)
Unpaid(r) ==
    /\ At(r, "unpaid")
    /\ IF record[index[r]] = "released" THEN Done(r) /\ UNCHANGED reported ELSE Finish(r, "EXPIRED")
    /\ UNCHANGED <<stored, live, allocated, handed, faults>>

Forget(r) ==
    /\ At(r, "forget")
    /\ watched' = [watched EXCEPT ![index[r]] = "absent"]
    /\ Done(r)
    /\ UNCHANGED <<last, record, held, live, history, faults>>

(* An operation on a record fails: the invoice's answer is over, or, when  *)
(* the list cannot be read, the run.                                       *)
RunFails(r) ==
    /\ Fault
    /\ pc[r] \in {"list", "mark", "read", "release", "listed", "paid", "unpaid", "forget"}
    /\ At(r, pc[r])
    /\ IF pc[r] = "list" THEN End(r) /\ UNCHANGED index ELSE Done(r) /\ UNCHANGED live
    /\ UNCHANGED <<stored, history>>

-----------------------------------------------------------------------------
(* The deadline passes, or the host disconnects. *)
Abandon ==
    /\ Fault
    /\ live # None
    /\ live' = None
    /\ UNCHANGED <<stored, pc, index, todo, ahead, history>>

Crash ==
    /\ Fault
    /\ pc' = [a \in Actors |-> "idle"] /\ index' = [a \in Actors |-> None]
    /\ todo' = [r \in Runs |-> [i \in Indexes |-> "absent"]] /\ live' = None
    /\ ahead' = Unqueued
    /\ UNCHANGED <<stored, history>>

CreationStep(c) ==
    \/ RecordHoldInvoice(c) \/ NewInvoice(c) \/ NewInvoiceRefused(c) \/ Watch(c)

RunStep(r) ==
    \/ List(r) \/ Leave(r) \/ (\E i \in Indexes : Pick(r, i))
    \/ Mark(r) \/ ReadRecord(r) \/ Release(r) \/ ReleaseRefused(r)
    \/ Listed(r) \/ Paid(r) \/ Unpaid(r) \/ Forget(r)

NodeStep(r) == AnswerOpen(r) \/ AnswerReceived(r) \/ AnswerFinal(r) \/ Settled(r)

Next ==
    \/ \E c \in Creations : (\E t \in Indexes : Allocate(c, t)) \/ CreationStep(c) \/ CreationFails(c)
    \/ \E i \in Indexes, h \in Holdings : Hold(i, h)
    \/ \E r \in Runs : Start(r) \/ RunStep(r) \/ NodeStep(r) \/ RunFails(r)
    \/ Abandon
    \/ Crash

Spec == Init /\ [][Next]_vars

(* Storage answers, and the poller starts run after run.  A call that hangs*)
(* is a run abandoned; the run the poller waits for is answered, and a held*)
(* invoice asked about again and again is "Received" one day.              *)
Fairness ==
    /\ \A c \in Creations : WF_vars(RecordHoldInvoice(c) \/ Watch(c))
    /\ \A r \in Runs :
        /\ WF_vars(Start(r)) /\ WF_vars(RunStep(r)) /\ WF_vars(live = r /\ Settled(r))
        /\ \A i \in Indexes : SF_vars(index[r] = i /\ AnswerReceived(r))

FairSpec == Spec /\ Fairness

-----------------------------------------------------------------------------
Waits == {"idle", "record", "new", "watch", "list", "pick", "get", "mark", "read",
          "release", "listed", "settle", "paid", "unpaid", "forget"}

TypeOK ==
    /\ last \in Indexes \cup {0}
    /\ record \in [Indexes -> {"none", "recorded", "released"}]
    /\ watched \in [Indexes -> Entries] /\ held \in [Indexes -> Holdings]
    /\ pc \in [Actors -> Waits] /\ index \in [Actors -> Indexes \cup {None}]
    /\ todo \in [Runs -> [Indexes -> Entries]] /\ live \in Runs \cup {None}
    /\ ahead \in [Actors -> SUBSET Actors]
    /\ allocated \in [Indexes -> Nat] /\ handed \in SUBSET Indexes
    /\ reported \in [Indexes -> SUBSET {"RECEIVED", "EXPIRED"}]
    /\ faults \in 0 .. MaxFaults

(* allocate: creations at once, a clock that stands still or goes back and *)
(* crashes never give two invoices one index, that is one preimage.        *)
OneInvoicePerIndex == \A i \in Indexes : allocated[i] <= 1

(* answer, release, finish: once its preimage is out an invoice is followed*)
(* until the host is told it was received, whatever the node answers, the  *)
(* runs that overlap and the crash or failed write in between.             *)
HandedIsFollowed ==
    \A i \in handed : record[i] = "released" /\ (watched[i] # "absent" \/ "RECEIVED" \in reported[i])

(* answer, "Only an invoice never released ends unpaid: a released preimage*)
(* may still pay it, so the anomaly keeps it watched".                     *)
ReleasedIsWatched ==
    \A i \in Indexes :
        record[i] = "released" => watched[i] # "absent" \/ "RECEIVED" \in reported[i]

(* release, "it repairs a stop between the mark and the settlement": the   *)
(* preimage of an invoice marked released is handed to the node, unless    *)
(* the host was told the invoice ended.                                    *)
ReleasedIsSettled ==
    \A i \in Indexes : record[i] = "released" ~> i \in handed \/ reported[i] # {}

=============================================================================
