----------------------------- MODULE PaymentFlow -----------------------------
(***************************************************************************)
(* Paying an invoice: the host's transfer (payment-sending.ts) and the poll*)
(* step that reports how a payment ended (payment-step.ts), over the record*)
(* of what is watched (activity.ts) and the debit intents of the policy.   *)
(*                                                                         *)
(* Both are coroutines that interleave at every await.  An operation on a  *)
(* record waits in its lane, first come first served (SignerStore), and is *)
(* one step once its turn comes.  The poller gives up on a run that takes  *)
(* too long, or when the host disconnects, and starts another: the run it  *)
(* abandoned goes on until it notices.  The node answers anything.         *)
(***************************************************************************)
EXTENDS Naturals, FiniteSets

CONSTANTS
    Hashes,         \* payment hashes
    Unpayable,      \* those filed as an invoice's, or a twin's
    Transfers,      \* transfers that may be in progress at once
    Runs,           \* runs of the payment step that may be unwinding at once
    None,           \* no run, no hash
    MaxCalls,       \* bound on the transfers called
    MaxFaults       \* bound on failed operations, abandoned runs and crashes

ASSUME PaymentAssumption ==
    /\ Unpayable \subseteq Hashes
    /\ IsFiniteSet(Runs) /\ Transfers \cap Runs = {}
    /\ None \notin Hashes \cup Runs
    /\ MaxCalls \in Nat /\ MaxFaults \in Nat

VARIABLES
    watched,        \* stored: the payments of the activity record
    intent,         \* stored, per hash: the debit intent, "none", "open" or "closed"
    charged,        \* stored: hashes some view was charged under
    sending,        \* memory: hashes of transfers in progress
    reading,        \* memory: hashes a run marked as being read
    pc,             \* per transfer and run: what it waits for
    hash,           \* per transfer and run: the payment it is about
    todo,           \* per run: the listed payments it has yet to answer
    live,           \* the run the poller waits for, or None
    ahead,          \* per actor: who waits in its lane since before it joined
    attempt,        \* history, per hash: intents recorded so far
    seen,           \* history, per run: the attempts when it began its read
    unmarked,       \* history: an abandoned run took the mark off what the next one reads
    calls,          \* transfers called so far
    faults          \* faults so far

stored == <<watched, intent, charged>>
marks == <<sending, reading>>
where == <<pc, hash, todo, live, ahead>>
history == <<attempt, seen, unmarked>>
recorded == <<attempt, seen>>
bounds == <<calls, faults>>
vars == <<stored, marks, where, history, bounds>>

Actors == Transfers \cup Runs

(* What an actor can wait for. *)
Waits == {"idle", "watch", "record", "call", "withdraw", "drop",
          "list", "pick", "read", "check", "look", "close", "forget"}

(* The lane an operation runs in; "" where the wait is for something else. *)
LaneOf(p) ==
    CASE p \in {"watch", "drop", "list", "check", "forget"} -> "activity"
      [] p \in {"record", "withdraw", "close"} -> "balance"
      [] OTHER -> ""

(* At, Go: an actor's turn comes when it is first in its lane. *)
INSTANCE LaneQueues

Init ==
    /\ watched = {} /\ intent = [h \in Hashes |-> "none"] /\ charged = {}
    /\ sending = {} /\ reading = {}
    /\ pc = [a \in Actors |-> "idle"] /\ hash = [a \in Actors |-> None]
    /\ todo = [r \in Runs |-> {}] /\ live = None
    /\ ahead = Unqueued
    /\ attempt = [h \in Hashes |-> 0] /\ seen = [r \in Runs |-> 0] /\ unmarked = FALSE
    /\ calls = 0 /\ faults = 0

Fault == faults < MaxFaults /\ faults' = faults + 1

-----------------------------------------------------------------------------
(* transferSdkPayment, sendWatchedPayment *)

(* A mutant of MayBegin: the reads in progress are not asked. *)
MayBeginMidRead(h) == h \notin sending

MayBegin(h) == h \notin sending \cup reading

(* The invoice was checked; refused while its hash is sent or read. *)
Begin(t, h) ==
    /\ calls < MaxCalls /\ calls' = calls + 1
    /\ At(t, "idle") /\ MayBegin(h)
    /\ sending' = sending \cup {h}
    /\ hash' = [hash EXCEPT ![t] = h]
    /\ Go(t, "watch")
    /\ UNCHANGED <<stored, reading, todo, live, history, faults>>

(* A mutant of Settle: a throw leaves the hash marked. *)
SettleMarked(t) ==
    /\ Go(t, "idle")
    /\ hash' = [hash EXCEPT ![t] = None]
    /\ sending' = IF pc[t] = "call" THEN sending \ {hash[t]} ELSE sending

(* transferSdkPayment's finally: the call returns or throws. *)
Settle(t) ==
    /\ Go(t, "idle")
    /\ hash' = [hash EXCEPT ![t] = None]
    /\ sending' = sending \ {hash[t]}

(* watchIfAbsent: one still watched is a payment not reported yet. *)
Watch(t) ==
    /\ At(t, "watch")
    /\ IF hash[t] \in watched
       THEN Settle(t) /\ UNCHANGED watched
       ELSE /\ watched' = watched \cup {hash[t]}
            /\ Go(t, "record") /\ UNCHANGED <<hash, sending>>
    /\ UNCHANGED <<intent, charged, reading, todo, live, history, bounds>>

(* recordPaymentIntent: an intent already open keeps the watch, any other  *)
(* refusal drops it.                                                       *)
Record(t) ==
    LET h == hash[t]
        refused == h \in Unpayable \cup charged
    IN  /\ At(t, "record")
        /\ IF intent[h] = "open" THEN Settle(t) /\ UNCHANGED <<intent, attempt>>
           ELSE /\ Go(t, IF refused THEN "drop" ELSE "call")
                /\ intent' = IF refused THEN intent ELSE [intent EXCEPT ![h] = "open"]
                /\ attempt' = IF refused THEN attempt ELSE [attempt EXCEPT ![h] = @ + 1]
                /\ UNCHANGED <<hash, sending>>
        /\ UNCHANGED <<watched, charged, reading, todo, live, seen, unmarked, bounds>>

(* send_payment was accepted, runs already, or got no answer: the step     *)
(* reports what became of it.                                              *)
SendKept(t) ==
    /\ At(t, "call")
    /\ Settle(t)
    /\ UNCHANGED <<stored, reading, todo, live, history, bounds>>

(* Any other refusal ran nothing under the intent. *)
SendRefused(t) ==
    /\ At(t, "call")
    /\ Go(t, "withdraw")
    /\ UNCHANGED <<stored, marks, hash, todo, live, history, bounds>>

(* closeDebitIntent, then forget. *)
Withdraw(t) ==
    /\ At(t, "withdraw")
    /\ intent' = [intent EXCEPT ![hash[t]] = "closed"]
    /\ Go(t, "drop")
    /\ UNCHANGED <<watched, charged, marks, hash, todo, live, history, bounds>>

Drop(t) ==
    /\ At(t, "drop")
    /\ watched' = watched \ {hash[t]}
    /\ Settle(t)
    /\ UNCHANGED <<intent, charged, reading, todo, live, history, bounds>>

(* An operation on a record fails: the transfer throws. *)
TransferFails(t) ==
    /\ Fault
    /\ LaneOf(pc[t]) # "" /\ At(t, pc[t])
    /\ Settle(t)
    /\ UNCHANGED <<stored, reading, todo, live, history, calls>>

(* A view is charged for the payment, in the signing step. *)
Charge(h) ==
    /\ intent[h] # "none" /\ h \notin charged
    /\ charged' = charged \cup {h}
    /\ UNCHANGED <<watched, intent, marks, where, history, bounds>>

-----------------------------------------------------------------------------
(* buildPaymentStep *)

(* The poller starts a run, which asks for what is watched. *)
Start(r) ==
    /\ At(r, "idle") /\ live = None
    /\ live' = r
    /\ Go(r, "list")
    /\ UNCHANGED <<stored, marks, hash, todo, history, bounds>>

List(r) ==
    /\ At(r, "list")
    /\ todo' = [todo EXCEPT ![r] = watched]
    /\ Go(r, "pick")
    /\ UNCHANGED <<stored, marks, hash, live, history, bounds>>

(* The step settles: the poller waits for it no more. *)
End(r) ==
    /\ Go(r, "idle")
    /\ todo' = [todo EXCEPT ![r] = {}]
    /\ live' = IF live = r THEN None ELSE live

(* answerEachPolled: nothing is left to answer, or the run was abandoned. *)
Leave(r) ==
    /\ At(r, "pick")
    /\ todo[r] = {} \/ live # r
    /\ End(r)
    /\ UNCHANGED <<stored, marks, hash, history, bounds>>

(* A mutant of MayRead: a transfer in progress does not stop the read. *)
MayReadMidSend(h) == TRUE

MayRead(h) == h \notin sending

(* answer, up to its first await. *)
Pick(r, h) ==
    /\ At(r, "pick") /\ live = r /\ h \in todo[r]
    /\ todo' = [todo EXCEPT ![r] = @ \ {h}]
    /\ IF MayRead(h)
       THEN /\ reading' = reading \cup {h}
            /\ hash' = [hash EXCEPT ![r] = h]
            /\ seen' = [seen EXCEPT ![r] = attempt[h]]
            /\ Go(r, "read")
       ELSE UNCHANGED <<reading, hash, seen, pc, ahead>>
    /\ UNCHANGED <<stored, sending, live, attempt, unmarked, bounds>>

(* answer's finally: whoever else reads the hash, its mark goes. *)
Done(r) ==
    /\ Go(r, "pick")
    /\ reading' = reading \ {hash[r]}
    /\ hash' = [hash EXCEPT ![r] = None]
    /\ unmarked' = (unmarked \/ (live \notin {r, None} /\ hash[live] = hash[r]))

(* The payment runs on, cannot be read, or the run was abandoned. *)
ReadNothing(r) ==
    /\ At(r, "read")
    /\ Done(r)
    /\ UNCHANGED <<stored, sending, todo, live, recorded, bounds>>

(* The node says it ended, or that it has no such payment. *)
ReadEnd(r) ==
    /\ At(r, "read") /\ live = r
    /\ Go(r, "check")
    /\ UNCHANGED <<stored, marks, hash, todo, live, history, bounds>>

(* finish: forgotten since it was listed, or not. *)
Check(r) ==
    /\ At(r, "check")
    /\ IF hash[r] \in watched
       THEN Go(r, "look") /\ UNCHANGED <<reading, hash, unmarked>>
       ELSE Done(r)
    /\ UNCHANGED <<stored, sending, todo, live, recorded, bounds>>

(* readDebitIntent *)
Look(r) ==
    /\ At(r, "look")
    /\ IF live = r
       THEN /\ Go(r, IF intent[hash[r]] = "none" THEN "forget" ELSE "close")
            /\ UNCHANGED <<reading, hash, unmarked>>
       ELSE Done(r)
    /\ UNCHANGED <<stored, sending, todo, live, recorded, bounds>>

(* closeDebitIntent; the event is announced if the run is still waited for.*)
Close(r) ==
    /\ At(r, "close")
    /\ intent' = [intent EXCEPT ![hash[r]] = "closed"]
    /\ IF live = r THEN Go(r, "forget") /\ UNCHANGED <<reading, hash, unmarked>> ELSE Done(r)
    /\ UNCHANGED <<watched, charged, sending, todo, live, recorded, bounds>>

Forget(r) ==
    /\ At(r, "forget")
    /\ watched' = watched \ {hash[r]}
    /\ Done(r)
    /\ UNCHANGED <<intent, charged, sending, todo, live, recorded, bounds>>

(* An operation on a record fails: the payment's answer is over, or, when  *)
(* the list cannot be read, the run.                                       *)
RunFails(r) ==
    /\ Fault
    /\ LaneOf(pc[r]) # "" \/ pc[r] = "look"
    /\ At(r, pc[r])
    /\ IF pc[r] = "list" THEN End(r) /\ UNCHANGED <<reading, hash, unmarked>>
       ELSE Done(r) /\ UNCHANGED <<todo, live>>
    /\ UNCHANGED <<stored, sending, recorded, calls>>

-----------------------------------------------------------------------------
(* The deadline passes, or the host disconnects. *)
Abandon ==
    /\ Fault
    /\ live # None
    /\ live' = None
    /\ UNCHANGED <<stored, marks, pc, hash, todo, ahead, history, calls>>

Crash ==
    /\ Fault
    /\ sending' = {} /\ reading' = {}
    /\ pc' = [a \in Actors |-> "idle"] /\ hash' = [a \in Actors |-> None]
    /\ todo' = [r \in Runs |-> {}] /\ live' = None
    /\ ahead' = Unqueued
    /\ UNCHANGED <<stored, history, calls>>

TransferStep(t) ==
    \/ Watch(t) \/ Record(t) \/ SendKept(t) \/ SendRefused(t) \/ Withdraw(t) \/ Drop(t)

ReadStep(r) == ReadNothing(r) \/ ReadEnd(r)

RunStep(r) ==
    \/ List(r) \/ Leave(r) \/ (\E h \in Hashes : Pick(r, h))
    \/ Check(r) \/ Look(r) \/ Close(r) \/ Forget(r)

Next ==
    \/ \E t \in Transfers : (\E h \in Hashes : Begin(t, h)) \/ TransferStep(t) \/ TransferFails(t)
    \/ \E r \in Runs : Start(r) \/ RunStep(r) \/ ReadStep(r) \/ RunFails(r)
    \/ \E h \in Hashes : Charge(h)
    \/ Abandon
    \/ Crash

Spec == Init /\ [][Next]_vars

(* Storage and send_payment answer in the end, and the poller, while the   *)
(* host is connected, starts run after run.  A read may hang for ever, but *)
(* a payment asked about again and again has ended one day.                *)
Fairness ==
    /\ \A t \in Transfers : WF_vars(TransferStep(t))
    /\ \A r \in Runs : WF_vars(RunStep(r)) /\ WF_vars(Start(r)) /\ SF_vars(ReadEnd(r))

FairSpec == Spec /\ Fairness

-----------------------------------------------------------------------------
(* The type invariant. *)
TypeOK ==
    /\ watched \subseteq Hashes /\ charged \subseteq Hashes
    /\ intent \in [Hashes -> {"none", "open", "closed"}]
    /\ sending \subseteq Hashes /\ reading \subseteq Hashes
    /\ pc \in [Actors -> Waits] /\ hash \in [Actors -> Hashes \cup {None}]
    /\ todo \in [Runs -> SUBSET Hashes] /\ live \in Runs \cup {None}
    /\ ahead \in [Actors -> SUBSET Actors]
    /\ attempt \in [Hashes -> Nat] /\ seen \in [Runs -> Nat] /\ unmarked \in BOOLEAN
    /\ calls \in 0 .. MaxCalls /\ faults \in 0 .. MaxFaults

(* sendWatchedPayment, "no failure in between leaves an open intent the    *)
(* step never closes": an open intent is watched, through failed writes,   *)
(* crashes, refusals and retries.                                          *)
OpenIsWatched == \A h \in Hashes : intent[h] = "open" => h \in watched

(* transferSdkPayment, "the step never reads a hash mid-send, nor is one   *)
(* sent mid-read": while the run the poller waits for is about a payment,  *)
(* no transfer of it is at its send.                                       *)
NeverSentMidRead ==
    \A r \in Runs, t \in Transfers :
        (live = r /\ pc[r] \in {"read", "check", "look", "close", "forget"} /\ pc[t] = "call")
            => hash[r] # hash[t]

(* transferSdkPayment, sendWatchedPayment: as long as no abandoned run has *)
(* taken the mark off the payment that the run after it reads, no payment  *)
(* is sent while it is read and every open intent is watched.              *)
MarksKeepWatch == ~unmarked => OpenIsWatched /\ NeverSentMidRead

(* answer, "Its 'not found' would fail a send still on its way": as long   *)
(* as the marks stay, a run, abandoned or not, closes and forgets only the *)
(* attempt whose end it read, never a later one under the same hash.       *)
FinishesWhatItRead ==
    ~unmarked => \A r \in Runs : pc[r] \in {"close", "forget"} => seen[r] = attempt[hash[r]]

(* finish, transferSdkPayment's finally: every payment watched is in the   *)
(* end reported or refused, and watched no more.                           *)
WatchedEnds == \A h \in Hashes : h \in watched ~> h \notin watched

=============================================================================
