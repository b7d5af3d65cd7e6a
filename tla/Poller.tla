------------------------------- MODULE Poller -------------------------------
(***************************************************************************)
(* ActivityPoller (poller.ts) over its TimerSlot (timer-slot.ts): the loop *)
(* that runs the poll steps one after the other, tick after tick.          *)
(*                                                                         *)
(* tick() is a coroutine: stop() does not end it, but leaves it to find    *)
(* the generation changed when it next runs, while start() may begin       *)
(* another at once.  Of a tick's generation, and of a timer's arming, only *)
(* whether it is still the poller's own is kept, so nothing is counted.    *)
(* A listener may call the poller from an event: that is one of the host's *)
(* calls below, before or after the step that emits it.                    *)
(*                                                                         *)
(* Its names are its own, so that it can stand beside another component.   *)
(***************************************************************************)
EXTENDS Naturals

CONSTANTS
    Ticks,          \* ticks that may be unwinding at once
    Steps,          \* number of poll steps
    None            \* no tick

ASSUME PollerAssumption == None \notin Ticks /\ Steps \in Nat \ {0}

VARIABLES
    running, ticking, again,
    inFlight,       \* the tick whose step's run stop() would abandon, or None
    pc,             \* per tick: "free", "await" its step's run, or "woken" by it
    current,        \* per tick: it began under the poller's generation
    at,             \* per tick: the step it is at
    timers,         \* of the host's timers, "held" in the slot or "dropped" and not cancelled
    stray           \* some abandoned step is still running

pollerVars == <<running, ticking, again, inFlight, pc, current, at, timers, stray>>

PollerInit ==
    /\ running = FALSE /\ ticking = FALSE /\ again = FALSE
    /\ inFlight = None
    /\ pc = [t \in Ticks |-> "free"]
    /\ current = [t \in Ticks |-> FALSE]
    /\ at = [t \in Ticks |-> 1]
    /\ timers = {} /\ stray = FALSE

-----------------------------------------------------------------------------
(* TimerSlot.clear: the host may ignore the cancel. *)
Clear ==
    LET rest == timers \ {"held"}
    IN  timers' = rest \/ (timers # rest /\ timers' = rest \cup {"dropped"})

(* runStep: a timer that throws rejects it before the step is called. *)
RunStep(t, i) ==
    /\ at' = [at EXCEPT ![t] = i]
    /\ \/ pc' = [pc EXCEPT ![t] = "await"] /\ inFlight' = t
       \/ pc' = [pc EXCEPT ![t] = "woken"] /\ UNCHANGED inFlight

(* tick, up to its first await. *)
Tick(t) ==
    /\ current' = [current EXCEPT ![t] = TRUE]
    /\ ticking' = TRUE
    /\ RunStep(t, 1)

Start(t) ==
    /\ ~running /\ pc[t] = "free"
    /\ running' = TRUE
    /\ Tick(t)
    /\ UNCHANGED <<again, timers, stray>>

(* A mutant of NewGeneration: ticks begun before go on. *)
SameGeneration == current

NewGeneration == [t \in Ticks |-> FALSE]

(* stop: the run in flight is abandoned and its tick released. *)
Stop ==
    /\ running' = FALSE /\ again' = FALSE
    /\ current' = NewGeneration
    /\ inFlight' = None
    /\ pc' = [t \in Ticks |-> IF t = inFlight THEN "woken" ELSE pc[t]]
    /\ stray' = (stray \/ inFlight # None)
    /\ Clear
    /\ UNCHANGED <<ticking, at>>

(* pollNow, during a tick. *)
PollAgain ==
    /\ running /\ ticking
    /\ again' = TRUE
    /\ UNCHANGED <<running, ticking, inFlight, pc, current, at, timers, stray>>

(* pollNow, between ticks. *)
PollNow(t) ==
    /\ running /\ ~ticking /\ pc[t] = "free"
    /\ Clear
    /\ Tick(t)
    /\ UNCHANGED <<running, again, stray>>

(* The timer the slot holds fires. *)
Fire(t) ==
    /\ "held" \in timers /\ pc[t] = "free"
    /\ timers' = timers \ {"held"}
    /\ Tick(t)
    /\ UNCHANGED <<running, again, stray>>

(* One it dropped fires: its arming is over. *)
FireDropped ==
    /\ "dropped" \in timers
    /\ timers' = timers \ {"dropped"}
    /\ UNCHANGED <<running, ticking, again, inFlight, pc, current, at, stray>>

-----------------------------------------------------------------------------
(* runStep's finish: only the run in flight is forgotten. *)
Released(t) == IF inFlight = t THEN None ELSE inFlight

(* The step settles, and its run with it. *)
StepSettles(t) ==
    /\ pc[t] = "await"
    /\ pc' = [pc EXCEPT ![t] = "woken"]
    /\ inFlight' = Released(t)
    /\ UNCHANGED <<running, ticking, again, current, at, timers, stray>>

(* A mutant of Overdue: a step has no deadline. *)
NeverOverdue(t) == FALSE

Overdue(t) == pc[t] = "await"

(* Its deadline passes: the run is abandoned, the step goes on. *)
Deadline(t) ==
    /\ Overdue(t)
    /\ pc' = [pc EXCEPT ![t] = "woken"]
    /\ inFlight' = Released(t)
    /\ stray' = TRUE
    /\ UNCHANGED <<running, ticking, again, current, at, timers>>

(* A step whose run was abandoned settles: no tick waits for it. *)
StraySettles ==
    /\ stray /\ stray' \in BOOLEAN
    /\ inFlight' = Released(None)
    /\ UNCHANGED <<running, ticking, again, pc, current, at, timers>>

(* tick goes on after its step: a stop() came in between. *)
Outdated(t) ==
    /\ pc[t] = "woken" /\ ~current[t]
    /\ pc' = [pc EXCEPT ![t] = "free"]
    /\ UNCHANGED <<running, ticking, again, inFlight, current, at, timers, stray>>

AtLastStep(t) == at[t] = Steps

NextStep(t) ==
    /\ pc[t] = "woken" /\ current[t] /\ ~AtLastStep(t)
    /\ RunStep(t, at[t] + 1)
    /\ UNCHANGED <<running, ticking, again, current, timers, stray>>

(* A mutant of TickAgain: the request is kept. *)
TickAgainKept(t) ==
    /\ pc[t] = "woken" /\ current[t] /\ AtLastStep(t) /\ again
    /\ Tick(t)
    /\ UNCHANGED <<running, again, timers, stray>>

TickAgain(t) ==
    /\ pc[t] = "woken" /\ current[t] /\ AtLastStep(t) /\ again
    /\ again' = FALSE
    /\ Tick(t)
    /\ UNCHANGED <<running, timers, stray>>

(* The tick ends and arms the next; a timer that throws ends the loop. *)
TickEnds(t) ==
    /\ pc[t] = "woken" /\ current[t] /\ AtLastStep(t) /\ ~again
    /\ pc' = [pc EXCEPT ![t] = "free"]
    /\ ticking' = FALSE
    /\ \/ timers' = timers \cup {"held"} /\ UNCHANGED running
       \/ running' = FALSE /\ UNCHANGED timers
    /\ UNCHANGED <<again, inFlight, current, at, stray>>

Resume(t) == Outdated(t) \/ NextStep(t) \/ TickAgain(t) \/ TickEnds(t)

PollerNext ==
    \/ \E t \in Ticks : \/ Start(t) \/ PollNow(t) \/ Fire(t)
                        \/ StepSettles(t) \/ Deadline(t) \/ Resume(t)
    \/ Stop \/ PollAgain \/ FireDropped \/ StraySettles

PollerSpec == PollerInit /\ [][PollerNext]_pollerVars

(* Promises that settled run on and a step's deadline passes; a step, or   *)
(* the host, need do nothing.                                              *)
FairPollerSpec == PollerSpec /\ \A t \in Ticks : WF_pollerVars(Resume(t)) /\ WF_pollerVars(Deadline(t))

-----------------------------------------------------------------------------
PollerTypeOK ==
    /\ running \in BOOLEAN /\ ticking \in BOOLEAN /\ again \in BOOLEAN
    /\ inFlight \in Ticks \cup {None}
    /\ pc \in [Ticks -> {"free", "await", "woken"}]
    /\ current \in [Ticks -> BOOLEAN]
    /\ at \in [Ticks -> 1 .. Steps]
    /\ timers \in SUBSET {"held", "dropped"}
    /\ stray \in BOOLEAN

(* A tick of the poller's own generation, not yet at its end. *)
Looping(t) == pc[t] # "free" /\ current[t]

(* start, stop, tick: while the poller runs there is exactly one loop, a   *)
(* tick of its generation or a timer held for the next, however stop() and *)
(* start() cut into ticks; once stopped there is none.                     *)
OneLoop ==
    /\ \A t, u \in Ticks : Looping(t) /\ Looping(u) => t = u
    /\ \A t \in Ticks : Looping(t) => running /\ "held" \notin timers
    /\ "held" \in timers => running
    /\ running => "held" \in timers \/ \E t \in Ticks : Looping(t)

(* runStep's finish, stop: whatever ends late, the one run being waited    *)
(* for is the one a stop() would abandon, and it is of this generation.    *)
LiveIsInFlight == \A t \in Ticks : pc[t] = "await" => inFlight = t /\ current[t]

(* pollNow: what is asked during a tick is a tick once more, or stopped.   *)
NoLostPoll == again ~> ~again

(* runStep's deadline: a step that never settles does not keep the later   *)
(* ones from running.                                                      *)
EveryStepRuns == \A t \in Ticks : Looping(t) ~> at[t] = Steps \/ ~Looping(t)

=============================================================================
