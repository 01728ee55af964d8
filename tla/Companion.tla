------------------------------ MODULE Companion ------------------------------
(***************************************************************************)
(* The Agent Companion's grant: the app's supervisor (companion.rs and the *)
(* commands), the call over XPC (client.swift) and the helper that runs    *)
(* the broker (service.swift).  The grant must end when the Vault locks,   *)
(* while calls take their time, time out, fail or come late.               *)
(*                                                                         *)
(* A broker may send text while it is "serving".  What the screens show of *)
(* a reply is left out: readiness, the end of the grant, why it is off.    *)
(***************************************************************************)
EXTENDS Naturals, Sequences

CONSTANTS
  Thread,        \* threads that may be in the supervisor at once
  Nobody,        \* the caller of a request that no one waits for
  MaxPresses,    \* bound: commands of the owner, polls of the screens, events of the OS
  MaxFaults      \* bound: calls that time out, deaths of the helper, a moved app bundle

ASSUME CompanionAssumption == Nobody \notin Thread

VARIABLES
  phase,         \* "unlocked", "locked", or "other": open, in a rotation or at a new password
  alive,         \* the app runs
  ownerStarted,  \* inner.owner_started
  active,        \* a broker may be running
  thread,        \* what each thread does
  bundled,
  helper,        \* the XPC service: its serial queue, what it works on, state, code
  child,         \* the broker
  reason,        \* what the broker said it stopped for
  presses, faults,
  disarmed       \* history: Set up was called over a broker, and owner_started is off

broker == <<child, reason>>
bounds == <<presses, faults>>
outside == <<phase, alive, bundled>>
supervisor == <<ownerStarted, active, disarmed>>
companionVars == <<outside, supervisor, thread, helper, broker, bounds>>

Idle == [pc |-> "idle"]
Queued(op) == [pc |-> "queued", op |-> op]

Press == presses < MaxPresses /\ presses' = presses + 1 /\ UNCHANGED faults
Fault == faults < MaxFaults /\ faults' = faults + 1 /\ UNCHANGED presses

NoRequest == [op |-> "none", caller |-> Nobody]
Doing(op) == helper.doing.op = op

-----------------------------------------------------------------------------
(* Commands and events *)

Begin(t, what) ==
  /\ alive /\ thread[t] = Idle
  /\ thread' = [thread EXCEPT ![t] = what]
  /\ UNCHANGED <<outside, helper, broker>>

\* companion_start and companion_setup; DIALOG_OPEN lets one of them ask at a time.
Ask(t, op) ==
  /\ phase = "unlocked"
  /\ \A u \in Thread : thread[u].pc # "dialog"
  /\ Press /\ Begin(t, [pc |-> "dialog", op |-> op])
  /\ UNCHANGED supervisor

\* The Vault may have locked while the dialog was open; it may also lock right after this.
DialogAnswered(t, agreed) ==
  /\ thread[t].pc = "dialog"
  /\ thread' = [thread EXCEPT ![t] = IF agreed /\ phase = "unlocked" THEN Queued(@.op) ELSE Idle]
  /\ UNCHANGED <<outside, supervisor, helper, broker, bounds>>

PressStop(t) ==
  /\ Press /\ Begin(t, Queued("Stop"))
  /\ active' = FALSE
  /\ UNCHANGED <<ownerStarted, disarmed>>

Poll(t) == Press /\ Begin(t, Queued("Status")) /\ UNCHANGED supervisor

\* stop_for_lifecycle
SpawnStop(t) == active /\ Begin(t, [pc |-> "spawned"]) /\ UNCHANGED supervisor

\* The background loop, every half second.
Round(t) == phase # "unlocked" /\ SpawnStop(t) /\ UNCHANGED bounds

\* The computer sleeps, locks its screen or switches user; the core hears of it later.
OsEvent(t) == Press /\ SpawnStop(t)

StopIfActive(t) ==
  /\ thread[t].pc = "spawned"
  /\ thread' = [thread EXCEPT ![t] = IF active THEN Queued("Stop") ELSE Idle]
  /\ active' = FALSE
  /\ UNCHANGED <<outside, ownerStarted, disarmed, helper, broker, bounds>>

PhaseMoves ==
  /\ alive
  /\ phase' \in {"unlocked", "locked", "other"} \ {phase}
  /\ UNCHANGED <<alive, bundled, supervisor, thread, helper, broker, bounds>>

\* The bundle is moved or deleted while the app runs.
AppMoved ==
  /\ alive /\ bundled /\ bundled' = FALSE
  /\ Fault /\ UNCHANGED <<phase, alive, supervisor, thread, helper, broker>>

\* Quit, with the Stop of stop_on_exit or without; the helper sees the connection go
\* (shutdownForExit).
AppExits ==
  /\ alive /\ alive' = FALSE
  /\ phase' = "locked"
  /\ thread' = [t \in Thread |-> Idle]
  /\ active' = FALSE
  /\ helper' = [helper EXCEPT !.queue = Append([i \in DOMAIN @ |-> [@[i] EXCEPT !.caller = Nobody]],
                                                [op |-> "Shutdown", caller |-> Nobody]),
                              !.doing.caller = Nobody]
  /\ UNCHANGED <<bundled, ownerStarted, disarmed, broker, bounds>>

-----------------------------------------------------------------------------
(* Companion::run *)

\* The mutex is held throughout the call.
MutexFree == \A t \in Thread : thread[t].pc \notin {"called", "replied"}

\* Mutant: nothing is sent when the helper has gone from the bundle.
ReachableBundled(op) == bundled

\* A Stop still goes out over an open connection.
Reachable(op) == bundled \/ op = "Stop"

\* Mutant: no answer is taken for no broker.
UnansweredDisarms(started) == active' = FALSE

\* The broker's state is unknown: armed while the owner expects it to run.
Unanswered(started) == active' = started

MayServe == child # "none" \/ Doing("Start") \/ \E i \in DOMAIN helper.queue : helper.queue[i].op = "Start"

Call(t) ==
  /\ thread[t].pc = "queued" /\ MutexFree
  /\ LET op == thread[t].op IN
     IF ~Reachable(op)
     THEN /\ thread' = [thread EXCEPT ![t] = Idle]
          /\ Unanswered(ownerStarted)
          /\ UNCHANGED <<ownerStarted, disarmed, helper>>
     ELSE /\ disarmed' = CASE op = "Install" -> disarmed \/ MayServe
                            [] op \in {"Start", "Stop"} -> FALSE
                            [] OTHER -> disarmed
          /\ ownerStarted' = CASE op = "Start" -> TRUE [] op = "Status" -> ownerStarted [] OTHER -> FALSE
          /\ active' = (active \/ op = "Start")
          /\ thread' = [thread EXCEPT ![t].pc = "called"]
          /\ helper' = [helper EXCEPT !.queue = Append(@, [op |-> op, caller |-> t])]
  /\ UNCHANGED <<outside, broker, bounds>>

Forgotten(request, t) == IF request.caller = t THEN [request EXCEPT !.caller = Nobody] ELSE request

\* The request stays where it is, in the helper.
TimedOut(t) ==
  /\ thread[t].pc = "called" /\ Fault
  /\ thread' = [thread EXCEPT ![t] = Idle]
  /\ Unanswered(ownerStarted)
  /\ helper' = [helper EXCEPT !.queue = [i \in DOMAIN @ |-> Forgotten(@[i], t)],
                              !.doing = Forgotten(@, t)]
  /\ UNCHANGED <<outside, ownerStarted, disarmed, broker>>

Running(state) == state \in {"starting", "running", "stopping"}

View(t) ==
  /\ thread[t].pc = "replied"
  /\ LET running == Running(thread[t].state) IN
     /\ active' = running
     /\ ownerStarted' = (ownerStarted /\ running)
  /\ thread' = [thread EXCEPT ![t] = Idle]
  /\ UNCHANGED <<outside, disarmed, helper, broker, bounds>>

-----------------------------------------------------------------------------
(* The helper: one serial queue of operations *)

\* What the operation leaves behind is what it answers.
Answer(h) ==
  /\ helper' = [h EXCEPT !.doing = NoRequest]
  /\ thread' = [t \in Thread |-> IF t = h.doing.caller THEN [pc |-> "replied", state |-> h.state]
                                 ELSE thread[t]]
  /\ UNCHANGED <<outside, supervisor, bounds>>

Starting(h) == [h EXCEPT !.state = "starting"]

Take ==
  /\ Doing("none") /\ helper.queue # <<>>
  /\ LET h == [helper EXCEPT !.doing = Head(helper.queue), !.queue = Tail(@)]
         op == h.doing.op
     IN CASE op = "Status" \/ (op = "Start" /\ child # "none") \/ (op = "Stop" /\ child = "none")
             -> Answer(h) /\ UNCHANGED broker
          [] op = "Shutdown" /\ child = "none"
             -> Answer([h EXCEPT !.queue = <<>>]) /\ UNCHANGED broker
          [] op = "Start" /\ child = "none"
             -> \/ Answer([h EXCEPT !.state = "error"]) /\ UNCHANGED broker
                \/ /\ helper' = Starting(h) /\ child' = "launched" /\ reason' = "none"
                   /\ UNCHANGED <<outside, supervisor, thread, bounds>>
          [] op \in {"Stop", "Shutdown"} /\ child # "none"
             -> /\ helper' = [h EXCEPT !.state = IF @ = "error" THEN @ ELSE "stopping"]
                /\ UNCHANGED <<outside, supervisor, thread, broker, bounds>>
          [] op = "Install"
             -> /\ UNCHANGED broker
                /\ \/ child # "none" /\ Answer(h)
                   \/ child = "none" /\ \E s \in {"stopped", "error"} : Answer([h EXCEPT !.state = s])

\* startBroker ends when the broker is ready, has failed or is gone, or its 30 seconds are over.
StartEnds ==
  /\ Doing("Start")
  /\ \/ /\ child # "launched"
        /\ Answer(helper) /\ UNCHANGED broker
     \/ /\ child = "launched"
        /\ child' = "ending" /\ reason' = reason
        /\ Answer([helper EXCEPT !.state = "error"])

\* stopBroker ends when the broker is gone, or was killed and is still not reaped.
StopEnds ==
  /\ Doing("Stop") \/ Doing("Shutdown")
  /\ child' = IF child = "none" THEN "none" ELSE "ending"
  /\ Answer([helper EXCEPT !.state = IF @ = "stopping" THEN "stopped" ELSE @])
  /\ UNCHANGED reason

-----------------------------------------------------------------------------
(* The broker, and the threads that read its output and reap it *)

BrokerReady ==
  /\ child = "launched" /\ helper.state = "starting"
  /\ child' = "serving" /\ helper' = [helper EXCEPT !.state = "running"]
  /\ UNCHANGED <<outside, supervisor, thread, reason, bounds>>

\* An error line, or anything outside the protocol, which kills it.
BrokerErrs ==
  /\ child \in {"launched", "serving"}
  /\ child' = "ending" /\ helper' = [helper EXCEPT !.state = "error"]
  /\ UNCHANGED <<outside, supervisor, thread, reason, bounds>>

\* Its hour is over, it was told to stop, or its control pipe was closed.
BrokerStops(why) ==
  /\ child = "serving"
  /\ why = "owner" => Doing("Stop") \/ Doing("Shutdown")
  /\ child' = "ending" /\ reason' = why
  /\ UNCHANGED <<outside, supervisor, thread, helper, bounds>>

BrokerCrashes ==
  /\ child \in {"launched", "serving"} /\ child' = "ending"
  /\ UNCHANGED <<outside, supervisor, thread, helper, reason, bounds>>

AfterExit(state) ==
  CASE state = "stopping" -> "stopped"
    [] state # "stopping" /\ reason = "expired" -> "expired"
    [] state # "stopping" /\ reason = "owner" -> IF state = "error" THEN state ELSE "stopped"
    [] OTHER -> "error"

Exited ==
  /\ child = "ending" /\ child' = "none"
  /\ helper' = [helper EXCEPT !.state = AfterExit(@)]
  /\ UNCHANGED <<outside, supervisor, thread, reason, bounds>>

\* Its calls fail; the broker sees the end of its control pipe.  The next call starts it anew.
HelperDies ==
  /\ Fault
  /\ helper' = [queue |-> <<>>, doing |-> NoRequest, state |-> "stopped"]
  /\ child' = "none" /\ reason' = "none"
  /\ thread' = [t \in Thread |-> IF thread[t].pc = "called" THEN Idle ELSE thread[t]]
  /\ IF \E t \in Thread : thread[t].pc = "called" THEN Unanswered(ownerStarted) ELSE UNCHANGED active
  /\ UNCHANGED <<outside, ownerStarted, disarmed>>

-----------------------------------------------------------------------------
CompanionInit ==
  /\ phase = "locked" /\ alive = TRUE /\ bundled = TRUE
  /\ ownerStarted = FALSE /\ active = FALSE /\ disarmed = FALSE
  /\ thread = [t \in Thread |-> Idle]
  /\ helper = [queue |-> <<>>, doing |-> NoRequest, state |-> "stopped"]
  /\ child = "none" /\ reason = "none"
  /\ presses = 0 /\ faults = 0

ThreadSteps == \E t \in Thread : StopIfActive(t) \/ Call(t) \/ View(t)
HelperSteps == Take \/ StartEnds \/ StopEnds
Rounds == \E t \in Thread : Round(t)

CompanionNext ==
  \/ \E t \in Thread : \/ \E op \in {"Start", "Install"} : Ask(t, op)
                       \/ \E agreed \in BOOLEAN : DialogAnswered(t, agreed)
                       \/ PressStop(t) \/ Poll(t) \/ OsEvent(t) \/ TimedOut(t)
  \/ Rounds \/ ThreadSteps \/ HelperSteps
  \/ PhaseMoves \/ AppMoved \/ AppExits
  \/ BrokerReady \/ BrokerErrs \/ BrokerCrashes \/ Exited \/ HelperDies
  \/ \E why \in {"owner", "expired"} : BrokerStops(why)

\* The loop, the supervisor's threads and the helper's queue run; the broker and the owner owe nothing.
CompanionFair ==
  /\ WF_companionVars(Rounds)
  /\ WF_companionVars(ThreadSteps)
  /\ WF_companionVars(HelperSteps)

CompanionSpec == CompanionInit /\ [][CompanionNext]_companionVars /\ CompanionFair

-----------------------------------------------------------------------------
StopIsComing ==
  \/ \E t \in Thread : thread[t].pc \in {"queued", "called"} /\ thread[t].op = "Stop"
  \/ \E i \in DOMAIN helper.queue : helper.queue[i].op \in {"Stop", "Shutdown"}
  \/ Doing("Stop") \/ Doing("Shutdown")

\* While a broker serves, the next lock will stop it, or a stop is already on its way: no reply,
\* timeout or failure that comes in between makes the app forget the broker.  The exception is a
\* Set up called over a broker: it acknowledges a stop that has not happened.
ArmedWhileServing == child = "serving" => active \/ StopIsComing \/ disarmed

\* A grant ends when the Vault locks, unless it is unlocked again before the stop got through.
GrantEndsWithLock ==
  (child = "serving" /\ phase = "locked" /\ ~disarmed)
     ~> (child # "serving" \/ phase # "locked" \/ disarmed)
=============================================================================
