----------------------------- MODULE Coordinator -----------------------------
(***************************************************************************)
(* native_coordinator.rs: one native operation at a time, from the press   *)
(* to the result.  Several threads take part.                              *)
(*   - A step, the async task of one operation, does its core work in      *)
(*     closures that hold the lock of the core, and waits in between.      *)
(*   - The main thread runs what was queued for it in order, and shows at  *)
(*     most one panel.  It never waits for the core: a callback that finds *)
(*     the lock taken answers Retry.                                       *)
(*   - The background round, focus events and the owner's Cancel stop the  *)
(*     current step at any moment, with or without the lock.               *)
(* What the core does is reduced to what the coordinator asks it: NativeOps*)
(* models it in full.  An epoch or a session generation is only ever       *)
(* compared with the one a stage captured, so the core keeps the tokens    *)
(* whose captured value is still the current one.                          *)
(***************************************************************************)
EXTENDS Naturals, Sequences, FiniteSets

CONSTANTS
  None,
  Action,      \* for each token, the operations explored
  MaxSteps,    \* bound on the tokens handed out
  MaxEvents    \* bound on what happens to the core from outside

AllActions == {"CreateVault", "Unlock", "ChangePassword", "RotateKeys", "ShowWalletField",
               "CreateNote"}

ASSUME CoordinatorAssumption ==
  /\ Action \in [1..MaxSteps -> SUBSET AllActions]
  /\ MaxSteps \in Nat
  /\ MaxEvents \in Nat
  /\ None \notin Nat /\ None \notin STRING

Token == 1..MaxSteps

\* In the place of a token: some other caller holds the core, and syncs before it lets go.
Syncing == MaxSteps + 1

\* Operations that ask for nothing open no entry panel; new passwords get a long limit, and the
\* rule that a panel without any input ends.
RequiresCredentials == AllActions \ {"CreateNote"}
LongEntry == {"CreateVault", "ChangePassword", "RotateKeys"}
NeedsPhase(a) == CASE a = "CreateVault" -> "NoVault"
                   [] a = "Unlock" -> "Locked"
                   [] OTHER -> "Unlocked"

\* Operation ids are only compared.  Each step begins at most two: its own, and the
\* confirmation of a Recovery Kit.
OwnId(t) == 2 * t - 1
KitId(t) == 2 * t

VARIABLES
  sequence,     \* tokens handed out so far
  current,      \* the token of the lease, 0 when idle
  active,       \* metadata of the leased step, or None
  reporting,    \* the step whose end the owner hears about
  interrupted,  \* the step that something other than the owner stopped
  input,        \* the step under the no-input rule, and whether its time ran out
  steps,        \* the async tasks
  lock,         \* who holds the core: 0, a token, or Syncing
  core,
  panel,        \* the panel in the window, or None
  mainQueue,    \* closures for the main thread, oldest first
  stopped,      \* stages taken by a stop, whose panel or core state is still to be cleared
  events,
  disowned      \* history: a stop left an unsaved Recovery Kit where it was

coordinator == <<sequence, current, active, reporting, interrupted, input>>
vars == <<coordinator, steps, lock, core, panel, mainQueue, stopped, events, disowned>>

Pc == {"unused", "reserved", "prepare", "calibrate", "begin", "begun", "openEntry", "ask",
       "derive", "finish", "kitMade", "openKit", "kit", "shown", "openReveal", "reveal", "hide",
       "committed", "return", "ended"}
Waiting == {"ask", "kit", "reveal"}
Result == {"none", "done", "refused", "cancelled", "interrupted", "busy"}
Stage == {"Calibration", "Entry", "RecoveryKit", "Reveal"}

Active == [token : Token, id : 0..2 * MaxSteps, stage : Stage]
\* Metadata that are published are not mistaken for none.
ASSUME ActiveAssumption == None \notin Active

Step == [action : AllActions \cup {None}, pc : Pc, id : 0..2 * MaxSteps, late : BOOLEAN,
         reply : {"none", "ok", "cancelled", "interrupted", "busy"}, result : Result]

TypeOK ==
  /\ sequence \in 0..MaxSteps
  /\ current \in {0} \cup Token
  /\ active \in Active \cup {None}
  /\ reporting \in {0} \cup Token
  /\ interrupted \in {0} \cup Token
  /\ input \in [token : {0} \cup Token, late : BOOLEAN]
  /\ steps \in [Token -> Step]
  /\ lock \in 0..Syncing
  /\ core \in [phase : {"NoVault", "Kit", "Locked", "Unlocked"}, vault : BOOLEAN,
               pending : 0..2 * MaxSteps, shown : BOOLEAN, guard : BOOLEAN,
               sameEpoch : SUBSET Token, sameSession : SUBSET Token]
  /\ panel \in [token : Token, id : 1..2 * MaxSteps, suspended : BOOLEAN] \cup {None}
  /\ mainQueue \in Seq([do : {"present", "close"}, token : Token, id : 1..2 * MaxSteps])
  /\ stopped \in SUBSET [stage : Active, todo : {"close", "clean", "cleanFirst", "closeOnly"}]
  /\ events \in 0..MaxEvents
  /\ disowned \in BOOLEAN

Init ==
  /\ sequence = 0 /\ current = 0 /\ active = None /\ reporting = 0 /\ interrupted = 0
  /\ input = [token |-> 0, late |-> FALSE]
  /\ steps = [t \in Token |-> [action |-> None, pc |-> "unused", id |-> 0, late |-> FALSE,
                               reply |-> "none", result |-> "none"]]
  /\ lock = 0
  /\ \E vault \in BOOLEAN :
       core = [phase |-> IF vault THEN "Unlocked" ELSE "NoVault", vault |-> vault,
               pending |-> 0, shown |-> FALSE, guard |-> FALSE,
               sameEpoch |-> {}, sameSession |-> {}]
  /\ panel = None
  /\ mainQueue = <<>>
  /\ stopped = {}
  /\ events = 0
  /\ disowned = FALSE

-----------------------------------------------------------------------------
(* The core, as far as the coordinator can tell *)

\* Every invalidation begins an epoch.
InvalidateNative(c) == [c EXCEPT !.pending = 0, !.sameEpoch = {}]
HideField(c) == [InvalidateNative(c) EXCEPT !.shown = FALSE]
CancelNative(c, id) == IF id # 0 /\ c.pending = id THEN InvalidateNative(c) ELSE c
LockCore(c) ==
  [HideField(c) EXCEPT !.phase = IF c.vault THEN "Locked" ELSE "NoVault"]
StartSession(c) == [InvalidateNative(c) EXCEPT !.phase = "Unlocked", !.sameSession = {}]

-----------------------------------------------------------------------------
(* CoordinatorState *)

Live(t) == current = t
Snapshot(t) == active # None /\ active.token = t /\ Live(t)

SameField(t, c) == c.phase = "Unlocked" /\ ~c.guard /\ t \in c.sameSession /\ c.shown

\* A Vault is only created where there is none, so that is the phase a calibration captured.
ActiveMatches(a, c) ==
  /\ ~c.guard
  /\ CASE a.stage = "Calibration" ->
              a.token \in c.sameEpoch \cap c.sameSession /\ c.phase = "NoVault"
       [] a.stage \in {"Entry", "RecoveryKit"} -> a.id = 0 \/ c.pending = a.id
       [] a.stage = "Reveal" -> a.token \in c.sameEpoch /\ SameField(a.token, c)

InputExpired(t) == input.token = t /\ input.late

\* check_state: the step is the leased one and its deadline has not passed.
CheckLive(t) == Snapshot(t) /\ ~steps[t].late

\* How a stopped step is reported.
Ended(t) ==
  IF reporting = t /\ (interrupted = t \/ Live(t)) THEN "interrupted" ELSE "cancelled"

\* stop(t), when it succeeds, frees the lease; what it took is closed and cleaned up afterwards,
\* by cancel_token in this order and without the lock.
Taken(t, todo) ==
  IF Snapshot(t) THEN {[stage |-> active, todo |-> todo]} ELSE {}
Stop(t) ==
  /\ current' = IF Live(t) THEN 0 ELSE current
  /\ active' = IF Snapshot(t) THEN None ELSE active
CancelToken(t) ==
  /\ Stop(t)
  /\ stopped' = stopped \cup Taken(t, "close")

\* The step returns; dropping its lease is an action of its own, because a closure that fails is
\* followed by a sync before it.
Leave(t, result) == steps' = [steps EXCEPT ![t].pc = "return", ![t].result = result]
Goto(t, pc) == steps' = [steps EXCEPT ![t].pc = pc]

\* Metadata of the next stage, with what it captures of the core.
Publish(t, id, stage) == active' = [token |-> t, id |-> id, stage |-> stage]
Captured(t, c) == [c EXCEPT !.sameEpoch = @ \cup {t}, !.sameSession = @ \cup {t}]

\* The step goes on under a new deadline.
NewDeadline(t, pc, id) ==
  steps' = [steps EXCEPT ![t].pc = pc, ![t].id = id, ![t].late = FALSE, ![t].reply = "none"]

\* Mutant: a stop that finds a later step undoes nothing.
CleanupWhenIdle(c, a, idle) ==
  IF ~idle THEN c
  ELSE IF a.stage = "RecoveryKit" /\ c.phase = "Kit" THEN LockCore(c)
  ELSE IF a.stage = "Reveal" THEN HideField(c) ELSE CancelNative(c, a.id)

\* Mutant: the Kit of a stopped step is left to whoever holds the lease.
CleanupByIdOnly(c, a, idle) ==
  IF idle /\ a.stage = "RecoveryKit" /\ c.phase = "Kit" THEN LockCore(c) ELSE CancelNative(c, a.id)

\* cleanup_core: an unsaved Recovery Kit goes with its step, even if another step has begun; the
\* rest is only undone while no later step relies on it.
CleanupCore(c, a, idle) ==
  LET t == a.token
      done == CancelNative(c, a.id)
  IN IF a.stage = "RecoveryKit" /\ c.phase = "Kit" /\ (c.pending = a.id \/ t \in c.sameEpoch)
     THEN LockCore(c)
     ELSE IF ~idle THEN done
     ELSE IF a.stage = "Reveal" /\ SameField(t, done) THEN HideField(done)
     ELSE IF a.stage = "RecoveryKit" /\ done.phase = "Kit" THEN LockCore(done)
     ELSE done

\* A later step holds the lease and an epoch has begun: the stop leaves the Kit where it is.
Disowns(c, a) ==
  /\ a.stage = "RecoveryKit" /\ c.phase = "Kit" /\ current # 0
  /\ c.pending # a.id /\ a.token \notin c.sameEpoch

-----------------------------------------------------------------------------
(* A step: admission, and the calibration of a new Vault *)

Reserve(a) ==
  /\ sequence < MaxSteps
  /\ sequence' = sequence + 1
  /\ LET t == sequence + 1
     IN /\ a \in Action[t]
        /\ IF current = 0
           THEN /\ current' = t
                /\ steps' = [steps EXCEPT ![t].action = a, ![t].pc = "reserved"]
           ELSE /\ current' = current
                /\ steps' = [steps EXCEPT ![t].action = a, ![t].pc = "ended", ![t].result = "busy"]
  /\ UNCHANGED <<active, reporting, interrupted, input, lock, core, panel, mainQueue, stopped,
                 events, disowned>>

\* The lease exists only once its metadata is published.
PublishReserved(t) ==
  /\ steps[t].pc = "reserved"
  /\ IF Live(t)
     THEN /\ Publish(t, 0, "Entry")
          /\ IF steps[t].action = "CreateVault"
             THEN Goto(t, "prepare") /\ reporting' = t
             ELSE Goto(t, "begin") /\ reporting' = reporting
     ELSE /\ steps' = [steps EXCEPT ![t].pc = "ended", ![t].result = "cancelled"]
          /\ UNCHANGED <<active, reporting>>
  /\ UNCHANGED <<sequence, current, interrupted, input, lock, core, panel, mainQueue, stopped,
                 events, disowned>>

\* Before calibration: which world the new Vault is calibrated for.
Prepare(t) ==
  /\ steps[t].pc = "prepare" /\ lock = 0
  /\ lock' = Syncing
  /\ IF ~CheckLive(t)
     THEN Leave(t, Ended(t)) /\ UNCHANGED <<active, core>>
     ELSE IF core.phase # "NoVault"
     THEN Leave(t, "refused") /\ UNCHANGED <<active, core>>
     ELSE Goto(t, "calibrate") /\ Publish(t, 0, "Calibration") /\ core' = Captured(t, core)
  /\ UNCHANGED <<sequence, current, reporting, interrupted, input, panel, mainQueue, stopped,
                 events, disowned>>

Calibrated(t) ==
  /\ steps[t].pc = "calibrate"
  /\ IF CheckLive(t) THEN Goto(t, "begin") ELSE Leave(t, Ended(t))
  /\ UNCHANGED <<coordinator, lock, core, panel, mainQueue, stopped, events, disowned>>

-----------------------------------------------------------------------------
(* A step: the entry *)

\* begin_native under the lock, on the world the step was admitted for.  A reveal ends.
BeginNative(t) ==
  /\ steps[t].pc = "begin" /\ lock = 0
  /\ LET fits == CheckLive(t) /\ ActiveMatches(active, core)
         allowed == core.pending = 0 /\ ~core.guard
     IN IF ~fits
        THEN Leave(t, Ended(t)) /\ lock' = Syncing /\ UNCHANGED core
        ELSE IF ~allowed
        THEN Leave(t, "refused") /\ lock' = Syncing /\ UNCHANGED core
        ELSE IF core.phase # NeedsPhase(steps[t].action)
        THEN Leave(t, "refused") /\ lock' = Syncing /\ core' = [core EXCEPT !.shown = FALSE]
        ELSE /\ Goto(t, "begun")
             /\ lock' = t
             /\ core' = [core EXCEPT !.pending = OwnId(t), !.shown = FALSE]
  /\ UNCHANGED <<coordinator, panel, mainQueue, stopped, events, disowned>>

\* Still under the lock: a stop may have come in between.
Begun(t) ==
  /\ steps[t].pc = "begun" /\ lock = t
  /\ lock' = Syncing
  /\ IF Live(t)
     THEN /\ Publish(t, OwnId(t), "Entry")
          /\ NewDeadline(t, IF steps[t].action \in RequiresCredentials THEN "openEntry" ELSE "derive",
                         OwnId(t))
          /\ input' = IF steps[t].action \in LongEntry THEN [token |-> t, late |-> FALSE] ELSE input
          /\ UNCHANGED core
     ELSE /\ Leave(t, Ended(t))
          /\ core' = CancelNative(core, OwnId(t))
          /\ UNCHANGED <<active, input>>
  /\ UNCHANGED <<sequence, current, reporting, interrupted, panel, mainQueue, stopped, events,
                 disowned>>

\* ask_until and reveal queue their panel without the lock, so a stop may come before it, and its
\* request to close may even be queued first.  Only an entry reports how it ends.
Opens == [openEntry |-> "ask", openKit |-> "kit", openReveal |-> "reveal"]
OpenPanel(t) ==
  /\ steps[t].pc \in DOMAIN Opens
  /\ Goto(t, Opens[steps[t].pc])
  /\ reporting' = IF steps[t].pc = "openEntry" THEN t
                  ELSE IF reporting = t THEN 0 ELSE reporting
  /\ mainQueue' = Append(mainQueue, [do |-> "present", token |-> t, id |-> steps[t].id])
  /\ UNCHANGED <<sequence, current, active, interrupted, input, lock, core, panel, stopped, events,
                 disowned>>

\* How an answer other than a submit ends the step.
PromptFailure(t) ==
  CASE steps[t].reply = "cancelled" /\ Live(t) -> "cancelled"
    [] steps[t].reply = "busy" -> "busy"
    [] OTHER -> Ended(t)

\* ask_until returns: an answer, or the deadline before it.  After a submit on a long entry the
\* derivation gets its own time, and nothing more has to be typed.
Asked(t) ==
  /\ steps[t].pc = "ask"
  /\ \/ /\ steps[t].reply = "ok" /\ CheckLive(t)
        /\ IF steps[t].action \in LongEntry
           THEN /\ NewDeadline(t, "derive", OwnId(t))
                /\ input' = IF input.token = t THEN [input EXCEPT !.token = 0] ELSE input
           ELSE Goto(t, "derive") /\ UNCHANGED input
     \/ /\ steps[t].reply = "ok" /\ ~CheckLive(t)
        /\ Leave(t, Ended(t)) /\ UNCHANGED input
     \/ /\ steps[t].reply \notin {"none", "ok"}
        /\ Leave(t, PromptFailure(t)) /\ UNCHANGED input
     \/ /\ steps[t].reply = "none" /\ steps[t].late
        /\ Leave(t, Ended(t)) /\ UNCHANGED input
  /\ UNCHANGED <<sequence, current, active, reporting, interrupted, lock, core, panel, mainQueue,
                 stopped, events, disowned>>

-----------------------------------------------------------------------------
(* A step: the derivation, and its commit *)

\* prepare_native hands the work to a thread that runs without the lock.
Derive(t) ==
  /\ steps[t].pc = "derive" /\ lock = 0
  /\ lock' = Syncing
  /\ IF ~CheckLive(t) THEN Leave(t, Ended(t))
     ELSE IF core.pending # steps[t].id THEN Leave(t, "refused")
     ELSE Goto(t, "finish")
  /\ UNCHANGED <<coordinator, core, panel, mainQueue, stopped, events, disowned>>

\* What finish_native makes of the core for each kind of operation.
Committed(t, c) ==
  LET base == [c EXCEPT !.pending = 0]
      confirming == steps[t].id = KitId(t)
  IN IF confirming THEN [StartSession(base) EXCEPT !.vault = TRUE]
     ELSE CASE steps[t].action \in {"CreateVault", "RotateKeys"} ->
                 [InvalidateNative(base) EXCEPT !.phase = "Kit"]
            [] steps[t].action = "ShowWalletField" -> [base EXCEPT !.shown = TRUE]
            [] steps[t].action = "Unlock" -> StartSession(base)
            [] OTHER -> InvalidateNative(base)

AfterCommit(t) ==
  IF steps[t].id = KitId(t) THEN "committed"
  ELSE CASE steps[t].action \in {"CreateVault", "RotateKeys"} -> "kitMade"
         [] steps[t].action = "ShowWalletField" -> "shown"
         [] OTHER -> "committed"

\* finish_native refuses an operation that is no longer pending, or fails, or commits.
FinishNative(t) ==
  /\ steps[t].pc = "finish" /\ lock = 0
  /\ \/ /\ ~CheckLive(t)
        /\ Leave(t, Ended(t)) /\ lock' = Syncing /\ UNCHANGED core
     \/ /\ CheckLive(t)
        /\ Leave(t, "refused") /\ lock' = Syncing /\ core' = CancelNative(core, steps[t].id)
     \/ /\ CheckLive(t) /\ core.pending = steps[t].id /\ ~core.guard
        /\ Goto(t, AfterCommit(t)) /\ lock' = t /\ core' = Committed(t, core)
  /\ UNCHANGED <<coordinator, panel, mainQueue, stopped, events, disowned>>

\* The result is returned: the lease ends here, and there is no panel to close.
Finished(t) ==
  /\ steps[t].pc = "committed" /\ lock = t
  /\ Stop(t)
  /\ Leave(t, "done")
  /\ lock' = Syncing
  /\ UNCHANGED <<sequence, reporting, interrupted, input, core, panel, mainQueue, stopped, events,
                 disowned>>

\* A new Recovery Key: its confirmation is begun and published in the same closure.  If either
\* fails, the unsaved candidate is dropped by a lock.
KitMade(t) ==
  /\ steps[t].pc = "kitMade" /\ lock = t
  /\ lock' = Syncing
  /\ \/ /\ Live(t)
        /\ Publish(t, KitId(t), "RecoveryKit")
        /\ NewDeadline(t, "openKit", KitId(t))
        /\ core' = Captured(t, [core EXCEPT !.pending = KitId(t)])
     \/ /\ Leave(t, IF Live(t) THEN "refused" ELSE Ended(t))
        /\ core' = LockCore(core)
        /\ UNCHANGED active
  /\ UNCHANGED <<sequence, current, reporting, interrupted, input, panel, mainQueue, stopped, events,
                 disowned>>

\* The owner wrote the key down: the confirmation is carried out like any other operation.
KitAnswered(t) ==
  /\ steps[t].pc = "kit"
  /\ \/ /\ steps[t].reply = "ok"
        /\ IF CheckLive(t) THEN Goto(t, "derive") ELSE Leave(t, Ended(t))
     \/ /\ steps[t].reply \notin {"none", "ok"}
        /\ Leave(t, PromptFailure(t))
     \/ /\ steps[t].reply = "none" /\ steps[t].late
        /\ Leave(t, Ended(t))
  /\ UNCHANGED <<coordinator, lock, core, panel, mainQueue, stopped, events, disowned>>

-----------------------------------------------------------------------------
(* A step: a readout *)

Shown(t) ==
  /\ steps[t].pc = "shown" /\ lock = t
  /\ lock' = Syncing
  /\ IF Live(t)
     THEN /\ Publish(t, OwnId(t), "Reveal")
          /\ NewDeadline(t, "openReveal", OwnId(t))
          /\ core' = Captured(t, core)
     ELSE /\ Leave(t, Ended(t))
          /\ core' = HideField(core)
          /\ UNCHANGED active
  /\ UNCHANGED <<sequence, current, reporting, interrupted, input, panel, mainQueue, stopped, events,
                 disowned>>

\* Whatever closed the readout, it is over.
RevealClosed(t) ==
  /\ steps[t].pc = "reveal"
  /\ \/ steps[t].reply = "ok" /\ Goto(t, "hide")
     \/ steps[t].reply \notin {"none", "ok"}
          /\ Leave(t, IF steps[t].reply = "busy" THEN "busy" ELSE "cancelled")
     \/ steps[t].reply = "none" /\ steps[t].late /\ Leave(t, "cancelled")
  /\ UNCHANGED <<coordinator, lock, core, panel, mainQueue, stopped, events, disowned>>

Hide(t) ==
  /\ steps[t].pc = "hide" /\ lock = 0
  /\ lock' = Syncing
  /\ IF CheckLive(t)
     THEN core' = HideField(core) /\ Stop(t) /\ Leave(t, "done")
     ELSE Leave(t, Ended(t)) /\ UNCHANGED <<core, current, active>>
  /\ UNCHANGED <<sequence, reporting, interrupted, input, panel, mainQueue, stopped, events,
                 disowned>>

-----------------------------------------------------------------------------
(* Leases end *)

\* Mutant: a lease that is dropped stays taken.
DropNothing(t) ==
  /\ steps[t].pc = "return"
  /\ steps' = [steps EXCEPT ![t].pc = "ended"]
  /\ UNCHANGED <<coordinator, lock, core, panel, mainQueue, stopped, events, disowned>>

\* The lease of a step that returned is dropped.
DropLease(t) ==
  /\ steps[t].pc = "return"
  /\ steps' = [steps EXCEPT ![t].pc = "ended", ![t].id = 0, ![t].late = FALSE,
                            ![t].reply = "none"]
  /\ CancelToken(t)
  /\ UNCHANGED <<sequence, reporting, interrupted, input, lock, core, panel, mainQueue, events,
                 disowned>>

\* The owner's Cancel, Lock or Quit stops the current step at once, without the core.
Cancel ==
  /\ current # 0 /\ events < MaxEvents
  /\ CancelToken(current)
  /\ events' = events + 1
  /\ UNCHANGED <<sequence, reporting, interrupted, input, steps, lock, core, panel, mainQueue,
                 disowned>>

\* Sleep, a screen lock or another app in front does the same, and the step says so.
Interrupt ==
  /\ current # 0 /\ events < MaxEvents
  /\ interrupted' = current
  /\ CancelToken(current)
  /\ events' = events + 1
  /\ UNCHANGED <<sequence, reporting, input, steps, lock, core, panel, mainQueue, disowned>>

ClosePanel(s) ==
  /\ s \in stopped /\ s.todo \in {"close", "closeOnly"}
  /\ mainQueue' = IF s.stage.id = 0 THEN mainQueue
                  ELSE Append(mainQueue, [do |-> "close", token |-> s.stage.token, id |-> s.stage.id])
  /\ stopped' = (stopped \ {s}) \cup (IF s.todo = "close" THEN {[s EXCEPT !.todo = "clean"]} ELSE {})
  /\ UNCHANGED <<coordinator, steps, lock, core, panel, events, disowned>>

Clean(s) ==
  /\ s \in stopped
  /\ \/ /\ s.todo = "clean" /\ lock = 0
        /\ lock' = Syncing
        /\ stopped' = stopped \ {s}
     \/ /\ s.todo = "cleanFirst" /\ lock = Syncing
        /\ lock' = 0
        /\ stopped' = (stopped \ {s}) \cup {[s EXCEPT !.todo = "closeOnly"]}
  /\ core' = CleanupCore(core, s.stage, current = 0)
  /\ disowned' = (disowned \/ Disowns(core, s.stage))
  /\ UNCHANGED <<coordinator, steps, panel, mainQueue, events>>

-----------------------------------------------------------------------------
(* The callers that hold the lock and sync: every command, and the background round *)

OutOfStep ==
  /\ active # None /\ Live(active.token)
  /\ \/ steps[active.token].late
     \/ InputExpired(active.token)
     \/ ~ActiveMatches(active, core)

\* The lease is free at once, and the core is cleaned up before the lock is released.
Sync ==
  /\ lock = Syncing /\ \A s \in stopped : s.todo # "cleanFirst"
  /\ IF OutOfStep
     THEN /\ interrupted' = active.token
          /\ stopped' = stopped \cup Taken(active.token, "cleanFirst")
          /\ Stop(active.token)
          /\ lock' = lock
     ELSE UNCHANGED <<interrupted, stopped, current, active>> /\ lock' = 0
  /\ UNCHANGED <<sequence, reporting, input, steps, core, panel, mainQueue, events, disowned>>

\* A round that finds nothing to stop changes nothing.
Round ==
  /\ lock = 0 /\ OutOfStep
  /\ lock' = Syncing
  /\ UNCHANGED <<coordinator, steps, core, panel, mainQueue, stopped, events, disowned>>

\* What else happens to the core: an edit, Auto-lock or Lock, the Sharing Guard, a shown value
\* whose time is over.  A callback of a panel ticks the core without a sync.
Disturbed ==
  /\ lock = 0 /\ events < MaxEvents
  /\ core' \in {InvalidateNative(core), LockCore(core), [core EXCEPT !.shown = FALSE],
                [HideField(core) EXCEPT !.guard = TRUE], [core EXCEPT !.guard = FALSE]}
  /\ core' # core
  /\ lock' \in {0, Syncing}
  /\ events' = events + 1
  /\ UNCHANGED <<coordinator, steps, panel, mainQueue, stopped, disowned>>

\* The deadline of the stage passes.  Inside one closure nothing looks at it.
TimeOut(t) ==
  /\ steps[t].pc \in {"prepare", "calibrate", "begin", "derive", "finish", "hide"}
                     \cup Waiting \cup DOMAIN Opens
  /\ ~steps[t].late
  /\ steps' = [steps EXCEPT ![t].late = TRUE]
  /\ UNCHANGED <<coordinator, lock, core, panel, mainQueue, stopped, events, disowned>>

\* NO_INPUT_MS without a key or a click.
NoInput ==
  /\ input.token # 0 /\ ~input.late
  /\ input' = [input EXCEPT !.late = TRUE]
  /\ UNCHANGED <<sequence, current, active, reporting, interrupted, steps, lock, core, panel,
                 mainQueue, stopped, events, disowned>>

-----------------------------------------------------------------------------
(* The main thread *)

\* Mutant: a step that was stopped is asked to try again.
AuthorizationNeverDenied(t, ids) ==
  IF lock = 0 /\ CheckLive(t) /\ active.id \in ids /\ ~InputExpired(t)
     /\ ActiveMatches(active, core)
  THEN "Allowed" ELSE "Retry"

RetryIfLive(t) == IF Live(t) /\ ~steps[t].late THEN "Retry" ELSE "Denied"

\* authorize_callback: it never waits for the core.
Authorization(t, ids) ==
  IF lock # 0 THEN RetryIfLive(t)
  ELSE IF /\ CheckLive(t) /\ active.id \in ids
          /\ ~InputExpired(t) /\ ActiveMatches(active, core)
       THEN "Allowed" ELSE "Denied"

AnyId == 0..2 * MaxSteps

\* The channel of a step that no longer waits drops what is sent.
Replied(t, reply) ==
  steps' = IF steps[t].pc \in Waiting /\ steps[t].reply = "none"
           THEN [steps EXCEPT ![t].reply = reply] ELSE steps

\* A readout reports only that it closed.
ClosedBy(t, reply) == Replied(t, IF steps[t].pc = "reveal" THEN "ok" ELSE reply)

\* Checked again right before anything is shown.  The window may have lost the focus.
Present ==
  /\ mainQueue # <<>> /\ Head(mainQueue).do = "present"
  /\ mainQueue' = Tail(mainQueue)
  /\ LET t == Head(mainQueue).token
         id == Head(mainQueue).id
         authorization == Authorization(t, {id})
     IN \/ /\ authorization = "Denied"
           /\ Replied(t, "interrupted") /\ UNCHANGED panel
        \/ /\ authorization # "Denied"
           /\ Replied(t, "busy") /\ UNCHANGED panel
        \/ /\ authorization # "Denied" /\ panel = None
           /\ panel' = [token |-> t, id |-> id, suspended |-> authorization = "Retry"]
           /\ UNCHANGED steps
  /\ UNCHANGED <<coordinator, lock, core, stopped, events, disowned>>

\* native_credential::cancel closes only the panel of that operation.
CloseById ==
  /\ mainQueue # <<>> /\ Head(mainQueue).do = "close"
  /\ mainQueue' = Tail(mainQueue)
  /\ IF panel # None /\ panel.id = Head(mainQueue).id
     THEN panel' = None /\ ClosedBy(panel.token, "cancelled")
     ELSE UNCHANGED <<panel, steps>>
  /\ UNCHANGED <<coordinator, lock, core, stopped, events, disowned>>

\* The timer of the panel asks again five times a second.
PanelTick ==
  /\ panel # None
  /\ LET authorization == Authorization(panel.token, AnyId)
     IN IF authorization = "Denied"
        THEN panel' = None /\ ClosedBy(panel.token, "interrupted")
        ELSE panel' = [panel EXCEPT !.suspended = authorization = "Retry"] /\ UNCHANGED steps
  /\ UNCHANGED <<coordinator, lock, core, mainQueue, stopped, events, disowned>>

\* More time for a readout: an answer like any other, and a No once it can't be had any more.
ExtendPressed ==
  /\ panel # None /\ steps[panel.token].pc = "reveal"
  /\ \E authorization \in IF lock # 0 THEN {RetryIfLive(panel.token)}
                          ELSE {Authorization(panel.token, AnyId), "Denied"} :
       IF authorization = "Denied"
       THEN panel' = None /\ ClosedBy(panel.token, "interrupted")
       ELSE panel' = [panel EXCEPT !.suspended = authorization = "Retry"] /\ UNCHANGED steps
  /\ UNCHANGED <<coordinator, lock, core, mainQueue, stopped, events, disowned>>

\* Continue is taken only under a fresh Allowed.
Submit ==
  /\ panel # None /\ Authorization(panel.token, AnyId) = "Allowed"
  /\ panel' = None
  /\ ClosedBy(panel.token, "ok")
  /\ UNCHANGED <<coordinator, lock, core, mainQueue, stopped, events, disowned>>

\* Cancel and Escape need no permission, except on a Recovery Kit that is blanked.
CancelPressed ==
  /\ panel # None
  /\ LET authorization == Authorization(panel.token, AnyId)
     IN /\ panel.id = KitId(panel.token) /\ authorization = "Retry" => ~panel.suspended
        /\ ClosedBy(panel.token, IF authorization = "Denied" THEN "interrupted" ELSE "cancelled")
  /\ panel' = None
  /\ UNCHANGED <<coordinator, lock, core, mainQueue, stopped, events, disowned>>

\* The window lost the focus: the panel is gone before anything else hears of it.
FocusLost ==
  /\ panel # None
  /\ panel' = None
  /\ ClosedBy(panel.token, "interrupted")
  /\ UNCHANGED <<coordinator, lock, core, mainQueue, stopped, events, disowned>>

-----------------------------------------------------------------------------
StepActs(t) ==
  \/ PublishReserved(t) \/ Prepare(t) \/ Calibrated(t)
  \/ BeginNative(t) \/ Begun(t) \/ OpenPanel(t) \/ Asked(t)
  \/ Derive(t) \/ FinishNative(t) \/ Finished(t)
  \/ KitMade(t) \/ KitAnswered(t)
  \/ Shown(t) \/ RevealClosed(t) \/ Hide(t)
  \/ DropLease(t)

MainThread == Present \/ CloseById

Next ==
  \/ \E a \in AllActions : Reserve(a)
  \/ \E t \in Token : StepActs(t) \/ TimeOut(t)
  \/ \E s \in stopped : ClosePanel(s) \/ Clean(s)
  \/ MainThread \/ PanelTick \/ ExtendPressed \/ Submit \/ CancelPressed \/ FocusLost
  \/ Sync \/ Round \/ Disturbed \/ Cancel \/ Interrupt \/ NoInput

\* Threads run, queues are emptied, timers fire and deadlines pass.  What the owner and the
\* system do need never happen.
Fairness ==
  /\ \A t \in Token : WF_vars(StepActs(t)) /\ WF_vars(TimeOut(t))
  /\ WF_vars(\E s \in stopped : ClosePanel(s))
  /\ WF_vars(\E s \in stopped : Clean(s))
  /\ WF_vars(MainThread)
  /\ WF_vars(PanelTick)
  /\ WF_vars(Sync) /\ WF_vars(Round)

Spec == Init /\ [][Next]_vars /\ Fairness

-----------------------------------------------------------------------------
AtRest ==
  /\ \A t \in Token : steps[t].pc \in {"unused", "ended"}
  /\ stopped = {} /\ mainQueue = <<>> /\ lock = 0

\* When every step has returned and everything that was put off is done, nothing of them is left:
\* no lease, no panel, no pending operation.
RestIsClean ==
  AtRest => current = 0 /\ panel = None /\ core.pending = 0

\* An unsaved Recovery Kit always has an owner: the step that made it, or a stop that has yet to
\* drop it.  The one exception is a stop that is cleaned up late, after a later step began and
\* something else invalidated what was pending.
KitOwned ==
  core.phase = "Kit" /\ ~disowned =>
    \/ \E t \in Token : steps[t].pc = "kitMade" /\ lock = t
    \/ active # None /\ Live(active.token) /\ active.stage = "RecoveryKit"
    \/ \E s \in stopped : s.stage.stage = "RecoveryKit" /\ s.todo # "closeOnly"

\* Whatever happens, the lease ends, so that the next operation is not refused for ever.
LeaseEnds == \A t \in Token : (current = t) ~> (current # t)

\* Every panel is taken down, even when the request to close it came before it was shown.
PanelCloses == \A t \in Token : (panel # None /\ panel.token = t) ~> (panel = None \/ panel.token # t)
============================================================================
