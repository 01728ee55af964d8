------------------------------- MODULE Shell --------------------------------
(***************************************************************************)
(* The running app around AppCore: the background loop with its probe of   *)
(* the running apps, focus events that the OS reports at once and threads  *)
(* deliver to the core in any order, the owner, other programs on the      *)
(* clipboard, and the end of the process at any moment.                    *)
(***************************************************************************)
EXTENDS AppCore

CONSTANTS
  AskedSettings,      \* the settings the owner may choose
  Clears, Writes,     \* whether the clipboard and the settings file may fail
  MaxTime,            \* bound on the clock of one process
  MaxChanges,         \* bound on the copies the app and the others make
  MaxInFlight         \* bound on the focus events not yet delivered

ASSUME ShellAssumption ==
  /\ AskedSettings \subseteq LockSettings
  /\ ClearsLeftover \in BOOLEAN /\ Clears \subseteq BOOLEAN /\ Writes \subseteq BOOLEAN
  /\ {MaxTime, MaxChanges, MaxInFlight} \subseteq Nat

VARIABLES
  now,          \* the monotonic clock of this process
  core,         \* AppCore
  focused,      \* WINDOW_FOCUSED: what the OS last said
  inFlight,     \* how many focus events of each kind wait for the core
  probe,        \* the running apps as the background loop last listed them
  running,      \* the known apps that are running
  wrong,        \* wrong credentials since the last right one
  settled       \* the last step was a tick that could write the settings

vars == <<now, core, focused, inFlight, probe, running, wrong, settled>>
outside == <<focused, inFlight, probe, running>>

FocusEvents == {"FocusLost", "FocusGained"}

Init ==
  /\ now = 0
  /\ \E settings \in AskedSettings :
       core = [session |-> NewSession(settings), phase |-> "NoVault", detected |-> {},
               dismissed |-> None, window_in_front |-> TRUE, failed_attempts |-> 0,
               stored_attempts |-> 0, board |-> [count |-> 0, holds |-> "nothing"]]
  /\ focused = TRUE /\ inFlight = [event \in FocusEvents |-> 0]
  /\ probe = None /\ running = {}
  /\ wrong = 0 /\ settled = FALSE

Envs == [clears : Clears, writes : Writes]

\* A command that the core accepts when Accepts holds after the tick it begins with; one
\* that is refused is nothing but that tick.
Command(Accepts(_), Result(_, _)) ==
  \E env \in Envs :
    LET begun == Begun(core, focused, now, env) IN
    /\ Accepts(begun)
    /\ core' = Result(begun, env)

Quiet == UNCHANGED <<now, outside>> /\ settled' = FALSE
NoCredential == UNCHANGED wrong

\* What `begin_native` and `finish_native` ask of every operation.
Undisturbed(c) == ~c.session.sharing_guard_up

-----------------------------------------------------------------------------
(* The background loop *)

Clock ==
  /\ now < MaxTime
  /\ now' = now + 1
  /\ settled' = FALSE
  /\ UNCHANGED <<core, outside, wrong>>

\* The list is read before the core is locked.
Probe ==
  /\ probe' = running
  /\ settled' = FALSE
  /\ UNCHANGED <<now, core, focused, inFlight, running, wrong>>

\* One round: the guard is told if a list was read, then the tick.
Round ==
  \E env \in Envs :
    LET taken == TakeCore(core, focused)
        told  == IF probe = None THEN taken ELSE GuardUpdate(taken, probe)
    IN /\ core' = CoreTick(told, now, env)
       /\ settled' = env.writes
       /\ probe' = None
       /\ UNCHANGED <<now, focused, inFlight, running, wrong>>

-----------------------------------------------------------------------------
(* The operating system and other programs *)

Reported ==
  \E event \in FocusEvents :
    /\ inFlight["FocusLost"] + inFlight["FocusGained"] < MaxInFlight
    /\ focused' = (event = "FocusGained")
    /\ inFlight' = [inFlight EXCEPT ![event] = @ + 1]
    /\ settled' = FALSE
    /\ UNCHANGED <<now, core, probe, running, wrong>>

Delivered ==
  \E event \in FocusEvents, env \in Envs :
    /\ inFlight[event] > 0
    /\ inFlight' = [inFlight EXCEPT ![event] = @ - 1]
    /\ core' = CoreOsEvent(core, event, focused, now, env)
    /\ settled' = FALSE
    /\ UNCHANGED <<now, focused, probe, running, wrong>>

LockEvent ==
  \E event \in LockingEvents, env \in Envs :
    /\ core' = CoreOsEvent(core, event, focused, now, env)
    /\ Quiet /\ NoCredential

AppsChange ==
  \E app \in App :
    /\ running' = IF app \in running THEN running \ {app} ELSE running \cup {app}
    /\ settled' = FALSE
    /\ UNCHANGED <<now, core, focused, inFlight, probe, wrong>>

OtherCopies ==
  /\ core.board.count < MaxChanges
  /\ core' = [core EXCEPT !.board = [count |-> core.board.count + 1, holds |-> "other"]]
  /\ Quiet /\ NoCredential

\* Killed, or quit: the next process finds the settings and clears a leftover copy.
Restart ==
  /\ core' = NewCore(core)
  /\ now' = 0 /\ focused' = TRUE /\ inFlight' = [event \in FocusEvents |-> 0]
  /\ probe' = None /\ settled' = FALSE
  /\ UNCHANGED <<running, wrong>>

-----------------------------------------------------------------------------
(* The owner *)

CreateVault ==
  /\ Command(LAMBDA c : c.phase = "NoVault" /\ Undisturbed(c),
             LAMBDA c, env : [c EXCEPT !.session = Unlocked(@, now), !.phase = "KitNew"])
  /\ wrong' = 0 /\ Quiet

\* The Vault is saved; a save that fails leaves the phase as it is.
ConfirmRecoveryKit ==
  /\ Command(LAMBDA c : c.phase \in {"KitNew", "KitRotation"} /\ Undisturbed(c),
             LAMBDA c, env :
               LET saved == [WriteSettings(c, env) EXCEPT !.phase = "Unlocked"]
               IN IF c.phase = "KitRotation" THEN saved ELSE ResetGuard(saved))
  /\ Quiet /\ NoCredential

UnlockAccepted ==
  /\ \E phase \in {"Unlocked", "Reset"} :
       Command(LAMBDA c : c.phase = "Locked" /\ Undisturbed(c) /\ AttemptAllowed(c.session, now),
               LAMBDA c, env : WriteSettings([StartSession(c, now) EXCEPT
                                                !.phase = phase, !.window_in_front = TRUE], env))
  /\ wrong' = 0 /\ Quiet

\* The failure is counted and ticked at once, so that it is written.
WrongCredential ==
  /\ Command(LAMBDA c : /\ c.phase \in {"NoVault", "Locked", "Unlocked"} /\ Undisturbed(c)
                        /\ AttemptAllowed(c.session, now),
             LAMBDA c, env :
               CoreTick([c EXCEPT !.session = FailedAttempt(@, now)], now, env))
  /\ wrong' = SaturatingIncrement(wrong) /\ Quiet

TouchId ==
  /\ Command(LAMBDA c : c.phase = "Locked" /\ Undisturbed(c),
             LAMBDA c, env :
               [ResetGuard([c EXCEPT !.session = QuickUnlocked(@, now)])
                  EXCEPT !.phase = "Unlocked"])
  /\ Quiet /\ NoCredential

SetNewPassword ==
  /\ Command(LAMBDA c : c.phase = "Reset" /\ Undisturbed(c),
             LAMBDA c, env : [WriteSettings(c, env) EXCEPT !.phase = "Unlocked"])
  /\ Quiet /\ NoCredential

\* The Master Password given again, for a wallet value or for new keys.
Reauthenticated ==
  /\ \E phase \in {"Unlocked", "KitRotation"} :
       Command(LAMBDA c : c.phase = "Unlocked" /\ Undisturbed(c) /\ AttemptAllowed(c.session, now),
               LAMBDA c, env : [c EXCEPT !.session = Unlocked(@, now), !.phase = phase])
  /\ wrong' = 0 /\ Quiet

\* A Backup or Safety Copy takes the place of the Vault.
Install ==
  /\ \E phase \in {"Unlocked", "Reset"} :
       Command(LAMBDA c : c.phase \in {"NoVault", "Locked", "Unlocked"},
               LAMBDA c, env :
                 LET opened == StartSession([c EXCEPT !.session = EndReveal(@)], now)
                 IN [WriteSettings(opened, env) EXCEPT !.phase = phase])
  /\ wrong' = 0 /\ Quiet

ChangeSettings ==
  /\ \E settings \in AskedSettings :
       Command(LAMBDA c : c.phase = "Unlocked",
               LAMBDA c, env :
                 IF env.writes
                 THEN [WriteSettings(c, env) EXCEPT !.session = WithSettings(@, settings)]
                 ELSE c)
  /\ Quiet /\ NoCredential

\* `mutate`: a saved change is dated in the settings, which are written with all they hold.
SaveNote ==
  /\ Command(LAMBDA c : c.phase = "Unlocked", LAMBDA c, env : WriteSettings(c, env))
  /\ Quiet /\ NoCredential

LockPressed ==
  /\ \E env \in Envs : core' = CoreLock(TakeCore(core, focused), now, env)
  /\ Quiet /\ NoCredential

DismissShield ==
  /\ core' = DismissSharingGuard(TakeCore(core, focused))
  /\ Quiet /\ NoCredential

OwnerActivity ==
  /\ core' = [TakeCore(core, focused) EXCEPT !.session = Activity(@, now)]
  /\ Quiet /\ NoCredential

MayShow(c) == c.phase = "Unlocked" /\ Undisturbed(c) /\ c.window_in_front

ShowField ==
  /\ \E item \in HiddenField :
       Command(LAMBDA c : MayShow(c),
               LAMBDA c, env : [c EXCEPT !.session = StartReveal(@, item, "Timed", now)])
  /\ Quiet /\ NoCredential

MoreTime ==
  /\ Command(LAMBDA c : c.phase = "Unlocked" /\ Undisturbed(c),
             LAMBDA c, env : [c EXCEPT !.session = ExtendReveal(@, now)])
  /\ Quiet /\ NoCredential

\* A clipboard that cannot be opened refuses the copy of a field that was already admitted.
CopyField ==
  /\ core.board.count < MaxChanges
  /\ \E item \in HiddenField, wallet \in BOOLEAN :
       Command(LAMBDA c : MayShow(c) /\ Admits(c.session, item, now),
               LAMBDA c, env :
                 LET admitted == [c EXCEPT !.session = AdmitHiddenField(@, item, now)]
                 IN IF env.clears THEN CopyOut(admitted, wallet, now) ELSE admitted)
  /\ Quiet /\ NoCredential

\* One that was never hidden: nothing is admitted.
CopyVisibleField ==
  /\ core.board.count < MaxChanges
  /\ Command(LAMBDA c : MayShow(c),
             LAMBDA c, env : IF env.clears THEN CopyOut(c, FALSE, now) ELSE c)
  /\ Quiet /\ NoCredential

\* The value is shown first; one that could not be copied is not shown either.
ShowAndCopyWalletField ==
  /\ core.board.count < MaxChanges
  /\ \E item \in HiddenField :
       Command(LAMBDA c : MayShow(c) /\ Admits(c.session, item, now),
               LAMBDA c, env :
                 LET shown == [c EXCEPT !.session = StartReveal(@, item, "Accessible", now)]
                 IN IF env.clears THEN CopyOut(shown, TRUE, now)
                    ELSE [shown EXCEPT !.session = EndReveal(@)])
  /\ Quiet /\ NoCredential

\* Also what opening a credential panel does to a value that is shown.
HideField ==
  /\ core' = [TakeCore(core, focused) EXCEPT !.session = EndReveal(@)]
  /\ Quiet /\ NoCredential

Next ==
  \/ Clock
  \/ Probe
  \/ Round
  \/ Reported
  \/ Delivered
  \/ LockEvent
  \/ AppsChange
  \/ OtherCopies
  \/ Restart
  \/ CreateVault
  \/ ConfirmRecoveryKit
  \/ UnlockAccepted
  \/ WrongCredential
  \/ TouchId
  \/ SetNewPassword
  \/ Reauthenticated
  \/ Install
  \/ ChangeSettings
  \/ SaveNote
  \/ LockPressed
  \/ DismissShield
  \/ OwnerActivity
  \/ ShowField
  \/ MoreTime
  \/ CopyField
  \/ CopyVisibleField
  \/ ShowAndCopyWalletField
  \/ HideField

Spec == Init /\ [][Next]_vars

-----------------------------------------------------------------------------
(* Properties *)

TypeOK ==
  /\ now \in Time
  /\ core \in Core
  /\ focused \in BOOLEAN /\ inFlight \in [FocusEvents -> Nat]
  /\ probe \in Option(SUBSET App) /\ running \in SUBSET App
  /\ wrong \in 0..CountMax /\ settled \in BOOLEAN

\* The core holds keys and a document exactly while the session runs its Auto-lock:
\* nothing opens a Vault without a session to lock it, and nothing ends the session and
\* leaves the Vault open (`apply`, `forget_open_vaults`, `start_session`).
OpenIffUnlocked == core.phase \in OpenPhases <=> IsUnlocked(core.session)

\* The shield the owner sees and the guard that refuses to show are one: it is up while a
\* known app runs that was not dismissed, and a dismissal covers exactly what was last
\* detected (`GuardState::update`, `reset_guard`).
GuardInForce ==
  /\ core.session.sharing_guard_up <=> ShieldApps(core) # {}
  /\ core.dismissed # None => core.dismissed = core.detected

\* "I'm not sharing" never outlives a lock or reaches into the next session, whichever
\* way the Vault is opened and closed; only a Vault being created keeps it until its
\* Recovery Kit is confirmed (`forget_open_vaults`, `start_session`).
DismissalEnds ==
  [][ LET opened == core.phase \notin OpenPhases /\ core'.phase \in OpenPhases \ {"KitNew"}
          closed == core.phase \in OpenPhases /\ core'.phase \notin OpenPhases
          saved  == core.phase = "KitNew" /\ core'.phase = "Unlocked"
      IN opened \/ closed \/ saved => core'.dismissed = None ]_core

\* A copy of ours that is still on the clipboard is always on its way out: the session
\* holds a clear for this very copy, through locks, failed clears and new copies
\* (`apply`, `retry_clipboard_clear`).
CopyTracked ==
  core.board.holds = "ours" =>
    /\ core.session.clipboard # None
    /\ core.session.clipboard.change_count = core.board.count

\* Once every focus event has reached the core, in whatever order, nothing is shown in a
\* window that the OS says is not in front (`set_window_in_front`, `in_front_check`).
FocusHides ==
  ~focused /\ inFlight = [event \in FocusEvents |-> 0] => core.session.reveal = None

\* A restart forgives no wrong credential as long as the settings can be written.
AttemptsCarried == wrong <= core.session.failures

\* "Keep the wrong-credential count on disk, so a restart doesn't hand out fresh
\* attempts": after a tick that could write it, the disk has the count.
CountOnDisk == settled => core.stored_attempts = core.session.failures
=============================================================================
