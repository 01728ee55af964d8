------------------------------ MODULE AppCore -------------------------------
(***************************************************************************)
(* The protection side of src-tauri/src/core.rs: how the core carries out  *)
(* what the session decides, keeps the Sharing Guard and the session in    *)
(* step, and drops the open Vault.  A method of AppCore is an operator on  *)
(* one record.  Every method runs under the one lock of the core, so it is *)
(* one step; `env` says whether, in that step, the system clipboard can be *)
(* opened (`clears`) and the settings file can be written (`writes`).      *)
(***************************************************************************)
EXTENDS SessionRules

CONSTANTS
  App,               \* the known sharing and recording apps
  ClearsLeftover     \* a start clears what the last run left on the clipboard (the Mac does)

ASSUME AppAssumption == \A apps \in SUBSET App : apps # None

\* NeedsNewPassword is "Reset"; ConfirmRecoveryKit is "KitNew" for a new Vault and
\* "KitRotation" for new keys of the Vault that is open.
Phase == {"NoVault", "KitNew", "Locked", "Reset", "Unlocked", "KitRotation"}
OpenPhases == Phase \ {"NoVault", "Locked"}

\* The system clipboard: its change counter and whose text it holds; "left" is a copy that
\* an earlier run of the app made.
Board == [count : Nat, holds : {"nothing", "ours", "left", "other"}]

Env == [clears : BOOLEAN, writes : BOOLEAN]

Core == [session : SessionState, phase : Phase,
         detected : SUBSET App, dismissed : Option(SUBSET App),
         window_in_front : BOOLEAN,
         failed_attempts : 0..CountMax,     \* in the settings in memory
         stored_attempts : 0..CountMax,     \* in settings.json
         board : Board]

-----------------------------------------------------------------------------
(* The Sharing Guard *)

ShieldApps(c) == IF c.dismissed # None THEN {} ELSE c.detected

\* A detection covered by the dismissal keeps it, for the apps that kept running.
GuardStateUpdate(c, apps) ==
  LET covered == c.dismissed # None /\ apps \subseteq c.dismissed
  IN [c EXCEPT !.detected = apps, !.dismissed = IF covered THEN @ \cap apps ELSE None]

GuardUpdate(c, apps) ==
  LET new == GuardStateUpdate(c, apps)
  IN [new EXCEPT !.session = SetSharingGuard(@, ShieldApps(new) # {})]

GuardStateDismiss(c) == [c EXCEPT !.dismissed = c.detected]

DismissSharingGuard(c) ==
  [GuardStateDismiss(c) EXCEPT !.session = SetSharingGuard(@, FALSE)]

\* Mutant: the session is not told that the shield is back.
ResetGuardOnly(c) == [c EXCEPT !.dismissed = None]

ResetGuard(c) ==
  [c EXCEPT !.dismissed = None, !.session = SetSharingGuard(@, c.detected # {})]

-----------------------------------------------------------------------------
(* Locking *)

ForgetOpenVaults(c) ==
  ResetGuard([c EXCEPT !.phase = IF @ \in {"NoVault", "KitNew"} THEN "NoVault" ELSE "Locked"])

ClearIf(board, count) ==
  IF board.count = count THEN [count |-> count + 1, holds |-> "nothing"] ELSE board

\* Mutant: a clear that failed is not tried again.
NoRetry(c, count, now) == c
RetryClear(c, count, now) == [c EXCEPT !.session = RetryClipboardClear(@, count, now)]

\* Mutant: a session that ended by itself leaves the Vault open.
ApplyClearOnly(c, after, now, env) ==
  LET effects == Effects(c.session, after)
      new     == [c EXCEPT !.session = after]
  IN IF effects.clear = None THEN new
     ELSE IF env.clears THEN [new EXCEPT !.board = ClearIf(@, effects.clear)]
     ELSE RetryClear(new, effects.clear, now)

\* `apply`: the session has become `after`; what that took away is carried out.
Apply(c, after, now, env) ==
  LET effects == Effects(c.session, after)
      new     == [c EXCEPT !.session = after]
      locked  == IF effects.lock THEN ForgetOpenVaults(new) ELSE new
  IN IF effects.clear = None THEN locked
     ELSE IF env.clears THEN [locked EXCEPT !.board = ClearIf(@, effects.clear)]
     ELSE RetryClear(locked, effects.clear, now)

-----------------------------------------------------------------------------
(* Calls *)

\* Mutant: the count of wrong credentials never leaves the memory.
CountKeptInMemory(c, env) == c

\* All settings go to the disk at once, the count of wrong credentials among them.  A call
\* that need not write is covered by a write that fails: neither changes anything here.
WriteSettings(c, env) ==
  IF env.writes THEN [c EXCEPT !.stored_attempts = c.failed_attempts] ELSE c

\* A write that fails is not noticed: the count in memory has changed already.
SaveFailures(c, env) ==
  IF c.session.failures = c.failed_attempts THEN c
  ELSE WriteSettings([c EXCEPT !.failed_attempts = c.session.failures], env)

CoreTick(c, now, env) == SaveFailures(Apply(c, Tick(c.session, now), now, env), env)

\* Mutant: the core keeps what it last heard of the focus.
FocusAsHeard(c, focused) == c

\* Taking the lock of the core brings its idea of the focus up to date.
TakeCore(c, focused) == [c EXCEPT !.window_in_front = focused]

\* How every command begins.
Begun(c, focused, now, env) == CoreTick(TakeCore(c, focused), now, env)

Locks(c, event) == \/ event \in LockingEvents
                   \/ event = "FocusLost" /\ c.session.settings.lock_on_app_switch

CoreOsEvent(c, event, focused, now, env) ==
  LET told    == TakeCore(c, focused)
      carried == Apply(told, OsEvent(told.session, event), now, env)
  IN IF Locks(carried, event) THEN ForgetOpenVaults(carried) ELSE carried

CoreLock(c, now, env) == ForgetOpenVaults(Apply(c, Lock(c.session), now, env))

\* Mutant: a dismissal made before the Vault was opened goes on.
StartSessionOnly(c, now) == [c EXCEPT !.session = Unlocked(@, now)]

StartSession(c, now) == ResetGuard([c EXCEPT !.session = Unlocked(@, now)])

\* `copy_out`, once the text is on the clipboard.
CopyOut(c, wallet, now) ==
  LET count == c.board.count + 1 IN
  [c EXCEPT !.board = [count |-> count, holds |-> "ours"],
            !.session = IF wallet THEN CopiedWalletValue(@, count, now) ELSE Copied(@, count, now)]

\* A new process, with what the last one left on the disk and on the clipboard.
NewCore(c) ==
  LET new == NewSession(c.session.settings) IN
  [session |-> IF c.stored_attempts > 0 THEN RestoreFailures(new, c.stored_attempts, 0)
               ELSE new,
   phase |-> IF c.phase \in {"NoVault", "KitNew"} THEN "NoVault" ELSE "Locked",
   detected |-> {}, dismissed |-> None, window_in_front |-> TRUE,
   failed_attempts |-> c.stored_attempts, stored_attempts |-> c.stored_attempts,
   board |-> IF c.board.holds \notin {"ours", "left"} THEN c.board
             ELSE IF ClearsLeftover THEN [count |-> c.board.count + 1, holds |-> "nothing"]
             ELSE [c.board EXCEPT !.holds = "left"]]
=============================================================================
