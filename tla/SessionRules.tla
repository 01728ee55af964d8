---------------------------- MODULE SessionRules ----------------------------
(***************************************************************************)
(* The rules of crates/session as operators on one session record: when an *)
(* open app locks, what may be shown, and when a copy leaves the clipboard. *)
(* A method of `Session` is an operator from the session before the call   *)
(* to the session after it, so that a handler that makes several calls is  *)
(* a composition of operators.  `now` is the monotonic clock of the app.   *)
(***************************************************************************)
EXTENDS Integers, Sequences, FiniteSets

CONSTANTS
  None,                 \* Option::None
  Note, Field,          \* note ids and the names of their Hidden Fields
  IdleChoices,          \* IDLE_MINUTE_CHOICES, as times
  ClearChoices,         \* CLIPBOARD_CLEAR_SECOND_CHOICES, as times
  DefaultClear,         \* DEFAULT_CLIPBOARD_CLEAR_SECONDS, = CLIPBOARD_CLEAR_MS
  ActivityCap,          \* ACTIVITY_ANYWHERE_CAP_MS
  TimedLength, AccessibleLength, HeldMax,   \* how long each reveal lasts
  MaxExtensions,        \* MAX_ACCESSIBLE_EXTENSIONS
  CountMax,             \* u32::MAX, where the counters stop
  RevealWindow,         \* REVEAL_WINDOW_MS
  MaxFieldsPerWindow,   \* MAX_FIELDS_PER_WINDOW
  FreeAttempts,         \* FREE_ATTEMPTS
  FailureDelays,        \* FAILURE_DELAYS_MS, a nonempty sequence of times
  RetryDelay            \* the 250 ms after a failed clipboard clear

Time == Nat
Option(S) == {None} \cup S

\* A Hidden Field, by note and field name.
HiddenField == Note \X Field
NoteOf(item) == item[1]

RevealMode == {"Timed", "Held", "Accessible"}

\* What has to be known of the constants; the values of the code satisfy it.
ASSUME RulesAssumption ==
  /\ IdleChoices \subseteq Time \ {0} /\ IdleChoices # {}
  /\ ClearChoices \subseteq Time \ {0} /\ DefaultClear \in ClearChoices
  /\ ActivityCap \in Time /\ \A c \in IdleChoices : c <= ActivityCap
  /\ {TimedLength, AccessibleLength, HeldMax, RetryDelay} \subseteq Time \ {0}
  /\ MaxExtensions \in Nat /\ CountMax \in Nat /\ MaxExtensions <= CountMax
  /\ RevealWindow \in Time \ {0} /\ MaxFieldsPerWindow \in Nat
  /\ FreeAttempts \in Nat /\ FailureDelays \in Seq(Time) /\ Len(FailureDelays) > 0

\* The counter of failures does not stop before they earn the longest delay.
ASSUME CountAssumption == FreeAttempts + Len(FailureDelays) <= CountMax + 1

LockSettings == [idle_minutes : IdleChoices, lock_on_app_switch : BOOLEAN,
                 clipboard_clear_seconds : ClearChoices,
                 count_activity_anywhere : BOOLEAN]

Reveal == [item : HiddenField, mode : RevealMode, expires_at : Option(Time),
           extensions : 0..CountMax]

PendingClear == [change_count : Nat, due_at : Time]

ASSUME NoneAssumption == /\ None \notin Time
                         /\ None \notin Reveal
                         /\ None \notin PendingClear

\* `recently_disclosed` maps each Hidden Field to when it was last admitted, and
\* to None when the vector has no entry for it.
SessionState ==
  [settings : LockSettings, last_activity : Option(Time), last_elsewhere : Option(Time),
   failures : 0..CountMax, last_failure_at : Time, reveal : Option(Reveal),
   held_until : Option(Time), recently_disclosed : [HiddenField -> Option(Time)],
   sharing_guard_up : BOOLEAN, clipboard : Option(PendingClear)]

-----------------------------------------------------------------------------
(* Settings *)

Distance(a, b) == IF a < b THEN b - a ELSE a - b

\* The choice nearest to what was asked for, the shorter of two that are as near.
NearestIdle(wanted) ==
  CHOOSE c \in IdleChoices : \A d \in IdleChoices \ {c} :
    \/ Distance(c, wanted) < Distance(d, wanted)
    \/ Distance(c, wanted) = Distance(d, wanted) /\ c < d

Normalized(asked) ==
  [asked EXCEPT !.idle_minutes = NearestIdle(asked.idle_minutes),
                !.clipboard_clear_seconds =
                  IF @ \in ClearChoices THEN @ ELSE DefaultClear]

NewSession(asked) ==
  [settings |-> Normalized(asked), last_activity |-> None, last_elsewhere |-> None,
   failures |-> 0, last_failure_at |-> 0, reveal |-> None, held_until |-> None,
   recently_disclosed |-> [item \in HiddenField |-> None],
   sharing_guard_up |-> FALSE, clipboard |-> None]

WithSettings(s, asked) ==
  LET new == Normalized(asked) IN
  [s EXCEPT !.settings = new,
            !.last_elsewhere = IF new.count_activity_anywhere THEN @ ELSE None]

-----------------------------------------------------------------------------
(* Auto-lock *)

IsUnlocked(s) == s.last_activity # None

Latest(a, b) == IF a < b THEN b ELSE a
Earliest(a, b) == IF a < b THEN a ELSE b
SaturatingIncrement(count) == Earliest(count + 1, CountMax)

\* Mutant: activity elsewhere also moves the limit of the owner's own activity.
LockDeadlineUncapped(s) ==
  LET latest == IF s.last_elsewhere = None THEN s.last_activity
                ELSE Latest(s.last_elsewhere, s.last_activity)
  IN latest + s.settings.idle_minutes

\* Only meaningful while Unlocked.
LockDeadline(s) ==
  LET inside == s.last_activity
      idle   == s.settings.idle_minutes
      latest == IF s.last_elsewhere = None THEN inside ELSE Latest(s.last_elsewhere, inside)
  IN IF s.settings.count_activity_anywhere
     THEN Earliest(latest + idle, inside + ActivityCap)
     ELSE inside + idle

AutoLockDue(s, now) == IsUnlocked(s) /\ now >= LockDeadline(s)

\* Mutant: Touch ID forgives the failed passwords.
QuickUnlockedForgives(s, now) ==
  [s EXCEPT !.last_activity = now, !.last_elsewhere = None, !.failures = 0]

QuickUnlocked(s, now) == [s EXCEPT !.last_activity = now, !.last_elsewhere = None]
Unlocked(s, now) == [QuickUnlocked(s, now) EXCEPT !.failures = 0]

\* Mutant: activity that comes after the lock was due still counts.
ActivityRevives(s, now) ==
  IF IsUnlocked(s) THEN [s EXCEPT !.last_activity = Latest(@, now)] ELSE s

Activity(s, now) ==
  IF ~AutoLockDue(s, now) /\ IsUnlocked(s)
  THEN [s EXCEPT !.last_activity = Latest(@, now)]
  ELSE s

ActivityElsewhere(s, at, now) ==
  IF ~s.settings.count_activity_anywhere \/ ~IsUnlocked(s) \/ AutoLockDue(s, now)
  THEN s
  ELSE LET seen == Earliest(at, now) IN
       [s EXCEPT !.last_elsewhere = IF @ = None THEN seen ELSE Latest(@, seen)]

EndReveal(s) == [s EXCEPT !.reveal = None]
BecomeLocked(s) == [s EXCEPT !.last_elsewhere = None, !.last_activity = None]
Lock(s) == BecomeLocked([EndReveal(s) EXCEPT !.clipboard = None])

\* When a shown value is hidden even if nobody asks: `expires_at.or(held_until)`.
HideAt(s) == IF s.reveal.expires_at # None THEN s.reveal.expires_at ELSE s.held_until

RevealExpired(s, now) ==
  s.reveal # None /\ HideAt(s) # None /\ now >= HideAt(s)

ClearDue(s, now) == s.clipboard # None /\ now >= s.clipboard.due_at

Tick(s, now) ==
  IF AutoLockDue(s, now)
  THEN Lock(s)
  ELSE [s EXCEPT !.reveal = IF RevealExpired(s, now) THEN None ELSE @,
                 !.clipboard = IF ClearDue(s, now) THEN None ELSE @]

LockingEvents == {"Sleep", "ScreenLocked", "UserSwitched", "Quit"}
OsEvents == LockingEvents \cup {"FocusLost", "FocusGained"}

OsEvent(s, event) ==
  CASE event \in LockingEvents -> Lock(s)
    [] event = "FocusLost" /\ s.settings.lock_on_app_switch -> BecomeLocked(EndReveal(s))
    [] event = "FocusLost" /\ ~s.settings.lock_on_app_switch -> EndReveal(s)
    [] event = "FocusGained" -> s

\* The effects of a call that turned s into t: what it took away, the app carries out.
Effects(s, t) ==
  [lock  |-> IsUnlocked(s) /\ ~IsUnlocked(t),
   hide  |-> s.reveal # None /\ t.reveal = None,
   clear |-> IF s.clipboard # None /\ t.clipboard = None
             THEN s.clipboard.change_count ELSE None]

-----------------------------------------------------------------------------
(* Wrong credentials *)

\* The delay that `failures` consecutive failures have earned.
Delay(failures) ==
  IF failures < FreeAttempts THEN 0
  ELSE FailureDelays[Earliest(failures - FreeAttempts + 1, Len(FailureDelays))]

AttemptAllowed(s, now) ==
  s.failures < FreeAttempts \/ now >= s.last_failure_at + Delay(s.failures)

FailedAttempt(s, now) ==
  [s EXCEPT !.failures = SaturatingIncrement(@), !.last_failure_at = now]
RestoreFailures(s, count, now) ==
  [s EXCEPT !.failures = count, !.last_failure_at = now]

-----------------------------------------------------------------------------
(* Showing and copying Hidden Fields *)

Pruned(s, now) ==
  [s EXCEPT !.recently_disclosed =
     [item \in HiddenField |->
        IF @[item] # None /\ now < @[item] + RevealWindow THEN @[item] ELSE None]]

Disclosed(s) == {item \in HiddenField : s.recently_disclosed[item] # None}

MayDisclose(s, now) == IsUnlocked(s) /\ ~AutoLockDue(s, now) /\ ~s.sharing_guard_up

HasRoom(s, item) ==
  item \in Disclosed(s) \/ Cardinality(Disclosed(s)) < MaxFieldsPerWindow

Admits(s, item, now) == MayDisclose(s, now) /\ HasRoom(Pruned(s, now), item)

\* Mutant: a second request for a field that is still listed does not renew its time.
AdmitWithoutRenewal(s, item, now) ==
  LET pruned == Pruned(s, now) IN
  IF ~MayDisclose(s, now) THEN s
  ELSE IF item \notin Disclosed(pruned) /\ HasRoom(pruned, item)
       THEN [pruned EXCEPT !.recently_disclosed[item] = now]
       ELSE pruned

\* The session after the call, whether it admitted the field or refused it.
AdmitHiddenField(s, item, now) ==
  IF ~MayDisclose(s, now) THEN s
  ELSE IF HasRoom(Pruned(s, now), item)
       THEN [Pruned(s, now) EXCEPT !.recently_disclosed[item] = now]
       ELSE Pruned(s, now)

RevealLength(mode) == IF mode = "Timed" THEN TimedLength ELSE AccessibleLength

StartReveal(s, item, mode, now) ==
  LET admitted == AdmitHiddenField(s, item, now) IN
  IF ~Admits(s, item, now) THEN admitted
  ELSE [admitted EXCEPT
          !.held_until = IF mode = "Held" THEN now + HeldMax ELSE None,
          !.reveal = [item |-> item, mode |-> mode, extensions |-> 0,
                      expires_at |-> IF mode = "Held" THEN None
                                     ELSE now + RevealLength(mode)]]

\* Mutant: one extension too many.
CanExtendOnceMore(r) == \/ r.mode = "Timed"
                        \/ r.mode = "Accessible" /\ r.extensions <= MaxExtensions

CanExtend(r) == \/ r.mode = "Timed"
                \/ r.mode = "Accessible" /\ r.extensions < MaxExtensions

Extends(s, now) ==
  /\ ~AutoLockDue(s, now)
  /\ s.reveal # None
  /\ s.reveal.mode # "Held"
  /\ s.reveal.expires_at # None /\ now < s.reveal.expires_at
  /\ CanExtend(s.reveal)

ExtendReveal(s, now) ==
  IF ~Extends(s, now) THEN s
  ELSE [s EXCEPT !.reveal.extensions = SaturatingIncrement(@),
                 !.reveal.expires_at = Latest(@, now + RevealLength(s.reveal.mode))]

NoteOpened(s, note) ==
  IF s.reveal # None /\ NoteOf(s.reveal.item) # note THEN EndReveal(s) ELSE s

\* Mutant: a value that was already shown stays when the guard goes up.
SetSharingGuardOnly(s, up) == [s EXCEPT !.sharing_guard_up = up]

SetSharingGuard(s, up) ==
  LET guarded == [s EXCEPT !.sharing_guard_up = up] IN
  IF up THEN EndReveal(guarded) ELSE guarded

-----------------------------------------------------------------------------
(* The clipboard *)

ClearAfter(s, count, due) ==
  [s EXCEPT !.clipboard = [change_count |-> count, due_at |-> due]]

Copied(s, count, now) == ClearAfter(s, count, now + s.settings.clipboard_clear_seconds)
CopiedWalletValue(s, count, now) == ClearAfter(s, count, now + DefaultClear)

RetryClipboardClear(s, count, now) ==
  IF s.clipboard = None \/ s.clipboard.change_count = count
  THEN ClearAfter(s, count, now + RetryDelay)
  ELSE s
=============================================================================
