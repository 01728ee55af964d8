------------------------------ MODULE Session -------------------------------
(***************************************************************************)
(* One open app driving crates/session: the clock runs, the owner and the  *)
(* operating system act in any order, and `tick` comes at any moment, so   *)
(* that every rule is met both before and after the tick that enforces it. *)
(* Six history variables record what was asked of the session and when;    *)
(* no operation reads them.                                                *)
(***************************************************************************)
EXTENDS SessionRules

CONSTANTS
  AskedIdle,         \* idle times the screens or a settings file may ask for
  AskedClear,        \* clipboard times they may ask for
  AskedAppSwitch,    \* values of lock_on_app_switch explored
  AskedAnywhere,     \* values of count_activity_anywhere explored
  ChangeCounts,      \* clipboard change counters
  MaxTime            \* bound on the clock

ASSUME SessionAssumption ==
  /\ AskedAppSwitch \subseteq BOOLEAN /\ AskedAnywhere \subseteq BOOLEAN
  /\ ChangeCounts \subseteq Nat
  /\ AskedIdle \subseteq Nat
  /\ \A wanted \in AskedIdle : NearestIdle(wanted) \in IdleChoices

VARIABLES
  now,            \* the monotonic clock
  session,        \* the Session
  lastInside,     \* when the owner last unlocked the app or acted inside its window
  wasDue,         \* since the last unlock or change of settings, the Auto-lock was due
  shownAt,        \* when the shown value was asked for
  renewedAt,      \* when it was last asked for or given more time
  lastAdmitted,   \* per Hidden Field, when it was last shown or copied
  wrong           \* the wrong credentials since the last right one: how many, the first, the last,
                  \* and the sum of the delays that each of them but the last had earned

history == <<lastInside, wasDue, shownAt, renewedAt, lastAdmitted, wrong>>
vars == <<now, session, history>>

AskedSettings ==
  [idle_minutes : AskedIdle, lock_on_app_switch : AskedAppSwitch,
   clipboard_clear_seconds : AskedClear, count_activity_anywhere : AskedAnywhere]

NoneWrong == [count |-> 0, first |-> 0, last |-> 0, delays |-> 0]

Init ==
  /\ now = 0
  /\ \E asked \in AskedSettings : session = NewSession(asked)
  /\ lastInside = 0 /\ wasDue = FALSE
  /\ shownAt = 0 /\ renewedAt = 0 /\ wrong = NoneWrong
  /\ lastAdmitted = [item \in HiddenField |-> None]

-----------------------------------------------------------------------------

Clock ==
  /\ now < MaxTime
  /\ now' = now + 1
  /\ wasDue' = (wasDue \/ AutoLockDue(session, now'))
  /\ UNCHANGED <<session, lastInside, shownAt, renewedAt, lastAdmitted, wrong>>

ChangeSettings ==
  \E asked \in AskedSettings :
    /\ session' = WithSettings(session, asked)
    /\ wasDue' = AutoLockDue(session', now)
    /\ UNCHANGED <<now, lastInside, shownAt, renewedAt, lastAdmitted, wrong>>

\* A credential is tried only when the earlier failures have been waited for.
CredentialAccepted ==
  /\ AttemptAllowed(session, now)
  /\ session' = Unlocked(session, now)
  /\ lastInside' = now /\ wasDue' = FALSE
  /\ wrong' = NoneWrong
  /\ UNCHANGED <<now, shownAt, renewedAt, lastAdmitted>>

CredentialRejected ==
  /\ AttemptAllowed(session, now)
  /\ session' = FailedAttempt(session, now)
  /\ wrong' = IF wrong.count = 0
              THEN [count |-> 1, first |-> now, last |-> now, delays |-> 0]
              ELSE [wrong EXCEPT !.count = @ + 1, !.last = now,
                                 !.delays = @ + Delay(wrong.count)]
  /\ UNCHANGED <<now, lastInside, wasDue, shownAt, renewedAt, lastAdmitted>>

TouchIdAccepted ==
  /\ ~IsUnlocked(session)
  /\ session' = QuickUnlocked(session, now)
  /\ lastInside' = now /\ wasDue' = FALSE
  /\ UNCHANGED <<now, shownAt, renewedAt, lastAdmitted, wrong>>

OwnerActivity ==
  /\ session' = Activity(session, now)
  /\ lastInside' = now
  /\ UNCHANGED <<now, wasDue, shownAt, renewedAt, lastAdmitted, wrong>>

\* The OS reports how long ago the input was; it is never older than the boot.
InputElsewhere ==
  \E at \in 0..MaxTime :
    /\ session' = ActivityElsewhere(session, at, now)
    /\ UNCHANGED <<now, history>>

Ticks ==
  /\ session' = Tick(session, now)
  /\ UNCHANGED <<now, history>>

OsReports ==
  \E event \in OsEvents :
    /\ session' = OsEvent(session, event)
    /\ UNCHANGED <<now, history>>

LockPressed ==
  /\ session' = Lock(session)
  /\ UNCHANGED <<now, history>>

Show ==
  \E item \in HiddenField, mode \in RevealMode :
    /\ session' = StartReveal(session, item, mode, now)
    /\ IF Admits(session, item, now)
       THEN /\ shownAt' = now /\ renewedAt' = now
            /\ lastAdmitted' = [lastAdmitted EXCEPT ![item] = now]
       ELSE UNCHANGED <<shownAt, renewedAt, lastAdmitted>>
    /\ UNCHANGED <<now, lastInside, wasDue, wrong>>

CopyField ==
  \E item \in HiddenField :
    /\ session' = AdmitHiddenField(session, item, now)
    /\ lastAdmitted' = IF Admits(session, item, now)
                       THEN [lastAdmitted EXCEPT ![item] = now] ELSE lastAdmitted
    /\ UNCHANGED <<now, lastInside, wasDue, shownAt, renewedAt, wrong>>

MoreTime ==
  /\ session' = ExtendReveal(session, now)
  /\ renewedAt' = IF Extends(session, now) THEN now ELSE renewedAt
  /\ UNCHANGED <<now, lastInside, wasDue, shownAt, lastAdmitted, wrong>>

Hide ==
  /\ session' = EndReveal(session)
  /\ UNCHANGED <<now, history>>

OpenNote ==
  \E note \in Note :
    /\ session' = NoteOpened(session, note)
    /\ UNCHANGED <<now, history>>

GuardReports ==
  \E up \in BOOLEAN :
    /\ session' = SetSharingGuard(session, up)
    /\ UNCHANGED <<now, history>>

ClipboardWritten ==
  \E count \in ChangeCounts, wallet \in BOOLEAN :
    /\ session' = IF wallet THEN CopiedWalletValue(session, count, now)
                            ELSE Copied(session, count, now)
    /\ UNCHANGED <<now, history>>

ClearFailed ==
  \E count \in ChangeCounts :
    /\ session' = RetryClipboardClear(session, count, now)
    /\ UNCHANGED <<now, history>>

Next ==
  \/ Clock
  \/ ChangeSettings
  \/ CredentialAccepted
  \/ CredentialRejected
  \/ TouchIdAccepted
  \/ OwnerActivity
  \/ InputElsewhere
  \/ Ticks
  \/ OsReports
  \/ LockPressed
  \/ Show
  \/ CopyField
  \/ MoreTime
  \/ Hide
  \/ OpenNote
  \/ GuardReports
  \/ ClipboardWritten
  \/ ClearFailed

Spec == Init /\ [][Next]_vars

-----------------------------------------------------------------------------
(* Properties *)

\* The session and the history variables have their types.
TypeOK ==
  /\ now \in Time
  /\ session \in SessionState
  /\ lastInside \in Time /\ shownAt \in Time /\ renewedAt \in Time
  /\ wrong \in [count : Nat, first : Time, last : Time, delays : Time]
  /\ wasDue \in BOOLEAN
  /\ lastAdmitted \in [HiddenField -> Option(Time)]

\* A value is on the screen only while the app is Unlocked and the Sharing Guard is
\* down: whatever locks the app or raises the guard has hidden it (`lock`,
\* `os_event`, `set_sharing_guard`, and every path of `tick`).
ShownOnlyWhenAllowed ==
  session.reveal # None => IsUnlocked(session) /\ ~session.sharing_guard_up

\* At most MAX_FIELDS_PER_WINDOW different Hidden Fields are shown or copied within any
\* REVEAL_WINDOW_MS, through locks and unlocks, refused requests and repeats
\* (`admit_hidden_field` prunes and renews its list as it goes).
WindowLimit ==
  Cardinality({item \in HiddenField :
                 lastAdmitted[item] # None /\ now < lastAdmitted[item] + RevealWindow})
    <= MaxFieldsPerWindow

\* However often it is renewed, a tick hides a shown value once its time is over:
\* HeldMax for a held one, one length after the last request for the others, and for
\* an Accessible one never more than 1 + MAX_ACCESSIBLE_EXTENSIONS lengths in all.
\* (`tick`, with what `start_reveal` and `extend_reveal` left it to go by.)
RevealBounded ==
  LET r == Tick(session, now).reveal IN
  r # None =>
    /\ now < renewedAt + (IF r.mode = "Held" THEN HeldMax ELSE RevealLength(r.mode))
    /\ r.mode = "Accessible" => now < shownAt + AccessibleLength * (1 + MaxExtensions)

\* Nothing that happens elsewhere on the computer keeps the app open: a tick
\* ACTIVITY_ANYWHERE_CAP_MS after the owner last acted inside it leaves it Locked,
\* whatever the settings were in between (`activity_elsewhere`, `lock_deadline`).
CapHolds == IsUnlocked(Tick(session, now)) => now < lastInside + ActivityCap

\* A session whose Auto-lock has been due is not revived: until a credential, Touch ID
\* or a change of settings comes, it stays due or is Locked (the guard of `activity`
\* and of `activity_elsewhere`).
NoRevival == wasDue /\ IsUnlocked(session) => AutoLockDue(session, now)

\* A run of wrong credentials has cost the owner the sum of its delays, with locks,
\* quick unlocks and settings changes in between (`attempt_allowed`, `failed_attempt`;
\* `quick_unlocked` forgives nothing).
BackoffAccumulates ==
  wrong.count > 0 => wrong.last >= wrong.first + wrong.delays
=============================================================================
