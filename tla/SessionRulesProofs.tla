-------------------------- MODULE SessionRulesProofs --------------------------
(***************************************************************************)
(* What the operations of SessionRules do, for every value of the          *)
(* constants: used by the proofs about Session and about Shell.            *)
(***************************************************************************)
EXTENDS SessionRules, TLAPS

-----------------------------------------------------------------------------
(* The operations keep the type of a session. *)

\* `Session::new` starts a well-typed session.
LEMMA NewSessionType ==
  ASSUME NEW asked, Normalized(asked) \in LockSettings
  PROVE  NewSession(asked) \in SessionState
BY RulesAssumption DEF NewSession, SessionState, Option, Time

\* `set_settings` keeps the type of a session.
LEMMA WithSettingsType ==
  ASSUME NEW s \in SessionState, NEW asked, Normalized(asked) \in LockSettings
  PROVE  WithSettings(s, asked) \in SessionState
BY DEF WithSettings, SessionState, Option

\* Both ways to open a Vault keep the type of a session.
LEMMA UnlockedType ==
  ASSUME NEW s \in SessionState, NEW t \in Time
  PROVE  Unlocked(s, t) \in SessionState /\ QuickUnlocked(s, t) \in SessionState
<1>1. QuickUnlocked(s, t) \in SessionState
  BY DEF QuickUnlocked, SessionState, Option
<1>2. 0 \in 0..CountMax
  BY RulesAssumption
<1> QED
  BY <1>1, <1>2 DEF Unlocked, SessionState

\* `activity` keeps the type of a session.
LEMMA ActivityType ==
  ASSUME NEW s \in SessionState, NEW t \in Time
  PROVE  Activity(s, t) \in SessionState
BY DEF Activity, IsUnlocked, Latest, SessionState, Option

\* `activity_elsewhere` keeps the type of a session.
LEMMA ActivityElsewhereType ==
  ASSUME NEW s \in SessionState, NEW at \in Time, NEW t \in Time
  PROVE  ActivityElsewhere(s, at, t) \in SessionState
BY DEF ActivityElsewhere, Latest, Earliest, SessionState, Option

\* `lock` and the end of a reveal keep the type of a session.
LEMMA LockType ==
  ASSUME NEW s \in SessionState
  PROVE  /\ EndReveal(s) \in SessionState
         /\ BecomeLocked(s) \in SessionState
         /\ Lock(s) \in SessionState
BY DEF EndReveal, BecomeLocked, Lock, SessionState, Option

\* `tick` keeps the type of a session.
LEMMA TickType ==
  ASSUME NEW s \in SessionState, NEW t \in Time
  PROVE  Tick(s, t) \in SessionState
<1> DEFINE r == IF RevealExpired(s, t) THEN None ELSE s.reveal
           c == IF ClearDue(s, t) THEN None ELSE s.clipboard
<1>1. Lock(s) \in SessionState
  BY LockType
<1>2. r \in Option(Reveal) /\ c \in Option(PendingClear)
  BY DEF SessionState, Option
<1>3. [s EXCEPT !.reveal = r, !.clipboard = c] \in SessionState
  <2> HIDE DEF r, c
  <2> QED
    BY <1>2 DEF SessionState
<1> QED
  BY <1>1, <1>3 DEF Tick

\* `os_event` keeps the type of a session.
LEMMA OsEventType ==
  ASSUME NEW s \in SessionState, NEW event \in OsEvents
  PROVE  OsEvent(s, event) \in SessionState
<1>1. EndReveal(s) \in SessionState
  BY LockType
<1>2. BecomeLocked(EndReveal(s)) \in SessionState /\ Lock(s) \in SessionState
  BY <1>1, LockType
<1>3. s.settings.lock_on_app_switch \in BOOLEAN
  BY DEF SessionState, LockSettings
<1> QED
  BY <1>1, <1>2, <1>3 DEF OsEvent, OsEvents

\* `failed_attempt` keeps the type: the counter saturates.
LEMMA FailedAttemptType ==
  ASSUME NEW s \in SessionState, NEW t \in Time
  PROVE  FailedAttempt(s, t) \in SessionState
<1>1. SaturatingIncrement(s.failures) \in 0..CountMax
  BY RulesAssumption DEF SaturatingIncrement, Earliest, SessionState
<1> QED
  BY <1>1 DEF FailedAttempt, SessionState

\* Forgetting old disclosures keeps the type of a session.
LEMMA PrunedType ==
  ASSUME NEW s \in SessionState, NEW t \in Time
  PROVE  Pruned(s, t) \in SessionState
BY DEF Pruned, SessionState, Option

\* `admit_hidden_field` keeps the type of a session.
LEMMA AdmitType ==
  ASSUME NEW s \in SessionState, NEW item \in HiddenField, NEW t \in Time
  PROVE  AdmitHiddenField(s, item, t) \in SessionState
<1>1. Pruned(s, t) \in SessionState
  BY PrunedType
<1>2. [Pruned(s, t) EXCEPT !.recently_disclosed[item] = t] \in SessionState
  BY <1>1 DEF SessionState, Option
<1> QED
  BY <1>1, <1>2 DEF AdmitHiddenField

\* `start_reveal` keeps the type of a session.
LEMMA StartRevealType ==
  ASSUME NEW s \in SessionState, NEW item \in HiddenField, NEW mode \in RevealMode,
         NEW t \in Time
  PROVE  StartReveal(s, item, mode, t) \in SessionState
<1> DEFINE a == AdmitHiddenField(s, item, t)
           r == [item |-> item, mode |-> mode, extensions |-> 0,
                 expires_at |-> IF mode = "Held" THEN None ELSE t + RevealLength(mode)]
           h == IF mode = "Held" THEN t + HeldMax ELSE None
<1>1. a \in SessionState
  BY AdmitType
<1>2. r \in Reveal
  BY RulesAssumption DEF Reveal, Option, RevealLength, Time
<1>3. h \in Option(Time)
  BY RulesAssumption DEF Option, Time
<1>4. [a EXCEPT !.held_until = h, !.reveal = r] \in SessionState
  <2> HIDE DEF a, r, h
  <2> QED
    BY <1>1, <1>2, <1>3 DEF SessionState, Option
<1> QED
  BY <1>1, <1>4 DEF StartReveal

\* `extend_reveal` keeps the type: its counter saturates too.
LEMMA ExtendRevealType ==
  ASSUME NEW s \in SessionState, NEW t \in Time
  PROVE  ExtendReveal(s, t) \in SessionState
<1> DEFINE e == SaturatingIncrement(s.reveal.extensions)
           x == Latest(s.reveal.expires_at, t + RevealLength(s.reveal.mode))
<1> SUFFICES ASSUME Extends(s, t)
             PROVE  [s EXCEPT !.reveal.extensions = e, !.reveal.expires_at = x]
                      \in SessionState
  BY DEF ExtendReveal
<1>1. s.reveal \in Reveal
  BY DEF Extends, SessionState, Option
<1>2. e \in 0..CountMax
  BY <1>1, RulesAssumption DEF SaturatingIncrement, Earliest, Reveal
<1>3. s.reveal.expires_at \in Time
  BY <1>1 DEF Extends, Reveal, Option
<1>4. x \in Time
  BY <1>1, <1>3, RulesAssumption DEF Latest, RevealLength, Time
<1>5. [s.reveal EXCEPT !.extensions = e, !.expires_at = x] \in Reveal
  <2> HIDE DEF e, x
  <2> QED
    BY <1>1, <1>2, <1>4 DEF Reveal, Option
<1> QED
  <2> HIDE DEF e, x
  <2> QED
    BY <1>5 DEF SessionState, Option

\* `note_opened` keeps the type of a session.
LEMMA NoteOpenedType ==
  ASSUME NEW s \in SessionState, NEW note \in Note
  PROVE  NoteOpened(s, note) \in SessionState
BY LockType DEF NoteOpened

\* `set_sharing_guard` keeps the type of a session.
LEMMA SetSharingGuardType ==
  ASSUME NEW s \in SessionState, NEW up \in BOOLEAN
  PROVE  SetSharingGuard(s, up) \in SessionState
<1>1. \A u \in BOOLEAN : [s EXCEPT !.sharing_guard_up = u] \in SessionState
  BY DEF SessionState
<1> QED
  BY <1>1, LockType DEF SetSharingGuard

\* The clipboard's methods keep the type of a session.
LEMMA ClipboardType ==
  ASSUME NEW s \in SessionState, NEW count \in Nat, NEW t \in Time
  PROVE  /\ Copied(s, count, t) \in SessionState
         /\ CopiedWalletValue(s, count, t) \in SessionState
         /\ RetryClipboardClear(s, count, t) \in SessionState
<1>1. \A due \in Time : ClearAfter(s, count, due) \in SessionState
  BY DEF ClearAfter, SessionState, PendingClear, Option
<1>2. s.settings.clipboard_clear_seconds \in Time
  BY RulesAssumption DEF SessionState, LockSettings
<1>3. DefaultClear \in Time /\ RetryDelay \in Time
  BY RulesAssumption
<1>4. /\ t + s.settings.clipboard_clear_seconds \in Time
      /\ t + DefaultClear \in Time /\ t + RetryDelay \in Time
  BY <1>2, <1>3 DEF Time
<1> QED
  BY <1>1, <1>4 DEF Copied, CopiedWalletValue, RetryClipboardClear
=============================================================================
