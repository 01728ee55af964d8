----------------------------- MODULE ShellProofs ------------------------------
(***************************************************************************)
(* What holds of the running app for every value of the constants: any     *)
(* apps, fields and settings, any delays, any failures of the clipboard.   *)
(*                                                                         *)
(* An action of Shell is a composition of operators on the core.  Each     *)
(* operator is shown to keep what a sound core is (Keeps), and the actions *)
(* follow by composition.                                                  *)
(***************************************************************************)
EXTENDS Shell, SessionRulesProofs, TLAPS

-----------------------------------------------------------------------------
(* What is kept *)

Guarded(c) ==
  /\ c.session.sharing_guard_up <=> ShieldApps(c) # {}
  /\ c.dismissed # None => c.dismissed = c.detected

Opened(c) == c.phase \in OpenPhases <=> IsUnlocked(c.session)

Tracked(c) ==
  c.board.holds = "ours" =>
    /\ c.session.clipboard # None
    /\ c.session.clipboard.change_count = c.board.count

Orderly(c) == c \in Core /\ Guarded(c) /\ Opened(c)

Sound(c) == Orderly(c) /\ Tracked(c)

Hidden(c) == c.session.reveal = None

\* n wrong credentials are accounted for, in memory and on the disk.
Counted(c, n) ==
  /\ n <= c.session.failures /\ n <= c.stored_attempts
  /\ c.stored_attempts = c.failed_attempts

\* The Vault stays as open as it was, or is closed and its dismissal forgotten with it.
Steady(c, d) ==
  /\ d.phase = c.phase \/ (d.phase \notin OpenPhases /\ d.dismissed = None)
  /\ c.dismissed = None => d.dismissed = None

\* From c to d; `writes` says whether the settings could be written.
Keeps(c, d, writes) ==
  /\ Sound(d)
  /\ Steady(c, d)
  /\ Hidden(c) => Hidden(d)
  /\ writes => \A n \in Nat : Counted(c, n) => Counted(d, n)

LEMMA KeepsTransitive ==
  ASSUME NEW c, NEW d, NEW e, NEW w, Keeps(c, d, w), Keeps(d, e, w)
  PROVE  Keeps(c, e, w)
BY DEF Keeps, Steady

\* What a call of the session may take away, and all it may.
Sheds(s, t) ==
  /\ t \in SessionState
  /\ t.settings = s.settings /\ t.failures = s.failures /\ t.sharing_guard_up = s.sharing_guard_up
  /\ t.reveal = None \/ t.reveal = s.reveal
  /\ t.clipboard = None \/ t.clipboard = s.clipboard
  /\ IsUnlocked(t) => IsUnlocked(s)

\* `tick`, `lock`, `os_event` and the end of a reveal only take away.
LEMMA SessionSheds ==
  ASSUME NEW s \in SessionState, NEW t \in Time, NEW event \in OsEvents
  PROVE  /\ Sheds(s, Tick(s, t)) /\ Sheds(s, Lock(s)) /\ Sheds(s, OsEvent(s, event)) /\ Sheds(s, EndReveal(s))
         /\ ~IsUnlocked(Lock(s))
         /\ event \in LockingEvents \/ (event = "FocusLost" /\ s.settings.lock_on_app_switch)
              => ~IsUnlocked(OsEvent(s, event))
         /\ Lock(s).reveal = None
         /\ event # "FocusGained" => OsEvent(s, event).reveal = None
<1> DEFINE L == Lock(s)
           E == EndReveal(s)
           B == BecomeLocked(E)
<1>1. Sheds(s, E) /\ E.reveal = None
  <2>1. E \in SessionState
    BY LockType
  <2> QED
    BY <2>1 DEF Sheds, EndReveal, IsUnlocked, SessionState
<1>2. Sheds(s, B) /\ B.reveal = None /\ ~IsUnlocked(B)
  <2>1. B \in SessionState
    BY LockType
  <2>2. /\ B.settings = E.settings /\ B.failures = E.failures /\ B.sharing_guard_up = E.sharing_guard_up
        /\ B.reveal = E.reveal /\ B.clipboard = E.clipboard /\ B.last_activity = None
    <3>1. E \in SessionState
      BY LockType
    <3> HIDE DEF E
    <3> QED
      BY <3>1 DEF BecomeLocked, SessionState
  <2> HIDE DEF B, E
  <2> QED
    BY <1>1, <2>1, <2>2 DEF Sheds, IsUnlocked
<1>3. Sheds(s, L) /\ L.reveal = None /\ ~IsUnlocked(L)
  <2>1. L \in SessionState
    BY LockType
  <2>2. /\ L.settings = s.settings /\ L.failures = s.failures /\ L.sharing_guard_up = s.sharing_guard_up
        /\ L.reveal = None /\ L.clipboard = None /\ L.last_activity = None
    BY DEF Lock, BecomeLocked, EndReveal, SessionState
  <2> HIDE DEF L
  <2> QED
    BY <2>1, <2>2 DEF Sheds, IsUnlocked
<1>4. Sheds(s, Tick(s, t))
  <2> DEFINE r == IF RevealExpired(s, t) THEN None ELSE s.reveal
             c == IF ClearDue(s, t) THEN None ELSE s.clipboard
             T == [s EXCEPT !.reveal = r, !.clipboard = c]
  <2>1. Tick(s, t) \in SessionState
    BY TickType
  <2>2. Tick(s, t) = L \/ Tick(s, t) = T
    BY DEF Tick
  <2>3. /\ T.settings = s.settings /\ T.failures = s.failures /\ T.sharing_guard_up = s.sharing_guard_up
        /\ T.reveal = r /\ T.clipboard = c /\ T.last_activity = s.last_activity
    <3> HIDE DEF r, c
    <3> QED
      BY DEF SessionState
  <2> HIDE DEF T, L
  <2> QED
    BY <1>3, <2>1, <2>2, <2>3 DEF Sheds, IsUnlocked
<1>5. OsEvent(s, event) = IF event \in LockingEvents THEN L
                          ELSE IF event = "FocusGained" THEN s
                          ELSE IF s.settings.lock_on_app_switch THEN B ELSE E
  BY DEF OsEvent, OsEvents, LockingEvents, SessionState, LockSettings
<1>6. Sheds(s, s)
  BY DEF Sheds
<1> HIDE DEF L, E, B
<1>7. event \in LockingEvents \/ event = "FocusLost" \/ event = "FocusGained"
  BY DEF OsEvents
<1>8. "FocusGained" \notin LockingEvents /\ "FocusLost" \notin LockingEvents
  BY DEF LockingEvents
<1> QED
  BY <1>1, <1>2, <1>3, <1>4, <1>5, <1>6, <1>7, <1>8 DEF L, E

-----------------------------------------------------------------------------
(* The Sharing Guard and the Vault *)

LEMMA SetSharingGuardFields ==
  ASSUME NEW s \in SessionState, NEW up \in BOOLEAN, NEW t, t = SetSharingGuard(s, up)
  PROVE  /\ t \in SessionState /\ t.sharing_guard_up = up
         /\ t.settings = s.settings /\ t.failures = s.failures
         /\ t.clipboard = s.clipboard /\ t.last_activity = s.last_activity
         /\ t.reveal = IF up THEN None ELSE s.reveal
<1>1. t \in SessionState
  BY SetSharingGuardType
<1> DEFINE g == [s EXCEPT !.sharing_guard_up = up]
<1>2. /\ g.sharing_guard_up = up /\ g.settings = s.settings /\ g.failures = s.failures
      /\ g.clipboard = s.clipboard /\ g.last_activity = s.last_activity
      /\ g.reveal = s.reveal /\ g \in SessionState
  BY DEF SessionState
<1>3. t = IF up THEN EndReveal(g) ELSE g
  BY DEF SetSharingGuard
<1> HIDE DEF g
<1>4. /\ EndReveal(g).sharing_guard_up = g.sharing_guard_up /\ EndReveal(g).settings = g.settings
      /\ EndReveal(g).failures = g.failures /\ EndReveal(g).clipboard = g.clipboard
      /\ EndReveal(g).last_activity = g.last_activity /\ EndReveal(g).reveal = None
  BY <1>2 DEF EndReveal, SessionState
<1> QED
  BY <1>1, <1>2, <1>3, <1>4

\* `reset_guard` puts the shield back for what is detected and leaves the rest alone.
LEMMA ResetGuardFields ==
  ASSUME NEW c \in Core, NEW d, d = ResetGuard(c)
  PROVE  /\ d \in Core /\ d.dismissed = None /\ d.detected = c.detected /\ d.phase = c.phase
         /\ d.board = c.board /\ d.window_in_front = c.window_in_front
         /\ d.failed_attempts = c.failed_attempts /\ d.stored_attempts = c.stored_attempts
         /\ d.session = SetSharingGuard(c.session, c.detected # {})
<1> DEFINE t == SetSharingGuard(c.session, c.detected # {})
<1>1. c.session \in SessionState
  BY DEF Core
<1>2. t \in SessionState
  BY <1>1, SetSharingGuardType
<1>3. d = [c EXCEPT !.dismissed = None, !.session = t]
  BY DEF ResetGuard
<1> HIDE DEF t
<1>4. d \in Core /\ d.session = t
  BY <1>2, <1>3 DEF Core, Option
<1>5. /\ d.dismissed = None /\ d.detected = c.detected /\ d.phase = c.phase
      /\ d.board = c.board /\ d.window_in_front = c.window_in_front
      /\ d.failed_attempts = c.failed_attempts /\ d.stored_attempts = c.stored_attempts
  BY <1>3 DEF Core
<1> QED
  BY <1>4, <1>5 DEF t

\* What a core becomes by `reset_guard`.
LEMMA ResetGuardKeeps ==
  ASSUME NEW c \in Core, NEW d, d = ResetGuard(c)
  PROVE  /\ d \in Core /\ Guarded(d) /\ (Opened(c) => Opened(d)) /\ d.phase = c.phase /\ d.dismissed = None
         /\ Hidden(c) => Hidden(d)
         /\ d.window_in_front = c.window_in_front
         /\ \A n \in Nat : Counted(c, n) => Counted(d, n)
         /\ IsUnlocked(d.session) <=> IsUnlocked(c.session)
         /\ d.session.failures = c.session.failures /\ d.session.settings = c.session.settings
         /\ d.session.clipboard = c.session.clipboard
         /\ d.board = c.board
         /\ d.failed_attempts = c.failed_attempts /\ d.stored_attempts = c.stored_attempts
<1>1. /\ d \in Core /\ d.dismissed = None /\ d.detected = c.detected /\ d.phase = c.phase
      /\ d.board = c.board /\ d.window_in_front = c.window_in_front
      /\ d.failed_attempts = c.failed_attempts /\ d.stored_attempts = c.stored_attempts
      /\ d.session = SetSharingGuard(c.session, c.detected # {})
  BY ResetGuardFields
<1>2. c.session \in SessionState
  BY DEF Core
<1>3. /\ d.session.sharing_guard_up = (c.detected # {})
      /\ d.session.settings = c.session.settings /\ d.session.failures = c.session.failures
      /\ d.session.clipboard = c.session.clipboard /\ d.session.last_activity = c.session.last_activity
      /\ d.session.reveal = None \/ d.session.reveal = c.session.reveal
  <2> DEFINE up == c.detected # {}
             t == d.session
             s == c.session
  <2>1. up \in BOOLEAN /\ s \in SessionState /\ t = SetSharingGuard(s, up)
    BY <1>1, <1>2
  <2> HIDE DEF up, t, s
  <2>2. /\ t.sharing_guard_up = up /\ t.settings = s.settings /\ t.failures = s.failures
        /\ t.clipboard = s.clipboard /\ t.last_activity = s.last_activity
        /\ t.reveal = IF up THEN None ELSE s.reveal
    BY <2>1, SetSharingGuardFields
  <2> QED
    BY <2>2 DEF up, t, s
<1> QED
  BY <1>1, <1>3 DEF Guarded, Opened, Hidden, Counted, ShieldApps, IsUnlocked

-----------------------------------------------------------------------------
(* `apply` *)

LEMMA PutSession ==
  ASSUME NEW c \in Core, NEW t \in SessionState, NEW d, d = [c EXCEPT !.session = t]
  PROVE  /\ d \in Core /\ d.session = t
         /\ d.phase = c.phase /\ d.detected = c.detected /\ d.dismissed = c.dismissed
         /\ d.window_in_front = c.window_in_front /\ d.board = c.board
         /\ d.failed_attempts = c.failed_attempts /\ d.stored_attempts = c.stored_attempts
<1>1. d.session = t
  BY DEF Core
<1>2. d \in Core
  BY DEF Core
<1>3. /\ d.phase = c.phase /\ d.detected = c.detected /\ d.dismissed = c.dismissed
      /\ d.window_in_front = c.window_in_front /\ d.board = c.board
      /\ d.failed_attempts = c.failed_attempts /\ d.stored_attempts = c.stored_attempts
  BY DEF Core
<1> QED
  BY <1>1, <1>2, <1>3

LEMMA PutPhase ==
  ASSUME NEW c \in Core, NEW p \in Phase, NEW d, d = [c EXCEPT !.phase = p]
  PROVE  /\ d \in Core /\ d.session = c.session
         /\ d.phase = p /\ d.detected = c.detected /\ d.dismissed = c.dismissed
         /\ d.window_in_front = c.window_in_front /\ d.board = c.board
         /\ d.failed_attempts = c.failed_attempts /\ d.stored_attempts = c.stored_attempts
BY DEF Core

\* `forget_open_vaults` closes the Vault: nothing is asked of the core but that its session
\* is over.
LEMMA ForgetKeeps ==
  ASSUME NEW c \in Core, NEW d, d = ForgetOpenVaults(c), ~IsUnlocked(c.session)
  PROVE  /\ Orderly(d) /\ d.phase \notin OpenPhases /\ d.dismissed = None
         /\ Hidden(c) => Hidden(d)
         /\ d.window_in_front = c.window_in_front
         /\ \A n \in Nat : Counted(c, n) => Counted(d, n)
         /\ ~IsUnlocked(d.session)
         /\ d.session.failures = c.session.failures /\ d.session.settings = c.session.settings
         /\ d.session.clipboard = c.session.clipboard
         /\ d.board = c.board
         /\ d.failed_attempts = c.failed_attempts /\ d.stored_attempts = c.stored_attempts
<1> DEFINE p == IF c.phase \in {"NoVault", "KitNew"} THEN "NoVault" ELSE "Locked"
           e == [c EXCEPT !.phase = p]
<1>1. p \in Phase \ OpenPhases
  BY DEF Phase, OpenPhases
<1>2. d = ResetGuard(e)
  BY DEF ForgetOpenVaults
<1> HIDE DEF p
<1>3. /\ e \in Core /\ e.session = c.session /\ e.phase = p /\ e.board = c.board
      /\ e.window_in_front = c.window_in_front
      /\ e.failed_attempts = c.failed_attempts /\ e.stored_attempts = c.stored_attempts
  BY <1>1, PutPhase
<1> HIDE DEF e
<1>4. Opened(e)
  BY <1>1, <1>3 DEF Opened
<1>5. (Hidden(c) => Hidden(e)) /\ \A n \in Nat : Counted(c, n) => Counted(e, n)
  BY <1>3 DEF Hidden, Counted
<1> QED
  BY <1>1, <1>2, <1>3, <1>4, <1>5, ResetGuardKeeps DEF Orderly

LEMMA ClearIfBoard ==
  ASSUME NEW board \in Board, NEW count \in Nat
  PROVE  /\ ClearIf(board, count) \in Board
         /\ ClearIf(board, count).holds = "ours" => board.holds = "ours" /\ board.count # count
BY DEF ClearIf, Board

LEMMA PutBoard ==
  ASSUME NEW c \in Core, NEW b \in Board, NEW d, d = [c EXCEPT !.board = b]
  PROVE  /\ d \in Core /\ d.session = c.session
         /\ d.phase = c.phase /\ d.detected = c.detected /\ d.dismissed = c.dismissed
         /\ d.window_in_front = c.window_in_front /\ d.board = b
         /\ d.failed_attempts = c.failed_attempts /\ d.stored_attempts = c.stored_attempts
BY DEF Core

\* A new deadline for the clear of `count` takes nothing else with it.
LEMMA ClearAfterFields ==
  ASSUME NEW s \in SessionState, NEW count \in Nat, NEW due \in Time,
         NEW t, t = ClearAfter(s, count, due)
  PROVE  /\ t \in SessionState /\ t.sharing_guard_up = s.sharing_guard_up
         /\ t.settings = s.settings /\ t.failures = s.failures
         /\ t.last_activity = s.last_activity /\ t.reveal = s.reveal
         /\ t.clipboard = [change_count |-> count, due_at |-> due]
<1>1. [change_count |-> count, due_at |-> due] \in PendingClear
  BY DEF PendingClear
<1> DEFINE p == [change_count |-> count, due_at |-> due]
<1>2. t = [s EXCEPT !.clipboard = p]
  BY DEF ClearAfter
<1> HIDE DEF p
<1> QED
  BY <1>1, <1>2 DEF p, SessionState, Option

\* What is no business of `apply`.
Leaves(c, d) ==
  /\ d.window_in_front = c.window_in_front
  /\ d.session.failures = c.session.failures /\ d.session.settings = c.session.settings
  /\ d.failed_attempts = c.failed_attempts /\ d.stored_attempts = c.stored_attempts

\* `apply` carries out whatever the session has taken away: a Vault whose session is over
\* is closed, and a clear that fails is asked for again.
LEMMA ApplyKeeps ==
  ASSUME NEW c, Sound(c), NEW after, Sheds(c.session, after), NEW t \in Time,
         NEW env \in Env, NEW d, d = Apply(c, after, t, env)
  PROVE  /\ Keeps(c, d, TRUE)
         /\ after.reveal = None => Hidden(d)
         /\ IsUnlocked(d.session) <=> IsUnlocked(after)
         /\ Leaves(c, d)
<1> DEFINE effects == Effects(c.session, after)
           new     == [c EXCEPT !.session = after]
           locked  == IF effects.lock THEN ForgetOpenVaults(new) ELSE new
<1>1. /\ c \in Core /\ c.session \in SessionState /\ after \in SessionState
      /\ c.board \in Board
  BY DEF Sound, Orderly, Sheds, Core
<1>2. /\ new \in Core /\ new.session = after
      /\ new.phase = c.phase /\ new.detected = c.detected /\ new.dismissed = c.dismissed
      /\ new.window_in_front = c.window_in_front /\ new.board = c.board
      /\ new.failed_attempts = c.failed_attempts /\ new.stored_attempts = c.stored_attempts
  BY <1>1, PutSession
<1>3. /\ effects.lock = (IsUnlocked(c.session) /\ ~IsUnlocked(after))
      /\ effects.clear = IF c.session.clipboard # None /\ after.clipboard = None
                         THEN c.session.clipboard.change_count ELSE None
  BY DEF Effects
<1> DEFINE lock == IsUnlocked(c.session) /\ ~IsUnlocked(after)
           clears == c.session.clipboard # None /\ after.clipboard = None
           count == c.session.clipboard.change_count
<1>4. d = IF ~clears THEN locked
          ELSE IF env.clears THEN [locked EXCEPT !.board = ClearIf(@, count)]
          ELSE RetryClear(locked, count, t)
  <2>1. clears => count \in Nat /\ count # None
    BY <1>1, NoneAssumption DEF SessionState, Option, PendingClear, Time
  <2>2. effects.clear = IF clears THEN count ELSE None
    BY <1>3
  <2>3. d = IF effects.clear = None THEN locked
            ELSE IF env.clears THEN [locked EXCEPT !.board = ClearIf(@, effects.clear)]
            ELSE RetryClear(locked, effects.clear, t)
    BY DEF Apply
  <2> HIDE DEF clears, count, effects, locked
  <2> QED
    BY <2>1, <2>2, <2>3
<1> HIDE DEF new
<1>5. locked = IF lock THEN ForgetOpenVaults(new) ELSE new
  BY <1>3
<1>6. /\ Orderly(locked) /\ Steady(c, locked)
      /\ Hidden(c) \/ after.reveal = None => Hidden(locked)
      /\ IsUnlocked(locked.session) <=> IsUnlocked(after)
      /\ locked.window_in_front = c.window_in_front
      /\ locked.session.failures = c.session.failures
      /\ locked.session.settings = c.session.settings
      /\ locked.session.clipboard = after.clipboard
      /\ locked.board = c.board
      /\ locked.failed_attempts = c.failed_attempts
      /\ locked.stored_attempts = c.stored_attempts
  <2> HIDE DEF locked, effects
  <2>1. Hidden(c) \/ after.reveal = None => Hidden(new)
    BY <1>2 DEF Sheds, Hidden
  <2>2. CASE lock
    <3>1. locked = ForgetOpenVaults(new)
      BY <2>2, <1>5
    <3>2. ~IsUnlocked(new.session)
      BY <2>2, <1>2
    <3> QED
      BY <2>1, <2>2, <3>1, <3>2, <1>2, ForgetKeeps DEF Steady, Sheds
  <2>3. CASE ~lock
    <3>1. locked = new
      BY <2>3, <1>5
    <3>2. Guarded(new) /\ Opened(new)
      BY <2>3, <1>2 DEF Sound, Orderly, Guarded, Opened, Sheds, ShieldApps
    <3> QED
      BY <2>1, <3>1, <3>2, <1>2 DEF Steady, Sheds, Orderly
  <2> QED
    BY <2>2, <2>3
<1> HIDE DEF locked, effects, lock
<1>7. CASE ~clears
  <2>1. d = locked
    BY <1>4, <1>7
  <2>2. Tracked(d)
    BY <1>6, <1>7, <2>1 DEF Tracked, Sound, Sheds
  <2> QED
    BY <1>6, <2>1, <2>2 DEF Keeps, Sound, Hidden, Counted, Leaves
<1>8. CASE clears /\ env.clears
  <2> DEFINE b == ClearIf(locked.board, count)
  <2>1. count \in Nat
    BY <1>1, <1>8 DEF SessionState, Option, PendingClear
  <2>2. d = [locked EXCEPT !.board = b]
    BY <1>4, <1>8
  <2>3. /\ b \in Board
        /\ b.holds = "ours" => c.board.holds = "ours" /\ c.board.count # count
    BY <1>1, <1>6, <2>1, ClearIfBoard
  <2> HIDE DEF b
  <2>4. locked \in Core
    BY <1>6 DEF Orderly
  <2>5. /\ d \in Core /\ d.session = locked.session
        /\ d.phase = locked.phase /\ d.detected = locked.detected
        /\ d.dismissed = locked.dismissed
        /\ d.window_in_front = locked.window_in_front /\ d.board = b
        /\ d.failed_attempts = locked.failed_attempts
        /\ d.stored_attempts = locked.stored_attempts
    BY <2>2, <2>3, <2>4, PutBoard
  <2>6. Tracked(d)
    BY <1>8, <2>3, <2>5 DEF Sound, Tracked
  <2>7. Orderly(d)
    BY <1>6, <2>5 DEF Orderly, Guarded, Opened, ShieldApps
  <2> QED
    BY <1>6, <2>5, <2>6, <2>7 DEF Keeps, Sound, Steady, Hidden, Counted, Leaves
<1>9. CASE clears /\ ~env.clears
  <2> DEFINE s == RetryClipboardClear(locked.session, count, t)
  <2>1. count \in Nat
    BY <1>1, <1>9 DEF SessionState, Option, PendingClear
  <2>2. d = [locked EXCEPT !.session = s]
    BY <1>4, <1>9 DEF RetryClear
  <2>3. locked \in Core /\ locked.session \in SessionState
    BY <1>6 DEF Orderly, Core
  <2>4. s = ClearAfter(locked.session, count, t + RetryDelay) /\ t + RetryDelay \in Time
    BY <1>6, <1>9, RulesAssumption DEF RetryClipboardClear, Time
  <2> HIDE DEF s
  <2>5. /\ s \in SessionState /\ s.sharing_guard_up = locked.session.sharing_guard_up
        /\ s.settings = locked.session.settings /\ s.failures = locked.session.failures
        /\ s.last_activity = locked.session.last_activity /\ s.reveal = locked.session.reveal
        /\ s.clipboard = [change_count |-> count, due_at |-> t + RetryDelay]
    BY <2>1, <2>3, <2>4, ClearAfterFields
  <2>6. /\ d \in Core /\ d.session = s
        /\ d.phase = locked.phase /\ d.detected = locked.detected
        /\ d.dismissed = locked.dismissed
        /\ d.window_in_front = locked.window_in_front /\ d.board = locked.board
        /\ d.failed_attempts = locked.failed_attempts
        /\ d.stored_attempts = locked.stored_attempts
    BY <2>2, <2>3, <2>5, PutSession
  <2>7. Tracked(d)
    <3>1. s.clipboard \in PendingClear /\ s.clipboard.change_count = count
      BY <2>1, <2>4, <2>5 DEF PendingClear
    <3> QED
      BY <3>1, <1>6, <1>9, <2>6, NoneAssumption DEF Sound, Tracked
  <2>8. Orderly(d)
    BY <1>6, <2>5, <2>6 DEF Orderly, Guarded, Opened, ShieldApps, IsUnlocked
  <2> QED
    BY <1>6, <2>5, <2>6, <2>7, <2>8 DEF Keeps, Sound, Steady, Hidden, Counted, IsUnlocked, Leaves
<1> QED
  BY <1>7, <1>8, <1>9

-----------------------------------------------------------------------------
(* How a command begins *)

\* Nothing that a sound core is made of depends on the counts in the settings or on the focus.
LEMMA SoundElsewhere ==
  ASSUME NEW c, Sound(c), NEW d \in Core, d.session = c.session, d.phase = c.phase,
         d.detected = c.detected, d.dismissed = c.dismissed, d.board = c.board
  PROVE  Sound(d) /\ Steady(c, d) /\ (Hidden(c) <=> Hidden(d))
BY DEF Sound, Orderly, Guarded, Opened, Tracked, ShieldApps, Steady, Hidden

LEMMA WriteSettingsFields ==
  ASSUME NEW c \in Core, NEW env \in Env, NEW d, d = WriteSettings(c, env)
  PROVE  /\ d \in Core /\ d.session = c.session /\ d.phase = c.phase
         /\ d.dismissed = c.dismissed /\ d.detected = c.detected /\ d.board = c.board
         /\ d.window_in_front = c.window_in_front /\ d.failed_attempts = c.failed_attempts
         /\ d.stored_attempts = IF env.writes THEN c.failed_attempts ELSE c.stored_attempts
<1> DEFINE n == c.failed_attempts
<1>1. n \in 0..CountMax
  BY DEF Core
<1>2. d = IF env.writes THEN [c EXCEPT !.stored_attempts = n] ELSE c
  BY DEF WriteSettings
<1>3. CASE env.writes
  <2> HIDE DEF n
  <2> QED
    BY <1>1, <1>2, <1>3 DEF Core, n
<1>4. CASE ~env.writes
  BY <1>2, <1>4
<1> QED
  BY <1>3, <1>4

LEMMA WriteSettingsKeeps ==
  ASSUME NEW c, Sound(c), NEW env \in Env, NEW d, d = WriteSettings(c, env)
  PROVE  /\ Keeps(c, d, TRUE) /\ d.session = c.session /\ d.phase = c.phase
         /\ d.dismissed = c.dismissed /\ d.detected = c.detected /\ d.board = c.board
         /\ d.window_in_front = c.window_in_front
         /\ env.writes => d.stored_attempts = d.failed_attempts
         /\ d.failed_attempts = c.failed_attempts
<1>1. c \in Core
  BY DEF Sound, Orderly
<1>2. /\ d \in Core /\ d.session = c.session /\ d.phase = c.phase
      /\ d.dismissed = c.dismissed /\ d.detected = c.detected /\ d.board = c.board
      /\ d.window_in_front = c.window_in_front /\ d.failed_attempts = c.failed_attempts
      /\ d.stored_attempts = IF env.writes THEN c.failed_attempts ELSE c.stored_attempts
  BY <1>1, WriteSettingsFields
<1> QED
  BY <1>2, SoundElsewhere DEF Keeps, Counted, Hidden

\* The count that goes from c to the disk.
Written(c, d) ==
  c.stored_attempts = c.failed_attempts =>
    /\ d.session.failures = c.session.failures
    /\ d.stored_attempts = d.session.failures /\ d.failed_attempts = d.session.failures

LEMMA SaveFailuresKeeps ==
  ASSUME NEW c, Sound(c), NEW env \in Env, NEW d, d = SaveFailures(c, env)
  PROVE  /\ Keeps(c, d, env.writes) /\ d.session = c.session
         /\ d.window_in_front = c.window_in_front
         /\ env.writes => Written(c, d)
<1> DEFINE n == c.session.failures
           e == [c EXCEPT !.failed_attempts = n]
<1>1. c \in Core /\ n \in 0..CountMax
  BY DEF Sound, Orderly, Core, SessionState
<1>2. /\ e \in Core /\ e.session = c.session /\ e.phase = c.phase /\ e.detected = c.detected
      /\ e.dismissed = c.dismissed /\ e.board = c.board /\ e.failed_attempts = n
      /\ e.window_in_front = c.window_in_front
  <2> HIDE DEF n
  <2> QED
    BY <1>1 DEF Core
<1>3. d = IF n = c.failed_attempts THEN c ELSE WriteSettings(e, env)
  BY DEF SaveFailures
<1>4. Keeps(c, c, TRUE)
  BY DEF Keeps, Steady
<1>5. Sound(e) /\ Steady(c, e) /\ (Hidden(c) => Hidden(e))
  BY <1>2, SoundElsewhere
<1> DEFINE f == WriteSettings(e, env)
<1> HIDE DEF e
<1>6. /\ Keeps(e, f, TRUE) /\ f.session = e.session
      /\ f.window_in_front = e.window_in_front
      /\ env.writes => f.stored_attempts = f.failed_attempts
      /\ f.failed_attempts = e.failed_attempts
  BY <1>5, WriteSettingsKeeps
<1>7. Keeps(c, f, env.writes)
  <2>1. Sound(f) /\ Steady(c, f) /\ (Hidden(c) => Hidden(f))
    BY <1>5, <1>6 DEF Keeps, Steady
  <2>2. env.writes => \A m \in Nat : Counted(c, m) => Counted(f, m)
    BY <1>2, <1>6 DEF Counted
  <2> QED
    BY <2>1, <2>2 DEF Keeps
<1> HIDE DEF f
<1> QED
  BY <1>2, <1>3, <1>4, <1>6, <1>7 DEF Keeps, f, Written

LEMMA CoreTickKeeps ==
  ASSUME NEW c, Sound(c), NEW t \in Time, NEW env \in Env, NEW d, d = CoreTick(c, t, env)
  PROVE  /\ Keeps(c, d, env.writes) /\ d.window_in_front = c.window_in_front
         /\ env.writes => Written(c, d)
<1> DEFINE after == Tick(c.session, t)
           e == Apply(c, after, t, env)
<1>1. Sheds(c.session, after)
  <2>1. c.session \in SessionState /\ "Quit" \in OsEvents
    BY DEF Sound, Orderly, Core, OsEvents, LockingEvents
  <2> QED
    BY <2>1, SessionSheds
<1>2. d = SaveFailures(e, env) /\ e = Apply(c, after, t, env)
  BY DEF CoreTick
<1> HIDE DEF after, e
<1>3. Keeps(c, e, TRUE) /\ Leaves(c, e)
  BY <1>1, <1>2, ApplyKeeps
<1>4. /\ Keeps(e, d, env.writes) /\ d.window_in_front = e.window_in_front
      /\ env.writes => Written(e, d)
  BY <1>2, <1>3, SaveFailuresKeeps DEF Keeps
<1>5. Keeps(c, e, env.writes)
  BY <1>3 DEF Keeps
<1> QED
  BY <1>3, <1>4, <1>5, KeepsTransitive DEF Leaves, Written

LEMMA TakeCoreKeeps ==
  ASSUME NEW c, Sound(c), NEW f \in BOOLEAN, NEW d, d = TakeCore(c, f)
  PROVE  /\ Keeps(c, d, TRUE) /\ d.window_in_front = f
         /\ d.session = c.session /\ d.phase = c.phase /\ d.detected = c.detected
         /\ d.dismissed = c.dismissed
<1>1. c \in Core
  BY DEF Sound, Orderly
<1>2. /\ d \in Core /\ d.session = c.session /\ d.phase = c.phase /\ d.detected = c.detected
      /\ d.dismissed = c.dismissed /\ d.board = c.board
      /\ d.failed_attempts = c.failed_attempts /\ d.stored_attempts = c.stored_attempts
      /\ d.window_in_front = f
  BY <1>1 DEF TakeCore, Core
<1> QED
  BY <1>2, SoundElsewhere DEF Keeps, Counted

\* Every command begins with a sound core that knows the focus.
LEMMA BegunKeeps ==
  ASSUME NEW c, Sound(c), NEW f \in BOOLEAN, NEW t \in Time, NEW env \in Env,
         NEW d, d = Begun(c, f, t, env)
  PROVE  Keeps(c, d, env.writes) /\ d.window_in_front = f
<1> DEFINE e == TakeCore(c, f)
<1>1. Keeps(c, e, TRUE) /\ e.window_in_front = f
  BY TakeCoreKeeps
<1>2. d = CoreTick(e, t, env)
  BY DEF Begun
<1> HIDE DEF e
<1>3. Keeps(e, d, env.writes) /\ d.window_in_front = e.window_in_front
  BY <1>1, <1>2, CoreTickKeeps DEF Keeps
<1>4. Keeps(c, e, env.writes)
  BY <1>1 DEF Keeps
<1> QED
  BY <1>1, <1>3, <1>4, KeepsTransitive

-----------------------------------------------------------------------------
(* What the OS, the background loop and the owner tell the core *)

LEMMA CoreOsEventKeeps ==
  ASSUME NEW c, Sound(c), NEW event \in OsEvents, NEW f \in BOOLEAN, NEW t \in Time,
         NEW env \in Env, NEW d, d = CoreOsEvent(c, event, f, t, env)
  PROVE  Keeps(c, d, env.writes) /\ (event # "FocusGained" => Hidden(d))
<1> DEFINE told    == TakeCore(c, f)
           after   == OsEvent(told.session, event)
           carried == Apply(told, after, t, env)
<1>1. Keeps(c, told, TRUE)
  BY TakeCoreKeeps
<1>2. d = IF Locks(carried, event) THEN ForgetOpenVaults(carried) ELSE carried
  BY DEF CoreOsEvent
<1> HIDE DEF told
<1>3. /\ Sheds(told.session, after)
      /\ event \in LockingEvents \/ (event = "FocusLost" /\ told.session.settings.lock_on_app_switch)
           => ~IsUnlocked(after)
      /\ event # "FocusGained" => after.reveal = None
  <2>1. told.session \in SessionState /\ 0 \in Time
    BY <1>1 DEF Keeps, Sound, Orderly, Core, Time
  <2> QED
    BY <2>1, SessionSheds
<1> HIDE DEF after
<1>4. /\ Keeps(told, carried, TRUE)
      /\ after.reveal = None => Hidden(carried)
      /\ IsUnlocked(carried.session) <=> IsUnlocked(after)
      /\ Leaves(told, carried)
  BY <1>1, <1>3, ApplyKeeps DEF Keeps
<1> HIDE DEF carried
<1>5. Keeps(c, carried, TRUE)
  BY <1>1, <1>4, KeepsTransitive
<1>6. CASE Locks(carried, event)
  <2>1. ~IsUnlocked(carried.session)
    BY <1>3, <1>4, <1>6 DEF Locks, Leaves
  <2>2. carried \in Core /\ Tracked(carried) /\ d = ForgetOpenVaults(carried)
    BY <1>2, <1>5, <1>6 DEF Keeps, Sound, Orderly
  <2>3. /\ Orderly(d) /\ d.phase \notin OpenPhases /\ d.dismissed = None
        /\ Hidden(carried) => Hidden(d)
        /\ \A n \in Nat : Counted(carried, n) => Counted(d, n)
        /\ d.session.clipboard = carried.session.clipboard /\ d.board = carried.board
    BY <2>1, <2>2, ForgetKeeps
  <2>4. Keeps(carried, d, TRUE)
    BY <2>2, <2>3 DEF Keeps, Sound, Tracked, Steady
  <2> QED
    BY <1>3, <1>4, <1>5, <2>3, <2>4, KeepsTransitive DEF Keeps
<1>7. CASE ~Locks(carried, event)
  BY <1>2, <1>3, <1>4, <1>5, <1>7 DEF Keeps
<1> QED
  BY <1>6, <1>7

LEMMA CoreLockKeeps ==
  ASSUME NEW c, Sound(c), NEW t \in Time, NEW env \in Env, NEW d, d = CoreLock(c, t, env)
  PROVE  Keeps(c, d, TRUE)
<1> DEFINE after == Lock(c.session)
           e == Apply(c, after, t, env)
<1>1. Sheds(c.session, after) /\ ~IsUnlocked(after)
  <2>1. c.session \in SessionState /\ "Quit" \in OsEvents
    BY DEF Sound, Orderly, Core, OsEvents, LockingEvents
  <2> QED
    BY <2>1, SessionSheds
<1>2. d = ForgetOpenVaults(e)
  BY DEF CoreLock
<1> HIDE DEF after
<1>3. Keeps(c, e, TRUE) /\ ~IsUnlocked(e.session)
  BY <1>1, ApplyKeeps
<1> HIDE DEF e
<1>4. e \in Core /\ Tracked(e)
  BY <1>3 DEF Keeps, Sound, Orderly
<1>5. /\ Orderly(d) /\ d.phase \notin OpenPhases /\ d.dismissed = None
      /\ Hidden(e) => Hidden(d)
      /\ \A n \in Nat : Counted(e, n) => Counted(d, n)
      /\ d.session.clipboard = e.session.clipboard /\ d.board = e.board
  BY <1>2, <1>3, <1>4, ForgetKeeps
<1>6. Keeps(e, d, TRUE)
  BY <1>4, <1>5 DEF Keeps, Sound, Tracked, Steady
<1> QED
  BY <1>3, <1>6, KeepsTransitive

\* `GuardState::update` and what the session is told of it.
LEMMA GuardUpdateKeeps ==
  ASSUME NEW c, Sound(c), NEW apps \in SUBSET App, NEW d, d = GuardUpdate(c, apps)
  PROVE  Keeps(c, d, TRUE) /\ d.window_in_front = c.window_in_front
<1> DEFINE covered == c.dismissed # None /\ apps \subseteq c.dismissed
           kept    == IF covered THEN c.dismissed \cap apps ELSE None
           new     == GuardStateUpdate(c, apps)
           up      == ShieldApps(new) # {}
           t       == SetSharingGuard(new.session, up)
<1>1. c \in Core
  BY DEF Sound, Orderly
<1>2. /\ kept \in Option(SUBSET App) /\ (kept # None => kept = apps)
      /\ c.dismissed = None => kept = None
  BY <1>1 DEF Core, Option
<1>3. new = [c EXCEPT !.detected = apps, !.dismissed = kept]
  BY <1>1 DEF GuardStateUpdate, Core
<1> HIDE DEF kept, new
<1>4. /\ new \in Core /\ new.session = c.session /\ new.phase = c.phase /\ new.board = c.board
      /\ new.detected = apps /\ new.dismissed = kept
      /\ new.window_in_front = c.window_in_front
      /\ new.failed_attempts = c.failed_attempts /\ new.stored_attempts = c.stored_attempts
  BY <1>1, <1>2, <1>3 DEF Core
<1>5. d = [new EXCEPT !.session = t]
  BY <1>4 DEF GuardUpdate, new
<1>6. new.session \in SessionState /\ up \in BOOLEAN
  BY <1>4 DEF Core
<1> HIDE DEF up, t
<1>7. /\ t \in SessionState /\ t.sharing_guard_up = up
      /\ t.settings = new.session.settings /\ t.failures = new.session.failures
      /\ t.clipboard = new.session.clipboard /\ t.last_activity = new.session.last_activity
      /\ t.reveal = IF up THEN None ELSE new.session.reveal
  <2> DEFINE s == new.session
  <2>1. t = SetSharingGuard(s, up) /\ s \in SessionState
    BY <1>6 DEF t
  <2> HIDE DEF s
  <2>2. /\ t \in SessionState /\ t.sharing_guard_up = up
        /\ t.settings = s.settings /\ t.failures = s.failures
        /\ t.clipboard = s.clipboard /\ t.last_activity = s.last_activity
        /\ t.reveal = IF up THEN None ELSE s.reveal
    BY <2>1, <1>6, SetSharingGuardFields
  <2> QED
    BY <2>2 DEF s
<1>8. /\ d \in Core /\ d.session = t
      /\ d.phase = new.phase /\ d.detected = new.detected /\ d.dismissed = new.dismissed
      /\ d.window_in_front = new.window_in_front /\ d.board = new.board
      /\ d.failed_attempts = new.failed_attempts /\ d.stored_attempts = new.stored_attempts
  BY <1>4, <1>5, <1>7, PutSession
<1>9. Guarded(d)
  BY <1>2, <1>4, <1>7, <1>8 DEF Guarded, ShieldApps, up
<1>10. Opened(d) /\ Tracked(d)
  BY <1>4, <1>7, <1>8 DEF Sound, Orderly, Opened, Tracked, IsUnlocked
<1> QED
  BY <1>2, <1>4, <1>7, <1>8, <1>9, <1>10 DEF Keeps, Sound, Orderly, Steady, Hidden, Counted

\* "I'm not sharing": the dismissal covers what is detected.
LEMMA DismissKeeps ==
  ASSUME NEW c, Sound(c), NEW d, d = DismissSharingGuard(c)
  PROVE  /\ Sound(d) /\ d.phase = c.phase /\ (Hidden(c) => Hidden(d))
         /\ \A n \in Nat : Counted(c, n) => Counted(d, n)
<1> DEFINE new == GuardStateDismiss(c)
           t   == SetSharingGuard(new.session, FALSE)
<1>1. c \in Core
  BY DEF Sound, Orderly
<1>2. /\ new \in Core /\ new.session = c.session /\ new.phase = c.phase /\ new.board = c.board
      /\ new.detected = c.detected /\ new.dismissed = c.detected
      /\ new.failed_attempts = c.failed_attempts /\ new.stored_attempts = c.stored_attempts
  BY <1>1 DEF GuardStateDismiss, Core, Option
<1>3. d = [new EXCEPT !.session = t]
  BY DEF DismissSharingGuard
<1> HIDE DEF new
<1>4. new.session \in SessionState
  BY <1>2 DEF Core
<1>5. /\ t \in SessionState /\ t.sharing_guard_up = FALSE
      /\ t.failures = new.session.failures
      /\ t.clipboard = new.session.clipboard /\ t.last_activity = new.session.last_activity
      /\ t.reveal = new.session.reveal
  BY <1>4, SetSharingGuardFields
<1> HIDE DEF t
<1>6. /\ d \in Core /\ d.session = t
      /\ d.phase = new.phase /\ d.detected = new.detected /\ d.dismissed = new.dismissed
      /\ d.board = new.board
      /\ d.failed_attempts = new.failed_attempts /\ d.stored_attempts = new.stored_attempts
  BY <1>2, <1>3, <1>5, PutSession
<1>7. Guarded(d)
  <2>1. d.dismissed # None
    BY <1>1, <1>2, <1>6, AppAssumption DEF Core
  <2> QED
    BY <2>1, <1>2, <1>5, <1>6 DEF Guarded, ShieldApps
<1>8. Opened(d) /\ Tracked(d)
  BY <1>2, <1>5, <1>6 DEF Sound, Orderly, Opened, Tracked, IsUnlocked
<1> QED
  BY <1>2, <1>5, <1>6, <1>7, <1>8 DEF Sound, Orderly, Hidden, Counted

-----------------------------------------------------------------------------
(* What is done with an open Vault *)

\* A call of the session that leaves the lock, the guard and the clipboard alone.
Within(s, t) ==
  /\ t \in SessionState
  /\ t.sharing_guard_up = s.sharing_guard_up /\ t.clipboard = s.clipboard
  /\ t.failures = s.failures /\ (IsUnlocked(t) <=> IsUnlocked(s))

LEMMA EndRevealWithin ==
  ASSUME NEW s \in SessionState
  PROVE  Within(s, EndReveal(s)) /\ EndReveal(s).reveal = None
<1> DEFINE t == EndReveal(s)
<1>1. t \in SessionState
  BY LockType
<1>2. /\ t.sharing_guard_up = s.sharing_guard_up /\ t.clipboard = s.clipboard
      /\ t.failures = s.failures /\ t.last_activity = s.last_activity /\ t.reveal = None
  BY DEF EndReveal, SessionState
<1> HIDE DEF t
<1>3. Within(s, t) /\ t.reveal = None
  BY <1>1, <1>2 DEF Within, IsUnlocked
<1> QED
  BY <1>3 DEF t

LEMMA ActivityWithin ==
  ASSUME NEW s \in SessionState, NEW at \in Time
  PROVE  Within(s, Activity(s, at)) /\ Activity(s, at).reveal = s.reveal
<1> DEFINE x == Latest(s.last_activity, at)
           u == [s EXCEPT !.last_activity = x]
           t == Activity(s, at)
<1>1. t \in SessionState
  BY ActivityType
<1>2. (t = u /\ IsUnlocked(s)) \/ t = s
  BY DEF Activity
<1>3. IsUnlocked(s) => x # None
  BY NoneAssumption DEF IsUnlocked, Latest, SessionState, Option
<1> HIDE DEF x
<1>4. /\ u.sharing_guard_up = s.sharing_guard_up /\ u.clipboard = s.clipboard
      /\ u.failures = s.failures /\ u.last_activity = x /\ u.reveal = s.reveal
  BY DEF SessionState
<1> HIDE DEF u, t
<1>5. Within(s, t) /\ t.reveal = s.reveal
  BY <1>1, <1>2, <1>3, <1>4 DEF Within, IsUnlocked
<1> QED
  BY <1>5 DEF t

LEMMA AdmitWithin ==
  ASSUME NEW s \in SessionState, NEW item \in HiddenField, NEW at \in Time
  PROVE  /\ Within(s, AdmitHiddenField(s, item, at))
         /\ AdmitHiddenField(s, item, at).reveal = s.reveal
<1> DEFINE p == Pruned(s, at)
           u == [p EXCEPT !.recently_disclosed[item] = at]
           t == AdmitHiddenField(s, item, at)
<1>1. t \in SessionState /\ p \in SessionState
  BY AdmitType, PrunedType
<1>2. t \in {s, p, u}
  BY DEF AdmitHiddenField
<1>3. /\ p.sharing_guard_up = s.sharing_guard_up /\ p.clipboard = s.clipboard
      /\ p.failures = s.failures /\ p.last_activity = s.last_activity /\ p.reveal = s.reveal
  <2> DEFINE r == [i \in HiddenField |->
                     IF s.recently_disclosed[i] # None /\ at < s.recently_disclosed[i] + RevealWindow
                     THEN s.recently_disclosed[i] ELSE None]
  <2>1. p = [s EXCEPT !.recently_disclosed = r]
    BY DEF Pruned, SessionState
  <2> HIDE DEF p, r
  <2> QED
    BY <2>1 DEF SessionState
<1> HIDE DEF p
<1>4. /\ u.sharing_guard_up = p.sharing_guard_up /\ u.clipboard = p.clipboard
      /\ u.failures = p.failures /\ u.last_activity = p.last_activity /\ u.reveal = p.reveal
  BY <1>1 DEF SessionState
<1> HIDE DEF u, t
<1>5. Within(s, t) /\ t.reveal = s.reveal
  BY <1>1, <1>2, <1>3, <1>4 DEF Within, IsUnlocked
<1> QED
  BY <1>5 DEF t

LEMMA StartRevealWithin ==
  ASSUME NEW s \in SessionState, NEW item \in HiddenField, NEW mode \in RevealMode,
         NEW at \in Time
  PROVE  Within(s, StartReveal(s, item, mode, at))
<1> DEFINE a == AdmitHiddenField(s, item, at)
           h == IF mode = "Held" THEN at + HeldMax ELSE None
           r == [item |-> item, mode |-> mode, extensions |-> 0,
                 expires_at |-> IF mode = "Held" THEN None ELSE at + RevealLength(mode)]
           u == [a EXCEPT !.held_until = h, !.reveal = r]
           t == StartReveal(s, item, mode, at)
<1>1. t \in SessionState
  BY StartRevealType
<1>2. t \in {a, u}
  BY DEF StartReveal
<1>3. Within(s, a)
  BY AdmitWithin
<1> HIDE DEF a, h, r
<1>4. /\ u.sharing_guard_up = a.sharing_guard_up /\ u.clipboard = a.clipboard
      /\ u.failures = a.failures /\ u.last_activity = a.last_activity
  BY <1>3 DEF Within, SessionState
<1> HIDE DEF u, t
<1>5. Within(s, t)
  BY <1>1, <1>2, <1>3, <1>4 DEF Within, IsUnlocked
<1> QED
  BY <1>5 DEF t

\* An extension never starts a reveal.
LEMMA ExtendRevealWithin ==
  ASSUME NEW s \in SessionState, NEW at \in Time
  PROVE  /\ Within(s, ExtendReveal(s, at))
         /\ s.reveal = None => ExtendReveal(s, at).reveal = None
<1> DEFINE e == SaturatingIncrement(s.reveal.extensions)
           x == Latest(s.reveal.expires_at, at + RevealLength(s.reveal.mode))
           u == [s EXCEPT !.reveal.extensions = e, !.reveal.expires_at = x]
           t == ExtendReveal(s, at)
<1>1. t \in SessionState
  BY ExtendRevealType
<1>2. t = s \/ (t = u /\ s.reveal # None)
  BY DEF ExtendReveal, Extends
<1> HIDE DEF e, x
<1>3. /\ u.sharing_guard_up = s.sharing_guard_up /\ u.clipboard = s.clipboard
      /\ u.failures = s.failures /\ u.last_activity = s.last_activity
  BY DEF SessionState
<1> HIDE DEF u, t
<1>4. Within(s, t) /\ (s.reveal = None => t.reveal = None)
  BY <1>1, <1>2, <1>3 DEF Within, IsUnlocked
<1> QED
  BY <1>4 DEF t

LEMMA WithSettingsWithin ==
  ASSUME NEW s \in SessionState, NEW asked, Normalized(asked) \in LockSettings
  PROVE  Within(s, WithSettings(s, asked)) /\ WithSettings(s, asked).reveal = s.reveal
<1> DEFINE n == Normalized(asked)
           e == IF n.count_activity_anywhere THEN s.last_elsewhere ELSE None
           t == WithSettings(s, asked)
<1>1. t \in SessionState
  BY WithSettingsType
<1>2. t = [s EXCEPT !.settings = n, !.last_elsewhere = e]
  BY DEF WithSettings
<1> HIDE DEF n, e, t
<1>3. /\ t.sharing_guard_up = s.sharing_guard_up /\ t.clipboard = s.clipboard
      /\ t.failures = s.failures /\ t.last_activity = s.last_activity /\ t.reveal = s.reveal
  BY <1>2 DEF SessionState
<1>4. Within(s, t) /\ t.reveal = s.reveal
  BY <1>1, <1>3 DEF Within, IsUnlocked
<1> QED
  BY <1>4 DEF t

LEMMA InSessionKeeps ==
  ASSUME NEW c, Sound(c), NEW t, Within(c.session, t), NEW d, d = [c EXCEPT !.session = t]
  PROVE  /\ Sound(d) /\ Steady(c, d) /\ d.phase = c.phase /\ d.session = t
         /\ Hidden(d) <=> t.reveal = None
         /\ \A n \in Nat : Counted(c, n) => Counted(d, n)
         /\ d.board = c.board /\ d.window_in_front = c.window_in_front
<1>1. c \in Core /\ t \in SessionState
  BY DEF Sound, Orderly, Within
<1>2. /\ d \in Core /\ d.session = t
      /\ d.phase = c.phase /\ d.detected = c.detected /\ d.dismissed = c.dismissed
      /\ d.window_in_front = c.window_in_front /\ d.board = c.board
      /\ d.failed_attempts = c.failed_attempts /\ d.stored_attempts = c.stored_attempts
  BY <1>1, PutSession
<1> QED
  BY <1>2 DEF Sound, Orderly, Guarded, Opened, Tracked, ShieldApps, Within, Steady, Hidden, Counted

\* `copy_out`: the new copy is the one whose clear is set.
LEMMA CopyOutKeeps ==
  ASSUME NEW c, Sound(c), NEW wallet \in BOOLEAN, NEW at \in Time,
         NEW d, d = CopyOut(c, wallet, at)
  PROVE  /\ Sound(d) /\ Steady(c, d) /\ d.phase = c.phase
         /\ Hidden(d) <=> Hidden(c)
         /\ \A n \in Nat : Counted(c, n) => Counted(d, n)
<1> DEFINE count == c.board.count + 1
           b     == [count |-> count, holds |-> "ours"]
           due   == at + IF wallet THEN DefaultClear ELSE c.session.settings.clipboard_clear_seconds
           t     == ClearAfter(c.session, count, due)
<1>1. c \in Core /\ c.session \in SessionState
  BY DEF Sound, Orderly, Core
<1>2. count \in Nat /\ b \in Board
  BY <1>1 DEF Core, Board
<1>3. due \in Time
  <2>1. c.session.settings.clipboard_clear_seconds \in Nat
    BY <1>1, RulesAssumption DEF SessionState, LockSettings, Time
  <2>2. DefaultClear \in Nat
    BY RulesAssumption DEF Time
  <2> QED
    BY <2>1, <2>2 DEF Time
<1>4. d = [c EXCEPT !.board = b, !.session = t]
  <2>1. CASE wallet
    <3>1. t = CopiedWalletValue(c.session, count, at)
      BY <2>1 DEF CopiedWalletValue
    <3> QED
      BY <2>1, <3>1 DEF CopyOut
  <2>2. CASE ~wallet
    <3>1. t = Copied(c.session, count, at)
      BY <2>2 DEF Copied
    <3> QED
      BY <2>2, <3>1 DEF CopyOut
  <2> QED
    BY <2>1, <2>2
<1> HIDE DEF b, count, due, t
<1>5. /\ t \in SessionState /\ t.sharing_guard_up = c.session.sharing_guard_up
      /\ t.settings = c.session.settings /\ t.failures = c.session.failures
      /\ t.last_activity = c.session.last_activity /\ t.reveal = c.session.reveal
      /\ t.clipboard = [change_count |-> count, due_at |-> due]
  BY <1>1, <1>2, <1>3, ClearAfterFields DEF t
<1>6. /\ d \in Core /\ d.session = t /\ d.board = b
      /\ d.phase = c.phase /\ d.detected = c.detected /\ d.dismissed = c.dismissed
      /\ d.failed_attempts = c.failed_attempts /\ d.stored_attempts = c.stored_attempts
  BY <1>1, <1>2, <1>4, <1>5 DEF Core
<1>7. Tracked(d)
  <2>1. t.clipboard \in PendingClear /\ t.clipboard.change_count = count
    BY <1>2, <1>3, <1>5 DEF PendingClear
  <2> QED
    BY <2>1, <1>6, NoneAssumption DEF Tracked, b
<1> QED
  BY <1>5, <1>6, <1>7 DEF Sound, Orderly, Guarded, Opened, ShieldApps, Steady, Hidden, Counted, IsUnlocked

-----------------------------------------------------------------------------
(* How a Vault is opened *)

\* Both ways to start a session leave the clipboard and what is shown as they are.
LEMMA UnlockedFields ==
  ASSUME NEW s \in SessionState, NEW at \in Time,
         NEW t, t = Unlocked(s, at) \/ t = QuickUnlocked(s, at)
  PROVE  /\ t \in SessionState /\ IsUnlocked(t)
         /\ t.sharing_guard_up = s.sharing_guard_up /\ t.clipboard = s.clipboard
         /\ t.reveal = s.reveal
         /\ t = QuickUnlocked(s, at) => t.failures = s.failures
<1> DEFINE q == QuickUnlocked(s, at)
           u == [q EXCEPT !.failures = 0]
<1>1. q \in SessionState /\ Unlocked(s, at) \in SessionState
  BY UnlockedType
<1>2. /\ q.sharing_guard_up = s.sharing_guard_up /\ q.clipboard = s.clipboard
      /\ q.reveal = s.reveal /\ q.last_activity = at /\ q.failures = s.failures
  BY DEF QuickUnlocked, SessionState
<1>3. Unlocked(s, at) = u
  BY DEF Unlocked
<1> HIDE DEF q
<1>4. /\ u.sharing_guard_up = q.sharing_guard_up /\ u.clipboard = q.clipboard
      /\ u.reveal = q.reveal /\ u.last_activity = q.last_activity
  BY <1>1 DEF SessionState
<1>5. at # None
  BY NoneAssumption
<1> HIDE DEF u
<1> QED
  BY <1>1, <1>2, <1>3, <1>4, <1>5 DEF IsUnlocked, q

\* A core whose session is running and whose guard was reset is sound in every open phase.
LEMMA OpeningKeeps ==
  ASSUME NEW c, Sound(c), NEW t \in SessionState, IsUnlocked(t),
         t.clipboard = c.session.clipboard,
         t.reveal = None \/ t.reveal = c.session.reveal,
         NEW e, e = ResetGuard([c EXCEPT !.session = t]),
         NEW d \in Core, d.session = e.session, d.detected = e.detected,
         d.dismissed = e.dismissed, d.board = e.board, d.phase \in OpenPhases
  PROVE  /\ Sound(d) /\ d.dismissed = None /\ (Hidden(c) => Hidden(d))
         /\ d.session.failures = t.failures
<1> DEFINE f == [c EXCEPT !.session = t]
<1>1. c \in Core
  BY DEF Sound, Orderly
<1>2. /\ f \in Core /\ f.session = t /\ f.board = c.board
  BY <1>1, PutSession
<1>3. e = ResetGuard(f)
  OBVIOUS
<1> HIDE DEF f
<1>4. /\ Guarded(e) /\ e.dismissed = None
      /\ Hidden(f) => Hidden(e)
      /\ IsUnlocked(e.session) <=> IsUnlocked(f.session)
      /\ e.session.failures = f.session.failures
      /\ e.session.clipboard = f.session.clipboard
      /\ e.board = f.board
  BY <1>2, <1>3, ResetGuardKeeps
<1>5. Hidden(c) => Hidden(f)
  BY <1>2 DEF Hidden
<1> QED
  BY <1>2, <1>4, <1>5 DEF Sound, Orderly, Guarded, Opened, Tracked, ShieldApps, Hidden

\* StartSession gives a core that its phase and its counts can be put into.
LEMMA StartSessionType ==
  ASSUME NEW c \in Core, NEW t \in SessionState, NEW e, e = ResetGuard([c EXCEPT !.session = t])
  PROVE  /\ e \in Core /\ e.phase = c.phase
         /\ e.failed_attempts = c.failed_attempts /\ e.stored_attempts = c.stored_attempts
<1> DEFINE f == [c EXCEPT !.session = t]
<1>1. /\ f \in Core /\ f.phase = c.phase
      /\ f.failed_attempts = c.failed_attempts /\ f.stored_attempts = c.stored_attempts
  BY PutSession
<1>2. e = ResetGuard(f)
  OBVIOUS
<1> HIDE DEF f
<1> QED
  BY <1>1, <1>2, ResetGuardFields

\* Settings that are among the choices are taken as they are.
LEMMA NormalizedChoice ==
  ASSUME NEW asked \in LockSettings
  PROVE  Normalized(asked) \in LockSettings
<1> DEFINE wanted == asked.idle_minutes
           Nearest(c) == \A d \in IdleChoices \ {c} :
             \/ Distance(c, wanted) < Distance(d, wanted)
             \/ Distance(c, wanted) = Distance(d, wanted) /\ c < d
           n == NearestIdle(wanted)
           k == IF asked.clipboard_clear_seconds \in ClearChoices
                THEN asked.clipboard_clear_seconds ELSE DefaultClear
<1>1. wanted \in IdleChoices /\ IdleChoices \subseteq Nat
  BY RulesAssumption DEF LockSettings, Time
<1>2. Nearest(wanted)
  <2> SUFFICES ASSUME NEW d \in IdleChoices \ {wanted}
               PROVE  Distance(wanted, wanted) < Distance(d, wanted)
    OBVIOUS
  <2> HIDE DEF wanted
  <2> QED
    BY <1>1 DEF Distance
<1>3. n \in IdleChoices
  <2>1. n = CHOOSE c \in IdleChoices : Nearest(c)
    BY DEF NearestIdle
  <2> HIDE DEF Nearest, n
  <2> QED
    BY <1>1, <1>2, <2>1
<1>4. k \in ClearChoices
  BY RulesAssumption
<1>5. Normalized(asked) = [asked EXCEPT !.idle_minutes = n, !.clipboard_clear_seconds = k]
  BY DEF Normalized
<1> HIDE DEF n, k
<1> QED
  BY <1>3, <1>4, <1>5 DEF LockSettings

-----------------------------------------------------------------------------
(* The inductive invariant *)

\* The window is hidden as soon as no FocusLost waits: a focus event that tells of the loss
\* hides it, and while the OS says that it is not in front nothing is shown.
Inv ==
  /\ TypeOK
  /\ Sound(core)
  /\ ~focused /\ inFlight["FocusLost"] = 0 => Hidden(core)

\* What DismissalEnds says of one step.
Ends(c, d) ==
  LET opened == c.phase \notin OpenPhases /\ d.phase \in OpenPhases \ {"KitNew"}
      closed == c.phase \in OpenPhases /\ d.phase \notin OpenPhases
      saved  == c.phase = "KitNew" /\ d.phase = "Unlocked"
  IN opened \/ closed \/ saved => d.dismissed = None

\* What a step makes of a sound core.
Outcome ==
  /\ Sound(core')
  /\ Ends(core, core')
  /\ ~focused /\ Hidden(core) => Hidden(core')
  /\ FALSE \notin Writes /\ Counted(core, wrong) => Counted(core', wrong')

LEMMA SteadyEnds ==
  ASSUME NEW c, NEW d, Steady(c, d)
  PROVE  Ends(c, d)
BY DEF Steady, Ends, OpenPhases

\* What a command makes of the core it has begun with.
Yields(b, d) ==
  /\ Sound(d)
  /\ Ends(b, d)
  /\ b.dismissed = None => d.dismissed = None
  /\ Hidden(b) /\ ~b.window_in_front => Hidden(d)

LEMMA WrongNat ==
  ASSUME Inv
  PROVE  wrong \in Nat
BY RulesAssumption DEF Inv, TypeOK

LEMMA CommandOutcome ==
  ASSUME Inv, NEW env \in Envs, NEW b, b = Begun(core, focused, now, env), Yields(b, core'),
         FALSE \notin Writes /\ Counted(b, wrong) => Counted(core', wrong')
  PROVE  Outcome
<1>1. focused \in BOOLEAN /\ now \in Time /\ Sound(core) /\ env \in Env
  BY ShellAssumption DEF Inv, TypeOK, Envs, Env
<1>2. Keeps(core, b, env.writes) /\ b.window_in_front = focused
  BY <1>1, BegunKeeps
<1>3. FALSE \notin Writes => env.writes = TRUE
  BY ShellAssumption DEF Envs
<1>4. Ends(core, core')
  BY <1>2 DEF Keeps, Steady, Yields, Ends
<1>5. wrong \in Nat
  BY RulesAssumption DEF Inv, TypeOK
<1> QED
  BY <1>2, <1>3, <1>4, <1>5 DEF Outcome, Yields, Keeps

LEMMA KeepsOutcome ==
  ASSUME Inv, NEW env \in Envs, Keeps(core, core', env.writes), wrong' = wrong
  PROVE  Outcome
<1>1. FALSE \notin Writes => env.writes = TRUE
  BY ShellAssumption DEF Envs
<1>2. wrong \in Nat
  BY RulesAssumption DEF Inv, TypeOK
<1> QED
  BY <1>1, <1>2, SteadyEnds DEF Outcome, Keeps

\* What a command does that leaves the Vault and its guard alone.
LEMMA SteadyYields ==
  ASSUME NEW b, NEW d, Sound(d), Steady(b, d), Hidden(b) /\ ~b.window_in_front => Hidden(d)
  PROVE  Yields(b, d)
BY SteadyEnds DEF Yields, Steady

LEMMA BegunSound ==
  ASSUME Inv, NEW env \in Envs, NEW b, b = Begun(core, focused, now, env)
  PROVE  /\ Sound(b) /\ b \in Core /\ b.session \in SessionState
         /\ now \in Time /\ env \in Env
<1>1. focused \in BOOLEAN /\ now \in Time /\ Sound(core) /\ env \in Env
  BY ShellAssumption DEF Inv, TypeOK, Envs, Env
<1>2. Keeps(core, b, env.writes)
  BY <1>1, BegunKeeps
<1> QED
  BY <1>1, <1>2 DEF Keeps, Sound, Orderly, Core

-----------------------------------------------------------------------------
(* Opening a Vault *)

LEMMA CreateVaultOutcome == ASSUME Inv, CreateVault PROVE Outcome
<1>1. PICK env \in Envs :
        LET b == Begun(core, focused, now, env) IN
        /\ b.phase = "NoVault"
        /\ core' = [b EXCEPT !.session = Unlocked(@, now), !.phase = "KitNew"]
  BY DEF CreateVault, Command
<1> DEFINE b == Begun(core, focused, now, env)
           t == Unlocked(b.session, now)
<1>2. b.phase = "NoVault" /\ core' = [b EXCEPT !.session = t, !.phase = "KitNew"]
  BY <1>1
<1>3. Sound(b) /\ b \in Core /\ b.session \in SessionState /\ now \in Time
  BY BegunSound
<1>4. /\ t \in SessionState /\ IsUnlocked(t)
      /\ t.sharing_guard_up = b.session.sharing_guard_up /\ t.clipboard = b.session.clipboard
      /\ t.reveal = b.session.reveal
  BY <1>3, UnlockedFields
<1>5. b = Begun(core, focused, now, env)
  OBVIOUS
<1> HIDE DEF t, b
<1>6. /\ core' \in Core /\ core'.session = t /\ core'.phase = "KitNew"
      /\ core'.detected = b.detected /\ core'.dismissed = b.dismissed
      /\ core'.board = b.board
      /\ core'.failed_attempts = b.failed_attempts
      /\ core'.stored_attempts = b.stored_attempts
  BY <1>2, <1>3, <1>4 DEF Core, Phase
<1>7. Sound(core')
  BY <1>3, <1>4, <1>6 DEF Sound, Orderly, Guarded, Opened, Tracked, ShieldApps, OpenPhases, Phase
<1>8. Yields(b, core')
  BY <1>2, <1>4, <1>6, <1>7 DEF Yields, Ends, Hidden, OpenPhases
<1>9. Counted(b, wrong) => Counted(core', wrong')
  <2>1. wrong' = 0
    BY DEF CreateVault
  <2> QED
    BY <2>1, <1>6 DEF Counted, Core, SessionState
<1> QED
  BY <1>5, <1>8, <1>9, CommandOutcome

LEMMA UnlockAcceptedOutcome == ASSUME Inv, UnlockAccepted PROVE Outcome
<1>1. PICK phase \in {"Unlocked", "Reset"}, env \in Envs :
        LET b == Begun(core, focused, now, env) IN
        core' = WriteSettings([StartSession(b, now) EXCEPT
                                 !.phase = phase, !.window_in_front = TRUE], env)
  BY DEF UnlockAccepted, Command
<1> DEFINE b == Begun(core, focused, now, env)
           t == Unlocked(b.session, now)
           e == ResetGuard([b EXCEPT !.session = t])
           f == [e EXCEPT !.phase = phase, !.window_in_front = TRUE]
<1>2. core' = WriteSettings(f, env)
  BY <1>1 DEF StartSession
<1>3. Sound(b) /\ b \in Core /\ b.session \in SessionState /\ now \in Time /\ env \in Env
  BY BegunSound
<1>4. /\ t \in SessionState /\ IsUnlocked(t) /\ t.clipboard = b.session.clipboard
      /\ t.reveal = b.session.reveal
  BY <1>3, UnlockedFields
<1>5. b = Begun(core, focused, now, env) /\ e = ResetGuard([b EXCEPT !.session = t])
  OBVIOUS
<1> HIDE DEF t, b, e
<1>6. /\ e \in Core /\ e.phase = b.phase
      /\ e.failed_attempts = b.failed_attempts /\ e.stored_attempts = b.stored_attempts
  BY <1>3, <1>4, <1>5, StartSessionType
<1>7. /\ f \in Core /\ f.session = e.session /\ f.phase = phase
      /\ f.detected = e.detected /\ f.dismissed = e.dismissed /\ f.board = e.board
      /\ f.failed_attempts = e.failed_attempts /\ f.stored_attempts = e.stored_attempts
  BY <1>6 DEF Core, Phase
<1> HIDE DEF f
<1>8. /\ core' \in Core /\ core'.session = f.session /\ core'.phase = f.phase
      /\ core'.dismissed = f.dismissed /\ core'.detected = f.detected /\ core'.board = f.board
      /\ core'.failed_attempts = f.failed_attempts
      /\ core'.stored_attempts = IF env.writes THEN f.failed_attempts ELSE f.stored_attempts
  BY <1>2, <1>3, <1>7, WriteSettingsFields
<1>9. /\ Sound(core') /\ core'.dismissed = None /\ (Hidden(b) => Hidden(core'))
  <2> DEFINE d == core'
  <2>1. /\ d \in Core /\ d.session = e.session /\ d.detected = e.detected
        /\ d.dismissed = e.dismissed /\ d.board = e.board /\ d.phase \in OpenPhases
    BY <1>7, <1>8 DEF OpenPhases, Phase
  <2> HIDE DEF d
  <2>2. Sound(d) /\ d.dismissed = None /\ (Hidden(b) => Hidden(d))
    BY <2>1, <1>3, <1>4, <1>5, OpeningKeeps
  <2> QED
    BY <2>2 DEF d
<1>10. Yields(b, core')
  BY <1>9 DEF Yields, Ends
<1>11. Counted(b, wrong) => Counted(core', wrong')
  <2>1. wrong' = 0
    BY DEF UnlockAccepted
  <2> QED
    BY <2>1, <1>6, <1>7, <1>8 DEF Counted, Core, SessionState
<1> QED
  BY <1>5, <1>10, <1>11, CommandOutcome

LEMMA TouchIdOutcome == ASSUME Inv, TouchId PROVE Outcome
<1>1. PICK env \in Envs :
        LET b == Begun(core, focused, now, env) IN
        core' = [ResetGuard([b EXCEPT !.session = QuickUnlocked(@, now)])
                   EXCEPT !.phase = "Unlocked"]
  BY DEF TouchId, Command
<1> DEFINE b == Begun(core, focused, now, env)
           t == QuickUnlocked(b.session, now)
           e == ResetGuard([b EXCEPT !.session = t])
<1>2. core' = [e EXCEPT !.phase = "Unlocked"]
  BY <1>1
<1>3. Sound(b) /\ b \in Core /\ b.session \in SessionState /\ now \in Time /\ env \in Env
  BY BegunSound
<1>4. /\ t \in SessionState /\ IsUnlocked(t) /\ t.clipboard = b.session.clipboard
      /\ t.reveal = b.session.reveal /\ t.failures = b.session.failures
  BY <1>3, UnlockedFields
<1>5. b = Begun(core, focused, now, env) /\ e = ResetGuard([b EXCEPT !.session = t])
  OBVIOUS
<1> HIDE DEF t, b, e
<1>6. /\ e \in Core /\ e.phase = b.phase
      /\ e.failed_attempts = b.failed_attempts /\ e.stored_attempts = b.stored_attempts
  BY <1>3, <1>4, <1>5, StartSessionType
<1> DEFINE d == core'
<1>7. /\ d \in Core /\ d.session = e.session /\ d.phase = "Unlocked"
      /\ d.detected = e.detected /\ d.dismissed = e.dismissed /\ d.board = e.board
      /\ d.failed_attempts = e.failed_attempts /\ d.stored_attempts = e.stored_attempts
  BY <1>2, <1>6 DEF Core, Phase
<1>8. d.phase \in OpenPhases
  BY <1>7 DEF OpenPhases, Phase
<1> HIDE DEF d
<1>9. /\ Sound(d) /\ d.dismissed = None /\ (Hidden(b) => Hidden(d))
      /\ d.session.failures = t.failures
  BY <1>3, <1>4, <1>5, <1>7, <1>8, OpeningKeeps
<1>10. Yields(b, d)
  BY <1>9 DEF Yields, Ends
<1>11. Counted(b, wrong) => Counted(d, wrong')
  <2>1. wrong' = wrong
    BY DEF TouchId, NoCredential
  <2> QED
    BY <2>1, <1>4, <1>6, <1>7, <1>9 DEF Counted
<1> QED
  BY <1>5, <1>10, <1>11, CommandOutcome DEF d

\* The Backup takes the place of the Vault: what was shown of it is hidden first.
LEMMA InstallOutcome == ASSUME Inv, Install PROVE Outcome
<1>1. PICK phase \in {"Unlocked", "Reset"}, env \in Envs :
        LET b == Begun(core, focused, now, env) IN
        core' = [WriteSettings(StartSession([b EXCEPT !.session = EndReveal(@)], now), env)
                   EXCEPT !.phase = phase]
  BY DEF Install, Command
<1> DEFINE b == Begun(core, focused, now, env)
           h == EndReveal(b.session)
           a == [b EXCEPT !.session = h]
           t == Unlocked(a.session, now)
           e == ResetGuard([a EXCEPT !.session = t])
           f == WriteSettings(e, env)
<1>2. core' = [f EXCEPT !.phase = phase]
  BY <1>1 DEF StartSession
<1>3. Sound(b) /\ b \in Core /\ b.session \in SessionState /\ now \in Time /\ env \in Env
  BY BegunSound
<1>4. Within(b.session, h) /\ h.reveal = None
  BY <1>3, EndRevealWithin
<1>5. b = Begun(core, focused, now, env)
  OBVIOUS
<1> HIDE DEF b, h
<1>6. /\ Sound(a) /\ Steady(b, a) /\ a.phase = b.phase /\ a.session = h
      /\ \A n \in Nat : Counted(b, n) => Counted(a, n)
      /\ Hidden(a)
  BY <1>3, <1>4, InSessionKeeps
<1> HIDE DEF a
<1>7. a \in Core /\ a.session \in SessionState
  BY <1>6 DEF Sound, Orderly, Core
<1>8. /\ t \in SessionState /\ IsUnlocked(t) /\ t.clipboard = a.session.clipboard
      /\ t.reveal = a.session.reveal
  BY <1>3, <1>7, UnlockedFields
<1> HIDE DEF t
<1>8a. e = ResetGuard([a EXCEPT !.session = t])
  OBVIOUS
<1> HIDE DEF e
<1>9. /\ e \in Core /\ e.failed_attempts = a.failed_attempts
      /\ e.stored_attempts = a.stored_attempts
  BY <1>7, <1>8, <1>8a, StartSessionType
<1>10. /\ f \in Core /\ f.session = e.session
       /\ f.dismissed = e.dismissed /\ f.detected = e.detected /\ f.board = e.board
       /\ f.failed_attempts = e.failed_attempts
       /\ f.stored_attempts = IF env.writes THEN e.failed_attempts ELSE e.stored_attempts
  BY <1>3, <1>9, WriteSettingsFields
<1> HIDE DEF f
<1> DEFINE d == core'
<1>11. /\ d \in Core /\ d.session = f.session /\ d.phase = phase
       /\ d.detected = f.detected /\ d.dismissed = f.dismissed /\ d.board = f.board
       /\ d.failed_attempts = f.failed_attempts /\ d.stored_attempts = f.stored_attempts
  BY <1>2, <1>10 DEF Core, Phase
<1>12. /\ d \in Core /\ d.session = e.session /\ d.detected = e.detected
       /\ d.dismissed = e.dismissed /\ d.board = e.board /\ d.phase \in OpenPhases
  BY <1>10, <1>11 DEF OpenPhases, Phase
<1> HIDE DEF d
<1>13. Sound(d) /\ d.dismissed = None /\ (Hidden(a) => Hidden(d))
  BY <1>6, <1>8, <1>12, <1>8a, OpeningKeeps
<1>14. Yields(b, d)
  BY <1>6, <1>13 DEF Yields, Ends
<1>15. Counted(b, wrong) => Counted(d, wrong')
  <2>1. wrong' = 0
    BY DEF Install
  <2> QED
    BY <2>1, WrongNat, <1>6, <1>9, <1>10, <1>11 DEF Counted, Core, SessionState
<1> QED
  BY <1>5, <1>14, <1>15, CommandOutcome DEF d

\* The Recovery Kit is confirmed: with a new Vault the guard is reset.
LEMMA ConfirmOutcome == ASSUME Inv, ConfirmRecoveryKit PROVE Outcome
<1>1. PICK env \in Envs :
        LET b     == Begun(core, focused, now, env)
            saved == [WriteSettings(b, env) EXCEPT !.phase = "Unlocked"]
        IN /\ b.phase \in {"KitNew", "KitRotation"}
           /\ core' = IF b.phase = "KitRotation" THEN saved ELSE ResetGuard(saved)
  BY DEF ConfirmRecoveryKit, Command
<1> DEFINE b == Begun(core, focused, now, env)
           f == WriteSettings(b, env)
           e == [f EXCEPT !.phase = "Unlocked"]
           d == core'
<1>2. /\ b.phase \in {"KitNew", "KitRotation"}
      /\ d = IF b.phase = "KitRotation" THEN e ELSE ResetGuard(e)
      /\ b = Begun(core, focused, now, env)
  BY <1>1
<1>3. Sound(b) /\ env \in Env
  BY BegunSound
<1> HIDE DEF b, d
<1>4. /\ Keeps(b, f, TRUE) /\ f.phase = b.phase /\ f.dismissed = b.dismissed
  BY <1>3, WriteSettingsKeeps
<1> HIDE DEF f
<1>5. f \in Core /\ "Unlocked" \in Phase /\ "Unlocked" \in OpenPhases /\ b.phase \in OpenPhases
  BY <1>2, <1>4 DEF Keeps, Sound, Orderly, OpenPhases, Phase
<1>6. /\ e \in Core /\ e.session = f.session
      /\ e.phase = "Unlocked" /\ e.detected = f.detected /\ e.dismissed = f.dismissed
      /\ e.board = f.board
      /\ e.failed_attempts = f.failed_attempts /\ e.stored_attempts = f.stored_attempts
  BY <1>5, PutPhase
<1> HIDE DEF e
<1>7. /\ Sound(e) /\ (Hidden(f) <=> Hidden(e)) /\ \A n \in Nat : Counted(f, n) => Counted(e, n)
  BY <1>4, <1>5, <1>6 DEF Keeps, Sound, Orderly, Guarded, Opened, Tracked, ShieldApps,
     Hidden, Counted
<1>8. wrong' = wrong
  BY DEF ConfirmRecoveryKit, NoCredential
<1>9. CASE b.phase = "KitRotation"
  <2>1. d = e
    BY <1>2, <1>9
  <2>2. Yields(b, d)
    BY <2>1, <1>4, <1>5, <1>6, <1>7, <1>9 DEF Yields, Ends, Keeps
  <2>3. Counted(b, wrong) => Counted(d, wrong')
    BY <2>1, WrongNat, <1>4, <1>7, <1>8 DEF Keeps
  <2> QED
    BY <1>2, <2>2, <2>3, CommandOutcome DEF d
<1>10. CASE b.phase # "KitRotation"
  <2>1. d = ResetGuard(e)
    BY <1>2, <1>10
  <2>2. /\ d \in Core /\ Guarded(d) /\ (Opened(e) => Opened(d)) /\ d.dismissed = None
        /\ Hidden(e) => Hidden(d)
        /\ \A n \in Nat : Counted(e, n) => Counted(d, n)
        /\ d.session.clipboard = e.session.clipboard /\ d.board = e.board
    BY <2>1, <1>6, ResetGuardKeeps
  <2>3. Sound(d)
    BY <2>2, <1>7 DEF Sound, Orderly, Tracked
  <2>4. Yields(b, d)
    BY <2>2, <2>3, <1>4, <1>7 DEF Yields, Ends, Keeps
  <2>5. Counted(b, wrong) => Counted(d, wrong')
    BY <2>2, WrongNat, <1>4, <1>7, <1>8 DEF Keeps
  <2> QED
    BY <1>2, <2>4, <2>5, CommandOutcome DEF d
<1> QED
  BY <1>9, <1>10

LEMMA SetNewPasswordOutcome == ASSUME Inv, SetNewPassword PROVE Outcome
<1>1. PICK env \in Envs :
        LET b == Begun(core, focused, now, env) IN
        b.phase = "Reset" /\ core' = [WriteSettings(b, env) EXCEPT !.phase = "Unlocked"]
  BY DEF SetNewPassword, Command
<1> DEFINE b == Begun(core, focused, now, env)
           f == WriteSettings(b, env)
           d == core'
<1>2. b.phase = "Reset" /\ d = [f EXCEPT !.phase = "Unlocked"] /\ b = Begun(core, focused, now, env)
  BY <1>1
<1>3. Sound(b) /\ env \in Env
  BY BegunSound
<1> HIDE DEF b, d
<1>4. /\ Keeps(b, f, TRUE) /\ f.phase = b.phase /\ f.dismissed = b.dismissed
  BY <1>3, WriteSettingsKeeps
<1> HIDE DEF f
<1>5. f \in Core /\ "Unlocked" \in Phase /\ "Unlocked" \in OpenPhases /\ b.phase \in OpenPhases
  BY <1>2, <1>4 DEF Keeps, Sound, Orderly, OpenPhases, Phase
<1>6. /\ d \in Core /\ d.session = f.session
      /\ d.phase = "Unlocked" /\ d.detected = f.detected /\ d.dismissed = f.dismissed
      /\ d.board = f.board
      /\ d.failed_attempts = f.failed_attempts /\ d.stored_attempts = f.stored_attempts
  BY <1>2, <1>5, PutPhase
<1>7. /\ Sound(d) /\ (Hidden(f) <=> Hidden(d)) /\ \A n \in Nat : Counted(f, n) => Counted(d, n)
  BY <1>4, <1>5, <1>6 DEF Keeps, Sound, Orderly, Guarded, Opened, Tracked, ShieldApps,
     Hidden, Counted
<1>8. wrong' = wrong
  BY DEF SetNewPassword, NoCredential
<1>9. Yields(b, d)
  BY <1>2, <1>4, <1>5, <1>6, <1>7 DEF Yields, Ends, Keeps
<1>10. Counted(b, wrong) => Counted(d, wrong')
  BY <1>4, <1>7, <1>8, WrongNat DEF Keeps
<1> QED
  BY <1>2, <1>9, <1>10, CommandOutcome DEF d

LEMMA ReauthenticatedOutcome == ASSUME Inv, Reauthenticated PROVE Outcome
<1>1. PICK phase \in {"Unlocked", "KitRotation"}, env \in Envs :
        LET b == Begun(core, focused, now, env) IN
        b.phase = "Unlocked" /\ core' = [b EXCEPT !.session = Unlocked(@, now), !.phase = phase]
  BY DEF Reauthenticated, Command
<1> DEFINE b == Begun(core, focused, now, env)
           t == Unlocked(b.session, now)
           d == core'
<1>2. /\ b.phase = "Unlocked" /\ d = [b EXCEPT !.session = t, !.phase = phase]
      /\ b = Begun(core, focused, now, env)
  BY <1>1
<1>3. Sound(b) /\ b \in Core /\ b.session \in SessionState /\ now \in Time
  BY BegunSound
<1>4. /\ t \in SessionState /\ IsUnlocked(t)
      /\ t.sharing_guard_up = b.session.sharing_guard_up /\ t.clipboard = b.session.clipboard
      /\ t.reveal = b.session.reveal
  BY <1>3, UnlockedFields
<1> HIDE DEF t, b, d
<1>5. phase \in Phase /\ phase \in OpenPhases /\ b.phase \in OpenPhases
  BY <1>2 DEF OpenPhases, Phase
<1>6. /\ d \in Core /\ d.session = t /\ d.phase = phase
      /\ d.detected = b.detected /\ d.dismissed = b.dismissed /\ d.board = b.board
      /\ d.failed_attempts = b.failed_attempts /\ d.stored_attempts = b.stored_attempts
  BY <1>2, <1>3, <1>4, <1>5 DEF Core
<1>7. Sound(d)
  BY <1>3, <1>4, <1>5, <1>6 DEF Sound, Orderly, Guarded, Opened, Tracked, ShieldApps
<1>8. Yields(b, d)
  BY <1>2, <1>4, <1>5, <1>6, <1>7 DEF Yields, Ends, Hidden
<1>9. Counted(b, wrong) => Counted(d, wrong')
  <2>1. wrong' = 0
    BY DEF Reauthenticated
  <2> QED
    BY <2>1, <1>6 DEF Counted, Core, SessionState
<1> QED
  BY <1>2, <1>8, <1>9, CommandOutcome DEF d

-----------------------------------------------------------------------------
(* The other commands *)

\* A wrong credential is counted in memory and on the disk before the command answers.
LEMMA WrongCredentialOutcome == ASSUME Inv, WrongCredential PROVE Outcome
<1>1. PICK env \in Envs :
        LET b == Begun(core, focused, now, env) IN
        core' = CoreTick([b EXCEPT !.session = FailedAttempt(@, now)], now, env)
  BY DEF WrongCredential, Command
<1> DEFINE b == Begun(core, focused, now, env)
           t == FailedAttempt(b.session, now)
           e == [b EXCEPT !.session = t]
           d == core'
<1>2. b = Begun(core, focused, now, env) /\ d = CoreTick(e, now, env)
  BY <1>1
<1>3. Sound(b) /\ b \in Core /\ b.session \in SessionState /\ now \in Time /\ env \in Env
  BY BegunSound
<1> HIDE DEF b, d
<1>4. /\ t \in SessionState /\ t.failures = SaturatingIncrement(b.session.failures)
      /\ t.sharing_guard_up = b.session.sharing_guard_up /\ t.clipboard = b.session.clipboard
      /\ t.reveal = b.session.reveal /\ t.last_activity = b.session.last_activity
  <2>1. t \in SessionState
    BY <1>3, FailedAttemptType
  <2> QED
    BY <2>1, <1>3 DEF FailedAttempt, SessionState
<1> HIDE DEF t
<1>5. /\ e \in Core /\ e.session = t
      /\ e.phase = b.phase /\ e.detected = b.detected /\ e.dismissed = b.dismissed
      /\ e.window_in_front = b.window_in_front /\ e.board = b.board
      /\ e.failed_attempts = b.failed_attempts /\ e.stored_attempts = b.stored_attempts
  BY <1>3, <1>4, PutSession
<1> HIDE DEF e
<1>6. /\ Sound(e) /\ Steady(b, e) /\ (Hidden(b) => Hidden(e))
  BY <1>3, <1>4, <1>5 DEF Sound, Orderly, Guarded, Opened, Tracked, ShieldApps, IsUnlocked,
     Steady, Hidden
<1>7. Keeps(e, d, env.writes) /\ (env.writes => Written(e, d))
  BY <1>2, <1>3, <1>6, CoreTickKeeps
<1>8. Yields(b, d)
  <2>1. Steady(b, d)
    BY <1>6, <1>7 DEF Keeps, Steady
  <2> QED
    BY <2>1, <1>6, <1>7, SteadyYields DEF Keeps
<1>9. FALSE \notin Writes /\ Counted(b, wrong) => Counted(d, wrong')
  <2> SUFFICES ASSUME FALSE \notin Writes, Counted(b, wrong)
               PROVE  Counted(d, wrong')
    OBVIOUS
  <2>1. env.writes = TRUE
    BY ShellAssumption DEF Envs
  <2>2. wrong' = SaturatingIncrement(wrong)
    BY DEF WrongCredential
  <2>3. b.session.failures \in Nat /\ wrong <= b.session.failures
    BY <1>3 DEF SessionState, Counted
  <2>4. SaturatingIncrement(wrong) <= SaturatingIncrement(b.session.failures)
    BY <2>3, WrongNat, RulesAssumption DEF SaturatingIncrement, Earliest
  <2>5. /\ d.session.failures = e.session.failures
        /\ d.stored_attempts = d.session.failures /\ d.failed_attempts = d.session.failures
    BY <2>1, <1>5, <1>7 DEF Written, Counted
  <2> QED
    BY <2>2, <2>4, <2>5, <1>4, <1>5 DEF Counted
<1> QED
  BY <1>2, <1>8, <1>9, CommandOutcome DEF d

\* A command whose result is the core it began with, but for one call of the session.
LEMMA InSessionOutcome ==
  ASSUME Inv, NEW env \in Envs, NEW b, b = Begun(core, focused, now, env),
         NEW t, Within(b.session, t), core' = [b EXCEPT !.session = t],
         t.reveal = None \/ (b.session.reveal = None => t.reveal = None) \/ b.window_in_front = TRUE,
         wrong' = wrong
  PROVE  Outcome
<1>1. Sound(b)
  BY BegunSound
<1> DEFINE d == core'
<1>2. /\ Sound(d) /\ Steady(b, d)
      /\ Hidden(d) <=> t.reveal = None
      /\ \A n \in Nat : Counted(b, n) => Counted(d, n)
  BY <1>1, InSessionKeeps
<1> HIDE DEF d
<1>3. Yields(b, d)
  BY <1>2, SteadyYields DEF Hidden
<1>4. Counted(b, wrong) => Counted(d, wrong')
  BY <1>2, WrongNat
<1> QED
  BY <1>3, <1>4, CommandOutcome DEF d

LEMMA ShowFieldOutcome == ASSUME Inv, ShowField PROVE Outcome
<1>1. PICK item \in HiddenField, env \in Envs :
        LET b == Begun(core, focused, now, env) IN
        MayShow(b) /\ core' = [b EXCEPT !.session = StartReveal(@, item, "Timed", now)]
  BY DEF ShowField, Command
<1> DEFINE b == Begun(core, focused, now, env)
           t == StartReveal(b.session, item, "Timed", now)
<1>2. MayShow(b) /\ core' = [b EXCEPT !.session = t] /\ b = Begun(core, focused, now, env)
  BY <1>1
<1>3. b \in Core /\ b.session \in SessionState /\ now \in Time /\ "Timed" \in RevealMode
  BY BegunSound DEF RevealMode
<1> HIDE DEF b
<1>4. Within(b.session, t)
  BY <1>3, StartRevealWithin
<1> HIDE DEF t
<1>5. wrong' = wrong
  BY DEF ShowField, NoCredential
<1>6. b.window_in_front = TRUE
  BY <1>2, <1>3 DEF MayShow, Core
<1> QED
  BY <1>2, <1>4, <1>5, <1>6, InSessionOutcome

LEMMA MoreTimeOutcome == ASSUME Inv, MoreTime PROVE Outcome
<1>1. PICK env \in Envs :
        core' = [Begun(core, focused, now, env) EXCEPT !.session = ExtendReveal(@, now)]
  BY DEF MoreTime, Command
<1> DEFINE b == Begun(core, focused, now, env)
           t == ExtendReveal(b.session, now)
<1>2. core' = [b EXCEPT !.session = t] /\ b = Begun(core, focused, now, env)
  BY <1>1
<1>3. b.session \in SessionState /\ now \in Time
  BY BegunSound
<1> HIDE DEF b
<1>4. Within(b.session, t) /\ (b.session.reveal = None => t.reveal = None)
  BY <1>3, ExtendRevealWithin
<1> HIDE DEF t
<1>5. wrong' = wrong
  BY DEF MoreTime, NoCredential
<1> QED
  BY <1>2, <1>4, <1>5, InSessionOutcome

LEMMA SaveNoteOutcome == ASSUME Inv, SaveNote PROVE Outcome
<1>1. PICK env \in Envs : core' = WriteSettings(Begun(core, focused, now, env), env)
  BY DEF SaveNote, Command
<1> DEFINE b == Begun(core, focused, now, env)
           d == core'
<1>2. d = WriteSettings(b, env) /\ b = Begun(core, focused, now, env)
  BY <1>1
<1>3. Sound(b) /\ env \in Env
  BY BegunSound
<1> HIDE DEF b, d
<1>4. Keeps(b, d, TRUE)
  BY <1>2, <1>3, WriteSettingsKeeps
<1>5. wrong' = wrong
  BY DEF SaveNote, NoCredential
<1>6. Yields(b, d)
  BY <1>4, SteadyYields DEF Keeps
<1>7. Counted(b, wrong) => Counted(d, wrong')
  BY <1>4, <1>5, WrongNat DEF Keeps
<1> QED
  BY <1>2, <1>6, <1>7, CommandOutcome DEF d

LEMMA ChangeSettingsOutcome == ASSUME Inv, ChangeSettings PROVE Outcome
<1>1. PICK settings \in AskedSettings, env \in Envs :
        LET b == Begun(core, focused, now, env) IN
        core' = IF env.writes
                THEN [WriteSettings(b, env) EXCEPT !.session = WithSettings(@, settings)]
                ELSE b
  BY DEF ChangeSettings, Command
<1> DEFINE b == Begun(core, focused, now, env)
           f == WriteSettings(b, env)
           t == WithSettings(f.session, settings)
           d == core'
<1>2. /\ d = IF env.writes THEN [f EXCEPT !.session = t] ELSE b
      /\ b = Begun(core, focused, now, env)
  BY <1>1
<1>3. Sound(b) /\ env \in Env
  BY BegunSound
<1> HIDE DEF b, d
<1>4. Keeps(b, f, TRUE)
  BY <1>3, WriteSettingsKeeps
<1> HIDE DEF f
<1>5. Sound(f) /\ f.session \in SessionState
  BY <1>4 DEF Keeps, Sound, Orderly, Core
<1>6. Within(f.session, t) /\ t.reveal = f.session.reveal
  <2>1. Normalized(settings) \in LockSettings
    BY ShellAssumption, NormalizedChoice
  <2> QED
    BY <2>1, <1>5, WithSettingsWithin
<1> HIDE DEF t
<1>7. wrong' = wrong
  BY DEF ChangeSettings, NoCredential
<1>8. CASE env.writes
  <2>1. /\ Sound(d) /\ Steady(f, d) /\ (Hidden(d) <=> t.reveal = None)
        /\ \A n \in Nat : Counted(f, n) => Counted(d, n)
    BY <1>2, <1>5, <1>6, <1>8, InSessionKeeps
  <2>2. Steady(b, d) /\ (Hidden(b) => Hidden(d))
    BY <2>1, <1>4, <1>6 DEF Keeps, Steady, Hidden
  <2>3. Yields(b, d)
    BY <2>1, <2>2, SteadyYields
  <2>4. Counted(b, wrong) => Counted(d, wrong')
    BY <2>1, <1>4, <1>7, WrongNat DEF Keeps
  <2> QED
    BY <2>3, <2>4, <1>2, CommandOutcome DEF d
<1>9. CASE ~env.writes
  <2>1. d = b
    BY <1>2, <1>9
  <2>2. Yields(b, d)
    BY <2>1, <1>3, SteadyYields DEF Steady
  <2>3. Counted(b, wrong) => Counted(d, wrong')
    BY <2>1, <1>7
  <2> QED
    BY <2>2, <2>3, <1>2, CommandOutcome DEF d
<1> QED
  BY <1>8, <1>9

LEMMA CopiedOutcome ==
  ASSUME Inv, NEW env \in Envs, NEW b, b = Begun(core, focused, now, env), MayShow(b),
         NEW a, Sound(a), Steady(b, a), \A n \in Nat : Counted(b, n) => Counted(a, n),
         NEW wallet \in BOOLEAN, core' = a \/ core' = CopyOut(a, wallet, now), wrong' = wrong
  PROVE  Outcome
<1> DEFINE d == CopyOut(a, wallet, now)
<1>1. now \in Time /\ b \in Core
  BY BegunSound
<1>2. b.window_in_front
  BY DEF MayShow
<1>3. d = CopyOut(a, wallet, now)
  OBVIOUS
<1> HIDE DEF d
<1>4. Sound(d) /\ Steady(a, d) /\ \A n \in Nat : Counted(a, n) => Counted(d, n)
  BY <1>1, <1>3, CopyOutKeeps
<1>5. Steady(b, d)
  BY <1>4 DEF Steady
<1>6. core' = a \/ core' = d
  BY <1>3
<1>7. Yields(b, a) /\ Yields(b, d)
  BY <1>2, <1>4, <1>5, SteadyYields
<1>8. Yields(b, core')
  BY <1>6, <1>7
<1>9. Counted(b, wrong) => Counted(core', wrong')
  BY <1>4, <1>6, WrongNat
<1> QED
  BY <1>8, <1>9, CommandOutcome

LEMMA CopyFieldOutcome == ASSUME Inv, CopyField PROVE Outcome
<1>1. PICK item \in HiddenField, wallet \in BOOLEAN, env \in Envs :
        LET b == Begun(core, focused, now, env)
            admitted == [b EXCEPT !.session = AdmitHiddenField(@, item, now)]
        IN /\ MayShow(b)
           /\ core' = IF env.clears THEN CopyOut(admitted, wallet, now) ELSE admitted
  BY DEF CopyField, Command
<1> DEFINE b == Begun(core, focused, now, env)
           t == AdmitHiddenField(b.session, item, now)
           a == [b EXCEPT !.session = t]
<1>2. MayShow(b) /\ (core' = CopyOut(a, wallet, now) \/ core' = a)
  BY <1>1
<1>3. Sound(b) /\ b.session \in SessionState /\ now \in Time /\ b = Begun(core, focused, now, env)
  BY BegunSound
<1> HIDE DEF b
<1>4. Within(b.session, t)
  BY <1>3, AdmitWithin
<1> HIDE DEF t
<1>5. Sound(a) /\ Steady(b, a) /\ \A n \in Nat : Counted(b, n) => Counted(a, n)
  BY <1>3, <1>4, InSessionKeeps
<1>6. wrong' = wrong
  BY DEF CopyField, NoCredential
<1> HIDE DEF a
<1> QED
  BY <1>2, <1>3, <1>5, <1>6, CopiedOutcome

LEMMA CopyVisibleFieldOutcome == ASSUME Inv, CopyVisibleField PROVE Outcome
<1>1. PICK env \in Envs :
        LET b == Begun(core, focused, now, env) IN
        MayShow(b) /\ core' = IF env.clears THEN CopyOut(b, FALSE, now) ELSE b
  BY DEF CopyVisibleField, Command
<1> DEFINE b == Begun(core, focused, now, env)
<1>2. MayShow(b) /\ (core' = CopyOut(b, FALSE, now) \/ core' = b)
  BY <1>1
<1>3. Sound(b) /\ b = Begun(core, focused, now, env)
  BY BegunSound
<1> HIDE DEF b
<1>4. wrong' = wrong
  BY DEF CopyVisibleField, NoCredential
<1>5. Steady(b, b)
  BY DEF Steady
<1> QED
  BY <1>2, <1>3, <1>4, <1>5, CopiedOutcome

LEMMA ShowAndCopyOutcome == ASSUME Inv, ShowAndCopyWalletField PROVE Outcome
<1>1. PICK item \in HiddenField, env \in Envs :
        LET b == Begun(core, focused, now, env)
            shown == [b EXCEPT !.session = StartReveal(@, item, "Accessible", now)]
        IN /\ MayShow(b)
           /\ core' = IF env.clears THEN CopyOut(shown, TRUE, now)
                      ELSE [shown EXCEPT !.session = EndReveal(@)]
  BY DEF ShowAndCopyWalletField, Command
<1> DEFINE b == Begun(core, focused, now, env)
           t == StartReveal(b.session, item, "Accessible", now)
           a == [b EXCEPT !.session = t]
           h == EndReveal(a.session)
           e == [a EXCEPT !.session = h]
<1>2. MayShow(b) /\ (core' = CopyOut(a, TRUE, now) \/ core' = e)
  BY <1>1
<1>3. Sound(b) /\ b.session \in SessionState /\ now \in Time /\ b = Begun(core, focused, now, env)
      /\ "Accessible" \in RevealMode
  BY BegunSound DEF RevealMode
<1> HIDE DEF b
<1>4. Within(b.session, t)
  BY <1>3, StartRevealWithin
<1> HIDE DEF t
<1>5. Sound(a) /\ Steady(b, a) /\ a.session = t /\ \A n \in Nat : Counted(b, n) => Counted(a, n)
  BY <1>3, <1>4, InSessionKeeps
<1> HIDE DEF a
<1>6. Within(a.session, h)
  BY <1>4, <1>5, EndRevealWithin DEF Within
<1> HIDE DEF h
<1>7. Sound(e) /\ Steady(a, e) /\ \A n \in Nat : Counted(a, n) => Counted(e, n)
  BY <1>5, <1>6, InSessionKeeps
<1> HIDE DEF e
<1>8. Steady(b, e) /\ \A n \in Nat : Counted(b, n) => Counted(e, n)
  BY <1>5, <1>7 DEF Steady
<1>9. wrong' = wrong
  BY DEF ShowAndCopyWalletField, NoCredential
<1> QED
  BY <1>2, <1>3, <1>5, <1>7, <1>8, <1>9, CopiedOutcome

-----------------------------------------------------------------------------
(* The loop, the OS and the calls that are not commands *)

LEMMA RoundOutcome == ASSUME Inv, Round PROVE Outcome
<1>1. PICK env \in Envs :
        LET taken == TakeCore(core, focused)
            told  == IF probe = None THEN taken ELSE GuardUpdate(taken, probe)
        IN core' = CoreTick(told, now, env)
  BY DEF Round
<1> DEFINE taken == TakeCore(core, focused)
           heard == GuardUpdate(taken, probe)
           told  == IF probe = None THEN taken ELSE heard
           d     == core'
<1>2. /\ focused \in BOOLEAN /\ now \in Time /\ Sound(core) /\ env \in Env
      /\ probe = None \/ probe \in SUBSET App
  BY ShellAssumption DEF Inv, TypeOK, Envs, Env, Option
<1>3. Keeps(core, taken, TRUE)
  BY <1>2, TakeCoreKeeps
<1>4. d = CoreTick(told, now, env)
  BY <1>1
<1> HIDE DEF taken, d
<1>5. probe # None => Keeps(taken, heard, TRUE)
  BY <1>2, <1>3, GuardUpdateKeeps DEF Keeps
<1> HIDE DEF heard
<1>6. Keeps(core, told, TRUE)
  BY <1>3, <1>5, KeepsTransitive
<1> HIDE DEF told
<1>7. Keeps(told, d, env.writes)
  BY <1>2, <1>4, <1>6, CoreTickKeeps DEF Keeps
<1>8. Keeps(core, told, env.writes)
  BY <1>6 DEF Keeps
<1>9. wrong' = wrong
  BY DEF Round
<1> QED
  BY <1>7, <1>8, <1>9, KeepsTransitive, KeepsOutcome DEF d

\* A focus event, when it is delivered, hides what is shown unless the focus was gained.
LEMMA DeliveredOutcome ==
  ASSUME Inv, Delivered
  PROVE  /\ Outcome /\ focused' = focused
         /\ \/ inFlight'["FocusLost"] = inFlight["FocusLost"]
            \/ Hidden(core')
<1>1. PICK event \in FocusEvents, env \in Envs :
        /\ inFlight' = [inFlight EXCEPT ![event] = @ - 1]
        /\ core' = CoreOsEvent(core, event, focused, now, env)
  BY DEF Delivered
<1>2. /\ focused \in BOOLEAN /\ now \in Time /\ Sound(core) /\ env \in Env
      /\ event \in OsEvents /\ inFlight \in [FocusEvents -> Nat]
  BY ShellAssumption DEF Inv, TypeOK, Envs, Env, FocusEvents, OsEvents
<1> DEFINE d == core'
<1>3. d = CoreOsEvent(core, event, focused, now, env)
  BY <1>1
<1> HIDE DEF d
<1>4. Keeps(core, d, env.writes) /\ (event # "FocusGained" => Hidden(d))
  BY <1>2, <1>3, CoreOsEventKeeps
<1>5. wrong' = wrong /\ focused' = focused
  BY DEF Delivered
<1>6. event = "FocusGained" => inFlight'["FocusLost"] = inFlight["FocusLost"]
  BY <1>1, <1>2 DEF FocusEvents
<1> QED
  BY <1>4, <1>5, <1>6, KeepsOutcome DEF d

LEMMA LockEventOutcome == ASSUME Inv, LockEvent PROVE Outcome
<1>1. PICK event \in LockingEvents, env \in Envs :
        core' = CoreOsEvent(core, event, focused, now, env)
  BY DEF LockEvent
<1>2. /\ focused \in BOOLEAN /\ now \in Time /\ Sound(core) /\ env \in Env
      /\ event \in OsEvents
  BY ShellAssumption DEF Inv, TypeOK, Envs, Env, OsEvents
<1> DEFINE d == core'
<1>3. d = CoreOsEvent(core, event, focused, now, env)
  BY <1>1
<1> HIDE DEF d
<1>4. Keeps(core, d, env.writes)
  BY <1>2, <1>3, CoreOsEventKeeps
<1>5. wrong' = wrong
  BY DEF LockEvent, NoCredential
<1> QED
  BY <1>4, <1>5, KeepsOutcome DEF d

LEMMA LockPressedOutcome == ASSUME Inv, LockPressed PROVE Outcome
<1>1. PICK env \in Envs : core' = CoreLock(TakeCore(core, focused), now, env)
  BY DEF LockPressed
<1>2. focused \in BOOLEAN /\ now \in Time /\ Sound(core) /\ env \in Env
  BY ShellAssumption DEF Inv, TypeOK, Envs, Env
<1> DEFINE taken == TakeCore(core, focused)
           d == core'
<1>3. d = CoreLock(taken, now, env)
  BY <1>1
<1>4. Keeps(core, taken, TRUE)
  BY <1>2, TakeCoreKeeps
<1> HIDE DEF taken, d
<1>5. Keeps(taken, d, TRUE)
  BY <1>2, <1>3, <1>4, CoreLockKeeps DEF Keeps
<1>6. Keeps(core, d, env.writes)
  BY <1>4, <1>5, KeepsTransitive DEF Keeps
<1>7. wrong' = wrong
  BY DEF LockPressed, NoCredential
<1> QED
  BY <1>6, <1>7, KeepsOutcome DEF d

LEMMA DismissShieldOutcome == ASSUME Inv, DismissShield PROVE Outcome
<1> DEFINE taken == TakeCore(core, focused)
           d == core'
<1>1. focused \in BOOLEAN /\ Sound(core)
  BY DEF Inv, TypeOK
<1>2. d = DismissSharingGuard(taken)
  BY DEF DismissShield
<1>3. Keeps(core, taken, TRUE) /\ taken.phase = core.phase
  BY <1>1, TakeCoreKeeps
<1> HIDE DEF taken, d
<1>4. /\ Sound(d) /\ d.phase = taken.phase /\ (Hidden(taken) => Hidden(d))
      /\ \A n \in Nat : Counted(taken, n) => Counted(d, n)
  BY <1>2, <1>3, DismissKeeps DEF Keeps
<1>5. wrong' = wrong
  BY DEF DismissShield, NoCredential
<1>6. Ends(core, d)
  BY <1>3, <1>4 DEF Ends
<1> QED
  BY <1>3, <1>4, <1>5, <1>6, WrongNat DEF Keeps, Outcome, d

LEMMA OwnerActivityOutcome == ASSUME Inv, OwnerActivity PROVE Outcome
<1> DEFINE taken == TakeCore(core, focused)
           t == Activity(taken.session, now)
           d == core'
<1>1. focused \in BOOLEAN /\ now \in Time /\ Sound(core)
  BY DEF Inv, TypeOK
<1>2. d = [taken EXCEPT !.session = t]
  BY DEF OwnerActivity
<1>3. Keeps(core, taken, TRUE)
  BY <1>1, TakeCoreKeeps
<1> HIDE DEF taken, d
<1>4. Sound(taken) /\ taken.session \in SessionState
  BY <1>3 DEF Keeps, Sound, Orderly, Core
<1>5. Within(taken.session, t) /\ t.reveal = taken.session.reveal
  BY <1>1, <1>4, ActivityWithin
<1> HIDE DEF t
<1>6. /\ Sound(d) /\ Steady(taken, d) /\ (Hidden(d) <=> t.reveal = None)
      /\ \A n \in Nat : Counted(taken, n) => Counted(d, n)
  BY <1>2, <1>4, <1>5, InSessionKeeps
<1>7. Steady(core, d) /\ (Hidden(core) => Hidden(d))
  BY <1>3, <1>5, <1>6 DEF Keeps, Steady, Hidden
<1>8. wrong' = wrong
  BY DEF OwnerActivity, NoCredential
<1> QED
  BY <1>3, <1>6, <1>7, <1>8, SteadyEnds, WrongNat DEF Keeps, Outcome, d

LEMMA HideFieldOutcome == ASSUME Inv, HideField PROVE Outcome
<1> DEFINE taken == TakeCore(core, focused)
           t == EndReveal(taken.session)
           d == core'
<1>1. focused \in BOOLEAN /\ now \in Time /\ Sound(core)
  BY DEF Inv, TypeOK
<1>2. d = [taken EXCEPT !.session = t]
  BY DEF HideField
<1>3. Keeps(core, taken, TRUE)
  BY <1>1, TakeCoreKeeps
<1> HIDE DEF taken, d
<1>4. Sound(taken) /\ taken.session \in SessionState
  BY <1>3 DEF Keeps, Sound, Orderly, Core
<1>5. Within(taken.session, t) /\ t.reveal = None
  BY <1>4, EndRevealWithin
<1> HIDE DEF t
<1>6. /\ Sound(d) /\ Steady(taken, d) /\ (Hidden(d) <=> t.reveal = None)
      /\ \A n \in Nat : Counted(taken, n) => Counted(d, n)
  BY <1>2, <1>4, <1>5, InSessionKeeps
<1>7. Steady(core, d) /\ Hidden(d)
  BY <1>3, <1>5, <1>6 DEF Keeps, Steady
<1>8. wrong' = wrong
  BY DEF HideField, NoCredential
<1> QED
  BY <1>3, <1>6, <1>7, <1>8, SteadyEnds, WrongNat DEF Keeps, Outcome, d

LEMMA OtherCopiesOutcome == ASSUME Inv, OtherCopies PROVE Outcome
<1> DEFINE n == core.board.count + 1
           b == [count |-> n, holds |-> "other"]
           d == core'
<1>1. Sound(core) /\ core \in Core
  BY DEF Inv, Sound, Orderly
<1>2. b \in Board
  BY <1>1 DEF Core, Board
<1>3. d = [core EXCEPT !.board = b]
  BY DEF OtherCopies
<1> HIDE DEF b, d
<1>4. /\ d \in Core /\ d.session = core.session
      /\ d.phase = core.phase /\ d.detected = core.detected /\ d.dismissed = core.dismissed
      /\ d.window_in_front = core.window_in_front /\ d.board = b
      /\ d.failed_attempts = core.failed_attempts /\ d.stored_attempts = core.stored_attempts
  BY <1>1, <1>2, <1>3, PutBoard
<1>5. b.holds # "ours"
  BY DEF b
<1>6. Sound(d)
  BY <1>1, <1>4, <1>5 DEF Sound, Orderly, Guarded, Opened, Tracked, ShieldApps
<1>7. wrong' = wrong
  BY DEF OtherCopies, NoCredential
<1> QED
  BY <1>4, <1>6, <1>7 DEF Outcome, Ends, Hidden, Counted, d

\* A new process starts with a closed Vault and the count that was on the disk.
LEMMA NewCoreKeeps ==
  ASSUME NEW c, Sound(c), NEW d, d = NewCore(c)
  PROVE  /\ Sound(d) /\ Hidden(d) /\ d.dismissed = None /\ d.phase \notin OpenPhases
         /\ d.stored_attempts = c.stored_attempts /\ d.failed_attempts = c.stored_attempts
         /\ d.session.failures = c.stored_attempts
<1> DEFINE settings == c.session.settings
           new == NewSession(settings)
           n == c.stored_attempts
           t == IF n > 0 THEN RestoreFailures(new, n, 0) ELSE new
           p == IF c.phase \in {"NoVault", "KitNew"} THEN "NoVault" ELSE "Locked"
           b == IF c.board.holds \notin {"ours", "left"} THEN c.board
                ELSE IF ClearsLeftover THEN [count |-> c.board.count + 1, holds |-> "nothing"]
                ELSE [c.board EXCEPT !.holds = "left"]
<1>1. c \in Core /\ n \in 0..CountMax /\ settings \in LockSettings /\ c.board \in Board
  BY DEF Sound, Orderly, Core, SessionState
<1>2. new \in SessionState
  BY <1>1, NormalizedChoice, NewSessionType
<1>3. /\ new.failures = 0 /\ new.reveal = None /\ new.last_activity = None
      /\ new.sharing_guard_up = FALSE
  BY DEF NewSession
<1> HIDE DEF new
<1>4. /\ t \in SessionState /\ t.failures = n /\ t.reveal = None /\ t.last_activity = None
      /\ t.sharing_guard_up = FALSE
  <2>1. CASE n > 0
    <3>1. t = [new EXCEPT !.failures = n, !.last_failure_at = 0]
      BY <2>1 DEF RestoreFailures
    <3> HIDE DEF t, n
    <3> QED
      BY <1>1, <1>2, <1>3, <3>1 DEF SessionState, Time
  <2>2. CASE ~(n > 0)
    <3>1. n = 0 /\ t = new
      BY <1>1, <2>2, RulesAssumption
    <3> HIDE DEF t, n
    <3> QED
      BY <1>2, <1>3, <3>1
  <2> QED
    BY <2>1, <2>2
<1>5. b \in Board /\ b.holds # "ours"
  <2>1. [count |-> c.board.count + 1, holds |-> "nothing"] \in Board
    BY <1>1 DEF Board
  <2>2. /\ [c.board EXCEPT !.holds = "left"] \in Board
        /\ [c.board EXCEPT !.holds = "left"].holds = "left"
    BY <1>1 DEF Board
  <2> QED
    BY <1>1, <2>1, <2>2
<1>6. p \in Phase \ OpenPhases
  BY DEF OpenPhases, Phase
<1>7. d = [session |-> t, phase |-> p, detected |-> {}, dismissed |-> None,
           window_in_front |-> TRUE, failed_attempts |-> n, stored_attempts |-> n, board |-> b]
  BY DEF NewCore, new
<1> HIDE DEF t, p, b, n
<1>8. d \in Core
  BY <1>1, <1>4, <1>5, <1>6, <1>7 DEF Core, Option
<1>9. /\ d.session = t /\ d.phase = p /\ d.detected = {} /\ d.dismissed = None
      /\ d.failed_attempts = n /\ d.stored_attempts = n /\ d.board = b
  BY <1>7
<1> HIDE DEF b
<1>10. Guarded(d) /\ Opened(d) /\ Tracked(d)
  BY <1>4, <1>5, <1>6, <1>9 DEF Guarded, Opened, Tracked, ShieldApps, IsUnlocked
<1> QED
  BY <1>4, <1>6, <1>8, <1>9, <1>10 DEF Sound, Orderly, Hidden, n

LEMMA RestartOutcome == ASSUME Inv, Restart PROVE Outcome
<1> DEFINE d == core'
<1>1. Sound(core)
  BY DEF Inv
<1>2. d = NewCore(core) /\ wrong' = wrong
  BY DEF Restart
<1> HIDE DEF d
<1>3. /\ Sound(d) /\ Hidden(d) /\ d.dismissed = None /\ d.phase \notin OpenPhases
      /\ d.stored_attempts = core.stored_attempts /\ d.failed_attempts = core.stored_attempts
      /\ d.session.failures = core.stored_attempts
  BY <1>1, <1>2, NewCoreKeeps
<1>4. Ends(core, d)
  BY <1>3 DEF Ends
<1> QED
  BY <1>2, <1>3, <1>4 DEF Outcome, Counted, d

-----------------------------------------------------------------------------
(* The invariants *)

LEMMA SameOutcome ==
  ASSUME Inv, core' = core, wrong' = wrong
  PROVE  Outcome
BY DEF Inv, Outcome, Ends, Hidden, Counted

LEMMA StepOutcome ==
  ASSUME Inv, Next
  PROVE  Outcome
<1>1. Clock \/ Probe \/ Reported \/ AppsChange => Outcome
  BY SameOutcome DEF Clock, Probe, Reported, AppsChange
<1>2. Round \/ Delivered \/ LockEvent \/ OtherCopies \/ Restart => Outcome
  BY RoundOutcome, DeliveredOutcome, LockEventOutcome, OtherCopiesOutcome, RestartOutcome
<1>3. CreateVault \/ ConfirmRecoveryKit \/ UnlockAccepted \/ TouchId \/ SetNewPassword => Outcome
  BY CreateVaultOutcome, ConfirmOutcome, UnlockAcceptedOutcome, TouchIdOutcome,
     SetNewPasswordOutcome
<1>4. WrongCredential \/ Reauthenticated \/ Install \/ ChangeSettings \/ SaveNote => Outcome
  BY WrongCredentialOutcome, ReauthenticatedOutcome, InstallOutcome, ChangeSettingsOutcome,
     SaveNoteOutcome
<1>5. LockPressed \/ DismissShield \/ OwnerActivity \/ ShowField \/ MoreTime \/ HideField => Outcome
  BY LockPressedOutcome, DismissShieldOutcome, OwnerActivityOutcome, ShowFieldOutcome,
     MoreTimeOutcome, HideFieldOutcome
<1>6. CopyField \/ CopyVisibleField \/ ShowAndCopyWalletField => Outcome
  BY CopyFieldOutcome, CopyVisibleFieldOutcome, ShowAndCopyOutcome
<1> QED
  BY <1>1, <1>2, <1>3, <1>4, <1>5, <1>6 DEF Next

\* Around the core: the clock, the focus and its events, what runs, and the count of wrong
\* credentials.
Around ==
  /\ now \in Time
  /\ focused \in BOOLEAN /\ inFlight \in [FocusEvents -> Nat]
  /\ probe \in Option(SUBSET App) /\ running \in SUBSET App
  /\ wrong \in 0..CountMax /\ settled \in BOOLEAN

LEMMA AroundStep ==
  ASSUME Around, Next
  PROVE  Around'
<1>1. CASE Clock
  <2>1. UNCHANGED <<focused, inFlight, probe, running, wrong>> /\ settled' = FALSE
    BY <1>1 DEF Clock, outside
  <2>2. now' \in Time
    BY <1>1 DEF Around, Clock, Time
  <2> QED
    BY <2>1, <2>2 DEF Around
<1>2. CASE Probe
  BY <1>2 DEF Around, Probe, Option
<1>3. CASE Round
  BY <1>3, ShellAssumption DEF Around, Round, Option, Envs
<1>4. CASE Reported
  <2>1. PICK event \in FocusEvents : /\ focused' = (event = "FocusGained")
                                     /\ inFlight' = [inFlight EXCEPT ![event] = @ + 1]
    BY <1>4 DEF Reported
  <2>2. inFlight' \in [FocusEvents -> Nat]
    BY <2>1 DEF Around
  <2>3. focused' \in BOOLEAN
    BY <2>1
  <2> QED
    BY <1>4, <2>2, <2>3 DEF Around, Reported
<1>5. CASE Delivered
  <2>1. PICK event \in FocusEvents : /\ inFlight[event] > 0
                                     /\ inFlight' = [inFlight EXCEPT ![event] = @ - 1]
    BY <1>5 DEF Delivered
  <2>2. inFlight' \in [FocusEvents -> Nat]
    BY <2>1 DEF Around
  <2> QED
    BY <1>5, <2>2 DEF Around, Delivered
<1>6. CASE AppsChange
  BY <1>6 DEF Around, AppsChange
<1>7. CASE Restart
  BY <1>7 DEF Around, Restart, Option, Time
<1>8. CASE Quiet /\ (NoCredential \/ wrong' = 0 \/ wrong' = SaturatingIncrement(wrong))
  <2>1. SaturatingIncrement(wrong) \in 0..CountMax /\ 0 \in 0..CountMax
    BY RulesAssumption DEF Around, SaturatingIncrement, Earliest
  <2>2. wrong' \in 0..CountMax
    BY <1>8, <2>1 DEF NoCredential, Around
  <2> QED
    BY <1>8, <2>2 DEF Around, Quiet, outside
<1>9. LockEvent \/ OtherCopies \/ ConfirmRecoveryKit \/ TouchId \/ SetNewPassword
        \/ ChangeSettings \/ SaveNote \/ LockPressed \/ DismissShield \/ OwnerActivity
        \/ ShowField \/ MoreTime \/ CopyField \/ CopyVisibleField \/ ShowAndCopyWalletField
        \/ HideField
      => Quiet /\ NoCredential
  BY ZenonT(60) DEF LockEvent, OtherCopies, ConfirmRecoveryKit, TouchId, SetNewPassword,
     ChangeSettings, SaveNote, LockPressed, DismissShield, OwnerActivity,
     ShowField, MoreTime, CopyField, CopyVisibleField, ShowAndCopyWalletField, HideField
<1>10. CreateVault \/ UnlockAccepted \/ Reauthenticated \/ Install => Quiet /\ wrong' = 0
  BY Zenon DEF CreateVault, UnlockAccepted, Reauthenticated, Install
<1>11. WrongCredential => Quiet /\ wrong' = SaturatingIncrement(wrong)
  BY Zenon DEF WrongCredential
<1> QED
  BY <1>1, <1>2, <1>3, <1>4, <1>5, <1>6, <1>7, <1>8, <1>9, <1>10, <1>11 DEF Next

\* Between a focus event and its delivery something may still be shown; afterwards not.
LEMMA HiddenStep ==
  ASSUME Inv, Next, ~focused', inFlight'["FocusLost"] = 0
  PROVE  Hidden(core')
<1>1. /\ ~focused /\ Hidden(core) => Hidden(core')
      /\ ~focused /\ inFlight["FocusLost"] = 0 => Hidden(core)
  BY StepOutcome DEF Outcome, Inv
<1>2. inFlight["FocusLost"] \in Nat /\ inFlight \in [FocusEvents -> Nat]
  BY DEF Inv, TypeOK, FocusEvents
<1>3. ~Reported
  <2> SUFFICES ASSUME Reported PROVE FALSE
    OBVIOUS
  <2>1. PICK event \in FocusEvents : /\ focused' = (event = "FocusGained")
                                     /\ inFlight' = [inFlight EXCEPT ![event] = @ + 1]
    BY DEF Reported
  <2>2. event = "FocusLost"
    BY <2>1 DEF FocusEvents
  <2>3. inFlight'["FocusLost"] = inFlight["FocusLost"] + 1
    BY <1>2, <2>1, <2>2
  <2> QED
    BY <1>2, <2>3
<1>4. ~Restart
  BY DEF Restart
<1>5. CASE Delivered
  BY <1>1, <1>5, DeliveredOutcome
<1>6. CASE UNCHANGED <<focused, inFlight>>
  BY <1>1, <1>6
<1>7. Delivered \/ UNCHANGED <<focused, inFlight>>
  <2>1. Clock \/ Probe \/ Round \/ AppsChange => UNCHANGED <<focused, inFlight>>
    BY DEF Clock, Probe, Round, AppsChange, outside
  <2>2. Quiet => UNCHANGED <<focused, inFlight>>
    BY DEF Quiet, outside
  <2>3. LockEvent \/ OtherCopies \/ CreateVault \/ ConfirmRecoveryKit \/ UnlockAccepted
          \/ WrongCredential \/ TouchId \/ SetNewPassword \/ Reauthenticated \/ Install => Quiet
    BY Zenon DEF LockEvent, OtherCopies, CreateVault, ConfirmRecoveryKit, UnlockAccepted,
       WrongCredential, TouchId, SetNewPassword, Reauthenticated, Install
  <2>4. ChangeSettings \/ SaveNote \/ LockPressed \/ DismissShield \/ OwnerActivity
          \/ ShowField \/ MoreTime \/ CopyField \/ CopyVisibleField \/ ShowAndCopyWalletField
          \/ HideField => Quiet
    BY Zenon DEF ChangeSettings, SaveNote, LockPressed, DismissShield, OwnerActivity,
       ShowField, MoreTime, CopyField, CopyVisibleField, ShowAndCopyWalletField, HideField
  <2> QED
    BY <1>3, <1>4, <2>1, <2>2, <2>3, <2>4 DEF Next
<1> QED
  BY <1>5, <1>6, <1>7

LEMMA InvInit ==
  ASSUME Init
  PROVE  Inv /\ wrong = 0 /\ core.stored_attempts = 0 /\ core.failed_attempts = 0
<1>1. PICK settings \in AskedSettings :
        core = [session |-> NewSession(settings), phase |-> "NoVault", detected |-> {},
                dismissed |-> None, window_in_front |-> TRUE, failed_attempts |-> 0,
                stored_attempts |-> 0, board |-> [count |-> 0, holds |-> "nothing"]]
  BY DEF Init
<1> DEFINE s == NewSession(settings)
           b == [count |-> 0, holds |-> "nothing"]
<1>2. s \in SessionState
  BY ShellAssumption, NormalizedChoice, NewSessionType
<1>3. s.reveal = None /\ s.last_activity = None /\ s.sharing_guard_up = FALSE
  BY DEF NewSession
<1>4. b \in Board /\ b.holds = "nothing" /\ 0 \in 0..CountMax
  BY RulesAssumption DEF Board
<1>5. core = [session |-> s, phase |-> "NoVault", detected |-> {},
              dismissed |-> None, window_in_front |-> TRUE, failed_attempts |-> 0,
              stored_attempts |-> 0, board |-> b]
  BY <1>1
<1> HIDE DEF s, b
<1>6. core \in Core
  BY <1>2, <1>4, <1>5 DEF Core, Phase, Option
<1>7. Sound(core) /\ Hidden(core)
  BY <1>3, <1>4, <1>5, <1>6 DEF Sound, Orderly, Guarded, Opened, Tracked, ShieldApps, Hidden,
     IsUnlocked, OpenPhases
<1>8. Around
  BY <1>4 DEF Init, Around, Option, Time, FocusEvents
<1>9. TypeOK
  BY <1>6, <1>8 DEF TypeOK, Around
<1> QED
  BY <1>5, <1>7, <1>9 DEF Inv, Init

LEMMA InvStep ==
  ASSUME Inv, [Next]_vars
  PROVE  Inv'
<1>1. CASE Next
  <2>1. Sound(core') /\ core' \in Core
    BY <1>1, StepOutcome DEF Outcome, Sound, Orderly
  <2>2. Around
    BY DEF Inv, TypeOK, Around
  <2>3. Around'
    BY <1>1, <2>2, AroundStep
  <2>4. TypeOK'
    BY <2>1, <2>3 DEF Around, TypeOK
  <2> QED
    BY <1>1, <2>1, <2>4, HiddenStep DEF Inv
<1>2. CASE UNCHANGED vars
  BY <1>2 DEF Inv, TypeOK, vars
<1> QED
  BY <1>1, <1>2

LEMMA Invariant == Spec => []Inv
<1>1. Init => Inv
  BY InvInit
<1>2. Inv /\ [Next]_vars => Inv'
  BY InvStep
<1> QED
  BY <1>1, <1>2, PTL DEF Spec

\* Every value of the running app stays in its type, whatever happens in whatever order.
THEOREM AppType == Spec => []TypeOK
<1>1. Inv => TypeOK
  BY DEF Inv
<1> QED
  BY <1>1, Invariant, PTL

\* The Vault is open exactly while its session runs (`apply`, `forget_open_vaults`).
THEOREM OpenWhileUnlocked == Spec => []OpenIffUnlocked
<1>1. Inv => OpenIffUnlocked
  BY DEF Inv, Sound, Orderly, Opened, OpenIffUnlocked
<1> QED
  BY <1>1, Invariant, PTL

\* The shield on the screen and the guard in the session agree (`GuardState`, `reset_guard`).
THEOREM GuardAgrees == Spec => []GuardInForce
<1>1. Inv => GuardInForce
  BY DEF Inv, Sound, Orderly, Guarded, GuardInForce
<1> QED
  BY <1>1, Invariant, PTL

\* A copy that is still on the clipboard has its clear (`copy_out`, `retry_clipboard_clear`).
THEOREM CopyHasItsClear == Spec => []CopyTracked
<1>1. Inv => CopyTracked
  BY DEF Inv, Sound, Tracked, CopyTracked
<1> QED
  BY <1>1, Invariant, PTL

\* Nothing is shown in a window that is not in front, once the core has heard of it.
THEOREM HiddenBehind == Spec => []FocusHides
<1>1. Inv => FocusHides
  BY DEF Inv, Hidden, FocusHides, FocusEvents
<1> QED
  BY <1>1, Invariant, PTL

\* No dismissal outlives the Vault it was made for (`reset_guard`).
THEOREM DismissalForgotten == Spec => DismissalEnds
<1>1. Inv /\ [Next]_vars => [Ends(core, core')]_core
  BY StepOutcome DEF Outcome, vars
<1>2. [][Ends(core, core')]_core <=> DismissalEnds
  BY PTL DEF Ends, DismissalEnds
<1> QED
  BY <1>1, <1>2, Invariant, PTL DEF Spec

\* While the settings can be written, every wrong credential since the last right one is
\* counted in the session and on the disk, so that no restart forgives it.
THEOREM AttemptsSurvive ==
  ASSUME FALSE \notin Writes
  PROVE  Spec => []AttemptsCarried
<1>1. Init => Inv /\ Counted(core, wrong)
  <2> SUFFICES ASSUME Init PROVE Inv /\ Counted(core, wrong)
    OBVIOUS
  <2>1. /\ Inv /\ wrong = 0 /\ core.stored_attempts = 0 /\ core.failed_attempts = 0
    BY InvInit
  <2>2. core.session.failures \in Nat
    BY <2>1 DEF Inv, Sound, Orderly, Core, SessionState
  <2> QED
    BY <2>1, <2>2 DEF Counted
<1>2. Inv /\ Counted(core, wrong) /\ [Next]_vars => (Inv /\ Counted(core, wrong))'
  <2> SUFFICES ASSUME Inv, Counted(core, wrong), [Next]_vars
               PROVE  Inv' /\ Counted(core, wrong)'
    OBVIOUS
  <2>1. Inv'
    BY InvStep
  <2>2. CASE Next
    BY <2>1, <2>2, StepOutcome DEF Outcome, Counted
  <2>3. CASE UNCHANGED vars
    BY <2>1, <2>3 DEF vars, Counted
  <2> QED
    BY <2>2, <2>3
<1>3. Inv /\ Counted(core, wrong) => AttemptsCarried
  BY DEF Counted, AttemptsCarried
<1> QED
  BY <1>1, <1>2, <1>3, PTL DEF Spec
=============================================================================
