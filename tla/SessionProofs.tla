--------------------------- MODULE SessionProofs ----------------------------
(***************************************************************************)
(* What holds of Session for every value of its constants.                 *)
(***************************************************************************)
EXTENDS Session, SessionRulesProofs, FiniteSetTheorems, TLAPS

-----------------------------------------------------------------------------
(* Type correctness *)

\* Settings come out of `normalized` within the choices the app offers.
LEMMA NormalizedType ==
  ASSUME NEW asked \in AskedSettings
  PROVE  Normalized(asked) \in LockSettings
BY RulesAssumption, SessionAssumption
DEF Normalized, AskedSettings, LockSettings

\* What a count of failures earns is a time.
LEMMA DelayType ==
  ASSUME NEW n \in Nat
  PROVE  Delay(n) \in Time
<1>1. CASE n < FreeAttempts
  BY <1>1 DEF Delay, Time
<1>2. CASE ~(n < FreeAttempts)
  <2>1. Earliest(n - FreeAttempts + 1, Len(FailureDelays)) \in 1..Len(FailureDelays)
    BY <1>2, RulesAssumption DEF Earliest
  <2> QED
    BY <1>2, <2>1, RulesAssumption DEF Delay
<1> QED
  BY <1>1, <1>2

\* The session and the history variables always have their types.
THEOREM TypeCorrect == Spec => []TypeOK
<1>1. Init => TypeOK
  <2> SUFFICES ASSUME Init PROVE TypeOK
    OBVIOUS
  <2>1. session \in SessionState
    BY NewSessionType, NormalizedType DEF Init
  <2>2. lastAdmitted \in [HiddenField -> Option(Time)]
    BY DEF Init, Option
  <2>3. /\ now \in Time /\ lastInside \in Time /\ shownAt \in Time /\ renewedAt \in Time
        /\ wasDue \in BOOLEAN
    BY DEF Init, Time
  <2>4. wrong \in [count : Nat, first : Time, last : Time, delays : Time]
    BY DEF Init, NoneWrong, Time
  <2> QED
    BY <2>1, <2>2, <2>3, <2>4 DEF TypeOK
<1>2. TypeOK /\ [Next]_vars => TypeOK'
  <2> SUFFICES ASSUME TypeOK, [Next]_vars PROVE TypeOK'
    OBVIOUS
  <2> USE DEF TypeOK
  <2>1. CASE Clock
    BY <2>1 DEF Clock, history, Time
  <2>2. CASE ChangeSettings
    BY <2>2, WithSettingsType, NormalizedType DEF ChangeSettings, AutoLockDue, IsUnlocked
  <2>3. CASE CredentialAccepted
    BY <2>3, UnlockedType DEF CredentialAccepted, NoneWrong, Time
  <2>4. CASE CredentialRejected
    <3>1. Delay(wrong.count) \in Time
      BY DelayType
    <3>2. wrong' \in [count : Nat, first : Time, last : Time, delays : Time]
      <4>1. CASE wrong.count = 0
        BY <2>4, <4>1 DEF CredentialRejected, Time
      <4>2. CASE wrong.count # 0
        <5>1. wrong' = [wrong EXCEPT !.count = wrong.count + 1, !.last = now,
                                     !.delays = wrong.delays + Delay(wrong.count)]
          BY <2>4, <4>2 DEF CredentialRejected
        <5>2. wrong.delays + Delay(wrong.count) \in Time /\ wrong.count + 1 \in Nat
          BY <3>1 DEF Time
        <5> QED
          BY <5>1, <5>2
      <4> QED
        BY <4>1, <4>2
    <3> QED
      BY <2>4, <3>2, FailedAttemptType DEF CredentialRejected, Time
  <2>5. CASE TouchIdAccepted
    BY <2>5, UnlockedType DEF TouchIdAccepted
  <2>6. CASE OwnerActivity
    BY <2>6, ActivityType DEF OwnerActivity
  <2>7. CASE InputElsewhere
    BY <2>7, ActivityElsewhereType DEF InputElsewhere, history, Time
  <2>8. CASE Ticks
    BY <2>8, TickType DEF Ticks, history
  <2>9. CASE OsReports
    BY <2>9, OsEventType DEF OsReports, history
  <2>10. CASE LockPressed
    BY <2>10, LockType DEF LockPressed, history
  <2>11. CASE Show
    BY <2>11, StartRevealType DEF Show, Option
  <2>12. CASE CopyField
    BY <2>12, AdmitType DEF CopyField, Option
  <2>13. CASE MoreTime
    BY <2>13, ExtendRevealType DEF MoreTime
  <2>14. CASE Hide
    BY <2>14, LockType DEF Hide, history
  <2>15. CASE OpenNote
    BY <2>15, NoteOpenedType DEF OpenNote, history
  <2>16. CASE GuardReports
    BY <2>16, SetSharingGuardType DEF GuardReports, history
  <2>17. CASE ClipboardWritten
    <3>1. PICK count \in ChangeCounts, wallet \in BOOLEAN :
            session' = IF wallet THEN CopiedWalletValue(session, count, now)
                                 ELSE Copied(session, count, now)
      BY <2>17 DEF ClipboardWritten
    <3>2. session' \in SessionState
      BY <3>1, ClipboardType, SessionAssumption
    <3> QED
      BY <2>17, <3>2 DEF ClipboardWritten, history
  <2>18. CASE ClearFailed
    BY <2>18, ClipboardType, SessionAssumption DEF ClearFailed, history
  <2>19. CASE UNCHANGED vars
    BY <2>19 DEF vars, history
  <2> QED
    BY <2>1, <2>2, <2>3, <2>4, <2>5, <2>6, <2>7, <2>8, <2>9, <2>10, <2>11, <2>12,
       <2>13, <2>14, <2>15, <2>16, <2>17, <2>18, <2>19 DEF Next
<1> QED
  BY <1>1, <1>2, PTL DEF Spec
-----------------------------------------------------------------------------
(* What may be shown *)

\* The clauses that make RevealBounded inductive: how the end of a reveal follows
\* from the moment it was last asked for, and how extensions are paid for.
RevealInv ==
  LET r == session.reveal IN
  r # None =>
    /\ IsUnlocked(session) /\ ~session.sharing_guard_up
    /\ renewedAt <= now
    /\ r.mode = "Held" => r.expires_at = None /\ session.held_until = renewedAt + HeldMax
    /\ r.mode # "Held" => r.expires_at = renewedAt + RevealLength(r.mode)
    /\ r.mode = "Accessible" =>
         /\ r.extensions <= MaxExtensions
         /\ r.expires_at <= shownAt + AccessibleLength * (1 + r.extensions)

\* Two sessions that differ at most in what does not concern the shown value.
SameReveal(s, t) ==
  /\ t.reveal = s.reveal /\ t.held_until = s.held_until
  /\ t.sharing_guard_up = s.sharing_guard_up
  /\ IsUnlocked(s) => IsUnlocked(t)

\* The operations that leave the shown value alone, or take it away.
LEMMA RevealFrame ==
  ASSUME NEW s \in SessionState, NEW t \in Time
  PROVE  /\ \A asked \in AskedSettings : SameReveal(s, WithSettings(s, asked))
         /\ SameReveal(s, Unlocked(s, t)) /\ SameReveal(s, QuickUnlocked(s, t))
         /\ SameReveal(s, FailedAttempt(s, t))
         /\ SameReveal(s, Activity(s, t))
         /\ \A at \in Time : SameReveal(s, ActivityElsewhere(s, at, t))
         /\ \A item \in HiddenField : SameReveal(s, AdmitHiddenField(s, item, t))
         /\ \A count \in Nat : /\ SameReveal(s, Copied(s, count, t))
                               /\ SameReveal(s, CopiedWalletValue(s, count, t))
                               /\ SameReveal(s, RetryClipboardClear(s, count, t))
         /\ EndReveal(s).reveal = None /\ Lock(s).reveal = None
         /\ Tick(s, t).reveal = None \/ SameReveal(s, Tick(s, t))
         /\ \A event \in OsEvents : \/ OsEvent(s, event).reveal = None
                                    \/ SameReveal(s, OsEvent(s, event))
<1> USE NoneAssumption DEF SessionState, SameReveal, IsUnlocked
<1>1. \A asked \in AskedSettings : SameReveal(s, WithSettings(s, asked))
  BY DEF WithSettings
<1>2. SameReveal(s, Unlocked(s, t)) /\ SameReveal(s, QuickUnlocked(s, t))
  BY DEF Unlocked, QuickUnlocked, Time
<1>3. SameReveal(s, FailedAttempt(s, t))
  BY DEF FailedAttempt
<1>4. SameReveal(s, Activity(s, t))
  BY DEF Activity, Latest, Time, Option
<1>5. \A at \in Time : SameReveal(s, ActivityElsewhere(s, at, t))
  BY DEF ActivityElsewhere
<1>6. \A item \in HiddenField : SameReveal(s, AdmitHiddenField(s, item, t))
  BY DEF AdmitHiddenField, Pruned
<1>7. \A count \in Nat : /\ SameReveal(s, Copied(s, count, t))
                         /\ SameReveal(s, CopiedWalletValue(s, count, t))
                         /\ SameReveal(s, RetryClipboardClear(s, count, t))
  BY DEF Copied, CopiedWalletValue, RetryClipboardClear, ClearAfter
<1>8. EndReveal(s).reveal = None /\ Lock(s).reveal = None
  BY DEF EndReveal, Lock, BecomeLocked
<1>9. Tick(s, t).reveal = None \/ SameReveal(s, Tick(s, t))
  BY <1>8 DEF Tick
<1>10. \A event \in OsEvents : \/ OsEvent(s, event).reveal = None
                               \/ SameReveal(s, OsEvent(s, event))
  BY <1>8 DEF OsEvent, OsEvents, LockSettings, BecomeLocked, EndReveal
<1> QED
  BY <1>1, <1>2, <1>3, <1>4, <1>5, <1>6, <1>7, <1>8, <1>9, <1>10

\* One more extension is one more length (products are hard for the provers).
LEMMA Distribute ==
  ASSUME NEW length \in Nat, NEW n \in Nat
  PROVE  length * (1 + (n + 1)) = length * (1 + n) + length
OBVIOUS

\* More extensions never allow less time.
LEMMA MoreFactors ==
  ASSUME NEW length \in Nat, NEW m \in Nat, NEW n \in Nat, m <= n
  PROVE  length * (1 + m) <= length * (1 + n)
<1>1. PICK k \in Nat : n = m + k
  BY n - m \in Nat
<1>2. length * (1 + n) = length * (1 + m) + length * k /\ length * k \in Nat
  BY <1>1
<1> QED
  BY <1>2

\* A step that leaves the shown value alone, or hides it, keeps RevealInv.
LEMMA RevealInvKept ==
  ASSUME TypeOK, RevealInv, SameReveal(session, session'),
         UNCHANGED <<shownAt, renewedAt, now>>
  PROVE  RevealInv'
BY DEF RevealInv, SameReveal, IsUnlocked

\* `start_reveal` starts the bound anew or changes nothing.
LEMMA ShowKeepsRevealInv ==
  ASSUME TypeOK, RevealInv, Show
  PROVE  RevealInv'
<1>1. PICK item \in HiddenField, mode \in RevealMode :
        /\ session' = StartReveal(session, item, mode, now)
        /\ IF Admits(session, item, now) THEN shownAt' = now /\ renewedAt' = now
                                         ELSE UNCHANGED <<shownAt, renewedAt>>
  BY DEF Show
<1> DEFINE a == AdmitHiddenField(session, item, now)
<1>2. a \in SessionState /\ SameReveal(session, a) /\ session \in SessionState /\ now \in Time
  BY AdmitType, RevealFrame DEF TypeOK
<1>3. CASE ~Admits(session, item, now)
  <2>1. session' = a
    BY <1>1, <1>3 DEF StartReveal
  <2> QED
    BY <1>1, <1>2, <1>3, <2>1, RevealInvKept DEF Show
<1>4. CASE Admits(session, item, now)
  <2> DEFINE r == [item |-> item, mode |-> mode, extensions |-> 0,
                   expires_at |-> IF mode = "Held" THEN None ELSE now + RevealLength(mode)]
             h == IF mode = "Held" THEN now + HeldMax ELSE None
  <2>1. session' = [a EXCEPT !.held_until = h, !.reveal = r]
    BY <1>1, <1>4 DEF StartReveal
  <2>2. session'.reveal = r /\ session'.held_until = h
        /\ session'.last_activity = a.last_activity
        /\ session'.sharing_guard_up = a.sharing_guard_up
    <3> HIDE DEF a, r, h
    <3> QED
      BY <1>2, <2>1 DEF SessionState
  <2>3. IsUnlocked(session) /\ ~session.sharing_guard_up
    BY <1>4 DEF Admits, MayDisclose
  <2>4. IsUnlocked(a) /\ ~a.sharing_guard_up
    <3> HIDE DEF a
    <3> QED
      BY <1>2, <2>3 DEF SameReveal
  <2>5. AccessibleLength \in Nat /\ HeldMax \in Nat
    BY RulesAssumption DEF Time
  <2>6. mode = "Accessible" => /\ RevealLength(mode) = AccessibleLength
                               /\ AccessibleLength * (1 + 0) = AccessibleLength
    BY <2>5 DEF RevealLength
  <2>7. IsUnlocked(session') /\ ~session'.sharing_guard_up
    <3> HIDE DEF a
    <3> QED
      BY <2>2, <2>4 DEF IsUnlocked
  <2>8. shownAt' = now /\ renewedAt' = now /\ now' = now
    BY <1>1, <1>4 DEF Show
  <2>9. /\ session'.reveal.mode = mode /\ session'.reveal.extensions = 0
        /\ session'.reveal.expires_at = IF mode = "Held" THEN None ELSE now + RevealLength(mode)
    BY <2>2
  <2>10. now \in Nat /\ 0 <= MaxExtensions
    BY <1>2, RulesAssumption DEF Time
  <2> HIDE DEF a, r
  <2> QED
    <3>1. ASSUME mode = "Accessible"
          PROVE  session'.reveal.expires_at
                   <= shownAt' + AccessibleLength * (1 + session'.reveal.extensions)
      <4>1. session'.reveal.expires_at = now + AccessibleLength
        BY <2>6, <2>9, <3>1
      <4>2. AccessibleLength * (1 + session'.reveal.extensions) = AccessibleLength
        BY <2>6, <2>9, <3>1
      <4> QED
        BY <2>5, <2>8, <2>10, <4>1, <4>2
    <3>2. /\ renewedAt' <= now'
          /\ mode = "Held" => session'.reveal.expires_at = None
                              /\ session'.held_until = renewedAt' + HeldMax
          /\ mode # "Held" => session'.reveal.expires_at = renewedAt' + RevealLength(mode)
      BY <2>2, <2>8, <2>9, <2>10
    <3> QED
      BY <2>7, <2>9, <2>10, <3>1, <3>2 DEF RevealInv
<1> QED
  BY <1>3, <1>4

\* `extend_reveal` pays for what it adds with an extension.
LEMMA MoreTimeKeepsRevealInv ==
  ASSUME TypeOK, RevealInv, MoreTime
  PROVE  RevealInv'
<1> DEFINE r == session.reveal
           e == SaturatingIncrement(r.extensions)
           x == Latest(r.expires_at, now + RevealLength(r.mode))
<1>1. CASE ~Extends(session, now)
  BY <1>1 DEF MoreTime, ExtendReveal, RevealInv
<1>2. CASE Extends(session, now)
  <2>1. /\ session' = [session EXCEPT !.reveal = [r EXCEPT !.extensions = e, !.expires_at = x]]
        /\ shownAt' = shownAt /\ renewedAt' = now
    BY <1>2 DEF MoreTime, ExtendReveal, TypeOK, SessionState
  <2>2. /\ session \in SessionState /\ r \in Reveal /\ r # None /\ r.mode # "Held"
        /\ r.expires_at \in Time /\ now < r.expires_at /\ CanExtend(r)
    BY <1>2 DEF Extends, TypeOK, SessionState, Reveal, Option
  <2>3. /\ now \in Nat /\ shownAt \in Nat /\ renewedAt \in Nat /\ r.extensions \in 0..CountMax
        /\ RevealLength(r.mode) \in Nat /\ AccessibleLength \in Nat /\ r.expires_at \in Nat
    BY <2>2, RulesAssumption DEF TypeOK, RevealLength, Reveal, Time
  <2>4. r.expires_at = renewedAt + RevealLength(r.mode)
    BY <2>2 DEF RevealInv
  <2>5. session'.reveal = [r EXCEPT !.extensions = e, !.expires_at = x]
        /\ session'.last_activity = session.last_activity
        /\ session'.sharing_guard_up = session.sharing_guard_up
    BY <2>1, <2>2 DEF SessionState
  <2>6. /\ session'.reveal.mode = r.mode /\ session'.reveal.extensions = e
        /\ session'.reveal.expires_at = x
    BY <2>2, <2>5 DEF Reveal
  <2>7. x = now + RevealLength(r.mode)
    BY <2>2, <2>3, <2>4 DEF RevealInv, Latest
  <2>8. /\ IsUnlocked(session') /\ ~session'.sharing_guard_up
        /\ now' = now
    BY <1>2, <2>2, <2>5 DEF RevealInv, IsUnlocked, MoreTime
  <2>9. ASSUME r.mode = "Accessible"
        PROVE  e <= MaxExtensions /\ x <= shownAt + AccessibleLength * (1 + e)
    <3>1. r.extensions < MaxExtensions /\ RevealLength(r.mode) = AccessibleLength
      BY <2>2, <2>9 DEF CanExtend, RevealLength
    <3>2. e = r.extensions + 1
      BY <2>3, <3>1, RulesAssumption DEF SaturatingIncrement, Earliest
    <3>3. r.expires_at <= shownAt + AccessibleLength * (1 + r.extensions)
      BY <2>2, <2>9 DEF RevealInv
    <3>4. AccessibleLength * (1 + e) = AccessibleLength * (1 + r.extensions) + AccessibleLength
      BY <2>3, <3>2, Distribute
    <3> DEFINE p == AccessibleLength * (1 + r.extensions)
               q == AccessibleLength * (1 + e)
    <3>5. p \in Nat /\ q = p + AccessibleLength /\ r.expires_at <= shownAt + p
      BY <2>3, <3>3, <3>4
    <3>6. e <= MaxExtensions
      BY <2>3, <3>1, <3>2, RulesAssumption
    <3>7. x = now + AccessibleLength
      BY <2>7, <3>1
    <3>8. x <= shownAt + q
      <4> HIDE DEF x, p, q
      <4> QED
        BY <2>2, <2>3, <3>5, <3>7
    <3> QED
      BY <3>6, <3>8
  <2> HIDE DEF e, x
  <2> QED
    BY <2>1, <2>2, <2>3, <2>5, <2>6, <2>7, <2>8, <2>9 DEF RevealInv
<1> QED
  BY <1>1, <1>2

\* RevealInv holds throughout: the bound on a shown value is inductive.
THEOREM RevealInvHolds == Spec => []RevealInv
<1>1. Init => RevealInv
  BY NoneAssumption DEF Init, RevealInv, NewSession
<1>2. TypeOK /\ RevealInv /\ [Next]_vars => RevealInv'
  <2> SUFFICES ASSUME TypeOK, RevealInv, [Next]_vars PROVE RevealInv'
    OBVIOUS
  <2> USE RevealFrame, RevealInvKept
  <2>0. session \in SessionState /\ now \in Time
    BY DEF TypeOK
  <2>1. CASE Clock
    BY <2>0, <2>1 DEF Clock, RevealInv, TypeOK, Time
  <2>2. CASE ChangeSettings
    BY <2>0, <2>2 DEF ChangeSettings
  <2>3. CASE CredentialAccepted
    BY <2>0, <2>3 DEF CredentialAccepted
  <2>4. CASE CredentialRejected
    BY <2>0, <2>4 DEF CredentialRejected
  <2>5. CASE TouchIdAccepted
    BY <2>0, <2>5 DEF TouchIdAccepted
  <2>6. CASE OwnerActivity
    BY <2>0, <2>6 DEF OwnerActivity
  <2>7. CASE InputElsewhere
    BY <2>0, <2>7 DEF InputElsewhere, history, Time
  <2>8. CASE Ticks
    BY <2>0, <2>8 DEF Ticks, history, RevealInv
  <2>9. CASE OsReports
    BY <2>0, <2>9 DEF OsReports, history, RevealInv
  <2>10. CASE LockPressed
    BY <2>0, <2>10 DEF LockPressed, RevealInv
  <2>11. CASE Show
    BY <2>11, ShowKeepsRevealInv
  <2>12. CASE CopyField
    BY <2>0, <2>12 DEF CopyField
  <2>13. CASE MoreTime
    BY <2>13, MoreTimeKeepsRevealInv
  <2>14. CASE Hide
    BY <2>0, <2>14 DEF Hide, RevealInv
  <2>15. CASE OpenNote
    BY <2>0, <2>15 DEF OpenNote, NoteOpened, RevealInv, history
  <2>16. CASE GuardReports
    BY <2>0, <2>16 DEF GuardReports, SetSharingGuard, EndReveal, RevealInv, history,
                       IsUnlocked, SessionState
  <2>17. CASE ClipboardWritten
    BY <2>0, <2>17, SessionAssumption DEF ClipboardWritten, history
  <2>18. CASE ClearFailed
    BY <2>0, <2>18, SessionAssumption DEF ClearFailed, history
  <2>19. CASE UNCHANGED vars
    BY <2>19 DEF vars, history, RevealInv
  <2> QED
    BY <2>1, <2>2, <2>3, <2>4, <2>5, <2>6, <2>7, <2>8, <2>9, <2>10, <2>11, <2>12,
       <2>13, <2>14, <2>15, <2>16, <2>17, <2>18, <2>19 DEF Next
<1> QED
  BY <1>1, <1>2, TypeCorrect, PTL DEF Spec

\* A value is on the screen only while the app is Unlocked and the guard is down.
THEOREM ShownCorrect == Spec => []ShownOnlyWhenAllowed
<1>1. RevealInv => ShownOnlyWhenAllowed
  BY DEF RevealInv, ShownOnlyWhenAllowed
<1> QED
  BY <1>1, RevealInvHolds, PTL

\* A tick hides every value whose time is over, renewals included.
THEOREM RevealBoundedCorrect == Spec => []RevealBounded
<1>1. TypeOK /\ RevealInv => RevealBounded
  <2> DEFINE r == session.reveal
  <2> SUFFICES ASSUME TypeOK, RevealInv, Tick(session, now).reveal # None
               PROVE  RevealBounded
    BY DEF RevealBounded
  <2>1. /\ session \in SessionState /\ now \in Nat /\ r # None /\ r \in Reveal
        /\ Tick(session, now).reveal = r /\ ~RevealExpired(session, now)
    BY RevealFrame DEF TypeOK, Tick, Lock, EndReveal, BecomeLocked, SessionState, Option, Time
  <2>2. CASE r.mode = "Held"
    <3>1. r.expires_at = None /\ session.held_until = renewedAt + HeldMax
      BY <2>1, <2>2 DEF RevealInv
    <3>2. HeldMax \in Nat
      BY RulesAssumption DEF Time
    <3>3. session.held_until \in Nat
      BY <3>1, <3>2 DEF TypeOK, Time
    <3>4. session.held_until # None
      BY <3>3, NoneAssumption DEF Time
    <3>5. ~(now >= session.held_until)
      BY <2>1, <3>1, <3>4 DEF RevealExpired, HideAt
    <3>6. now < renewedAt + HeldMax
      BY <2>1, <3>1, <3>3, <3>5
    <3> QED
      BY <2>1, <2>2, <3>6 DEF RevealBounded
  <2>3. CASE r.mode # "Held"
    <3>1. now < r.expires_at /\ r.expires_at = renewedAt + RevealLength(r.mode)
      <4>1. r.expires_at = renewedAt + RevealLength(r.mode)
        BY <2>1, <2>3 DEF RevealInv
      <4>2. TimedLength \in Nat /\ AccessibleLength \in Nat
        BY RulesAssumption DEF Time
      <4>3. r.expires_at \in Nat
        BY <4>1, <4>2 DEF TypeOK, Time, RevealLength
      <4>4. r.expires_at # None
        BY <4>3, NoneAssumption DEF Time
      <4>5. ~(now >= r.expires_at)
        BY <2>1, <4>4 DEF RevealExpired, HideAt
      <4> QED
        BY <2>1, <4>1, <4>3, <4>5
    <3>2. ASSUME r.mode = "Accessible"
          PROVE  now < shownAt + AccessibleLength * (1 + MaxExtensions)
      <4>1. /\ r.extensions <= MaxExtensions
            /\ r.expires_at <= shownAt + AccessibleLength * (1 + r.extensions)
        BY <2>1, <3>2 DEF RevealInv
      <4>2. /\ AccessibleLength \in Nat /\ MaxExtensions \in Nat /\ shownAt \in Nat
            /\ r.extensions \in Nat /\ renewedAt \in Nat /\ RevealLength(r.mode) \in Nat
        BY <2>1, RulesAssumption DEF TypeOK, Reveal, Time, RevealLength
      <4>3. AccessibleLength * (1 + r.extensions) <= AccessibleLength * (1 + MaxExtensions)
        BY <4>1, <4>2, MoreFactors
      <4>4. /\ AccessibleLength * (1 + r.extensions) \in Nat
            /\ AccessibleLength * (1 + MaxExtensions) \in Nat
        BY <4>2
      <4> QED
        BY <2>1, <3>1, <4>1, <4>2, <4>3, <4>4
    <3> QED
      BY <2>1, <2>3, <3>1, <3>2 DEF RevealBounded
  <2> QED
    BY <2>2, <2>3
<1> QED
  BY <1>1, TypeCorrect, RevealInvHolds, PTL
-----------------------------------------------------------------------------
(* How many fields are disclosed within a window *)

\* What makes WindowLimit inductive: the list is never longer than the limit, and every
\* admission of the last RevealWindow is still on it, at its own time.
WindowInv ==
  /\ IsFiniteSet(Disclosed(session))
  /\ Cardinality(Disclosed(session)) <= MaxFieldsPerWindow
  /\ \A item \in HiddenField :
       lastAdmitted[item] # None /\ now < lastAdmitted[item] + RevealWindow
         => session.recently_disclosed[item] = lastAdmitted[item]

\* Everything but a request for a Hidden Field leaves the list alone.
LEMMA DisclosedFrame ==
  ASSUME NEW s \in SessionState, NEW t \in Time
  PROVE  /\ \A asked \in AskedSettings :
              WithSettings(s, asked).recently_disclosed = s.recently_disclosed
         /\ Unlocked(s, t).recently_disclosed = s.recently_disclosed
         /\ QuickUnlocked(s, t).recently_disclosed = s.recently_disclosed
         /\ FailedAttempt(s, t).recently_disclosed = s.recently_disclosed
         /\ Activity(s, t).recently_disclosed = s.recently_disclosed
         /\ \A at \in Time :
              ActivityElsewhere(s, at, t).recently_disclosed = s.recently_disclosed
         /\ Lock(s).recently_disclosed = s.recently_disclosed
         /\ EndReveal(s).recently_disclosed = s.recently_disclosed
         /\ Tick(s, t).recently_disclosed = s.recently_disclosed
         /\ \A event \in OsEvents :
              OsEvent(s, event).recently_disclosed = s.recently_disclosed
         /\ ExtendReveal(s, t).recently_disclosed = s.recently_disclosed
         /\ \A note \in Note : NoteOpened(s, note).recently_disclosed = s.recently_disclosed
         /\ \A up \in BOOLEAN :
              SetSharingGuard(s, up).recently_disclosed = s.recently_disclosed
         /\ \A count \in Nat :
              /\ Copied(s, count, t).recently_disclosed = s.recently_disclosed
              /\ CopiedWalletValue(s, count, t).recently_disclosed = s.recently_disclosed
              /\ RetryClipboardClear(s, count, t).recently_disclosed = s.recently_disclosed
<1> USE DEF SessionState, EndReveal, BecomeLocked
<1>1. /\ Unlocked(s, t).recently_disclosed = s.recently_disclosed
      /\ QuickUnlocked(s, t).recently_disclosed = s.recently_disclosed
      /\ FailedAttempt(s, t).recently_disclosed = s.recently_disclosed
      /\ Activity(s, t).recently_disclosed = s.recently_disclosed
  BY DEF Unlocked, QuickUnlocked, FailedAttempt, Activity
<1>2. /\ \A asked \in AskedSettings :
            WithSettings(s, asked).recently_disclosed = s.recently_disclosed
      /\ \A at \in Time :
            ActivityElsewhere(s, at, t).recently_disclosed = s.recently_disclosed
  BY DEF WithSettings, ActivityElsewhere
<1>3. /\ Lock(s).recently_disclosed = s.recently_disclosed
      /\ EndReveal(s).recently_disclosed = s.recently_disclosed
  BY DEF Lock
<1>4. Tick(s, t).recently_disclosed = s.recently_disclosed
  BY <1>3 DEF Tick
<1>5. \A event \in OsEvents : OsEvent(s, event).recently_disclosed = s.recently_disclosed
  BY <1>3 DEF OsEvent, OsEvents, LockSettings
<1>6. ExtendReveal(s, t).recently_disclosed = s.recently_disclosed
  BY DEF ExtendReveal
<1>7. /\ \A note \in Note : NoteOpened(s, note).recently_disclosed = s.recently_disclosed
      /\ \A up \in BOOLEAN : SetSharingGuard(s, up).recently_disclosed = s.recently_disclosed
  BY DEF NoteOpened, SetSharingGuard
<1>8. \A count \in Nat :
        /\ Copied(s, count, t).recently_disclosed = s.recently_disclosed
        /\ CopiedWalletValue(s, count, t).recently_disclosed = s.recently_disclosed
        /\ RetryClipboardClear(s, count, t).recently_disclosed = s.recently_disclosed
  BY DEF Copied, CopiedWalletValue, RetryClipboardClear, ClearAfter
<1> QED
  BY <1>1, <1>2, <1>3, <1>4, <1>5, <1>6, <1>7, <1>8

\* A step that leaves the list of disclosures alone keeps WindowInv.
LEMMA WindowInvKept ==
  ASSUME WindowInv, session'.recently_disclosed = session.recently_disclosed,
         UNCHANGED <<now, lastAdmitted>>
  PROVE  WindowInv'
BY DEF WindowInv, Disclosed

\* A request prunes the list and, when it is admitted, puts the field on it.
LEMMA AdmitKeepsWindowInv ==
  ASSUME TypeOK, WindowInv, NEW item \in HiddenField,
         session'.recently_disclosed = AdmitHiddenField(session, item, now).recently_disclosed,
         lastAdmitted' = IF Admits(session, item, now)
                         THEN [lastAdmitted EXCEPT ![item] = now] ELSE lastAdmitted,
         now' = now
  PROVE  WindowInv'
<1> DEFINE p == Pruned(session, now)
<1>1. /\ session \in SessionState /\ p \in SessionState /\ now \in Time
      /\ lastAdmitted \in [HiddenField -> Option(Time)]
  BY PrunedType DEF TypeOK
<1>2. CASE ~MayDisclose(session, now)
  <2>1. session'.recently_disclosed = session.recently_disclosed /\ lastAdmitted' = lastAdmitted
    BY <1>2 DEF AdmitHiddenField, Admits
  <2> QED
    BY <2>1, WindowInvKept
<1>3. /\ IsFiniteSet(Disclosed(p)) /\ Cardinality(Disclosed(p)) <= MaxFieldsPerWindow
      /\ Cardinality(Disclosed(p)) \in Nat
      /\ \A i \in HiddenField : lastAdmitted[i] # None /\ now < lastAdmitted[i] + RevealWindow
                                  => p.recently_disclosed[i] = lastAdmitted[i]
  <2>1. p.recently_disclosed =
          [i \in HiddenField |->
             IF session.recently_disclosed[i] # None
                  /\ now < session.recently_disclosed[i] + RevealWindow
             THEN session.recently_disclosed[i] ELSE None]
    BY <1>1 DEF Pruned, SessionState
  <2>2. Disclosed(p) \subseteq Disclosed(session)
    BY <2>1 DEF Disclosed
  <2>3. /\ IsFiniteSet(Disclosed(p)) /\ Cardinality(Disclosed(p)) <= Cardinality(Disclosed(session))
        /\ Cardinality(Disclosed(p)) \in Nat /\ Cardinality(Disclosed(session)) \in Nat
    BY <2>2, FS_Subset, FS_CardinalityType DEF WindowInv
  <2>4. Cardinality(Disclosed(p)) <= MaxFieldsPerWindow
    BY <2>3, RulesAssumption DEF WindowInv
  <2> QED
    BY <2>1, <2>3, <2>4 DEF WindowInv
<1>4. CASE MayDisclose(session, now) /\ ~HasRoom(p, item)
  <2>1. session'.recently_disclosed = p.recently_disclosed /\ lastAdmitted' = lastAdmitted
    BY <1>4 DEF AdmitHiddenField, Admits
  <2>2. Disclosed(session') = Disclosed(p)
    BY <2>1 DEF Disclosed
  <2> QED
    BY <1>3, <2>1, <2>2 DEF WindowInv
<1>5. CASE MayDisclose(session, now) /\ HasRoom(p, item)
  <2>1. /\ session'.recently_disclosed = [p.recently_disclosed EXCEPT ![item] = now]
        /\ lastAdmitted' = [lastAdmitted EXCEPT ![item] = now]
    <3> HIDE DEF p
    <3>1. session'.recently_disclosed = [p EXCEPT !.recently_disclosed[item] = now].recently_disclosed
      BY <1>5 DEF AdmitHiddenField, p
    <3> QED
      BY <1>1, <1>5, <3>1 DEF Admits, SessionState, p
  <2>2. p.recently_disclosed \in [HiddenField -> Option(Time)]
    BY <1>1 DEF SessionState
  <2>3. Disclosed(session') = Disclosed(p) \cup {item}
    <3> HIDE DEF p
    <3> QED
      BY <1>1, <2>1, <2>2, NoneAssumption DEF Disclosed
  <2>4. /\ IsFiniteSet(Disclosed(session'))
        /\ Cardinality(Disclosed(session')) <= MaxFieldsPerWindow
    <3>1. CASE item \in Disclosed(p)
      BY <1>3, <2>3, <3>1, FS_AddElement
    <3>2. CASE item \notin Disclosed(p)
      <4>1. Cardinality(Disclosed(p)) < MaxFieldsPerWindow
        BY <1>5, <3>2 DEF HasRoom
      <4>2. /\ IsFiniteSet(Disclosed(p) \cup {item})
            /\ Cardinality(Disclosed(p) \cup {item}) = Cardinality(Disclosed(p)) + 1
        BY <1>3, <3>2, FS_AddElement
      <4> QED
        BY <1>3, <2>3, <4>1, <4>2, RulesAssumption
    <3> QED
      BY <3>1, <3>2
  <2>5. \A i \in HiddenField :
          lastAdmitted'[i] # None /\ now < lastAdmitted'[i] + RevealWindow
            => session'.recently_disclosed[i] = lastAdmitted'[i]
    <3> HIDE DEF p
    <3> QED
      BY <1>1, <1>3, <2>1, <2>2
  <2> QED
    BY <2>4, <2>5 DEF WindowInv
<1> QED
  BY <1>2, <1>4, <1>5

\* WindowInv holds throughout: the list remembers every recent admission.
THEOREM WindowInvHolds == Spec => []WindowInv
<1>1. Init => WindowInv
  <2> SUFFICES ASSUME Init PROVE WindowInv
    OBVIOUS
  <2>1. Disclosed(session) = {}
    BY DEF Init, NewSession, Disclosed
  <2>2. \A item \in HiddenField : lastAdmitted[item] = None
    BY DEF Init
  <2> QED
    BY <2>1, <2>2, FS_EmptySet, RulesAssumption DEF WindowInv
<1>2. TypeOK /\ WindowInv /\ [Next]_vars => WindowInv'
  <2> SUFFICES ASSUME TypeOK, WindowInv, [Next]_vars PROVE WindowInv'
    OBVIOUS
  <2>0. session \in SessionState /\ now \in Time
    BY DEF TypeOK
  <2> USE DisclosedFrame, WindowInvKept
  <2>1. CASE Clock
    <3>1. /\ now' = now + 1 /\ UNCHANGED <<session, lastAdmitted>>
      BY <2>1 DEF Clock
    <3>2. \A item \in HiddenField :
            lastAdmitted[item] # None /\ now + 1 < lastAdmitted[item] + RevealWindow
              => now < lastAdmitted[item] + RevealWindow
      <4> TAKE item \in HiddenField
      <4> HAVE lastAdmitted[item] # None /\ now + 1 < lastAdmitted[item] + RevealWindow
      <4>1. now \in Nat /\ lastAdmitted[item] \in Nat /\ RevealWindow \in Nat
        BY <2>0, RulesAssumption DEF TypeOK, Time, Option
      <4> QED
        BY <4>1
    <3> QED
      BY <3>1, <3>2 DEF WindowInv, Disclosed
  <2>2. CASE ChangeSettings
    BY <2>0, <2>2 DEF ChangeSettings
  <2>3. CASE CredentialAccepted
    BY <2>0, <2>3 DEF CredentialAccepted
  <2>4. CASE CredentialRejected
    BY <2>0, <2>4 DEF CredentialRejected
  <2>5. CASE TouchIdAccepted
    BY <2>0, <2>5 DEF TouchIdAccepted
  <2>6. CASE OwnerActivity
    BY <2>0, <2>6 DEF OwnerActivity
  <2>7. CASE InputElsewhere
    BY <2>0, <2>7 DEF InputElsewhere, history, Time
  <2>8. CASE Ticks
    BY <2>0, <2>8 DEF Ticks, history
  <2>9. CASE OsReports
    BY <2>0, <2>9 DEF OsReports, history
  <2>10. CASE LockPressed
    BY <2>0, <2>10 DEF LockPressed, history
  <2>11. CASE Show
    <3>1. PICK item \in HiddenField, mode \in RevealMode :
            /\ session' = StartReveal(session, item, mode, now)
            /\ lastAdmitted' = IF Admits(session, item, now)
                               THEN [lastAdmitted EXCEPT ![item] = now] ELSE lastAdmitted
      BY <2>11 DEF Show
    <3>2. AdmitHiddenField(session, item, now) \in SessionState
      BY <2>0, AdmitType
    <3>3. session'.recently_disclosed
            = AdmitHiddenField(session, item, now).recently_disclosed
      BY <3>1, <3>2 DEF StartReveal, SessionState
    <3> QED
      BY <2>11, <3>1, <3>3, AdmitKeepsWindowInv DEF Show
  <2>12. CASE CopyField
    BY <2>12, AdmitKeepsWindowInv DEF CopyField
  <2>13. CASE MoreTime
    BY <2>0, <2>13 DEF MoreTime
  <2>14. CASE Hide
    BY <2>0, <2>14 DEF Hide, history
  <2>15. CASE OpenNote
    BY <2>0, <2>15 DEF OpenNote, history
  <2>16. CASE GuardReports
    BY <2>0, <2>16 DEF GuardReports, history
  <2>17. CASE ClipboardWritten
    BY <2>0, <2>17, SessionAssumption DEF ClipboardWritten, history
  <2>18. CASE ClearFailed
    BY <2>0, <2>18, SessionAssumption DEF ClearFailed, history
  <2>19. CASE UNCHANGED vars
    BY <2>19 DEF vars, history
  <2> QED
    BY <2>1, <2>2, <2>3, <2>4, <2>5, <2>6, <2>7, <2>8, <2>9, <2>10, <2>11, <2>12,
       <2>13, <2>14, <2>15, <2>16, <2>17, <2>18, <2>19 DEF Next
<1> QED
  BY <1>1, <1>2, TypeCorrect, PTL DEF Spec

\* No window ever holds more than the limit of different Hidden Fields.
THEOREM WindowLimitCorrect == Spec => []WindowLimit
<1>1. TypeOK /\ WindowInv => WindowLimit
  <2> DEFINE recent == {item \in HiddenField :
                          lastAdmitted[item] # None /\ now < lastAdmitted[item] + RevealWindow}
  <2> SUFFICES ASSUME TypeOK, WindowInv PROVE Cardinality(recent) <= MaxFieldsPerWindow
    BY DEF WindowLimit
  <2>1. recent \subseteq Disclosed(session)
    BY DEF WindowInv, Disclosed
  <2>2. /\ IsFiniteSet(Disclosed(session))
        /\ Cardinality(Disclosed(session)) <= MaxFieldsPerWindow
    BY DEF WindowInv
  <2>3. /\ Cardinality(recent) <= Cardinality(Disclosed(session))
        /\ Cardinality(recent) \in Nat /\ Cardinality(Disclosed(session)) \in Nat
    <3> HIDE DEF recent
    <3> QED
      BY <2>1, <2>2, FS_Subset, FS_CardinalityType
  <2> QED
    BY <2>2, <2>3, RulesAssumption
<1> QED
  BY <1>1, TypeCorrect, WindowInvHolds, PTL
-----------------------------------------------------------------------------
(* Auto-lock *)

\* What the owner's last activity is worth: never more than was reported.
InsideInv == /\ lastInside <= now
             /\ IsUnlocked(session) => session.last_activity <= lastInside

\* Nothing the Auto-lock depends on has changed.
SameTimer(s, t) == /\ t.settings = s.settings
                   /\ t.last_activity = s.last_activity
                   /\ t.last_elsewhere = s.last_elsewhere

\* Auto-lock depends on the timer's three parts only.
LEMMA SameTimerSameLock ==
  ASSUME NEW s, NEW t, NEW at, SameTimer(s, t)
  PROVE  /\ IsUnlocked(t) = IsUnlocked(s)
         /\ AutoLockDue(t, at) = AutoLockDue(s, at)
<1>1. IsUnlocked(t) = IsUnlocked(s) /\ LockDeadline(t) = LockDeadline(s)
  BY DEF SameTimer, IsUnlocked, LockDeadline
<1> QED
  BY <1>1 DEF AutoLockDue

\* An open session has a deadline, at most the cap after the last inside activity.
LEMMA DeadlineType ==
  ASSUME NEW s \in SessionState, IsUnlocked(s)
  PROVE  /\ LockDeadline(s) \in Nat /\ s.last_activity \in Nat
         /\ LockDeadline(s) <= s.last_activity + ActivityCap
<1>1. /\ s.last_activity \in Nat /\ s.settings.idle_minutes \in Nat /\ ActivityCap \in Nat
      /\ s.settings.idle_minutes <= ActivityCap
      /\ s.settings.count_activity_anywhere \in BOOLEAN
      /\ s.last_elsewhere # None => s.last_elsewhere \in Nat
  BY RulesAssumption DEF IsUnlocked, SessionState, LockSettings, Option, Time
<1> QED
  BY <1>1 DEF LockDeadline, Latest, Earliest

\* The operations that do not move the Auto-lock, or lock the app.
LEMMA TimerFrame ==
  ASSUME NEW s \in SessionState, NEW t \in Time
  PROVE  /\ SameTimer(s, FailedAttempt(s, t))
         /\ \A item \in HiddenField :
              /\ SameTimer(s, AdmitHiddenField(s, item, t))
              /\ \A mode \in RevealMode : SameTimer(s, StartReveal(s, item, mode, t))
         /\ SameTimer(s, ExtendReveal(s, t))
         /\ SameTimer(s, EndReveal(s))
         /\ \A note \in Note : SameTimer(s, NoteOpened(s, note))
         /\ \A up \in BOOLEAN : SameTimer(s, SetSharingGuard(s, up))
         /\ \A count \in Nat : /\ SameTimer(s, Copied(s, count, t))
                               /\ SameTimer(s, CopiedWalletValue(s, count, t))
                               /\ SameTimer(s, RetryClipboardClear(s, count, t))
         /\ ~IsUnlocked(Lock(s))
         /\ \A event \in OsEvents : \/ ~IsUnlocked(OsEvent(s, event))
                                    \/ SameTimer(s, OsEvent(s, event))
         /\ IF AutoLockDue(s, t) THEN ~IsUnlocked(Tick(s, t)) ELSE SameTimer(s, Tick(s, t))
<1> USE DEF SessionState, SameTimer
<1>1. SameTimer(s, FailedAttempt(s, t)) /\ SameTimer(s, EndReveal(s))
  BY DEF FailedAttempt, EndReveal
<1>2. \A item \in HiddenField : SameTimer(s, AdmitHiddenField(s, item, t))
  BY DEF AdmitHiddenField, Pruned
<1>3. \A item \in HiddenField, mode \in RevealMode : SameTimer(s, StartReveal(s, item, mode, t))
  BY <1>2, AdmitType DEF StartReveal
<1>4. SameTimer(s, ExtendReveal(s, t))
  BY DEF ExtendReveal
<1>5. /\ \A note \in Note : SameTimer(s, NoteOpened(s, note))
      /\ \A up \in BOOLEAN : SameTimer(s, SetSharingGuard(s, up))
  BY DEF NoteOpened, SetSharingGuard, EndReveal
<1>6. \A count \in Nat : /\ SameTimer(s, Copied(s, count, t))
                         /\ SameTimer(s, CopiedWalletValue(s, count, t))
                         /\ SameTimer(s, RetryClipboardClear(s, count, t))
  BY DEF Copied, CopiedWalletValue, RetryClipboardClear, ClearAfter
<1>7. ~IsUnlocked(Lock(s)) /\ ~IsUnlocked(BecomeLocked(EndReveal(s)))
  BY DEF Lock, BecomeLocked, EndReveal, IsUnlocked
<1>8. \A event \in OsEvents : \/ ~IsUnlocked(OsEvent(s, event))
                              \/ SameTimer(s, OsEvent(s, event))
  BY <1>1, <1>7 DEF OsEvent, OsEvents, LockSettings
<1>9. IF AutoLockDue(s, t) THEN ~IsUnlocked(Tick(s, t)) ELSE SameTimer(s, Tick(s, t))
  BY <1>7 DEF Tick
<1> QED
  BY <1>1, <1>2, <1>3, <1>4, <1>5, <1>6, <1>7, <1>8, <1>9

\* A step that leaves the timer alone, or locks, cannot revive an overdue session.
LEMMA TimerKept ==
  ASSUME InsideInv, NoRevival, UNCHANGED <<now, lastInside, wasDue>>,
         SameTimer(session, session') \/ ~IsUnlocked(session')
  PROVE  InsideInv' /\ NoRevival'
<1>1. CASE ~IsUnlocked(session')
  BY <1>1 DEF InsideInv, NoRevival, IsUnlocked
<1>2. CASE SameTimer(session, session')
  <2>1. /\ IsUnlocked(session') = IsUnlocked(session)
        /\ AutoLockDue(session', now) = AutoLockDue(session, now)
        /\ session'.last_activity = session.last_activity
    BY <1>2, SameTimerSameLock DEF SameTimer
  <2> QED
    BY <2>1 DEF InsideInv, NoRevival, IsUnlocked, AutoLockDue, LockDeadline
<1> QED
  BY <1>1, <1>2

\* Activity is only ever counted before Auto-lock was due.
THEOREM AutoLockInvHolds == Spec => [](InsideInv /\ NoRevival)
<1>1. Init => InsideInv /\ NoRevival
  BY DEF Init, NewSession, InsideInv, NoRevival, IsUnlocked
<1>2. TypeOK /\ InsideInv /\ NoRevival /\ [Next]_vars => InsideInv' /\ NoRevival'
  <2> SUFFICES ASSUME TypeOK, InsideInv, NoRevival, [Next]_vars
               PROVE  InsideInv' /\ NoRevival'
    OBVIOUS
  <2>0. session \in SessionState /\ now \in Time /\ lastInside \in Time
    BY DEF TypeOK
  <2> USE TimerFrame, TimerKept
  <2>1. CASE Clock
    <3>1. /\ now' = now + 1 /\ UNCHANGED <<session, lastInside>>
          /\ wasDue' = (wasDue \/ AutoLockDue(session, now'))
      BY <2>1 DEF Clock
    <3>2. AutoLockDue(session, now) => AutoLockDue(session, now + 1)
      BY <2>0, DeadlineType DEF AutoLockDue, Time
    <3>3. InsideInv'
      BY <2>0, <3>1 DEF InsideInv, IsUnlocked, Time
    <3> QED
      BY <3>1, <3>2, <3>3 DEF NoRevival, AutoLockDue, IsUnlocked, LockDeadline
  <2>2. CASE ChangeSettings
    <3>1. PICK asked \in AskedSettings : session' = WithSettings(session, asked)
      BY <2>2 DEF ChangeSettings
    <3>2. session'.last_activity = session.last_activity
      BY <2>0, <3>1 DEF WithSettings, SessionState
    <3> QED
      BY <2>2, <3>2 DEF ChangeSettings, InsideInv, NoRevival, IsUnlocked, AutoLockDue,
                        LockDeadline
  <2>3. CASE CredentialAccepted
    <3>1. session'.last_activity = now
      BY <2>0, <2>3 DEF CredentialAccepted, Unlocked, QuickUnlocked, SessionState
    <3> QED
      BY <2>0, <2>3, <3>1 DEF CredentialAccepted, InsideInv, NoRevival, Time
  <2>4. CASE CredentialRejected
    BY <2>0, <2>4 DEF CredentialRejected
  <2>5. CASE TouchIdAccepted
    <3>1. session'.last_activity = now
      BY <2>0, <2>5 DEF TouchIdAccepted, QuickUnlocked, SessionState
    <3> QED
      BY <2>0, <2>5, <3>1 DEF TouchIdAccepted, InsideInv, NoRevival, Time
  <2>6. CASE OwnerActivity
    <3>1. /\ session' = Activity(session, now) /\ lastInside' = now
          /\ now' = now /\ wasDue' = wasDue
      BY <2>6 DEF OwnerActivity
    <3>2. CASE AutoLockDue(session, now) \/ ~IsUnlocked(session)
      <4>1. session' = session
        BY <3>1, <3>2 DEF Activity
      <4>2. IsUnlocked(session) => session.last_activity \in Nat
        BY <2>0, DeadlineType
      <4>3. InsideInv'
        BY <2>0, <3>1, <4>1, <4>2 DEF InsideInv, Time, IsUnlocked
      <4> QED
        BY <3>1, <4>1, <4>3 DEF NoRevival, AutoLockDue, IsUnlocked, LockDeadline
    <3>3. CASE ~AutoLockDue(session, now) /\ IsUnlocked(session)
      <4>1. session'.last_activity = Latest(session.last_activity, now)
        BY <2>0, <3>1, <3>3 DEF Activity, SessionState
      <4>2. session'.last_activity <= now
        BY <2>0, <3>3, <4>1, DeadlineType DEF Latest, InsideInv, Time
      <4>3. ~wasDue
        BY <3>3 DEF NoRevival
      <4> QED
        BY <2>0, <3>1, <4>2, <4>3 DEF InsideInv, NoRevival, Time
    <3> QED
      BY <3>2, <3>3
  <2>7. CASE InputElsewhere
    <3>1. PICK at \in 0..MaxTime : session' = ActivityElsewhere(session, at, now)
      BY <2>7 DEF InputElsewhere
    <3>2. UNCHANGED <<now, lastInside, wasDue>>
      BY <2>7 DEF InputElsewhere, history
    <3>3. CASE AutoLockDue(session, now) \/ ~IsUnlocked(session)
      <4>1. SameTimer(session, session')
        BY <3>1, <3>3 DEF ActivityElsewhere, SameTimer
      <4> QED
        BY <3>2, <4>1
    <3>4. CASE ~AutoLockDue(session, now) /\ IsUnlocked(session)
      <4>1. session'.last_activity = session.last_activity
        BY <2>0, <3>1 DEF ActivityElsewhere, SessionState
      <4>2. ~wasDue
        BY <3>4 DEF NoRevival
      <4> QED
        BY <3>2, <4>1, <4>2 DEF InsideInv, NoRevival, IsUnlocked
    <3> QED
      BY <3>3, <3>4
  <2>8. CASE Ticks
    BY <2>0, <2>8 DEF Ticks, history
  <2>9. CASE OsReports
    BY <2>0, <2>9 DEF OsReports, history
  <2>10. CASE LockPressed
    BY <2>0, <2>10 DEF LockPressed, history
  <2>11. CASE Show
    BY <2>0, <2>11 DEF Show
  <2>12. CASE CopyField
    BY <2>0, <2>12 DEF CopyField
  <2>13. CASE MoreTime
    BY <2>0, <2>13 DEF MoreTime
  <2>14. CASE Hide
    BY <2>0, <2>14 DEF Hide, history
  <2>15. CASE OpenNote
    BY <2>0, <2>15 DEF OpenNote, history
  <2>16. CASE GuardReports
    BY <2>0, <2>16 DEF GuardReports, history
  <2>17. CASE ClipboardWritten
    BY <2>0, <2>17, SessionAssumption DEF ClipboardWritten, history
  <2>18. CASE ClearFailed
    BY <2>0, <2>18, SessionAssumption DEF ClearFailed, history
  <2>19. CASE UNCHANGED vars
    BY <2>19 DEF vars, history, SameTimer
  <2> QED
    BY <2>1, <2>2, <2>3, <2>4, <2>5, <2>6, <2>7, <2>8, <2>9, <2>10, <2>11, <2>12,
       <2>13, <2>14, <2>15, <2>16, <2>17, <2>18, <2>19 DEF Next
<1> QED
  BY <1>1, <1>2, TypeCorrect, PTL DEF Spec

\* A session whose lock was due is never revived.
THEOREM NoRevivalCorrect == Spec => []NoRevival
BY AutoLockInvHolds, PTL

\* A tick ActivityCap after the owner's last activity leaves the app Locked.
THEOREM CapHoldsCorrect == Spec => []CapHolds
<1>1. TypeOK /\ InsideInv => CapHolds
  <2> SUFFICES ASSUME TypeOK, InsideInv, IsUnlocked(Tick(session, now))
               PROVE  now < lastInside + ActivityCap
    BY DEF CapHolds
  <2>1. session \in SessionState /\ now \in Nat /\ lastInside \in Nat /\ ActivityCap \in Nat
    BY RulesAssumption DEF TypeOK, Time
  <2>2. ~AutoLockDue(session, now) /\ SameTimer(session, Tick(session, now))
    BY <2>1, TimerFrame DEF Time
  <2>3. IsUnlocked(session)
    BY <2>2, SameTimerSameLock
  <2>4. /\ now < LockDeadline(session) /\ LockDeadline(session) \in Nat
        /\ session.last_activity \in Nat /\ session.last_activity <= lastInside
        /\ LockDeadline(session) <= session.last_activity + ActivityCap
    BY <2>1, <2>2, <2>3, DeadlineType DEF AutoLockDue, InsideInv
  <2> QED
    BY <2>1, <2>4
<1> QED
  BY <1>1, TypeCorrect, AutoLockInvHolds, PTL

-----------------------------------------------------------------------------
(* Wrong credentials *)

\* The session counts what the history counts, until its counter is full, and both remember
\* the same last failure.
BackoffInv ==
  /\ session.failures = Earliest(wrong.count, CountMax)
  /\ wrong.count > 0 => session.last_failure_at = wrong.last /\ wrong.last <= now
  /\ BackoffAccumulates

\* A full counter earns the delay that any higher count would.
LEMMA DelayWhenFull ==
  ASSUME NEW n \in Nat
  PROVE  Delay(Earliest(n, CountMax)) = Delay(n)
<1>1. /\ CountMax \in Nat /\ FreeAttempts \in Nat /\ Len(FailureDelays) \in Nat \ {0}
      /\ FreeAttempts + Len(FailureDelays) <= CountMax + 1
  BY RulesAssumption, CountAssumption
<1>2. CASE n < CountMax
  BY <1>2 DEF Earliest
<1>3. CASE ~(n < CountMax)
  <2>1. Earliest(n, CountMax) = CountMax
    BY <1>3 DEF Earliest
  <2>2. ~(n < FreeAttempts) /\ ~(CountMax < FreeAttempts)
    BY <1>1, <1>3
  <2>3. /\ Earliest(n - FreeAttempts + 1, Len(FailureDelays)) = Len(FailureDelays)
        /\ Earliest(CountMax - FreeAttempts + 1, Len(FailureDelays)) = Len(FailureDelays)
    BY <1>1, <1>3 DEF Earliest
  <2> QED
    BY <2>1, <2>2, <2>3 DEF Delay
<1> QED
  BY <1>2, <1>3

SameFailures(s, t) == t.failures = s.failures /\ t.last_failure_at = s.last_failure_at

\* What does not count failures: every call but those of a credential.
LEMMA FailuresFrame ==
  ASSUME NEW s \in SessionState, NEW t \in Time
  PROVE  /\ \A asked \in AskedSettings : SameFailures(s, WithSettings(s, asked))
         /\ SameFailures(s, QuickUnlocked(s, t))
         /\ SameFailures(s, Activity(s, t))
         /\ \A at \in Time : SameFailures(s, ActivityElsewhere(s, at, t))
         /\ \A item \in HiddenField :
              /\ SameFailures(s, AdmitHiddenField(s, item, t))
              /\ \A mode \in RevealMode : SameFailures(s, StartReveal(s, item, mode, t))
         /\ SameFailures(s, ExtendReveal(s, t)) /\ SameFailures(s, EndReveal(s))
         /\ \A note \in Note : SameFailures(s, NoteOpened(s, note))
         /\ \A up \in BOOLEAN : SameFailures(s, SetSharingGuard(s, up))
         /\ SameFailures(s, Tick(s, t)) /\ SameFailures(s, Lock(s))
         /\ \A event \in OsEvents : SameFailures(s, OsEvent(s, event))
         /\ \A count \in Nat :
              /\ SameFailures(s, Copied(s, count, t))
              /\ SameFailures(s, CopiedWalletValue(s, count, t))
              /\ SameFailures(s, RetryClipboardClear(s, count, t))
<1> USE DEF SessionState, SameFailures
<1>1. /\ \A asked \in AskedSettings : SameFailures(s, WithSettings(s, asked))
      /\ SameFailures(s, QuickUnlocked(s, t)) /\ SameFailures(s, Activity(s, t))
      /\ \A at \in Time : SameFailures(s, ActivityElsewhere(s, at, t))
  BY DEF WithSettings, QuickUnlocked, Activity, ActivityElsewhere
<1>2. \A item \in HiddenField : SameFailures(s, AdmitHiddenField(s, item, t))
  BY DEF AdmitHiddenField, Pruned
<1>3. \A item \in HiddenField, mode \in RevealMode : SameFailures(s, StartReveal(s, item, mode, t))
  BY <1>2, AdmitType DEF StartReveal
<1>4. SameFailures(s, ExtendReveal(s, t)) /\ SameFailures(s, EndReveal(s))
  BY DEF ExtendReveal, EndReveal
<1>5. /\ \A note \in Note : SameFailures(s, NoteOpened(s, note))
      /\ \A up \in BOOLEAN : SameFailures(s, SetSharingGuard(s, up))
  BY DEF NoteOpened, SetSharingGuard, EndReveal
<1>6. SameFailures(s, Lock(s)) /\ SameFailures(s, BecomeLocked(EndReveal(s)))
  BY DEF Lock, BecomeLocked, EndReveal
<1>7. SameFailures(s, Tick(s, t))
  BY <1>4, <1>6 DEF Tick, BecomeLocked, EndReveal
<1>8. \A event \in OsEvents : SameFailures(s, OsEvent(s, event))
  BY <1>4, <1>6 DEF OsEvent, OsEvents, LockSettings, BecomeLocked, EndReveal
<1>9. \A count \in Nat : /\ SameFailures(s, Copied(s, count, t))
                         /\ SameFailures(s, CopiedWalletValue(s, count, t))
                         /\ SameFailures(s, RetryClipboardClear(s, count, t))
  BY DEF Copied, CopiedWalletValue, RetryClipboardClear, ClearAfter
<1> QED
  BY <1>1, <1>2, <1>3, <1>4, <1>5, <1>6, <1>7, <1>8, <1>9

LEMMA BackoffKept ==
  ASSUME BackoffInv, SameFailures(session, session'), UNCHANGED <<now, wrong>>
  PROVE  BackoffInv'
BY DEF BackoffInv, SameFailures, BackoffAccumulates

\* One more wrong credential is tried only after what the last one had earned.
LEMMA RejectedKeepsBackoff ==
  ASSUME TypeOK, BackoffInv, CredentialRejected
  PROVE  BackoffInv'
<1>1. /\ session \in SessionState /\ now \in Nat /\ now' = now
      /\ wrong.count \in Nat /\ wrong.first \in Nat /\ wrong.last \in Nat /\ wrong.delays \in Nat
  BY DEF TypeOK, CredentialRejected, Time
<1>2. /\ session'.failures = SaturatingIncrement(session.failures)
      /\ session'.last_failure_at = now
  BY <1>1 DEF CredentialRejected, FailedAttempt, SessionState
<1>3. session'.failures = Earliest(wrong.count + 1, CountMax)
  BY <1>1, <1>2, RulesAssumption DEF BackoffInv, Earliest, SaturatingIncrement
<1>4. CASE wrong.count = 0
  <2>1. wrong' = [count |-> 1, first |-> now, last |-> now, delays |-> 0]
    BY <1>4 DEF CredentialRejected
  <2> QED
    BY <1>1, <1>2, <1>3, <1>4, <2>1 DEF BackoffInv, BackoffAccumulates
<1>5. CASE wrong.count # 0
  <2>1. /\ wrong'.count = wrong.count + 1 /\ wrong'.first = wrong.first
        /\ wrong'.last = now /\ wrong'.delays = wrong.delays + Delay(wrong.count)
    BY <1>5 DEF CredentialRejected, TypeOK
  <2>2. Delay(session.failures) = Delay(wrong.count) /\ Delay(wrong.count) \in Nat
    BY <1>1, DelayWhenFull, DelayType DEF BackoffInv, Time
  <2>3. now >= wrong.last + Delay(wrong.count)
    <3>1. CASE session.failures < FreeAttempts
      BY <1>1, <1>5, <2>2, <3>1 DEF Delay, BackoffInv
    <3>2. CASE ~(session.failures < FreeAttempts)
      BY <1>1, <1>5, <2>2, <3>2 DEF CredentialRejected, AttemptAllowed, BackoffInv
    <3> QED
      BY <3>1, <3>2
  <2>4. wrong'.last >= wrong'.first + wrong'.delays
    BY <1>1, <1>5, <2>1, <2>2, <2>3 DEF BackoffInv, BackoffAccumulates
  <2> QED
    BY <1>1, <1>2, <1>3, <2>1, <2>4 DEF BackoffInv, BackoffAccumulates
<1> QED
  BY <1>1, <1>4, <1>5

THEOREM BackoffInvHolds == Spec => []BackoffInv
<1>1. Init => BackoffInv
  BY RulesAssumption DEF Init, NewSession, NoneWrong, BackoffInv, BackoffAccumulates, Earliest
<1>2. TypeOK /\ BackoffInv /\ [Next]_vars => BackoffInv'
  <2> SUFFICES ASSUME TypeOK, BackoffInv, [Next]_vars PROVE BackoffInv'
    OBVIOUS
  <2>0. session \in SessionState /\ now \in Time
    BY DEF TypeOK
  <2> USE FailuresFrame, BackoffKept
  <2>1. CASE Clock
    BY <2>0, <2>1 DEF Clock, BackoffInv, BackoffAccumulates, TypeOK, Time
  <2>2. CASE ChangeSettings
    BY <2>0, <2>2 DEF ChangeSettings
  <2>3. CASE CredentialAccepted
    <3>1. session'.failures = 0 /\ wrong' = NoneWrong
      BY <2>0, <2>3 DEF CredentialAccepted, Unlocked, QuickUnlocked, SessionState
    <3> QED
      BY <3>1, RulesAssumption DEF BackoffInv, BackoffAccumulates, NoneWrong, Earliest
  <2>4. CASE CredentialRejected
    BY <2>4, RejectedKeepsBackoff
  <2>5. CASE TouchIdAccepted
    BY <2>0, <2>5 DEF TouchIdAccepted
  <2>6. CASE OwnerActivity
    BY <2>0, <2>6 DEF OwnerActivity
  <2>7. CASE InputElsewhere
    BY <2>0, <2>7 DEF InputElsewhere, history, Time
  <2>8. CASE Ticks
    BY <2>0, <2>8 DEF Ticks, history
  <2>9. CASE OsReports
    BY <2>0, <2>9 DEF OsReports, history
  <2>10. CASE LockPressed
    BY <2>0, <2>10 DEF LockPressed, history
  <2>11. CASE Show
    BY <2>0, <2>11 DEF Show
  <2>12. CASE CopyField
    BY <2>0, <2>12 DEF CopyField
  <2>13. CASE MoreTime
    BY <2>0, <2>13 DEF MoreTime
  <2>14. CASE Hide
    BY <2>0, <2>14 DEF Hide, history
  <2>15. CASE OpenNote
    BY <2>0, <2>15 DEF OpenNote, history
  <2>16. CASE GuardReports
    BY <2>0, <2>16 DEF GuardReports, history
  <2>17. CASE ClipboardWritten
    BY <2>0, <2>17, SessionAssumption DEF ClipboardWritten, history
  <2>18. CASE ClearFailed
    BY <2>0, <2>18, SessionAssumption DEF ClearFailed, history
  <2>19. CASE UNCHANGED vars
    BY <2>19 DEF vars, history, SameFailures
  <2> QED
    BY <2>1, <2>2, <2>3, <2>4, <2>5, <2>6, <2>7, <2>8, <2>9, <2>10, <2>11, <2>12,
       <2>13, <2>14, <2>15, <2>16, <2>17, <2>18, <2>19 DEF Next
<1> QED
  BY <1>1, <1>2, TypeCorrect, PTL DEF Spec

\* A run of wrong credentials has cost its delays, whatever came between them.
THEOREM BackoffCorrect == Spec => []BackoffAccumulates
<1>1. BackoffInv => BackoffAccumulates
  BY DEF BackoffInv
<1> QED
  BY <1>1, BackoffInvHolds, PTL
=============================================================================
