----------------------------- MODULE QuickUnlock -----------------------------
(***************************************************************************)
(* Touch ID: the gate (quick_unlock.rs), the core's side of it             *)
(* (core/quick_unlock.rs), the lease and the cleaner around them           *)
(* (quick_runtime.rs), and the protected item on disk (biometry.rs and     *)
(* biometry.swift).  An item lets whoever touches the sensor open the      *)
(* Vault, so it must be used only shortly after a Master Password and must *)
(* not stay behind when Touch ID is off.                                   *)
(*                                                                         *)
(* Keys, payloads and envelopes are reduced to the binding they carry: the *)
(* credentials of the Vault file they were made for.                       *)
(***************************************************************************)
EXTENDS Naturals

CONSTANTS
  Binding,     \* what Vault files may be bound to
  Off,         \* no binding
  Days,        \* MASTER_REQUIRED_AFTER_MS
  MaxLeases,   \* bound: presses of Turn on and Unlock
  MaxMishaps   \* bound: failed writes and removals, crashes, files replaced from outside

ASSUME QuickAssumption == Binding # {} /\ Off \notin Binding /\ Days \in Nat

VARIABLES
  file,        \* the binding of the Vault file
  item,        \* the protected item, published or not
  core,        \* AppCore and QuickUnlockGate, and the binding in settings.json
  clock,       \* whether the continuous clock can be read and has not gone back
  days,        \* left of the time a Master Password opens the gate for
  lease,       \* the one that runs
  busy,        \* "free", "lease", or where the cleaner is
  cleanup,     \* a removal is due
  leases, mishaps,
  master,      \* history: the binding the Master Password was last typed for
  disturbed    \* history: something has called off the unlock that was pressed

quickVars == <<file, item, core, clock, days, lease, busy, cleanup, leases, mishaps, master, disturbed>>

history == <<master, disturbed>>
world == <<file, clock, days, leases>>

Works(w) == IF w THEN UNCHANGED mishaps ELSE mishaps < MaxMishaps /\ mishaps' = mishaps + 1

-----------------------------------------------------------------------------
(* The gate *)

CancelPending(c) == [c EXCEPT !.request = "none"]
Revoked(c) == [CancelPending(c) EXCEPT !.verified = Off]

Authorized(c, b) == clock /\ days > 0 /\ c.verified = b

\* What was verified runs out, or the clock cannot be trusted: nothing later undoes that.
GateTick(c) == IF clock /\ days > 0 /\ c.verified # Off THEN c ELSE Revoked(c)

\* Days is set anew with it.
MasterVerified(c, b) ==
  IF clock THEN [CancelPending(c) EXCEPT !.verified = b, !.registration = IF @ = b THEN b ELSE Off]
  ELSE Revoked(c)

-----------------------------------------------------------------------------
(* The core *)

\* `fresh` stands for the epoch of the snapshot that a lease holds.
InvalidateNative(c) == [CancelPending(c) EXCEPT !.pending = FALSE, !.native = "none", !.fresh = FALSE]

Tick(c) ==
  LET g == GateTick(c) IN IF g.verified = Off /\ g.pending THEN InvalidateNative(g) ELSE g

\* disable_quick_unlock: a failed write leaves the gate off and the settings as they were.
Disable(c, writes) ==
  LET d == [InvalidateNative(c) EXCEPT !.registration = Off] IN
  IF writes THEN [d EXCEPT !.setting = Off, !.needed = TRUE] ELSE d

\* invalidate_quick_unlock_registration: so does this, and there may be nothing to write.
Existed(c) == c.setting # Off \/ c.registration # Off \/ c.pending
InvalidateRegistration(c, writes) ==
  LET d == [Revoked(c) EXCEPT !.registration = Off, !.pending = FALSE] IN
  IF Existed(c) /\ writes THEN [d EXCEPT !.setting = Off, !.needed = TRUE] ELSE d
Invalidated(c, writes) == writes \/ ~Existed(c)

NoLease == [pc |-> "none"]
Biometric(l) == l.pc \notin {"none", "begun", "asking", "prepared", "refused", "dropped"}

\* quick_runtime::sync, at the end of every with_core and of every round.
WithCore(c, l, b) ==
  /\ core' = [c EXCEPT !.needed = FALSE]
  /\ lease' = IF Biometric(l) /\ ~c.pending THEN [l EXCEPT !.cancelled = TRUE] ELSE l
  /\ cleanup' = ((cleanup \/ c.needed) /\ b # "free")
  /\ busy' = IF (cleanup \/ c.needed) /\ b = "free" THEN "removing" ELSE b

\* Whatever was pressed is called off.
Disturbs == disturbed' = (disturbed \/ core.pending)

CanBegin(c) == ~c.pending /\ c.native = "none" /\ ~c.guardUp

QuickRound ==
  /\ \E expired \in BOOLEAN :
       LET c == Tick(core) IN WithCore(IF expired /\ c.pending THEN InvalidateNative(c) ELSE c, lease, busy)
  /\ UNCHANGED <<world, item, mishaps, history>>

\* Unlock with the Master Password, begun and committed.
MasterUnlock ==
  LET c == Tick(core) IN
  /\ c.phase = "locked" /\ CanBegin(c)
  /\ WithCore([InvalidateNative(MasterVerified(c, file)) EXCEPT !.phase = "unlocked"], lease, busy)
  /\ days' = Days /\ master' = file
  /\ UNCHANGED <<file, item, clock, leases, mishaps, disturbed>>

\* A change of credentials, a recovery, another copy in place of this one: off before it begins.
ChangeBegins(writes) ==
  LET c == Tick(core) IN
  /\ CanBegin(c) /\ Works(writes)
  /\ WithCore([InvalidateRegistration(c, writes) EXCEPT
                 !.native = IF Invalidated(c, writes) THEN "change" ELSE "none"], lease, busy)
  /\ UNCHANGED <<world, item, history>>

ChangeCommits ==
  LET c == Tick(core) IN
  /\ c.native = "change" /\ ~c.guardUp
  /\ file' \in Binding \ {file}
  /\ WithCore([InvalidateNative(c) EXCEPT !.phase = "unlocked"], lease, busy)
  /\ UNCHANGED <<item, clock, days, leases, mishaps, history>>

\* A lock, an event of the OS that locks or one that does not, an edit, a cancelled panel.
Invalidation ==
  /\ \E p \in {core.phase, "locked"} : WithCore([InvalidateNative(core) EXCEPT !.phase = p], lease, busy)
  /\ Disturbs
  /\ UNCHANGED <<world, item, mishaps, master>>

GuardMoves ==
  /\ WithCore(IF core.guardUp THEN [core EXCEPT !.guardUp = FALSE]
              ELSE [InvalidateNative(core) EXCEPT !.guardUp = TRUE], lease, busy)
  /\ IF core.guardUp THEN UNCHANGED disturbed ELSE Disturbs
  /\ UNCHANGED <<world, item, mishaps, master>>

Cancelled(l) == IF l.pc = "none" THEN l ELSE [l EXCEPT !.cancelled = TRUE]

TurnOff(writes) ==
  /\ Works(writes)
  /\ WithCore(Disable(core, writes), Cancelled(lease), busy)
  /\ Disturbs
  /\ UNCHANGED <<world, item, master>>

-----------------------------------------------------------------------------
(* A lease: turning Touch ID on, or one unlock *)

BeginLease(kind) ==
  /\ busy = "free" /\ leases < MaxLeases
  /\ busy' = "lease" /\ leases' = leases + 1
  /\ lease' = [pc |-> "begun", kind |-> kind, cancelled |-> FALSE, incomplete |-> FALSE,
               binding |-> Off, key |-> Off, why |-> "none"]
  /\ UNCHANGED <<file, item, core, clock, days, cleanup, mishaps, history>>

At(pc) == lease.pc = pc
Goes(pc) == [lease EXCEPT !.pc = pc]
Failing(why) == [lease EXCEPT !.pc = "failing", !.why = why]

\* Any way out but the last ends in Drop.
Refused(c) == WithCore(c, Goes("refused"), busy)

EnrollBegins(w1, w2) ==
  LET c == Tick(core)
      d == InvalidateRegistration(c, w1)
  IN
  /\ At("begun") /\ lease.kind = "enroll" /\ Works(w1 /\ w2)
  /\ IF c.phase = "unlocked" /\ CanBegin(c) /\ clock /\ Invalidated(c, w1) /\ w2
     THEN WithCore([d EXCEPT !.native = "enroll", !.needed = TRUE],
                   [Goes("asking") EXCEPT !.binding = file], busy)
     ELSE Refused(IF c.phase = "unlocked" /\ CanBegin(c) /\ clock THEN d ELSE c)
  /\ UNCHANGED <<world, item, history>>

\* The owner typed the Master Password, or gave up.
EnrollVerified ==
  LET c == Tick(core)
      valid == c.native = "enroll" /\ ~c.guardUp /\ file = lease.binding
      d == MasterVerified([c EXCEPT !.native = "none", !.registration = Off], file)
  IN
  /\ At("asking")
  /\ IF ~valid THEN Refused(IF c.native = "enroll" THEN InvalidateNative(c) ELSE c)
     ELSE IF ~clock THEN Refused(d)
     ELSE WithCore([d EXCEPT !.request = "enroll", !.pending = TRUE, !.fresh = TRUE],
                   Goes("prepared"), busy)
  /\ IF valid THEN days' = Days /\ master' = file ELSE UNCHANGED <<days, master>>
  /\ UNCHANGED <<file, item, clock, leases, mishaps, disturbed>>

EnrollGivenUp ==
  /\ At("asking")
  /\ Refused(IF core.native = "enroll" THEN InvalidateNative(core) ELSE core)
  /\ UNCHANGED <<world, item, mishaps, history>>

PrepareUnlock ==
  LET c == Tick(core) IN
  /\ At("begun") /\ lease.kind = "unlock"
  /\ IF c.phase # "locked" \/ ~CanBegin(c) THEN Refused(c)
     ELSE IF ~Authorized(c, file) THEN Refused(Revoked(c))
     ELSE IF c.registration # file THEN Refused(c)
     ELSE WithCore([c EXCEPT !.request = "unlock", !.pending = TRUE, !.fresh = TRUE],
                   [Goes("prepared") EXCEPT !.binding = file], busy)
  /\ disturbed' = FALSE
  /\ UNCHANGED <<world, item, mishaps, master>>

LeaseOnly(l) == lease' = l /\ UNCHANGED <<world, core, busy, cleanup, history>>

\* From here `biometric` is set, and a sync that finds nothing pending cancels the lease.
Present(shown) ==
  /\ At("prepared")
  /\ LeaseOnly([Goes("presenting") EXCEPT !.cancelled = @ \/ ~shown])
  /\ UNCHANGED <<item, mishaps>>

Presented ==
  /\ At("presenting")
  /\ LeaseOnly(IF lease.cancelled THEN Goes("ended")
               ELSE [Goes(IF lease.kind = "enroll" THEN "work" ELSE "touch")
                       EXCEPT !.incomplete = lease.kind = "enroll"])
  /\ UNCHANGED <<item, mishaps>>

\* Cancel, Escape, a lost focus, the panel's own time.
PanelCloses ==
  /\ Biometric(lease) /\ ~lease.cancelled
  /\ lease' = Cancelled(lease) /\ Disturbs
  /\ UNCHANGED <<world, item, core, busy, cleanup, mishaps, master>>

\* Mutant: a removal that is due is left to the cleaner.
ClearFirstLater ==
  /\ At("work") /\ LeaseOnly(Goes("wrap")) /\ UNCHANGED <<item, mishaps>>

\* A removal that is due is done now, and never after the new item is there.
ClearFirst ==
  /\ At("work")
  /\ lease' = IF lease.cancelled THEN Failing("cancelled") ELSE Goes(IF cleanup THEN "clearing" ELSE "wrap")
  /\ cleanup' = (cleanup /\ lease.cancelled)
  /\ UNCHANGED <<world, item, core, busy, mishaps, history>>

\* biometry::remove
Removed(w) == Works(w) /\ item' = IF w THEN Off ELSE item

ClearItem(w) ==
  /\ At("clearing") /\ Removed(w)
  /\ LeaseOnly(Goes(IF w THEN "cleared" ELSE "not_cleared"))

ClearReported ==
  /\ At("cleared") \/ At("not_cleared")
  /\ WithCore([core EXCEPT !.failed = At("not_cleared")],
              IF At("cleared") THEN Goes("wrap") ELSE Failing("failed"), busy)
  /\ UNCHANGED <<world, item, mishaps, history>>

\* biometry::enroll up to the rename, which refuses to replace an item.
Publish(w) ==
  /\ At("wrap") /\ Works(w)
  /\ IF lease.cancelled THEN item' = item /\ LeaseOnly(Failing("cancelled"))
     ELSE IF w /\ item = Off THEN item' = lease.binding /\ LeaseOnly(Goes("touch"))
     ELSE item' = item /\ LeaseOnly(Failing("failed"))

\* biometry::read behind a fresh touch: the key, or why not.
TouchEnds(outcome) ==
  /\ At("touch")
  /\ outcome = "ok" => ~lease.cancelled /\ item # Off
  /\ outcome \in {"failed", "missed"} => ~lease.cancelled
  /\ LeaseOnly(IF outcome = "ok" THEN [Goes("settle") EXCEPT !.key = item]
               ELSE IF lease.kind = "enroll" THEN [Failing(outcome) EXCEPT !.pc = "unpublish"]
               ELSE Failing(outcome))
  /\ UNCHANGED <<item, mishaps>>

\* enroll takes back what it published when the touch did not bring the key back.
Unpublish(w) ==
  /\ At("unpublish") /\ Removed(w)
  /\ LeaseOnly(Failing(IF w THEN lease.why ELSE "failed"))

\* failed(): what may turn Touch ID off, unless the owner's press is no longer pending.
FailedTouch(writes) ==
  /\ At("failing") \/ (At("settle") /\ lease.cancelled)
  /\ Works(writes)
  /\ WithCore(IF ~core.pending THEN core
              ELSE IF lease.why = "failed" THEN Disable(core, writes)
              ELSE InvalidateNative(core), Goes("ended"), busy)
  /\ UNCHANGED <<world, item, history>>

\* Mutant: the file is not read again.
CurrentWhenRead(c, phase) == c.pending /\ c.phase = phase /\ ~c.guardUp

\* validate_quick_snapshot, for a snapshot of this epoch.
Current(c, phase) == c.pending /\ c.phase = phase /\ ~c.guardUp /\ file = lease.binding

FinishEnrollment(c, writes) ==
  LET d == [c EXCEPT !.pending = FALSE, !.request = "none"] IN
  IF ~c.fresh THEN c
  ELSE IF ~Current(c, "unlocked") THEN InvalidateNative(c)
  ELSE IF lease.key # lease.binding
  THEN LET e == [c EXCEPT !.pending = FALSE] IN
       [InvalidateRegistration(e, writes) EXCEPT !.needed = @ \/ Invalidated(e, writes)]
  ELSE IF c.request # "enroll" THEN [c EXCEPT !.pending = FALSE]
  ELSE IF ~Authorized(c, lease.binding) THEN Revoked(d)
  ELSE IF writes THEN [d EXCEPT !.registration = lease.binding, !.setting = lease.binding]
  ELSE [Revoked(d) EXCEPT !.registration = Off, !.needed = TRUE]

FinishUnlock(c, writes) ==
  LET d == [c EXCEPT !.pending = FALSE, !.request = "none"] IN
  IF ~c.fresh THEN c
  ELSE IF ~Current(c, "locked") THEN InvalidateNative(c)
  ELSE IF lease.key # lease.binding THEN InvalidateRegistration([c EXCEPT !.pending = FALSE], writes)
  ELSE IF c.request # "unlock" THEN [c EXCEPT !.pending = FALSE]
  ELSE IF ~Authorized(c, lease.binding) THEN Revoked(d)
  ELSE IF c.registration # lease.binding THEN d
  ELSE [InvalidateNative(d) EXCEPT !.phase = "unlocked"]

Settle(writes) ==
  LET c == Tick(core)
      enrolled == FinishEnrollment(c, writes)
  IN
  /\ At("settle") /\ ~lease.cancelled /\ Works(writes)
  /\ IF lease.kind = "enroll"
     THEN WithCore(enrolled, [Goes("ended") EXCEPT !.incomplete = enrolled.setting = Off], busy)
     ELSE WithCore(FinishUnlock(c, writes), Goes("ended"), busy)
  /\ UNCHANGED <<world, item, history>>

\* Lease::drop, in two steps: what is still pending is called off, and the lease is given up.
Drop ==
  /\ At("ended") \/ At("refused")
  /\ WithCore(IF core.pending THEN InvalidateNative(core) ELSE core,
              [Goes("dropped") EXCEPT !.cancelled = TRUE], busy)
  /\ UNCHANGED <<world, item, mishaps, history>>

Schedule(due) ==
  /\ busy' = IF due THEN "removing" ELSE "free"
  /\ cleanup' = FALSE

\* Mutant: an enrollment that did not end well owes nothing.
ReleaseForgetful ==
  /\ At("dropped")
  /\ lease' = NoLease /\ Schedule(cleanup)
  /\ UNCHANGED <<world, item, core, mishaps, history>>

Release ==
  /\ At("dropped")
  /\ lease' = NoLease /\ Schedule(cleanup \/ lease.incomplete)
  /\ UNCHANGED <<world, item, core, mishaps, history>>

-----------------------------------------------------------------------------
(* The cleaner.  It holds `busy`, so no lease runs meanwhile; a failed removal is not retried. *)

Remove(w) ==
  /\ busy = "removing" /\ Removed(w)
  /\ busy' = IF w THEN "reporting" ELSE "complaining"
  /\ UNCHANGED <<world, core, lease, cleanup, history>>

ReportRemoval ==
  /\ busy \in {"reporting", "complaining"}
  /\ WithCore([core EXCEPT !.failed = busy = "complaining"], lease, "releasing")
  /\ UNCHANGED <<world, item, mishaps, history>>

CleanerEnds ==
  /\ busy = "releasing"
  /\ Schedule(cleanup)
  /\ UNCHANGED <<world, item, core, lease, mishaps, history>>

-----------------------------------------------------------------------------
(* Around it *)

DayEnds ==
  /\ days > 0 /\ days' = days - 1
  /\ UNCHANGED <<file, item, core, clock, lease, busy, cleanup, leases, mishaps, history>>

ClockMoves ==
  /\ clock' = ~clock
  /\ Works(~clock)
  /\ UNCHANGED <<file, item, core, days, lease, busy, cleanup, leases, history>>

FileReplaced ==
  /\ Works(FALSE)
  /\ file' \in Binding \ {file}
  /\ UNCHANGED <<item, core, clock, days, lease, busy, cleanup, leases, history>>

\* load_quick_unlock_registration: a binding of another file is forgotten, on disk first.
Loaded(setting, writes) ==
  [phase |-> "locked", guardUp |-> FALSE, pending |-> FALSE, native |-> "none", fresh |-> FALSE,
   registration |-> IF setting = file THEN file ELSE Off, verified |-> Off, request |-> "none",
   setting |-> IF setting # file /\ writes THEN Off ELSE setting,
   needed |-> setting # file /\ (writes \/ setting = Off), failed |-> FALSE]

\* The process ends at any point, and the next one starts.
CrashAndRestart(writes) ==
  /\ mishaps < MaxMishaps /\ mishaps' = mishaps + 1
  /\ core' = Loaded(core.setting, writes)
  /\ lease' = NoLease /\ busy' = "free" /\ cleanup' = FALSE
  /\ clock' = TRUE
  /\ UNCHANGED <<file, item, days, leases, history>>

-----------------------------------------------------------------------------
QuickInit ==
  /\ file = CHOOSE b \in Binding : TRUE
  /\ item = Off
  /\ core = Loaded(Off, TRUE)
  /\ clock = TRUE /\ days = 0
  /\ lease = NoLease /\ busy = "free" /\ cleanup = FALSE
  /\ leases = 0 /\ mishaps = 0
  /\ master = Off /\ disturbed = FALSE

LeaseSteps ==
  \/ \E w1, w2 \in BOOLEAN : EnrollBegins(w1, w2)
  \/ EnrollVerified \/ EnrollGivenUp \/ PrepareUnlock
  \/ \E shown \in BOOLEAN : Present(shown)
  \/ Presented \/ ClearFirst \/ ClearReported
  \/ \E w \in BOOLEAN : ClearItem(w) \/ Publish(w) \/ Unpublish(w) \/ FailedTouch(w) \/ Settle(w)
  \/ \E outcome \in {"ok", "cancelled", "missed", "failed"} : TouchEnds(outcome)
  \/ Drop \/ Release

CleanerSteps == (\E w \in BOOLEAN : Remove(w)) \/ ReportRemoval \/ CleanerEnds

QuickNext ==
  \/ LeaseSteps \/ CleanerSteps \/ QuickRound
  \/ \E kind \in {"enroll", "unlock"} : BeginLease(kind)
  \/ MasterUnlock \/ ChangeCommits \/ Invalidation \/ GuardMoves \/ PanelCloses
  \/ \E w \in BOOLEAN : ChangeBegins(w) \/ TurnOff(w) \/ CrashAndRestart(w)
  \/ DayEnds \/ ClockMoves \/ FileReplaced

QuickSpec == QuickInit /\ [][QuickNext]_quickVars

-----------------------------------------------------------------------------
\* A touch opens the Vault only when the Master Password was typed for the file that is there now,
\* less than seven days ago, and nothing has called off the press since: no lock, event of the OS,
\* Sharing Guard, change of credentials or closed panel, however late the touch is answered.
TouchIsAuthorized ==
  [][lease.pc = "settle" /\ lease.kind = "unlock" /\ lease'.pc = "ended" /\ core'.phase = "unlocked"
       => \/ core.phase = "unlocked"
          \/ master = file /\ days > 0 /\ ~disturbed]_quickVars

\* What the settings call enabled has its item, through failed writes, crashes at any point and
\* removals that were due before it was turned on.
EnabledHasItem == core.setting = Off \/ core.setting = item

\* An item that nothing is registered for does not stay behind: as long as it is there, its
\* removal runs or is due, or a lease that owes it is still running, or the owner was told.
OrphanIsOwed ==
  item # Off /\ core.setting = Off
    => core.needed \/ cleanup \/ busy # "free" \/ core.failed
=============================================================================
