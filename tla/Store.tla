------------------------------- MODULE Store --------------------------------
(***************************************************************************)
(* crates/store at work on a disk that forgets: one call of `save_vault`   *)
(* or `replace_vault` at a time (the folder is locked by one process),     *)
(* each write and flush a step of its own, the process killed or the power *)
(* lost between any two steps, every step liable to fail.                  *)
(*                                                                         *)
(* A flush of a folder makes its entries certain.  Until then a power loss *)
(* may leave any entry as it was or as it became; a file that was not      *)
(* synced before its rename comes back torn.  A killed process loses       *)
(* nothing: what it wrote stays in the cache of the system.                *)
(***************************************************************************)
EXTENDS SafetyCopies

CONSTANTS
  Torn,            \* the contents of a file that was never completely written
  Readings,        \* what the clock of the caller may read
  Faults,          \* which steps may fail: "write", "flush", "remove"
  MaxInstalls,     \* bound on the calls
  MaxDeaths,       \* bound on kills and power losses
  MaxToday         \* bound on the true time

VaultFile == [bytes : Bytes \cup {Torn}, synced : BOOLEAN]

ASSUME StoreAssumption ==
  /\ Torn \notin Bytes /\ Torn # None /\ None \notin VaultFile
  /\ Readings \subseteq Int /\ Faults \subseteq {"write", "flush", "remove"}
  /\ {MaxInstalls, MaxDeaths, MaxToday} \subseteq Nat

VARIABLES
  vault,            \* vault.enote as it reads now
  vaultOnDisk,      \* what vault.enote may be after a power loss
  copies,           \* safety/ as it reads now
  copiesOnDisk,     \* safety/ as it was last flushed
  op,               \* the call in progress and how far it has come
  promised,         \* the version that the last call to return Durable installed
  since,            \* the versions renamed into place since that call
  displaced,        \* what that call displaced and its kind, if it took a copy of it
  later,            \* the copies of that kind taken after that call
  retried,          \* the same, if it found a copy already there
  owed,             \* copies that retention owes the owner, once they are flushed
  wrongReadings,    \* calls whose clock was wrong
  today,            \* the true time
  installs, deaths

disk == <<vault, vaultOnDisk, copies, copiesOnDisk>>
history == <<promised, since, displaced, later, retried, owed, wrongReadings>>
bounds == <<today, installs, deaths>>
vars == <<disk, op, history, bounds>>

Status == {"Durable", "Uncertain"}
Stage == {"written", "copy", "flush_copy", "commit", "flush_vault", "retain", "return"}

Call == [stage : Stage, kind : Kind, now : Int, temp : VaultFile,
         previous : Bytes \cup {None}, took : BOOLEAN, copy : Status, status : Status]

Init ==
  /\ vault = None /\ vaultOnDisk = {None}
  /\ copies = {} /\ copiesOnDisk = {}
  /\ op = None
  /\ promised = None /\ since = {} /\ displaced = None /\ later = 0
  /\ retried = None
  /\ owed = {} /\ wrongReadings = 0
  /\ today = 0 /\ installs = 0 /\ deaths = 0

At(stage) == op # None /\ op.stage = stage
Proceed(stage) == op' = [op EXCEPT !.stage = stage]
MayFail(fault) == fault \in Faults

-----------------------------------------------------------------------------
(* One call *)

\* The temp file is created and written.
Begin ==
  /\ op = None /\ installs < MaxInstalls
  /\ \E bytes \in Bytes, kind \in Kind, now \in Readings \cup {today} :
       /\ op' = [stage |-> "written", kind |-> kind, now |-> now,
                 temp |-> [bytes |-> bytes, synced |-> FALSE], previous |-> None,
                 took |-> FALSE, copy |-> "Durable", status |-> "Durable"]
       /\ wrongReadings' = IF now = today THEN wrongReadings ELSE wrongReadings + 1
  /\ installs' = installs + 1
  /\ UNCHANGED <<disk, promised, since, displaced, later, retried, owed, today, deaths>>

Synced(file) == [file EXCEPT !.synced = TRUE]

\* Flushed, read back and accepted by the caller.
Verify ==
  /\ At("written")
  /\ op' = [op EXCEPT !.stage = "copy", !.temp = Synced(@)]
  /\ UNCHANGED <<disk, history, bounds>>

\* Any error before the rename: the temp file is removed and nothing else changes.
Refuse ==
  /\ MayFail("write")
  /\ At("written") \/ At("copy") \/ At("commit")
  /\ op' = None
  /\ UNCHANGED <<disk, history, bounds>>

NothingToKeep ==
  /\ At("copy") /\ vault = None
  /\ Proceed("commit")
  /\ UNCHANGED <<disk, history, bounds>>

CopyAlreadyThere ==
  /\ At("copy") /\ vault # None
  /\ AlreadyKept(copies, op.kind, vault.bytes)
  /\ op' = [op EXCEPT !.stage = "commit", !.previous = vault.bytes]
  /\ UNCHANGED <<disk, history, bounds>>

\* The copy is written, verified and renamed into safety/.
KeepCopy ==
  /\ At("copy") /\ vault # None
  /\ ~AlreadyKept(copies, op.kind, vault.bytes)
  /\ copies' = copies \cup {NewCopy(copies, op.kind, vault.bytes, op.now)}
  /\ op' = [op EXCEPT !.stage = "flush_copy", !.previous = vault.bytes, !.took = TRUE]
  /\ later' = IF displaced # None /\ displaced.kind = op.kind THEN later + 1 ELSE later
  /\ UNCHANGED <<vault, vaultOnDisk, copiesOnDisk, promised, since, displaced, retried, owed,
                 wrongReadings, bounds>>

\* The copies that retention keeps by a rule of their own, whatever else is saved.
Owed == {c \in copies : c.kind = "Automatic" => DaysFirst(c, OfKind(copies, "Automatic"))}

CopyFlushed ==
  /\ At("flush_copy")
  /\ copiesOnDisk' = copies
  /\ owed' = owed \cup (IF Newest(copies) \in Owed THEN {Newest(copies)} ELSE {})
  /\ Proceed("commit")
  /\ UNCHANGED <<vault, vaultOnDisk, copies, promised, since, displaced, later,
                 retried, wrongReadings, bounds>>

CopyUncertain ==
  /\ At("flush_copy") /\ MayFail("flush")
  /\ op' = [op EXCEPT !.stage = "commit", !.copy = "Uncertain"]
  /\ UNCHANGED <<disk, history, bounds>>

\* Mutant: the old file is removed before the rename.
CommitAfterRemoving ==
  /\ At("commit")
  /\ vault' = op.temp /\ vaultOnDisk' = vaultOnDisk \cup {None, op.temp}
  /\ since' = since \cup {op.temp.bytes}
  /\ Proceed("flush_vault")
  /\ UNCHANGED <<copies, copiesOnDisk, promised, displaced, later, retried, owed,
                 wrongReadings, bounds>>

Commit ==
  /\ At("commit")
  /\ vault' = op.temp /\ vaultOnDisk' = vaultOnDisk \cup {op.temp}
  /\ since' = since \cup {op.temp.bytes}
  /\ Proceed("flush_vault")
  /\ UNCHANGED <<copies, copiesOnDisk, promised, displaced, later, retried, owed,
                 wrongReadings, bounds>>

\* Mutant: the folder is not flushed after the rename.
VaultFlushForgotten ==
  /\ At("flush_vault")
  /\ Proceed("retain")
  /\ UNCHANGED <<disk, history, bounds>>

VaultFlushed ==
  /\ At("flush_vault")
  /\ vaultOnDisk' = {vault}
  /\ Proceed("retain")
  /\ UNCHANGED <<vault, copies, copiesOnDisk, history, bounds>>

\* No retention then.
VaultUncertain ==
  /\ At("flush_vault") /\ MayFail("flush")
  /\ op' = [op EXCEPT !.stage = "return", !.status = "Uncertain"]
  /\ UNCHANGED <<disk, history, bounds>>

\* A copy that cannot be removed stays; the folder is not flushed.
ApplyRetention ==
  /\ At("retain")
  /\ \E kept \in IF MayFail("remove") THEN SUBSET Expired(copies, op.now) ELSE {{}} :
       copies' = copies \ (Expired(copies, op.now) \ kept)
  /\ Proceed("return")
  /\ UNCHANGED <<vault, vaultOnDisk, copiesOnDisk, history, bounds>>

Returned(call) == IF call.copy = "Uncertain" THEN "Uncertain" ELSE call.status

Return ==
  /\ At("return")
  /\ IF Returned(op) = "Durable"
     THEN /\ promised' = vault.bytes /\ since' = {} /\ later' = 0
          /\ displaced' = IF op.took THEN [kind |-> op.kind, bytes |-> op.previous] ELSE None
          /\ retried' = IF op.took THEN None ELSE op.previous
     ELSE UNCHANGED <<promised, since, displaced, later, retried>>
  /\ op' = None
  /\ UNCHANGED <<disk, owed, wrongReadings, bounds>>

-----------------------------------------------------------------------------
(* The world *)

\* The process is gone; the next one opens the folder and removes the temp files.
Killed ==
  /\ deaths < MaxDeaths /\ op # None
  /\ deaths' = deaths + 1
  /\ op' = None
  /\ UNCHANGED <<disk, history, today, installs>>

AsFound(file) == IF file = None \/ file.synced THEN file
                 ELSE [bytes |-> Torn, synced |-> TRUE]

PowerLoss ==
  /\ deaths < MaxDeaths
  /\ deaths' = deaths + 1
  /\ op' = None
  /\ \E file \in vaultOnDisk : vault' = AsFound(file) /\ vaultOnDisk' = {vault'}
  /\ \E undecided \in SUBSET ((copies \cup copiesOnDisk) \ (copies \cap copiesOnDisk)) :
       /\ copies' = (copies \cap copiesOnDisk) \cup undecided
       /\ copiesOnDisk' = copies'
  /\ UNCHANGED <<history, today, installs>>

TimePasses ==
  /\ today < MaxToday
  /\ today' = today + 1
  /\ UNCHANGED <<disk, op, history, installs, deaths>>

Next ==
  \/ Begin
  \/ Verify
  \/ Refuse
  \/ NothingToKeep
  \/ CopyAlreadyThere
  \/ KeepCopy
  \/ CopyFlushed
  \/ CopyUncertain
  \/ Commit
  \/ VaultFlushed
  \/ VaultUncertain
  \/ ApplyRetention
  \/ Return
  \/ Killed
  \/ PowerLoss
  \/ TimePasses

Spec == Init /\ [][Next]_vars

-----------------------------------------------------------------------------
(* Properties *)

TypeOK ==
  /\ vault \in VaultFile \cup {None} /\ vaultOnDisk \subseteq VaultFile \cup {None}
  /\ copies \subseteq Copy /\ copiesOnDisk \subseteq Copy
  /\ op \in Call \cup {None}
  /\ promised \in Bytes \cup {None} /\ since \subseteq Bytes
  /\ displaced \in [kind : Kind, bytes : Bytes] \cup {None} /\ retried \in Bytes \cup {None}
  /\ owed \subseteq Copy
  /\ {later, wrongReadings, today, installs, deaths} \subseteq Nat

\* A save reported Durable survives every kill and power loss: vault.enote is that
\* version or one asked for since, and never torn or missing (`TempFile`, `commit`).
DurableSurvives ==
  promised # None =>
    \A file \in vaultOnDisk \cup {vault} :
      file # None /\ AsFound(file).bytes \in {promised} \cup since

\* How many further copies of its kind a copy outlives, whatever the clock says.
Outlives(kind) == IF kind = "Automatic" THEN AutoKeep ELSE 1

\* The same for what such a save displaced: the Safety Copy it took survives kills, power
\* losses, failed and uncertain saves and wrong clocks, until AUTO_SAFETY_KEEP further copies
\* have been taken or, if it is a replaced Vault, another was replaced (`keep_safety_copy`,
\* `apply_retention`).
DisplacedIsKept ==
  displaced # None /\ later < Outlives(displaced.kind) =>
    \E c \in copies \cap copiesOnDisk :
      c.kind = displaced.kind /\ c.bytes = displaced.bytes

\* What the module says of every write, Safety Copies included: it is reported Durable
\* only if its flush was confirmed.  A copy an earlier call left unflushed is trusted.
RetriedIsKept ==
  retried # None => \E c \in copies \cap copiesOnDisk : c.bytes = retried

\* "Newest first" is exact: no two copies share a stamp and a counter, whatever the
\* clock did and whatever a power loss took away (`keep_safety_copy`).
CopiesOrdered ==
  \A c, d \in copies \cup copiesOnDisk : c = d \/ Before(c, d) \/ Before(d, c)

\* What is still owed by the true time and no longer there: the first copy of a day
\* for DAILY_SAFETY_KEEP_SECS, a replaced Vault for REPLACED_SAFETY_KEEP_SECS.
LostEarly(kind, keep) ==
  {c \in OfKind(owed, kind) : c \notin copies /\ ~TooOld(c, today, keep)}

\* One wrong clock reading costs the owner at most one copy of each kind before its
\* time, and with a right clock none goes early (`apply_retention`).
WrongClockCostsOne ==
  /\ Cardinality(LostEarly("Automatic", DailyKeep)) <= wrongReadings
  /\ Cardinality(LostEarly("Replaced", ReplacedKeep)) <= wrongReadings

\* vault.enote is the register of VaultRegister: the renames install, the flushes of
\* its folder confirm, and a power loss goes back at most to what was confirmed.
Contents(file) == IF file = None THEN None ELSE file.bytes
Register == INSTANCE VaultRegister WITH
  Version <- Bytes, current <- Contents(vault),
  afterCrash <- {Contents(AsFound(file)) : file \in vaultOnDisk}
RegisterSpec == Register!Spec
=============================================================================
