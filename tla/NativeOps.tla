----------------------------- MODULE NativeOps ------------------------------
(***************************************************************************)
(* src-tauri/src/core/native.rs: operations that ask for a credential.     *)
(* `begin_native` freezes what was asked for together with a snapshot of   *)
(* what it was asked about, `prepare_native` hands both to a worker that   *)
(* derives keys without the lock, and `finish_native` commits what comes   *)
(* back only if the snapshot still holds.  In between anything may happen: *)
(* locks, edits, other operations, a file changed from outside, a crash.   *)
(*                                                                         *)
(* A version of the Vault is what one sealed file holds.  Versions are     *)
(* numbered as they are made; no two of them have the same bytes.          *)
(***************************************************************************)
EXTENDS Integers, FiniteSets

CONSTANTS
  None,
  MaxVersions,     \* bound on the versions ever made
  MaxSequence,     \* bound on the operations begun in one process
  MaxJobs          \* bound on the workers that run at once

ASSUME NativeAssumption ==
  /\ {MaxVersions, MaxSequence, MaxJobs} \subseteq Nat
  /\ None \notin Nat

VARIABLES
  core,            \* AppCore, as far as native.rs reads or writes it
  disk,            \* vault.enote
  chosen,          \* what the file holds that the owner picked to open
  jobs,            \* the workers
  made,            \* how many versions were ever made
  files,           \* the versions that were ever on the disk: Backups and Safety Copies
  confirmed,       \* the keys whose Recovery Kit the owner confirmed
  tampered,        \* something else wrote vault.enote since the app last did or read it
  last,            \* the last commit: what it was asked about, and what it found
  interrupted      \* how many operations had begun at the last interruption

vars == <<core, disk, chosen, jobs, made, files, confirmed, tampered, last, interrupted>>

\* `keys` and `notes` name the version that brought them; `wallet` is the set of keys that
\* the wallet values are sealed with, `base` the version this one was made from.
Version == [number : Nat, base : Nat, keys : Nat, wallet : SUBSET Nat,
            counter : Nat, notes : Nat]
Option(S) == {None} \cup S

ASSUME NoneAssumption == None \notin Version

Phase == {"NoVault", "KitNew", "Locked", "Reset", "Unlocked", "KitRotation"}
OpenPhases == {"KitNew", "Reset", "Unlocked", "KitRotation"}
PhaseTag(phase) == IF phase \in {"KitNew", "KitRotation"} THEN "Kit" ELSE phase

\* What shows or copies a value or changes the settings touches no Vault: to the others it
\* is an edit that ends without effect.
Action == {"create", "confirm", "unlock", "recover", "set_password", "edit", "edit_wallet",
           "inspect", "change_password", "rotate"}

\* What an operation is about, as the owner sees it.
World == [phase : Phase, memory : Option(Version), disk : Option(Version)]
Now == [phase |-> core.phase, memory |-> core.memory, disk |-> disk]

Pending == [id : Nat, action : Option(Action), epoch : Nat, generation : Nat,
            phase : {"NoVault", "Kit", "Locked", "Reset", "Unlocked"},
            counter : Option(Nat), disk : Option(Version), inspection : Option(Version),
            begun : World]
Job == [id : Nat, action : Action, bytes : Option(Version), locked : Option(Version),
        begun : World]

\* A decrypted copy that may replace the Vault, and what it was compared with.
Preview == [version : Version, against : Option(Version)]

Core == [phase : Phase, memory : Option(Version), pending : Option(Pending),
         preview : Option(Preview), epoch : Nat, generation : Nat, sequence : Nat,
         guard_up : BOOLEAN]

Closed(on) == [phase |-> IF on = None THEN "NoVault" ELSE "Locked", memory |-> None,
               pending |-> None, preview |-> None, epoch |-> 0, generation |-> 0,
               sequence |-> 0, guard_up |-> FALSE]

FromElsewhere == [number |-> 1, base |-> 0, keys |-> 1, wallet |-> {}, counter |-> 0, notes |-> 1]

\* A new computer, with or without a Backup that was made on another one.
Init ==
  /\ core = Closed(None) /\ disk = None /\ chosen = None /\ jobs = {}
  /\ \/ made = 0 /\ files = {} /\ confirmed = {}
     \/ made = 1 /\ files = {FromElsewhere} /\ confirmed = {1}
  /\ tampered = FALSE /\ last = None /\ interrupted = 0

-----------------------------------------------------------------------------
(* Versions *)

Fresh == made + 1
Newer(v) == [v EXCEPT !.number = Fresh, !.base = v.number, !.counter = @ + 1]

FirstVersion == [number |-> Fresh, base |-> 0, keys |-> Fresh, wallet |-> {},
                 counter |-> 0, notes |-> Fresh]
Edited(v, sealedWith) == [Newer(v) EXCEPT !.notes = Fresh, !.wallet = @ \cup sealedWith]

\* Mutant: the wallet values stay sealed with the old keys.
RotatedKeysOnly(v) == [Newer(v) EXCEPT !.keys = Fresh]

Rotated(v) ==
  [Newer(v) EXCEPT !.keys = Fresh, !.wallet = IF @ = {} THEN {} ELSE {Fresh}]

-----------------------------------------------------------------------------
(* Methods of the core *)

\* Mutant: an interruption leaves the operation in progress alone.
InvalidateNothing(c) == c
InvalidateNative(c) == [c EXCEPT !.pending = None, !.epoch = @ + 1]

SetPhase(c, phase, version) ==
  [InvalidateNative(c) EXCEPT !.phase = phase, !.memory = version, !.preview = None]

ForgetOpenVaults(c) ==
  SetPhase(c, IF c.phase \in {"NoVault", "KitNew"} THEN "NoVault" ELSE "Locked", None)

InitializeSession(c) == [c EXCEPT !.generation = @ + 1]

Counter(c) == IF c.phase \in OpenPhases THEN c.memory.counter ELSE None

\* Mutant: the file is not read again.
HoldsInMemory(c, on, picked, id) ==
  /\ c.pending # None /\ c.pending.id = id
  /\ c.pending.epoch = c.epoch /\ c.pending.generation = c.generation
  /\ c.pending.phase = PhaseTag(c.phase) /\ c.pending.counter = Counter(c)
  /\ ~c.guard_up

\* Mutant: only that a Vault is open is checked.
HoldsWhenOpen(c, on, picked, id) == c.phase \in OpenPhases

\* `validate_native`; a deadline that has passed is Interrupted.
Holds(c, on, picked, id) ==
  /\ c.pending # None /\ c.pending.id = id
  /\ c.pending.epoch = c.epoch /\ c.pending.generation = c.generation
  /\ c.pending.phase = PhaseTag(c.phase) /\ c.pending.counter = Counter(c)
  /\ ~c.guard_up
  /\ c.pending.disk = on
  /\ c.pending.inspection # None => c.pending.inspection = picked

\* A mismatch ends the operation; a request that is not the current one ends nothing.
Refused(c, id) == IF c.pending # None /\ c.pending.id = id THEN InvalidateNative(c) ELSE c

-----------------------------------------------------------------------------
(* Begin and prepare *)

\* `native_description`
AllowedIn(action) ==
  CASE action = "create" -> {"NoVault"}
    [] action = "confirm" -> {"KitNew", "KitRotation"}
    [] action \in {"unlock", "recover"} -> {"Locked"}
    [] action = "set_password" -> {"Reset"}
    [] action = "inspect" -> {"NoVault", "Locked", "Unlocked"}
    [] OTHER -> {"Unlocked"}

PreviewRevoked(c, action) == IF action = "inspect" THEN [c EXCEPT !.preview = None] ELSE c

MayBegin(action) ==
  /\ core.pending = None /\ ~core.guard_up
  /\ core.phase \in AllowedIn(action)

BeginNative(action) ==
  /\ MayBegin(action) /\ core.sequence < MaxSequence
  /\ action = "inspect" => chosen # None
  /\ core' = [PreviewRevoked(core, action) EXCEPT
       !.sequence = @ + 1,
       !.pending = [id |-> core.sequence + 1, action |-> action, epoch |-> core.epoch,
                    generation |-> core.generation, phase |-> PhaseTag(core.phase),
                    counter |-> Counter(core), disk |-> disk,
                    inspection |-> IF action = "inspect" THEN chosen ELSE None,
                    begun |-> Now]]
  /\ UNCHANGED <<disk, chosen, jobs, made, files, confirmed, tampered, last, interrupted>>

\* The wrong credentials before it have not been waited for, or the file cannot be read.
BeginRefused ==
  /\ MayBegin("inspect")
  /\ core' = PreviewRevoked(core, "inspect")
  /\ UNCHANGED <<disk, chosen, jobs, made, files, confirmed, tampered, last, interrupted>>

\* What the worker opens: the picked file, the file on the disk, or a seal of the open Vault.
JobBytes(pending) ==
  IF pending.inspection # None THEN pending.inspection
  ELSE IF core.phase = "Locked" THEN pending.disk
  ELSE IF core.phase \in {"Unlocked", "Reset"} THEN core.memory
  ELSE None

PrepareNative ==
  /\ core.pending # None /\ core.pending.action # None /\ Cardinality(jobs) < MaxJobs
  /\ LET pending == core.pending IN
     IF Holds(core, disk, chosen, pending.id)
     THEN /\ jobs' = jobs \cup
               {[id |-> pending.id, action |-> pending.action, bytes |-> JobBytes(pending),
                 locked |-> IF pending.inspection # None /\ core.phase = "Locked"
                            THEN pending.disk ELSE None,
                 begun |-> pending.begun]}
          /\ core' = [core EXCEPT !.pending.action = None]
     ELSE /\ core' = Refused(core, pending.id)
          /\ UNCHANGED jobs
  /\ UNCHANGED <<disk, chosen, made, files, confirmed, tampered, last, interrupted>>

-----------------------------------------------------------------------------
(* Finish *)

\* What the credential opens: the bytes themselves, the locked file if it opens that too, and
\* the keys that wallet values are sealed with.
OpenedWith(job, opens) ==
  [version |-> job.bytes, locked |-> IF opens THEN job.locked ELSE None,
   walletKey |-> job.bytes.keys]

\* What the worker makes of the bytes it was handed, whatever has happened since.
Derived(job) ==
  CASE job.action = "create" -> FirstVersion
    [] job.action = "rotate" -> Rotated(job.bytes)
    [] job.action \in {"set_password", "change_password"} -> Newer(job.bytes)

Arrives(job) == jobs' = jobs \ {job}
Accepted(job) == Arrives(job) /\ Holds(core, disk, chosen, job.id)
Finished == [core EXCEPT !.pending = None]
Noted(job) == last' = [id |-> job.id, begun |-> job.begun, found |-> Now]

\* What the caller sees is that nothing happened.
FinishStale ==
  \E job \in jobs :
    /\ Arrives(job) /\ ~Holds(core, disk, chosen, job.id)
    /\ core' = Refused(core, job.id)
    /\ UNCHANGED <<disk, chosen, made, files, confirmed, tampered, last, interrupted>>

\* A wrong credential, groups that do not match, or an edit that changes nothing.
FinishWithoutEffect ==
  \E job \in jobs :
    /\ Accepted(job)
    /\ core' = Finished
    /\ UNCHANGED <<disk, chosen, made, files, confirmed, tampered, last, interrupted>>

\* A save of `version` that succeeds.
Saved(version) ==
  /\ disk' = version /\ files' = files \cup {version} /\ tampered' = FALSE
NotSaved == UNCHANGED <<disk, files, tampered>>

FinishCreate ==
  \E job \in jobs :
    /\ job.action = "create" /\ Accepted(job) /\ made < MaxVersions
    /\ core' = SetPhase(InitializeSession(Finished), "KitNew", Derived(job))
    /\ made' = Fresh /\ chosen' = None
    /\ Noted(job) /\ NotSaved
    /\ UNCHANGED <<confirmed, interrupted>>

FinishConfirm ==
  \E job \in jobs, saves \in BOOLEAN :
    /\ job.action = "confirm" /\ Accepted(job) /\ Noted(job)
    /\ IF saves
       THEN /\ core' = SetPhase(Finished, "Unlocked", core.memory)
            /\ chosen' = None
            /\ Saved(core.memory)
            /\ confirmed' = confirmed \cup {core.memory.keys}
       ELSE core' = Finished /\ NotSaved /\ UNCHANGED <<chosen, confirmed>>
    /\ UNCHANGED <<made, interrupted>>

\* What is opened is purged of old Trash, which is saved or undone.
Opens(c, phase, version) ==
  \/ /\ core' = SetPhase(c, phase, version)
     /\ tampered' = FALSE
     /\ UNCHANGED <<made, disk, files>>
  \/ /\ made < MaxVersions /\ made' = Fresh
     /\ core' = SetPhase(c, phase, Edited(version, {}))
     /\ Saved(Edited(version, {}))

FinishUnlock ==
  \E job \in jobs :
    /\ job.action \in {"unlock", "recover"} /\ Accepted(job) /\ Noted(job)
    /\ job.bytes # None
    /\ Opens(InitializeSession(Finished),
             IF job.action = "recover" THEN "Reset" ELSE "Unlocked",
             OpenedWith(job, TRUE).version)
    /\ chosen' = None
    /\ UNCHANGED <<confirmed, interrupted>>

\* The new password slot is in memory only once it is on the disk.
FinishSetPassword ==
  \E job \in jobs, saves \in BOOLEAN :
    /\ job.action = "set_password" /\ Accepted(job) /\ Noted(job) /\ made < MaxVersions
    /\ made' = Fresh
    /\ IF saves
       THEN /\ core' = SetPhase(Finished, "Unlocked", Derived(job))
            /\ chosen' = None
            /\ Saved(Derived(job))
       ELSE core' = Finished /\ NotSaved /\ UNCHANGED chosen
    /\ UNCHANGED <<confirmed, interrupted>>

FinishChangePassword ==
  \E job \in jobs, saves \in BOOLEAN :
    /\ job.action = "change_password" /\ Accepted(job) /\ Noted(job) /\ made < MaxVersions
    /\ made' = Fresh
    /\ IF saves
       THEN /\ core' = InvalidateNative([Finished EXCEPT !.memory = Derived(job)])
            /\ Saved(Derived(job))
       ELSE core' = Finished /\ NotSaved
    /\ UNCHANGED <<chosen, confirmed, interrupted>>

\* Mutant: the new keys are saved before their Recovery Kit is confirmed.
RotateSaves ==
  \E job \in jobs :
    /\ job.action = "rotate" /\ Accepted(job) /\ Noted(job) /\ made < MaxVersions
    /\ made' = Fresh /\ chosen' = None
    /\ core' = SetPhase(Finished, "KitRotation", Derived(job))
    /\ Saved(Derived(job))
    /\ UNCHANGED <<confirmed, interrupted>>

FinishRotate ==
  \E job \in jobs :
    /\ job.action = "rotate" /\ Accepted(job) /\ Noted(job) /\ made < MaxVersions
    /\ made' = Fresh /\ chosen' = None
    /\ core' = SetPhase(Finished, "KitRotation", Derived(job))
    /\ NotSaved
    /\ UNCHANGED <<confirmed, interrupted>>

\* While Locked the copy is compared with the file, if the same credential opens that too.
FinishInspect ==
  \E job \in jobs, opens \in BOOLEAN :
    /\ job.action = "inspect" /\ Accepted(job) /\ Noted(job)
    /\ core' = [Finished EXCEPT !.preview =
         [version |-> OpenedWith(job, opens).version,
          against |-> IF core.phase = "Unlocked" THEN core.memory
                      ELSE OpenedWith(job, opens).locked]]
    /\ NotSaved /\ UNCHANGED <<chosen, made, confirmed, interrupted>>

-----------------------------------------------------------------------------
(* Edits, alone or as the end of an operation *)

\* Mutant: a save that fails leaves the edit in memory.
MutatedKept(c, version, saves) == [InvalidateNative(c) EXCEPT !.preview = None,
                                                              !.memory = version]
\* Mutant: a preview outlives the edit.
MutatedPreviewKept(c, version, saves) ==
  [InvalidateNative(c) EXCEPT !.memory = IF saves THEN version ELSE @]

\* The core after `mutate`; a failed save puts the document back.
Mutated(c, version, saves) ==
  [InvalidateNative(c) EXCEPT !.preview = None, !.memory = IF saves THEN version ELSE @]

Mutate(c, version) ==
  /\ made < MaxVersions /\ made' = Fresh
  /\ \E saves \in BOOLEAN :
       /\ core' = Mutated(c, version, saves)
       /\ IF saves THEN Saved(version) ELSE NotSaved

\* A wallet value is sealed with the keys of the Vault that the worker opened.
FinishEdit ==
  \E job \in jobs :
    /\ job.action \in {"edit", "edit_wallet"} /\ Accepted(job) /\ Noted(job)
    /\ core.phase = "Unlocked"
    /\ Mutate(Finished, Edited(core.memory, IF job.action = "edit" THEN {}
                                            ELSE {OpenedWith(job, TRUE).walletKey}))
    /\ UNCHANGED <<chosen, confirmed, interrupted>>

\* `restore_note`, `set_favorite` and `append_text` need no panel.
EditAtOnce ==
  /\ core.phase = "Unlocked"
  /\ Mutate(core, Edited(core.memory, {}))
  /\ UNCHANGED <<chosen, jobs, confirmed, last, interrupted>>

-----------------------------------------------------------------------------
(* Backups *)

PickBackup ==
  /\ core.phase \in {"NoVault", "Locked", "Unlocked"}
  /\ chosen' \in files
  /\ core' = [InvalidateNative(core) EXCEPT !.preview = None]
  /\ interrupted' = core.sequence
  /\ UNCHANGED <<disk, jobs, made, files, confirmed, tampered, last>>

DiscardInspection ==
  /\ chosen' = None
  /\ core' = [InvalidateNative(core) EXCEPT !.preview = None]
  /\ interrupted' = core.sequence
  /\ UNCHANGED <<disk, jobs, made, files, confirmed, tampered, last>>

PreviewExpires ==
  /\ core.preview # None
  /\ core' = [core EXCEPT !.preview = None]
  /\ UNCHANGED <<disk, chosen, jobs, made, files, confirmed, tampered, last, interrupted>>

\* A copy that cannot be installed stays in the preview; one that a Recovery Key opened
\* asks for a new password.
Install ==
  /\ core.phase \in {"NoVault", "Locked", "Unlocked"} /\ core.preview # None
  /\ \E phase \in {"Unlocked", "Reset"} :
       core' = SetPhase(InitializeSession(core), phase, core.preview.version)
  /\ Saved(core.preview.version)
  /\ chosen' = None
  /\ UNCHANGED <<jobs, made, confirmed, last, interrupted>>

-----------------------------------------------------------------------------
(* Everything else *)

\* Focus lost, a cancel, a value hidden, the deadline of the operation.
Interrupted ==
  /\ core' = InvalidateNative(core)
  /\ interrupted' = core.sequence
  /\ UNCHANGED <<disk, chosen, jobs, made, files, confirmed, tampered, last>>

\* The Lock command, Auto-lock, sleep, screen lock, user switch.
Locks ==
  /\ core' = ForgetOpenVaults(core)
  /\ chosen' = None /\ interrupted' = core.sequence
  /\ UNCHANGED <<disk, jobs, made, files, confirmed, tampered, last>>

GuardUpdate ==
  /\ \/ core' = [InvalidateNative(core) EXCEPT !.guard_up = TRUE]
     \/ core' = [core EXCEPT !.guard_up = FALSE]
  /\ interrupted' = IF core'.guard_up THEN core.sequence ELSE interrupted
  /\ UNCHANGED <<disk, chosen, jobs, made, files, confirmed, tampered, last>>

\* With its own snapshot, taken and checked the same way; no credential panel is open.
FinishQuickUnlock ==
  /\ core.phase = "Locked" /\ core.pending = None /\ ~core.guard_up /\ disk # None
  /\ Opens(InitializeSession(core), "Unlocked", disk)
  /\ chosen' = None
  /\ UNCHANGED <<jobs, confirmed, last, interrupted>>

\* A sync program or a restored disk image puts an earlier file in its place.
OutsideWrites ==
  /\ disk' \in files /\ disk' # disk
  /\ tampered' = TRUE
  /\ UNCHANGED <<core, chosen, jobs, made, files, confirmed, last, interrupted>>

BackupFileChanges ==
  /\ chosen # None /\ chosen' \in files
  /\ UNCHANGED <<core, disk, jobs, made, files, confirmed, tampered, last, interrupted>>

Restart ==
  /\ core' = Closed(disk)
  /\ jobs' = {} /\ chosen' = None /\ last' = None /\ interrupted' = 0 /\ tampered' = FALSE
  /\ UNCHANGED <<disk, made, files, confirmed>>

Next ==
  \/ \E action \in Action : BeginNative(action)
  \/ BeginRefused
  \/ PrepareNative
  \/ FinishStale
  \/ FinishWithoutEffect
  \/ FinishCreate
  \/ FinishConfirm
  \/ FinishUnlock
  \/ FinishSetPassword
  \/ FinishChangePassword
  \/ FinishRotate
  \/ FinishInspect
  \/ FinishEdit
  \/ EditAtOnce
  \/ PickBackup
  \/ DiscardInspection
  \/ PreviewExpires
  \/ Install
  \/ Interrupted
  \/ Locks
  \/ GuardUpdate
  \/ FinishQuickUnlock
  \/ OutsideWrites
  \/ BackupFileChanges
  \/ Restart

Spec == Init /\ [][Next]_vars

-----------------------------------------------------------------------------
(* Properties *)

\* The variables have their types, and the core holds an open Vault in the open phases and
\* in no other.
TypeOK ==
  /\ core \in Core
  /\ core.memory # None <=> core.phase \in OpenPhases
  /\ disk \in Option(Version) /\ chosen \in Option(Version)
  /\ jobs \subseteq Job /\ files \subseteq Version
  /\ made \in Nat /\ interrupted \in Nat /\ confirmed \subseteq Nat
  /\ tampered \in BOOLEAN
  /\ last \in Option([id : Nat, begun : World, found : World])

\* What an operation is committed to is what the owner was asked about: the same phase, the
\* same open Vault, the same file, however long the derivation took and whatever came in
\* between (`validate_native`, with everything that calls `invalidate_native`).
CommitsFresh == last # None => last.found = last.begun

\* No operation is committed that had begun before a lock, a lost focus, a cancel, a picked
\* file or a Sharing Guard that went up, even if everything is as it was when it comes back.
Undisturbed == [][last' # last /\ last' # None => last'.id > interrupted]_vars

\* The document in memory is the saved one whenever the owner can read or change it: a save
\* that failed has been undone in memory ("memory never differs from disk", `mutate`).
SavedIsOpen ==
  core.phase \in {"Unlocked", "Reset"} /\ ~tampered => core.memory = disk

\* A version that the app writes continues the one it replaces: no operation that worked on
\* an older one in the background writes over newer changes.
NoLostUpdate ==
  [][disk' \notin files \cup {disk} /\ disk # None /\ ~tampered => disk'.base = disk.number]_vars

\* Every wallet value can be opened with the keys of the Vault it is in, through rotations
\* of the keys while wallet values are being sealed.
WalletReadable == \A v \in files : v.wallet \subseteq {v.keys}

\* No keys reach the disk whose Recovery Kit was not confirmed, by a new Vault or a rotation.
KitConfirmed == \A v \in files : v.keys \in confirmed

\* What a preview says of the Notes it would replace is still so when Replace is pressed.
PreviewCompares ==
  core.preview # None /\ core.preview.against # None /\ ~tampered =>
    core.preview.against.notes = disk.notes

\* "A pending preview's "older than current" no longer holds" after a change, so that no
\* preview outlives one.
PreviewWarns ==
  core.preview # None /\ core.preview.against # None /\ ~tampered =>
    core.preview.against.counter = disk.counter
=============================================================================
