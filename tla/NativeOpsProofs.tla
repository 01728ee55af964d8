--------------------------- MODULE NativeOpsProofs ---------------------------
(***************************************************************************)
(* For any number of versions, operations and workers: what an operation   *)
(* commits is what it was asked about, nothing newer is written over, and  *)
(* no keys reach the disk without a confirmed Recovery Kit.                *)
(***************************************************************************)
EXTENDS NativeOps, TLAPS

-----------------------------------------------------------------------------
(* Methods of the core *)

IsCore(c) == c \in Core /\ (c.memory # None <=> c.phase \in OpenPhases)

\* A core in which no operation is pending, for the same process.
Idle(d, c) == d.pending = None /\ d.sequence = c.sequence

LEMMA InvalidatedCore ==
  ASSUME NEW c, IsCore(c)
  PROVE  /\ IsCore(InvalidateNative(c)) /\ Idle(InvalidateNative(c), c)
         /\ InvalidateNative(c).phase = c.phase /\ InvalidateNative(c).memory = c.memory
         /\ InvalidateNative(c).preview = c.preview
  <1> DEFINE a == [c EXCEPT !.pending = None]
             b == [a EXCEPT !.epoch = c.epoch + 1]
  <1>1. InvalidateNative(c) = b
    BY Zenon DEF InvalidateNative
  <1>2. IsCore(a) /\ Idle(a, c) /\ a.phase = c.phase /\ a.memory = c.memory /\ a.preview = c.preview
    BY DEF IsCore, Core, Idle, Option
  <1>3. c.epoch + 1 \in Nat
    BY DEF IsCore, Core
  <1> HIDE DEF a
  <1>4. IsCore(b) /\ Idle(b, a) /\ b.phase = a.phase /\ b.memory = a.memory /\ b.preview = a.preview
    BY <1>2, <1>3 DEF IsCore, Core, Idle
  <1> QED
    BY <1>1, <1>2, <1>4 DEF Idle

LEMMA SessionCore ==
  ASSUME NEW c, IsCore(c)
  PROVE  /\ IsCore(InitializeSession(c))
         /\ InitializeSession(c).pending = c.pending /\ InitializeSession(c).sequence = c.sequence
         /\ InitializeSession(c).phase = c.phase /\ InitializeSession(c).memory = c.memory
  BY DEF IsCore, Core, InitializeSession

LEMMA PhaseCore ==
  ASSUME NEW c, IsCore(c), NEW phase \in Phase, NEW v \in Option(Version),
         v # None <=> phase \in OpenPhases
  PROVE  /\ IsCore(SetPhase(c, phase, v)) /\ Idle(SetPhase(c, phase, v), c)
         /\ SetPhase(c, phase, v).phase = phase /\ SetPhase(c, phase, v).memory = v
         /\ SetPhase(c, phase, v).preview = None
  <1>1. IsCore(InvalidateNative(c)) /\ Idle(InvalidateNative(c), c)
    BY InvalidatedCore
  <1> HIDE DEF InvalidateNative
  <1> QED
    BY <1>1 DEF IsCore, Core, SetPhase, Option, Idle

LEMMA ForgottenCore ==
  ASSUME NEW c, IsCore(c)
  PROVE  /\ IsCore(ForgetOpenVaults(c)) /\ Idle(ForgetOpenVaults(c), c)
         /\ ForgetOpenVaults(c).preview = None
         /\ ForgetOpenVaults(c).phase = IF c.phase \in {"NoVault", "KitNew"} THEN "NoVault"
                                        ELSE "Locked"
  BY PhaseCore DEF ForgetOpenVaults, Phase, OpenPhases, Option

LEMMA MutatedCore ==
  ASSUME NEW c, IsCore(c), NEW v \in Version, NEW saves \in BOOLEAN, c.phase \in OpenPhases
  PROVE  /\ IsCore(Mutated(c, v, saves)) /\ Idle(Mutated(c, v, saves), c)
         /\ Mutated(c, v, saves).phase = c.phase /\ Mutated(c, v, saves).preview = None
         /\ Mutated(c, v, saves).memory = IF saves THEN v ELSE c.memory
  <1>1. /\ IsCore(InvalidateNative(c)) /\ Idle(InvalidateNative(c), c)
        /\ InvalidateNative(c).phase = c.phase /\ InvalidateNative(c).memory = c.memory
    BY InvalidatedCore
  <1> QED
    BY <1>1, NoneAssumption DEF IsCore, Core, Mutated, Option, Idle

LEMMA FinishedCore ==
  ASSUME IsCore(core)
  PROVE  /\ IsCore(Finished) /\ Idle(Finished, core)
         /\ Finished.phase = core.phase /\ Finished.memory = core.memory
         /\ Finished.preview = core.preview
  BY DEF IsCore, Core, Finished, Option, Idle

LEMMA RefusedCore ==
  ASSUME IsCore(core), NEW id
  PROVE  /\ IsCore(Refused(core, id)) /\ Refused(core, id).sequence = core.sequence
         /\ Refused(core, id).phase = core.phase /\ Refused(core, id).memory = core.memory
         /\ Refused(core, id).preview = core.preview
         /\ Refused(core, id).pending \in {None, core.pending}
  BY InvalidatedCore DEF Refused, Idle

LEMMA RevokedCore ==
  ASSUME IsCore(core), NEW action
  PROVE  /\ IsCore(PreviewRevoked(core, action))
         /\ PreviewRevoked(core, action).sequence = core.sequence
         /\ PreviewRevoked(core, action).phase = core.phase
         /\ PreviewRevoked(core, action).memory = core.memory
         /\ PreviewRevoked(core, action).pending = core.pending
         /\ PreviewRevoked(core, action).epoch = core.epoch
         /\ PreviewRevoked(core, action).generation = core.generation
         /\ PreviewRevoked(core, action).preview \in {None, core.preview}
  BY DEF PreviewRevoked, IsCore, Core, Option

LEMMA CleanCore ==
  ASSUME IsCore(core)
  PROVE  /\ IsCore([InvalidateNative(core) EXCEPT !.preview = None])
         /\ Idle([InvalidateNative(core) EXCEPT !.preview = None], core)
         /\ [InvalidateNative(core) EXCEPT !.preview = None].phase = core.phase
         /\ [InvalidateNative(core) EXCEPT !.preview = None].memory = core.memory
         /\ [InvalidateNative(core) EXCEPT !.preview = None].preview = None
  <1>1. /\ IsCore(InvalidateNative(core)) /\ Idle(InvalidateNative(core), core)
        /\ InvalidateNative(core).phase = core.phase /\ InvalidateNative(core).memory = core.memory
    BY InvalidatedCore
  <1> QED
    BY <1>1 DEF IsCore, Core, Option, Idle

LEMMA ClosedCore ==
  ASSUME NEW on \in Option(Version)
  PROVE  /\ IsCore(Closed(on)) /\ Closed(on).pending = None /\ Closed(on).sequence = 0
         /\ Closed(on).phase = IF on = None THEN "NoVault" ELSE "Locked"
         /\ Closed(on).preview = None
  BY DEF Closed, IsCore, Core, Option, Phase, OpenPhases

-----------------------------------------------------------------------------
(* Versions *)

LEMMA NewerVersion ==
  ASSUME made \in Nat, NEW v \in Version
  PROVE  /\ Newer(v) \in Version /\ Newer(v).base = v.number
         /\ Newer(v).keys = v.keys /\ Newer(v).wallet = v.wallet /\ Newer(v).notes = v.notes
  <1> DEFINE a == [v EXCEPT !.number = Fresh]
             b == [a EXCEPT !.base = v.number]
             c == [b EXCEPT !.counter = v.counter + 1]
  <1>1. Newer(v) = c
    BY Zenon DEF Newer
  <1>2. a \in Version /\ a.keys = v.keys /\ a.wallet = v.wallet /\ a.notes = v.notes
    BY DEF Version, Fresh
  <1> HIDE DEF a
  <1>3. b \in Version /\ b.base = v.number /\ b.keys = v.keys /\ b.wallet = v.wallet
        /\ b.notes = v.notes
    BY <1>2 DEF Version
  <1> HIDE DEF b
  <1>4. c \in Version /\ c.base = v.number /\ c.keys = v.keys /\ c.wallet = v.wallet
        /\ c.notes = v.notes
    BY <1>3 DEF Version
  <1> QED
    BY <1>1, <1>4

LEMMA EditedVersion ==
  ASSUME made \in Nat, NEW v \in Version, NEW sealedWith \in SUBSET Nat
  PROVE  /\ Edited(v, sealedWith) \in Version /\ Edited(v, sealedWith).base = v.number
         /\ Edited(v, sealedWith).keys = v.keys
         /\ Edited(v, sealedWith).wallet = v.wallet \cup sealedWith
  <1> DEFINE w == Newer(v)
             a == [w EXCEPT !.notes = Fresh]
             b == [a EXCEPT !.wallet = w.wallet \cup sealedWith]
  <1>1. Edited(v, sealedWith) = b
    BY Zenon DEF Edited
  <1>2. w \in Version /\ w.base = v.number /\ w.keys = v.keys /\ w.wallet = v.wallet
    BY NewerVersion
  <1> HIDE DEF w
  <1>3. a \in Version /\ a.base = w.base /\ a.keys = w.keys
    BY <1>2 DEF Version, Fresh
  <1> HIDE DEF a
  <1>4. w.wallet \cup sealedWith \in SUBSET Nat
    BY <1>2 DEF Version
  <1>5. b \in Version /\ b.base = a.base /\ b.keys = a.keys /\ b.wallet = w.wallet \cup sealedWith
    BY <1>3, <1>4 DEF Version
  <1> QED
    BY <1>1, <1>2, <1>3, <1>5

LEMMA RotatedVersion ==
  ASSUME made \in Nat, NEW v \in Version
  PROVE  /\ Rotated(v) \in Version /\ Rotated(v).base = v.number
         /\ Rotated(v).wallet \subseteq {Rotated(v).keys}
  <1> DEFINE w == Newer(v)
             sealed == IF w.wallet = {} THEN {} ELSE {Fresh}
             a == [w EXCEPT !.keys = Fresh]
             b == [a EXCEPT !.wallet = sealed]
  <1>1. Rotated(v) = b
    BY Zenon DEF Rotated
  <1>2. w \in Version /\ w.base = v.number
    BY NewerVersion
  <1>3. Fresh \in Nat /\ sealed \in SUBSET Nat /\ sealed \subseteq {Fresh}
    BY DEF Fresh
  <1> HIDE DEF w, sealed
  <1>4. a \in Version /\ a.base = w.base /\ a.keys = Fresh
    BY <1>2, <1>3 DEF Version
  <1> HIDE DEF a
  <1>5. b \in Version /\ b.base = a.base /\ b.keys = a.keys /\ b.wallet = sealed
    BY <1>3, <1>4 DEF Version
  <1> QED
    BY <1>1, <1>2, <1>3, <1>4, <1>5

LEMMA FirstIsVersion ==
  ASSUME made \in Nat
  PROVE  FirstVersion \in Version /\ FirstVersion.wallet = {}
  BY DEF FirstVersion, Version, Fresh

-----------------------------------------------------------------------------
(* The inductive invariant *)

\* The operation that waits: nothing it was asked about has changed but, perhaps, a file.
Snapshot ==
  /\ interrupted <= core.sequence
  /\ core.pending # None =>
       /\ core.pending.begun = [phase |-> core.phase, memory |-> core.memory,
                                disk |-> core.pending.disk]
       /\ interrupted < core.pending.id /\ core.pending.id <= core.sequence
       /\ core.pending.inspection \in Option(files)
       /\ core.pending.action # None =>
            /\ core.phase \in AllowedIn(core.pending.action)
            /\ core.pending.action = "inspect" <=> core.pending.inspection # None

\* What the worker of the waiting operation opens.
BytesOf(action) ==
  IF action = "inspect" THEN core.pending.inspection
  ELSE IF core.phase = "Locked" THEN core.pending.disk
  ELSE IF core.phase \in {"Unlocked", "Reset"} THEN core.memory
  ELSE None

\* What it compares with: the locked file, if a copy is being looked at.
LockedFile(action) ==
  IF action = "inspect" /\ core.phase = "Locked" THEN core.pending.disk ELSE None

\* The workers: numbers are not used twice, and the one that is waited for works on what
\* its operation was asked about.
Workers ==
  \A job \in jobs :
    /\ job.id <= core.sequence
    /\ core.pending # None /\ core.pending.id = job.id =>
         /\ job.begun = core.pending.begun
         /\ core.phase \in AllowedIn(job.action)
         /\ job.bytes = BytesOf(job.action)
         /\ job.action = "inspect" => job.bytes # None
         /\ job.locked = LockedFile(job.action)

\* Where versions may be: only a Kit that waits for its confirmation is not on the disk.
Contents ==
  /\ disk \in Option(files) /\ chosen \in Option(files)
  /\ core.phase \in {"Unlocked", "Reset"} => core.memory \in files
  /\ core.preview # None => core.preview.version \in files

\* Keys and wallet values, on the disk and in a Kit that waits.
Sealed ==
  /\ WalletReadable /\ KitConfirmed
  /\ core.phase \in {"KitNew", "KitRotation"} => core.memory.wallet \subseteq {core.memory.keys}

\* How the open Vault continues the file.
Current ==
  /\ SavedIsOpen
  /\ core.phase \in {"NoVault", "KitNew"} /\ ~tampered => disk = None
  /\ core.phase = "KitRotation" /\ ~tampered /\ disk # None => core.memory.base = disk.number

\* What a preview was compared with: the open Vault or, while it is locked, the file.  The Notes
\* of the open Vault are those of the preview even while another program's file is in its place,
\* because a password change saves them over that file.
Comparison(preview) ==
  \/ preview.against = None
  \/ core.phase = "Unlocked" /\ preview.against.notes = core.memory.notes
  \/ core.phase = "Locked" /\ (tampered \/ preview.against = disk)

Previews == core.preview # None => Comparison(core.preview)

Inv == TypeOK /\ Snapshot /\ Workers /\ Contents /\ Sealed /\ Current /\ Previews

LEMMA CoreIsCore == TypeOK => IsCore(core)
  BY DEF TypeOK, IsCore

LEMMA NowIsWorld == TypeOK => Now \in World
  BY DEF TypeOK, Now, World, Core

LEMMA InitInv == Init => Inv
  <1> SUFFICES ASSUME Init PROVE Inv
    OBVIOUS
  <1>1. FromElsewhere \in Version /\ FromElsewhere.wallet = {} /\ FromElsewhere.keys = 1
    BY DEF FromElsewhere, Version
  <1>2. /\ IsCore(core) /\ core.pending = None /\ core.sequence = 0 /\ core.phase = "NoVault"
        /\ core.preview = None
    BY ClosedCore DEF Init, Option
  <1>3. TypeOK
    <2>1. core \in Core /\ (core.memory # None <=> core.phase \in OpenPhases)
      BY <1>2 DEF IsCore
    <2>2. disk \in Option(Version) /\ chosen \in Option(Version)
      BY DEF Init, Option
    <2>3. jobs \subseteq Job /\ files \subseteq Version
      BY <1>1 DEF Init
    <2>4. made \in Nat /\ interrupted \in Nat /\ confirmed \subseteq Nat
      <3>1. made \in {0, 1} /\ interrupted = 0 /\ confirmed \in {{}, {1}}
        BY Zenon DEF Init
      <3> QED
        BY <3>1
    <2>6. tampered \in BOOLEAN
      BY DEF Init
    <2>5. last \in Option([id : Nat, begun : World, found : World])
      BY DEF Init, Option
    <2> QED
      BY <2>1, <2>2, <2>3, <2>4, <2>5, <2>6 DEF TypeOK
  <1>4. Snapshot /\ Workers /\ Contents /\ Current /\ Previews
    BY <1>2 DEF Init, Snapshot, Workers, Contents, Current, Previews, SavedIsOpen, Option
  <1>5. Sealed
    BY <1>1, <1>2 DEF Init, Sealed, WalletReadable, KitConfirmed
  <1> QED
    BY <1>3, <1>4, <1>5 DEF Inv

-----------------------------------------------------------------------------
(* What a step does to the Vault *)

Unsaved == disk' = disk /\ files' = files

\* Nothing, or an end without effect.
SameVault ==
  /\ core'.phase = core.phase /\ core'.memory = core.memory
  /\ Unsaved /\ tampered' = tampered

\* It is locked.
Shut ==
  /\ Unsaved
  /\ \/ core'.phase = "Locked"
     \/ core'.phase = "NoVault" /\ disk = None
     \/ core'.phase = "NoVault" /\ core.phase \in {"NoVault", "KitNew"} /\ tampered' = tampered

\* Another program writes the file.
WrittenOutside == core' = core /\ files' = files /\ disk' \in files /\ tampered'

\* The file is opened as it is.
Opened ==
  /\ core'.phase \in {"Unlocked", "Reset"} /\ core'.memory = disk
  /\ disk # None /\ Unsaved

\* A version is written, and it is the open one.
Written ==
  \E v \in Version :
    /\ core'.phase \in {"Unlocked", "Reset"} /\ core'.memory = v
    /\ disk' = v /\ files' = files \cup {v}
    /\ v.wallet \subseteq {v.keys} /\ v.keys \in confirmed'
    /\ v \in files \/ tampered \/ disk = None \/ v.base = disk.number

\* New keys, which nothing was saved with yet.
KitMade ==
  /\ Unsaved /\ tampered' = tampered
  /\ core'.memory.wallet \subseteq {core'.memory.keys}
  /\ \/ core'.phase = "KitNew" /\ core.phase = "NoVault"
     \/ core'.phase = "KitRotation" /\ core.phase = "Unlocked"
        /\ core'.memory.base = core.memory.number

\* The open Vault is written again with the same Notes.
SameNotes ==
  core.phase = "Unlocked" /\ core'.phase = "Unlocked" /\ core'.memory.notes = core.memory.notes

\* A preview outlives only a step that leaves what it was compared with; a new one is of a copy
\* that is compared with what is there now.
PreviewStep ==
  core'.preview # None =>
    \/ core'.preview = core.preview /\ (SameVault \/ WrittenOutside \/ SameNotes)
    \/ SameVault /\ core'.preview.version \in files /\ Comparison(core'.preview)

VaultStep ==
  /\ SameVault \/ Shut \/ WrittenOutside \/ Opened \/ Written \/ KitMade
  /\ confirmed \subseteq confirmed'
  /\ PreviewStep
  /\ chosen' \in {None, chosen} \cup files

\* What a step does to the operations and their workers, when it neither begins nor
\* prepares one.
Ended ==
  /\ core'.pending = None /\ core'.sequence = core.sequence
  /\ jobs' \subseteq jobs /\ interrupted' \in {interrupted, core.sequence}

Undecided ==
  /\ core'.pending = core.pending /\ core'.sequence = core.sequence
  /\ core'.phase = core.phase /\ core'.memory = core.memory
  /\ jobs' \subseteq jobs /\ interrupted' = interrupted

Restarted == core'.pending = None /\ core'.sequence = 0 /\ jobs' = {} /\ interrupted' = 0

OperationStep == Ended \/ Undecided \/ Restarted

CommitStep ==
  \/ last' \in {None, last}
  \/ /\ last' \in [id : Nat, begun : World, found : World]
     /\ last'.found = last'.begun /\ last'.id > interrupted

\* What is there to keep: the types, and all of the above.
Step ==
  /\ IsCore(core') /\ made' \in Nat /\ tampered' \in BOOLEAN /\ confirmed' \subseteq Nat
  /\ VaultStep /\ CommitStep

-----------------------------------------------------------------------------
(* What the steps preserve *)

LEMMA FilesGrow ==
  ASSUME Inv, Step
  PROVE  files \subseteq files' /\ files' \subseteq Version
  BY DEF Inv, TypeOK, Step, VaultStep, SameVault, Unsaved, Shut, WrittenOutside, Opened, Written,
         KitMade

LEMMA StepContents == Inv /\ Step => Contents'
  <1> SUFFICES ASSUME Inv, Step PROVE Contents'
    OBVIOUS
  <1>1. files \subseteq files'
    BY FilesGrow
  <1>2. chosen' \in Option(files')
    BY <1>1 DEF Inv, Contents, Step, VaultStep, Option
  <1>3. core'.preview # None => core'.preview.version \in files'
    BY <1>1 DEF Inv, Contents, Step, VaultStep, PreviewStep
  <1>4. disk' \in Option(files') /\ (core'.phase \in {"Unlocked", "Reset"} => core'.memory \in files')
    <2>1. CASE SameVault
      BY <2>1, <1>1 DEF Inv, Contents, SameVault, Unsaved, Option
    <2>2. CASE Shut
      BY <2>2, <1>1 DEF Inv, Contents, Shut, Unsaved, Option
    <2>3. CASE WrittenOutside
      BY <2>3, <1>1 DEF Inv, Contents, WrittenOutside, Option
    <2>4. CASE Opened
      BY <2>4, <1>1 DEF Inv, Contents, Opened, Unsaved, Option
    <2>5. CASE Written
      BY <2>5, <1>1 DEF Written, Option
    <2>6. CASE KitMade
      BY <2>6, <1>1 DEF Inv, Contents, KitMade, Unsaved, Option
    <2> QED
      BY <2>1, <2>2, <2>3, <2>4, <2>5, <2>6 DEF Step, VaultStep
  <1> QED
    BY <1>2, <1>3, <1>4 DEF Contents

LEMMA StepSealed == Inv /\ Step => Sealed'
  <1> SUFFICES ASSUME Inv, Step PROVE Sealed'
    OBVIOUS
  <1>1. confirmed \subseteq confirmed'
    BY DEF Step, VaultStep
  <1>2. CASE SameVault
    BY <1>1, <1>2 DEF Inv, Sealed, WalletReadable, KitConfirmed, SameVault, Unsaved
  <1>3. CASE Shut
    BY <1>1, <1>3 DEF Inv, Sealed, WalletReadable, KitConfirmed, Shut, Unsaved
  <1>4. CASE WrittenOutside
    BY <1>1, <1>4 DEF Inv, Sealed, WalletReadable, KitConfirmed, WrittenOutside
  <1>5. CASE Opened
    BY <1>1, <1>5 DEF Inv, Sealed, WalletReadable, KitConfirmed, Opened, Unsaved
  <1>6. CASE Written
    BY <1>1, <1>6 DEF Inv, Sealed, WalletReadable, KitConfirmed, Written
  <1>7. CASE KitMade
    BY <1>1, <1>7 DEF Inv, Sealed, WalletReadable, KitConfirmed, KitMade, Unsaved
  <1> QED
    BY <1>2, <1>3, <1>4, <1>5, <1>6, <1>7 DEF Step, VaultStep

LEMMA StepCurrent == Inv /\ Step => Current'
  <1> SUFFICES ASSUME Inv, Step PROVE Current'
    OBVIOUS
  <1>1. CASE SameVault
    BY <1>1 DEF Inv, Current, SavedIsOpen, SameVault, Unsaved
  <1>2. CASE Shut
    BY <1>2 DEF Inv, Current, SavedIsOpen, Shut, Unsaved
  <1>3. CASE WrittenOutside
    BY <1>3 DEF Current, SavedIsOpen, WrittenOutside
  <1>4. CASE Opened
    BY <1>4 DEF Current, SavedIsOpen, Opened, Unsaved
  <1>5. CASE Written
    BY <1>5 DEF Current, SavedIsOpen, Written
  <1>6. CASE KitMade
    BY <1>6 DEF Inv, Current, SavedIsOpen, KitMade, Unsaved
  <1> QED
    BY <1>1, <1>2, <1>3, <1>4, <1>5, <1>6 DEF Step, VaultStep

LEMMA StepPreviews == Inv /\ Step => Previews'
  <1> SUFFICES ASSUME Inv, Step, core'.preview # None PROVE Comparison(core.preview)'
    BY DEF Previews
  <1>1. CASE core'.preview = core.preview
    <2>1. Comparison(core.preview)
      BY <1>1 DEF Inv, Previews
    <2>2. CASE SameVault
      BY <1>1, <2>1, <2>2 DEF Comparison, SameVault, Unsaved
    <2>3. CASE WrittenOutside
      BY <2>1, <2>3 DEF Comparison, WrittenOutside
    <2>4. CASE SameNotes
      BY <1>1, <2>1, <2>4 DEF Comparison, SameNotes
    <2>5. CASE SameVault /\ Comparison(core'.preview)
      BY <2>5 DEF Comparison, SameVault, Unsaved
    <2> QED
      BY <2>2, <2>3, <2>4, <2>5 DEF Step, VaultStep, PreviewStep
  <1>2. CASE core'.preview # core.preview
    <2>1. SameVault /\ Comparison(core'.preview)
      BY <1>2 DEF Step, VaultStep, PreviewStep
    <2> QED
      BY <2>1 DEF Comparison, SameVault, Unsaved
  <1> QED
    BY <1>1, <1>2

LEMMA StepOperations == Inv /\ Step /\ OperationStep => Snapshot' /\ Workers'
  <1> SUFFICES ASSUME Inv, Step, OperationStep PROVE Snapshot' /\ Workers'
    OBVIOUS
  <1>1. files \subseteq files'
    BY FilesGrow
  <1>2. core.sequence \in Nat /\ interrupted \in Nat
    BY DEF Inv, TypeOK, Core
  <1>3. CASE Ended
    BY <1>2, <1>3 DEF Inv, Snapshot, Workers, Ended
  <1>4. CASE Undecided
    <2>1. Snapshot'
      BY <1>1, <1>4 DEF Inv, Snapshot, Undecided, Option
    <2>2. Workers'
      BY <1>4 DEF Inv, Workers, Undecided, BytesOf, LockedFile
    <2> QED
      BY <2>1, <2>2
  <1>5. CASE Restarted
    BY <1>5 DEF Snapshot, Workers, Restarted
  <1> QED
    BY <1>3, <1>4, <1>5 DEF OperationStep

LEMMA StepTypes == Inv /\ Step /\ jobs' \subseteq Job /\ interrupted' \in Nat => TypeOK'
  <1> SUFFICES ASSUME Inv, Step, jobs' \subseteq Job, interrupted' \in Nat
               PROVE  TypeOK'
    OBVIOUS
  <1>1. files' \subseteq Version /\ Contents'
    BY FilesGrow, StepContents
  <1>2. disk' \in Option(Version) /\ chosen' \in Option(Version)
    BY <1>1 DEF Contents, Option
  <1>3. last' \in Option([id : Nat, begun : World, found : World])
    BY DEF Inv, TypeOK, Step, CommitStep, Option
  <1> QED
    BY <1>1, <1>2, <1>3 DEF Step, TypeOK, IsCore

LEMMA StepInv == Inv /\ Step /\ OperationStep => Inv'
  <1> SUFFICES ASSUME Inv, Step, OperationStep PROVE Inv'
    OBVIOUS
  <1>1. jobs' \subseteq Job /\ interrupted' \in Nat
    BY DEF Inv, TypeOK, Core, OperationStep, Ended, Undecided, Restarted
  <1> QED
    BY <1>1, StepTypes, StepContents, StepSealed, StepCurrent, StepPreviews, StepOperations DEF Inv

-----------------------------------------------------------------------------
(* Operations begin, are prepared, and end *)

\* What an accepted answer says of the operation it answers.
LEMMA AcceptedJob ==
  ASSUME Inv, NEW job \in jobs, Accepted(job)
  PROVE  /\ IsCore(core) /\ IsCore(Finished) /\ Idle(Finished, core)
         /\ Finished.phase = core.phase /\ Finished.memory = core.memory
         /\ Finished.preview = core.preview
         /\ job \in Job /\ job.begun = Now /\ job.id > interrupted
         /\ core.phase \in AllowedIn(job.action)
         /\ job.action # "inspect" /\ core.phase = "Locked" => job.bytes = disk
         /\ job.action # "inspect" /\ core.phase \in {"Unlocked", "Reset"} => job.bytes = core.memory
         /\ job.action = "inspect" => job.bytes \in files
         /\ job.locked # None => job.locked = disk /\ core.phase = "Locked"
         /\ jobs' \subseteq jobs
  <1>1. core.pending # None /\ core.pending.id = job.id /\ core.pending.disk = disk
    BY DEF Accepted, Holds
  <1>2. job.begun = Now /\ job.id > interrupted
    BY <1>1 DEF Inv, Snapshot, Workers, Now
  <1>3. /\ core.phase \in AllowedIn(job.action) /\ job.bytes = BytesOf(job.action)
        /\ job.locked = LockedFile(job.action)
    BY <1>1 DEF Inv, Workers
  <1>4. job.action = "inspect" => job.bytes \in files
    BY <1>1, <1>3 DEF Inv, Workers, Snapshot, BytesOf, Option
  <1>5. job \in Job /\ jobs' \subseteq jobs
    BY DEF Inv, TypeOK, Accepted, Arrives
  <1>6. /\ IsCore(core) /\ IsCore(Finished) /\ Idle(Finished, core)
        /\ Finished.phase = core.phase /\ Finished.memory = core.memory
        /\ Finished.preview = core.preview
    BY CoreIsCore, FinishedCore DEF Inv
  <1> QED
    BY <1>1, <1>2, <1>3, <1>4, <1>5, <1>6 DEF BytesOf, LockedFile

LEMMA CommitIsFresh ==
  ASSUME Inv, NEW job \in jobs, Accepted(job), Noted(job)
  PROVE  CommitStep
  <1>1. job \in Job /\ job.begun = Now /\ job.id > interrupted
    BY AcceptedJob
  <1>2. Now \in World
    BY NowIsWorld DEF Inv
  <1> QED
    BY <1>1, <1>2 DEF Noted, CommitStep, Job

LEMMA BeginsInv ==
  ASSUME Inv, NEW action \in Action, BeginNative(action)
  PROVE  Inv' /\ Step
  <1> DEFINE a == PreviewRevoked(core, action)
             pending == [id |-> core.sequence + 1, action |-> action, epoch |-> core.epoch,
                         generation |-> core.generation, phase |-> PhaseTag(core.phase),
                         counter |-> Counter(core), disk |-> disk,
                         inspection |-> IF action = "inspect" THEN chosen ELSE None,
                         begun |-> Now]
             b == [a EXCEPT !.sequence = core.sequence + 1]
             c == [b EXCEPT !.pending = pending]
  <1>1. IsCore(core) /\ core.sequence \in Nat /\ core.epoch \in Nat /\ core.generation \in Nat
    BY CoreIsCore DEF Inv, IsCore, Core
  <1>2. /\ IsCore(a) /\ a.sequence = core.sequence /\ a.phase = core.phase
        /\ a.memory = core.memory /\ a.preview \in {None, core.preview}
    BY <1>1, RevokedCore
  <1>3. a.sequence = core.sequence /\ a.epoch = core.epoch /\ a.generation = core.generation
    BY <1>1, RevokedCore
  <1>4. core' = c
    BY <1>3 DEF BeginNative
  <1>5. pending \in Pending
    <2>1. PhaseTag(core.phase) \in {"NoVault", "Kit", "Locked", "Reset", "Unlocked"}
      BY <1>1 DEF PhaseTag, IsCore, Core, Phase
    <2>2. Counter(core) \in Option(Nat)
      BY <1>1 DEF Counter, IsCore, Core, Option, Version
    <2>3. disk \in Option(Version) /\ chosen \in Option(Version) /\ None \in Option(Version)
      BY DEF Inv, TypeOK, Option
    <2>4. Now \in World /\ action \in Option(Action)
      BY NowIsWorld DEF Inv, Option
    <2> QED
      BY <1>1, <2>1, <2>2, <2>3, <2>4 DEF Pending
  <1> HIDE DEF a, pending
  <1>6. /\ IsCore(b) /\ b.sequence = core.sequence + 1 /\ b.phase = core.phase
        /\ b.memory = core.memory /\ b.preview = a.preview
    BY <1>1, <1>2 DEF IsCore, Core
  <1> HIDE DEF b
  <1>7. /\ IsCore(c) /\ c.sequence = core.sequence + 1 /\ c.phase = core.phase
        /\ c.memory = core.memory /\ c.preview = a.preview /\ c.pending = pending
    BY <1>5, <1>6 DEF IsCore, Core, Option
  <1> HIDE DEF c
  <1>8. /\ disk' = disk /\ chosen' = chosen /\ jobs' = jobs /\ made' = made /\ files' = files
        /\ confirmed' = confirmed /\ tampered' = tampered /\ last' = last
        /\ interrupted' = interrupted
    BY DEF BeginNative
  <1>9. Step
    BY <1>2, <1>4, <1>7, <1>8 DEF Step, VaultStep, PreviewStep, SameVault, Unsaved, CommitStep, Inv, TypeOK
  <1>10. Snapshot'
    <2>1. /\ pending.begun = [phase |-> core.phase, memory |-> core.memory, disk |-> pending.disk]
          /\ pending.id = core.sequence + 1 /\ pending.action = action
          /\ pending.inspection = IF action = "inspect" THEN chosen ELSE None
      BY DEF pending, Now
    <2>2. action = "inspect" => chosen # None
      BY DEF BeginNative
    <2>3. core.phase \in AllowedIn(action) /\ interrupted <= core.sequence /\ interrupted \in Nat
      BY DEF BeginNative, MayBegin, Inv, Snapshot, TypeOK
    <2>4. pending.inspection \in Option(files)
      BY <2>1 DEF Inv, Contents, Option
    <2> QED
      BY <1>1, <1>4, <1>7, <1>8, <2>1, <2>2, <2>3, <2>4 DEF Snapshot
  <1>11. Workers'
    <2>1. pending.id = core.sequence + 1
      BY DEF pending
    <2>2. \A job \in jobs : job.id \in Nat /\ job.id <= core.sequence
      BY DEF Inv, TypeOK, Job, Workers
    <2> QED
      BY <1>1, <1>4, <1>7, <1>8, <2>1, <2>2 DEF Workers
  <1>12. TypeOK' /\ Contents' /\ Sealed' /\ Current' /\ Previews'
    BY <1>8, <1>9, StepTypes, StepContents, StepSealed, StepCurrent, StepPreviews DEF Inv, TypeOK
  <1> QED
    BY <1>9, <1>10, <1>11, <1>12 DEF Inv

LEMMA PreparesInv ==
  ASSUME Inv, PrepareNative
  PROVE  Inv' /\ Step
  <1> DEFINE pending == core.pending
             job == [id |-> pending.id, action |-> pending.action, bytes |-> JobBytes(pending),
                     locked |-> IF pending.inspection # None /\ core.phase = "Locked"
                                THEN pending.disk ELSE None,
                     begun |-> pending.begun]
  <1>1. IsCore(core) /\ pending # None /\ pending.action # None /\ pending \in Pending
    BY CoreIsCore DEF PrepareNative, Inv, IsCore, Core, Option
  <1>2. /\ disk' = disk /\ chosen' = chosen /\ made' = made /\ files' = files
        /\ confirmed' = confirmed /\ tampered' = tampered /\ last' = last
        /\ interrupted' = interrupted
    BY DEF PrepareNative
  <1>3. CASE ~Holds(core, disk, chosen, pending.id)
    <2>1. core' = Refused(core, pending.id) /\ jobs' = jobs
      BY <1>3 DEF PrepareNative
    <2>2. Step
      BY <1>1, <1>2, <2>1, RefusedCore
      DEF Step, VaultStep, PreviewStep, SameVault, Unsaved, CommitStep, Inv, TypeOK
    <2>3. OperationStep
      BY <1>1, <1>2, <2>1, RefusedCore DEF OperationStep, Ended, Undecided
    <2> QED
      BY <2>2, <2>3, StepInv
  <1>4. CASE Holds(core, disk, chosen, pending.id)
    <2>1. core' = [core EXCEPT !.pending.action = None] /\ jobs' = jobs \cup {job}
      BY <1>4 DEF PrepareNative
    <2> DEFINE waiting == [pending EXCEPT !.action = None]
    <2>2. /\ waiting \in Pending /\ waiting.id = pending.id /\ waiting.begun = pending.begun
          /\ waiting.disk = pending.disk /\ waiting.inspection = pending.inspection
          /\ waiting.action = None
      BY <1>1 DEF Pending, Option
    <2>3. core' = [core EXCEPT !.pending = waiting]
      BY <1>1, <2>1 DEF IsCore, Core
    <2>4. /\ IsCore(core') /\ core'.sequence = core.sequence /\ core'.phase = core.phase
          /\ core'.memory = core.memory /\ core'.preview = core.preview /\ core'.pending = waiting
      <3> HIDE DEF waiting, pending
      <3> QED
        BY <1>1, <2>2, <2>3 DEF IsCore, Core, Option
    <2> HIDE DEF waiting
    <2>5. Step
      BY <1>2, <2>4 DEF Step, VaultStep, PreviewStep, SameVault, Unsaved, CommitStep, Inv, TypeOK
    <2>6. /\ interrupted < pending.id /\ pending.id <= core.sequence
          /\ core.phase \in AllowedIn(pending.action)
          /\ pending.action = "inspect" <=> pending.inspection # None
      BY <1>1 DEF Inv, Snapshot
    <2>7. JobBytes(pending) = BytesOf(pending.action)
      BY <2>6 DEF JobBytes, BytesOf
    <2>8. /\ job.id = pending.id /\ job.begun = pending.begun /\ job.action = pending.action
          /\ job.bytes = JobBytes(pending) /\ job.locked = LockedFile(pending.action)
      BY <2>6 DEF LockedFile
    <2>9. job \in Job
      <3>1. /\ pending.id \in Nat /\ pending.action \in Action /\ pending.begun \in World
            /\ pending.disk \in Option(Version) /\ pending.inspection \in Option(Version)
            /\ core.memory \in Option(Version) /\ None \in Option(Version)
        BY <1>1 DEF Pending, Option, IsCore, Core
      <3>2. JobBytes(pending) \in Option(Version)
        BY <3>1 DEF JobBytes
      <3>3. (IF pending.inspection # None /\ core.phase = "Locked" THEN pending.disk ELSE None)
              \in Option(Version)
        BY <3>1
      <3> QED
        BY <3>1, <3>2, <3>3 DEF Job
    <2> HIDE DEF job
    <2>10. Snapshot'
      BY <1>1, <1>2, <2>2, <2>4 DEF Inv, Snapshot
    <2>11. Workers'
      <3> SUFFICES ASSUME NEW other \in jobs'
                   PROVE  /\ other.id <= core'.sequence
                          /\ core'.pending # None /\ core'.pending.id = other.id =>
                               /\ other.begun = core'.pending.begun
                               /\ core'.phase \in AllowedIn(other.action)
                               /\ other.bytes = BytesOf(other.action)'
                               /\ other.action = "inspect" => other.bytes # None
                               /\ other.locked = LockedFile(other.action)'
        BY DEF Workers
      <3>1. /\ BytesOf(other.action)' = BytesOf(other.action)
            /\ LockedFile(other.action)' = LockedFile(other.action)
        BY <2>2, <2>4 DEF BytesOf, LockedFile
      <3>2. CASE other = job
        BY <2>2, <2>4, <2>6, <2>7, <2>8, <3>1, <3>2 DEF BytesOf
      <3>3. CASE other \in jobs
        BY <1>1, <2>2, <2>4, <3>1, <3>3 DEF Inv, Workers
      <3> QED
        BY <2>1, <3>2, <3>3
    <2>12. TypeOK' /\ Contents' /\ Sealed' /\ Current' /\ Previews'
      <3>1. jobs' \subseteq Job /\ interrupted' \in Nat
        BY <1>2, <2>1, <2>9 DEF Inv, TypeOK
      <3> QED
        BY <2>5, <3>1, StepTypes, StepContents, StepSealed, StepCurrent, StepPreviews
    <2> QED
      BY <2>5, <2>10, <2>11, <2>12 DEF Inv
  <1> QED
    BY <1>3, <1>4

\* An answer that does nothing but end its operation.
LEMMA EndsSame ==
  ASSUME Inv, Unsaved, tampered' = tampered, made' \in Nat, confirmed' = confirmed,
         chosen' = chosen, interrupted' = interrupted, CommitStep, jobs' \subseteq jobs,
         IsCore(core'), core'.sequence = core.sequence,
         core'.phase = core.phase, core'.memory = core.memory,
         core'.preview \in {None, core.preview}, core'.pending \in {None, core.pending}
  PROVE  Step /\ OperationStep
  BY DEF Step, VaultStep, PreviewStep, SameVault, OperationStep, Ended, Undecided, Inv, TypeOK

LEMMA FinishesStale == Inv /\ FinishStale => Step /\ OperationStep
  <1> SUFFICES ASSUME Inv, NEW job \in jobs, Arrives(job), core' = Refused(core, job.id),
                      UNCHANGED <<disk, chosen, made, files, confirmed, tampered, last, interrupted>>
               PROVE  Step /\ OperationStep
    BY DEF FinishStale
  <1>1. /\ IsCore(core') /\ core'.sequence = core.sequence /\ core'.phase = core.phase
        /\ core'.memory = core.memory /\ core'.preview = core.preview
        /\ core'.pending \in {None, core.pending}
    BY CoreIsCore, RefusedCore DEF Inv
  <1> QED
    BY <1>1, EndsSame DEF Arrives, Unsaved, CommitStep, Inv, TypeOK

LEMMA FinishesWithoutEffect == Inv /\ FinishWithoutEffect => Step /\ OperationStep
  <1> SUFFICES ASSUME Inv, NEW job \in jobs, Accepted(job), core' = Finished,
                      UNCHANGED <<disk, chosen, made, files, confirmed, tampered, last, interrupted>>
               PROVE  Step /\ OperationStep
    BY DEF FinishWithoutEffect
  <1> QED
    BY AcceptedJob, EndsSame DEF Idle, Unsaved, CommitStep, Inv, TypeOK

LEMMA FinishesCreate == Inv /\ FinishCreate => Step /\ OperationStep
  <1> SUFFICES ASSUME Inv, NEW job \in jobs, job.action = "create", Accepted(job), Noted(job),
                      core' = SetPhase(InitializeSession(Finished), "KitNew", Derived(job)),
                      made' = Fresh, chosen' = None, NotSaved,
                      UNCHANGED <<confirmed, interrupted>>
               PROVE  Step /\ OperationStep
    BY DEF FinishCreate
  <1>1. core.phase = "NoVault" /\ jobs' \subseteq jobs /\ IsCore(Finished) /\ Idle(Finished, core)
    BY AcceptedJob DEF AllowedIn
  <1>2. made \in Nat /\ made' \in Nat
    BY DEF Inv, TypeOK, Fresh
  <1>3. Derived(job) \in Version /\ Derived(job).wallet = {} /\ Derived(job) # None
    BY <1>2, FirstIsVersion, NoneAssumption DEF Derived
  <1>4. /\ IsCore(core') /\ core'.pending = None /\ core'.sequence = core.sequence
        /\ core'.phase = "KitNew" /\ core'.memory = Derived(job) /\ core'.preview = None
    <2>1. IsCore(InitializeSession(Finished)) /\ InitializeSession(Finished).sequence = core.sequence
      BY <1>1, SessionCore DEF Idle
    <2>2. "KitNew" \in Phase /\ "KitNew" \in OpenPhases /\ Derived(job) \in Option(Version)
      BY <1>3 DEF Phase, OpenPhases, Option
    <2> QED
      BY <1>3, <2>1, <2>2, PhaseCore DEF Idle
  <1>5. CommitStep
    BY CommitIsFresh
  <1> QED
    BY <1>1, <1>2, <1>3, <1>4, <1>5
    DEF Step, VaultStep, PreviewStep, KitMade, Unsaved, NotSaved, OperationStep, Ended, Inv, TypeOK

LEMMA FinishesConfirm == Inv /\ FinishConfirm => Step /\ OperationStep
  <1> SUFFICES ASSUME Inv, NEW job \in jobs, NEW saves \in BOOLEAN, job.action = "confirm",
                      Accepted(job), Noted(job), UNCHANGED <<made, interrupted>>,
                      IF saves
                      THEN /\ core' = SetPhase(Finished, "Unlocked", core.memory)
                           /\ chosen' = None /\ Saved(core.memory)
                           /\ confirmed' = confirmed \cup {core.memory.keys}
                      ELSE core' = Finished /\ NotSaved /\ UNCHANGED <<chosen, confirmed>>
               PROVE  Step /\ OperationStep
    BY DEF FinishConfirm
  <1>1. /\ core.phase \in {"KitNew", "KitRotation"} /\ jobs' \subseteq jobs
        /\ IsCore(core) /\ IsCore(Finished) /\ Idle(Finished, core)
        /\ Finished.phase = core.phase /\ Finished.memory = core.memory
        /\ Finished.preview = core.preview
    BY AcceptedJob DEF AllowedIn
  <1>2. CommitStep
    BY CommitIsFresh
  <1>3. CASE ~saves
    BY <1>1, <1>2, <1>3, EndsSame DEF Unsaved, NotSaved, Idle, Inv, TypeOK
  <1>4. CASE saves
    <2> DEFINE v == core.memory
    <2>1. v \in Version /\ v # None
      BY <1>1 DEF IsCore, Core, OpenPhases, Option
    <2>2. /\ IsCore(core') /\ core'.pending = None /\ core'.sequence = core.sequence
          /\ core'.phase = "Unlocked" /\ core'.memory = v /\ core'.preview = None
      <3>1. "Unlocked" \in Phase /\ "Unlocked" \in OpenPhases /\ v \in Option(Version)
        BY <2>1 DEF Phase, OpenPhases, Option
      <3> QED
        BY <1>1, <1>4, <2>1, <3>1, PhaseCore DEF Idle
    <2>3. v.wallet \subseteq {v.keys} /\ v.keys \in Nat
      BY <1>1, <2>1 DEF Inv, Sealed, Version
    <2>4. tampered \/ disk = None \/ v.base = disk.number
      BY <1>1 DEF Inv, Current
    <2>5. disk' = v /\ files' = files \cup {v} /\ tampered' = FALSE /\ chosen' = None
          /\ confirmed' = confirmed \cup {v.keys}
      BY <1>4 DEF Saved
    <2> HIDE DEF v
    <2>6. Written
      BY <2>1, <2>2, <2>3, <2>4, <2>5 DEF Written
    <2> QED
      BY <1>1, <1>2, <2>2, <2>3, <2>5, <2>6 DEF Step, VaultStep, PreviewStep, OperationStep, Ended, Inv, TypeOK
  <1> QED
    BY <1>3, <1>4

\* A version that is in the files is sealed well.
LEMMA FilesSealed ==
  ASSUME Inv, NEW v \in files
  PROVE  v \in Version /\ v # None /\ v.wallet \subseteq {v.keys} /\ v.keys \in confirmed
  BY NoneAssumption DEF Inv, TypeOK, Sealed, WalletReadable, KitConfirmed

LEMMA OpensStep ==
  ASSUME Inv, NEW c, IsCore(c), c.sequence = core.sequence, disk # None,
         NEW phase \in {"Unlocked", "Reset"}, Opens(c, phase, disk), confirmed' = confirmed
  PROVE  /\ IsCore(core') /\ core'.pending = None /\ core'.sequence = core.sequence
         /\ core'.preview = None /\ made' \in Nat /\ tampered' \in BOOLEAN
         /\ Opened \/ Written
  <1>1. disk \in files /\ disk \in Version /\ disk.wallet \subseteq {disk.keys}
        /\ disk.keys \in confirmed
    BY FilesSealed DEF Inv, Contents, Option
  <1>2. phase \in Phase /\ phase \in OpenPhases
    BY DEF Phase, OpenPhases
  <1>3. made \in Nat /\ Fresh \in Nat
    BY DEF Inv, TypeOK, Fresh
  <1>4. CASE core' = SetPhase(c, phase, disk) /\ tampered' = FALSE /\ UNCHANGED <<made, disk, files>>
    <2>1. /\ IsCore(core') /\ core'.pending = None /\ core'.sequence = core.sequence
          /\ core'.phase = phase /\ core'.memory = disk /\ core'.preview = None
      BY <1>1, <1>2, <1>4, PhaseCore, NoneAssumption DEF Idle, Option
    <2> QED
      BY <1>3, <1>4, <2>1 DEF Opened, Unsaved
  <1>5. CASE made' = Fresh /\ core' = SetPhase(c, phase, Edited(disk, {})) /\ Saved(Edited(disk, {}))
    <2> DEFINE v == Edited(disk, {})
    <2>1. v \in Version /\ v.base = disk.number /\ v.keys = disk.keys /\ v.wallet = disk.wallet \cup {}
      BY <1>1, <1>3, EditedVersion
    <2>2. disk' = v /\ files' = files \cup {v} /\ tampered' = FALSE /\ core' = SetPhase(c, phase, v)
      BY <1>5 DEF Saved
    <2> HIDE DEF v
    <2>3. /\ IsCore(core') /\ core'.pending = None /\ core'.sequence = core.sequence
          /\ core'.phase = phase /\ core'.memory = v /\ core'.preview = None
      BY <1>2, <2>1, <2>2, PhaseCore, NoneAssumption DEF Idle, Option
    <2>4. v.wallet \subseteq {v.keys} /\ v.keys \in confirmed'
      BY <1>1, <2>1
    <2>5. Written
      BY <2>1, <2>2, <2>3, <2>4 DEF Written
    <2> QED
      BY <1>3, <1>5, <2>2, <2>3, <2>5
  <1> QED
    BY <1>4, <1>5 DEF Opens

LEMMA FinishesUnlock == Inv /\ FinishUnlock => Step /\ OperationStep
  <1> SUFFICES ASSUME Inv, NEW job \in jobs, job.action \in {"unlock", "recover"}, Accepted(job),
                      Noted(job), job.bytes # None,
                      Opens(InitializeSession(Finished),
                            IF job.action = "recover" THEN "Reset" ELSE "Unlocked",
                            OpenedWith(job, TRUE).version),
                      chosen' = None, UNCHANGED <<confirmed, interrupted>>
               PROVE  Step /\ OperationStep
    BY DEF FinishUnlock
  <1>1. /\ core.phase = "Locked" /\ jobs' \subseteq jobs /\ job.bytes = disk
        /\ IsCore(Finished) /\ Idle(Finished, core)
    BY AcceptedJob DEF AllowedIn
  <1>2. CommitStep
    BY CommitIsFresh
  <1>3. OpenedWith(job, TRUE).version = disk /\ disk # None
    BY <1>1 DEF OpenedWith
  <1>4. IsCore(InitializeSession(Finished)) /\ InitializeSession(Finished).sequence = core.sequence
    BY <1>1, SessionCore DEF Idle
  <1>5. (IF job.action = "recover" THEN "Reset" ELSE "Unlocked") \in {"Unlocked", "Reset"}
    OBVIOUS
  <1>6. /\ IsCore(core') /\ core'.pending = None /\ core'.sequence = core.sequence
        /\ core'.preview = None /\ made' \in Nat /\ tampered' \in BOOLEAN
        /\ Opened \/ Written
    BY <1>3, <1>4, <1>5, OpensStep
  <1> QED
    BY <1>1, <1>2, <1>6 DEF Step, VaultStep, PreviewStep, OperationStep, Ended, Inv, TypeOK

LEMMA FinishesQuickUnlock == Inv /\ FinishQuickUnlock => Step /\ OperationStep
  <1> SUFFICES ASSUME Inv, FinishQuickUnlock PROVE Step /\ OperationStep
    OBVIOUS
  <1>1. IsCore(InitializeSession(core)) /\ InitializeSession(core).sequence = core.sequence
    BY CoreIsCore, SessionCore DEF Inv
  <1>2. /\ IsCore(core') /\ core'.pending = None /\ core'.sequence = core.sequence
        /\ core'.preview = None /\ made' \in Nat /\ tampered' \in BOOLEAN
        /\ Opened \/ Written
    BY <1>1, OpensStep DEF FinishQuickUnlock
  <1> QED
    BY <1>2 DEF FinishQuickUnlock, Step, VaultStep, PreviewStep, CommitStep, OperationStep, Ended, Inv, TypeOK

\* A save of a version that follows the open one, in a Vault that is on the disk.
LEMMA WrittenStep ==
  ASSUME Inv, core.phase \in {"Unlocked", "Reset"}, NEW v \in Version,
         v.base = core.memory.number, v.wallet \subseteq {v.keys}, v.keys = core.memory.keys,
         Saved(v), confirmed' = confirmed,
         core'.phase \in {"Unlocked", "Reset"}, core'.memory = v
  PROVE  Written /\ tampered' \in BOOLEAN
  <1>1. core.memory \in files /\ (tampered \/ core.memory = disk)
    BY DEF Inv, Contents, Current, SavedIsOpen
  <1>2. v.keys \in confirmed'
    BY <1>1, FilesSealed
  <1> QED
    BY <1>1, <1>2 DEF Saved, Written

LEMMA OpenVersion ==
  ASSUME Inv, core.phase \in {"Unlocked", "Reset"}
  PROVE  /\ core.memory \in Version /\ core.memory # None
         /\ core.memory.wallet \subseteq {core.memory.keys} /\ core.memory.keys \in Nat
         /\ made \in Nat /\ Fresh \in Nat
  <1>1. core.memory \in files
    BY DEF Inv, Contents
  <1>2. core.memory \in Version /\ core.memory # None
        /\ core.memory.wallet \subseteq {core.memory.keys}
    BY <1>1, FilesSealed
  <1> QED
    BY <1>2 DEF Version, Inv, TypeOK, Fresh

LEMMA FinishesSetPassword == Inv /\ FinishSetPassword => Step /\ OperationStep
  <1> SUFFICES ASSUME Inv, NEW job \in jobs, NEW saves \in BOOLEAN, job.action = "set_password",
                      Accepted(job), Noted(job), made' = Fresh, UNCHANGED <<confirmed, interrupted>>,
                      IF saves
                      THEN /\ core' = SetPhase(Finished, "Unlocked", Derived(job))
                           /\ chosen' = None /\ Saved(Derived(job))
                      ELSE core' = Finished /\ NotSaved /\ UNCHANGED chosen
               PROVE  Step /\ OperationStep
    BY DEF FinishSetPassword
  <1>1. /\ core.phase = "Reset" /\ jobs' \subseteq jobs /\ job.bytes = core.memory
        /\ IsCore(Finished) /\ Idle(Finished, core)
        /\ Finished.phase = core.phase /\ Finished.memory = core.memory
        /\ Finished.preview = core.preview
    BY AcceptedJob DEF AllowedIn
  <1>2. CommitStep
    BY CommitIsFresh
  <1>3. /\ core.memory \in Version /\ core.memory.wallet \subseteq {core.memory.keys}
        /\ made \in Nat /\ made' \in Nat
    BY <1>1, OpenVersion
  <1>4. CASE ~saves
    BY <1>1, <1>2, <1>3, <1>4, EndsSame DEF Unsaved, NotSaved, Idle, Inv, TypeOK
  <1>5. CASE saves
    <2> DEFINE v == Newer(core.memory)
    <2>1. /\ v \in Version /\ v.base = core.memory.number /\ v.keys = core.memory.keys
          /\ v.wallet \subseteq {v.keys}
      BY <1>3, NewerVersion
    <2>2. core' = SetPhase(Finished, "Unlocked", v) /\ chosen' = None /\ Saved(v)
      BY <1>1, <1>5 DEF Derived
    <2> HIDE DEF v
    <2>3. /\ IsCore(core') /\ core'.pending = None /\ core'.sequence = core.sequence
          /\ core'.phase = "Unlocked" /\ core'.memory = v /\ core'.preview = None
      <3>1. "Unlocked" \in Phase /\ "Unlocked" \in OpenPhases /\ v \in Option(Version) /\ v # None
        BY <2>1, NoneAssumption DEF Phase, OpenPhases, Option
      <3> QED
        BY <1>1, <2>2, <3>1, PhaseCore DEF Idle
    <2>4. Written /\ tampered' \in BOOLEAN
      BY <1>1, <2>1, <2>2, <2>3, WrittenStep
    <2> QED
      BY <1>1, <1>2, <1>3, <2>2, <2>3, <2>4 DEF Step, VaultStep, PreviewStep, OperationStep, Ended, Inv, TypeOK
  <1> QED
    BY <1>4, <1>5

LEMMA FinishesChangePassword == Inv /\ FinishChangePassword => Step /\ OperationStep
  <1> SUFFICES ASSUME Inv, NEW job \in jobs, NEW saves \in BOOLEAN, job.action = "change_password",
                      Accepted(job), Noted(job), made' = Fresh,
                      UNCHANGED <<chosen, confirmed, interrupted>>,
                      IF saves
                      THEN /\ core' = InvalidateNative([Finished EXCEPT !.memory = Derived(job)])
                           /\ Saved(Derived(job))
                      ELSE core' = Finished /\ NotSaved
               PROVE  Step /\ OperationStep
    BY DEF FinishChangePassword
  <1>1. /\ core.phase = "Unlocked" /\ jobs' \subseteq jobs /\ job.bytes = core.memory
        /\ IsCore(Finished) /\ Idle(Finished, core)
        /\ Finished.phase = core.phase /\ Finished.memory = core.memory
        /\ Finished.preview = core.preview
    BY AcceptedJob DEF AllowedIn
  <1>2. CommitStep
    BY CommitIsFresh
  <1>3. /\ core.memory \in Version /\ core.memory.wallet \subseteq {core.memory.keys}
        /\ made \in Nat /\ made' \in Nat
    BY <1>1, OpenVersion
  <1>4. CASE ~saves
    BY <1>1, <1>2, <1>3, <1>4, EndsSame DEF Unsaved, NotSaved, Idle, Inv, TypeOK
  <1>5. CASE saves
    <2> DEFINE v == Newer(core.memory)
               c == [Finished EXCEPT !.memory = v]
    <2>1. /\ v \in Version /\ v.base = core.memory.number /\ v.keys = core.memory.keys
          /\ v.wallet \subseteq {v.keys} /\ v.notes = core.memory.notes
      BY <1>3, NewerVersion
    <2>2. core' = InvalidateNative(c) /\ Saved(v)
      BY <1>1, <1>5 DEF Derived
    <2> HIDE DEF v
    <2>3. /\ IsCore(c) /\ c.sequence = core.sequence /\ c.phase = core.phase /\ c.memory = v
          /\ c.preview = core.preview
      <3> DEFINE d == Finished
      <3>1. /\ IsCore(d) /\ d.sequence = core.sequence /\ d.phase = core.phase
            /\ d.preview = core.preview /\ d.phase \in OpenPhases
        BY <1>1 DEF Idle, OpenPhases
      <3> HIDE DEF d
      <3>2. [d EXCEPT !.memory = v].memory = v /\ IsCore([d EXCEPT !.memory = v])
            /\ [d EXCEPT !.memory = v].sequence = d.sequence
            /\ [d EXCEPT !.memory = v].phase = d.phase /\ [d EXCEPT !.memory = v].preview = d.preview
        BY <2>1, <3>1, NoneAssumption DEF IsCore, Core, Option
      <3> QED
        BY <3>1, <3>2 DEF d
    <2> HIDE DEF c
    <2>4. /\ IsCore(core') /\ core'.pending = None /\ core'.sequence = core.sequence
          /\ core'.phase = "Unlocked" /\ core'.memory = v /\ core'.preview = core.preview
      BY <1>1, <2>2, <2>3, InvalidatedCore DEF Idle
    <2>5. Written /\ tampered' \in BOOLEAN
      BY <1>1, <2>1, <2>2, <2>4, WrittenStep
    <2>6. SameNotes
      BY <1>1, <2>1, <2>4 DEF SameNotes
    <2> QED
      BY <1>1, <1>2, <1>3, <2>4, <2>5, <2>6 DEF Step, VaultStep, PreviewStep, OperationStep, Ended, Inv, TypeOK
  <1> QED
    BY <1>4, <1>5

LEMMA FinishesRotate == Inv /\ FinishRotate => Step /\ OperationStep
  <1> SUFFICES ASSUME Inv, NEW job \in jobs, job.action = "rotate", Accepted(job), Noted(job),
                      made' = Fresh, chosen' = None,
                      core' = SetPhase(Finished, "KitRotation", Derived(job)), NotSaved,
                      UNCHANGED <<confirmed, interrupted>>
               PROVE  Step /\ OperationStep
    BY DEF FinishRotate
  <1>1. /\ core.phase = "Unlocked" /\ jobs' \subseteq jobs /\ job.bytes = core.memory
        /\ IsCore(Finished) /\ Idle(Finished, core)
    BY AcceptedJob DEF AllowedIn
  <1>2. CommitStep
    BY CommitIsFresh
  <1>3. core.memory \in Version /\ made \in Nat /\ made' \in Nat
    BY <1>1, OpenVersion
  <1> DEFINE v == Rotated(core.memory)
  <1>4. v \in Version /\ v.base = core.memory.number /\ v.wallet \subseteq {v.keys} /\ v # None
    BY <1>3, RotatedVersion, NoneAssumption
  <1>5. core' = SetPhase(Finished, "KitRotation", v)
    BY <1>1 DEF Derived
  <1> HIDE DEF v
  <1>6. /\ IsCore(core') /\ core'.pending = None /\ core'.sequence = core.sequence
        /\ core'.phase = "KitRotation" /\ core'.memory = v /\ core'.preview = None
    <2>1. "KitRotation" \in Phase /\ "KitRotation" \in OpenPhases /\ v \in Option(Version)
      BY <1>4 DEF Phase, OpenPhases, Option
    <2> QED
      BY <1>1, <1>4, <1>5, <2>1, PhaseCore DEF Idle
  <1> QED
    BY <1>1, <1>2, <1>3, <1>4, <1>6
    DEF Step, VaultStep, PreviewStep, KitMade, Unsaved, NotSaved, OperationStep, Ended, Inv, TypeOK

LEMMA FinishesInspect == Inv /\ FinishInspect => Step /\ OperationStep
  <1> SUFFICES ASSUME Inv, NEW job \in jobs, NEW opens \in BOOLEAN, job.action = "inspect",
                      Accepted(job), Noted(job),
                      core' = [Finished EXCEPT !.preview =
                         [version |-> OpenedWith(job, opens).version,
                          against |-> IF core.phase = "Unlocked" THEN core.memory
                                      ELSE OpenedWith(job, opens).locked]],
                      NotSaved, UNCHANGED <<chosen, made, confirmed, interrupted>>
               PROVE  Step /\ OperationStep
    BY DEF FinishInspect
  <1>1. /\ jobs' \subseteq jobs /\ job.bytes \in files /\ job \in Job
        /\ IsCore(core) /\ IsCore(Finished) /\ Idle(Finished, core)
        /\ Finished.phase = core.phase /\ Finished.memory = core.memory
        /\ job.locked # None => job.locked = disk /\ core.phase = "Locked"
    BY AcceptedJob
  <1>2. CommitStep
    BY CommitIsFresh
  <1> DEFINE against == IF core.phase = "Unlocked" THEN core.memory ELSE OpenedWith(job, opens).locked
             preview == [version |-> job.bytes, against |-> against]
             c == Finished
  <1>3. core' = [c EXCEPT !.preview = preview]
    BY DEF OpenedWith
  <1>4. preview \in Preview /\ preview.version = job.bytes
    <2>1. job.bytes \in Version
      BY <1>1, FilesSealed
    <2>2. job.locked \in Option(Version) /\ core.memory \in Option(Version) /\ None \in Option(Version)
      BY <1>1 DEF Job, IsCore, Core, Option
    <2>3. against \in Option(Version)
      BY <2>2 DEF OpenedWith
    <2> HIDE DEF against
    <2> QED
      BY <2>1, <2>3 DEF Preview
  <1>5. Comparison(preview)
    BY <1>1 DEF Comparison, OpenedWith
  <1>6. IsCore(c) /\ c.pending = None /\ c.sequence = core.sequence /\ c.phase = core.phase
        /\ c.memory = core.memory
    BY <1>1 DEF Idle
  <1> HIDE DEF c, preview
  <1>7. /\ IsCore(core') /\ core'.pending = None /\ core'.sequence = core.sequence
        /\ core'.phase = core.phase /\ core'.memory = core.memory /\ core'.preview = preview
    BY <1>3, <1>4, <1>6 DEF IsCore, Core, Option
  <1> QED
    BY <1>1, <1>2, <1>4, <1>5, <1>7
    DEF Step, VaultStep, PreviewStep, SameVault, Unsaved, NotSaved, OperationStep, Ended, Inv, TypeOK

\* `mutate` ends the operation that waits, and what it saves follows the open Vault.
LEMMA MutateStep ==
  ASSUME Inv, NEW c, IsCore(c), c.sequence = core.sequence, c.memory = core.memory,
         c.phase = core.phase, core.phase = "Unlocked", NEW v \in Version,
         v.base = core.memory.number, v.wallet \subseteq {v.keys}, v.keys = core.memory.keys,
         Mutate(c, v), confirmed' = confirmed
  PROVE  /\ IsCore(core') /\ core'.pending = None /\ core'.sequence = core.sequence
         /\ core'.preview = None /\ made' \in Nat /\ tampered' \in BOOLEAN
         /\ SameVault \/ Written
  <1>1. made' = Fresh /\ Fresh \in Nat /\ core.phase \in OpenPhases
    BY OpenVersion DEF Mutate, OpenPhases
  <1>2. PICK saves \in BOOLEAN : /\ core' = Mutated(c, v, saves)
                                 /\ IF saves THEN Saved(v) ELSE NotSaved
    BY DEF Mutate
  <1>3. /\ IsCore(core') /\ core'.pending = None /\ core'.sequence = core.sequence
        /\ core'.phase = core.phase /\ core'.preview = None
        /\ core'.memory = IF saves THEN v ELSE core.memory
    BY <1>1, <1>2, MutatedCore DEF Idle
  <1>4. CASE saves
    BY <1>1, <1>2, <1>3, <1>4, WrittenStep
  <1>5. CASE ~saves
    BY <1>1, <1>2, <1>3, <1>5 DEF SameVault, Unsaved, NotSaved, Inv, TypeOK
  <1> QED
    BY <1>4, <1>5

LEMMA FinishesEdit == Inv /\ FinishEdit => Step /\ OperationStep
  <1> SUFFICES ASSUME Inv, NEW job \in jobs, job.action \in {"edit", "edit_wallet"},
                      Accepted(job), Noted(job), core.phase = "Unlocked",
                      Mutate(Finished, Edited(core.memory,
                               IF job.action = "edit" THEN {} ELSE {OpenedWith(job, TRUE).walletKey})),
                      UNCHANGED <<chosen, confirmed, interrupted>>
               PROVE  Step /\ OperationStep
    BY DEF FinishEdit
  <1>1. /\ jobs' \subseteq jobs /\ job.bytes = core.memory
        /\ IsCore(Finished) /\ Idle(Finished, core)
        /\ Finished.phase = core.phase /\ Finished.memory = core.memory
    BY AcceptedJob
  <1>2. CommitStep
    BY CommitIsFresh
  <1>3. /\ core.memory \in Version /\ core.memory.wallet \subseteq {core.memory.keys}
        /\ core.memory.keys \in Nat /\ made \in Nat
    BY OpenVersion
  <1> DEFINE keys == IF job.action = "edit" THEN {} ELSE {OpenedWith(job, TRUE).walletKey}
             v == Edited(core.memory, keys)
  <1>4. keys \subseteq {core.memory.keys} /\ keys \in SUBSET Nat
    BY <1>1, <1>3 DEF OpenedWith
  <1> HIDE DEF keys
  <1>5. /\ v \in Version /\ v.base = core.memory.number /\ v.keys = core.memory.keys
        /\ v.wallet \subseteq {v.keys}
    BY <1>3, <1>4, EditedVersion
  <1>6. Mutate(Finished, v)
    BY DEF keys
  <1> HIDE DEF v
  <1>7. /\ IsCore(core') /\ core'.pending = None /\ core'.sequence = core.sequence
        /\ core'.preview = None /\ made' \in Nat /\ tampered' \in BOOLEAN
        /\ SameVault \/ Written
    BY <1>1, <1>5, <1>6, MutateStep DEF Idle
  <1> QED
    BY <1>1, <1>2, <1>7 DEF Step, VaultStep, PreviewStep, OperationStep, Ended, Inv, TypeOK

LEMMA EditsAtOnce == Inv /\ EditAtOnce => Step /\ OperationStep
  <1> SUFFICES ASSUME Inv, EditAtOnce PROVE Step /\ OperationStep
    OBVIOUS
  <1>1. /\ core.memory \in Version /\ core.memory.wallet \subseteq {core.memory.keys}
        /\ made \in Nat
    BY OpenVersion DEF EditAtOnce
  <1> DEFINE v == Edited(core.memory, {})
  <1>2. /\ v \in Version /\ v.base = core.memory.number /\ v.keys = core.memory.keys
        /\ v.wallet \subseteq {v.keys}
    BY <1>1, EditedVersion
  <1>3. Mutate(core, v) /\ core.phase = "Unlocked" /\ confirmed' = confirmed /\ IsCore(core)
    BY CoreIsCore DEF EditAtOnce, Inv
  <1> HIDE DEF v
  <1>4. /\ IsCore(core') /\ core'.pending = None /\ core'.sequence = core.sequence
        /\ core'.preview = None /\ made' \in Nat /\ tampered' \in BOOLEAN
        /\ SameVault \/ Written
    BY <1>2, <1>3, MutateStep
  <1> QED
    BY <1>4 DEF EditAtOnce, Step, VaultStep, PreviewStep, CommitStep, OperationStep, Ended, Inv, TypeOK

-----------------------------------------------------------------------------
(* Everything else *)

\* Everything that ends the operation that waits and leaves the Vault alone.
LEMMA InterruptsSame ==
  ASSUME Inv, Unsaved, tampered' = tampered, made' = made, confirmed' = confirmed, last' = last,
         chosen' \in {None, chosen} \cup files, interrupted' \in {interrupted, core.sequence},
         jobs' = jobs, IsCore(core'), Idle(core', core),
         core'.phase = core.phase, core'.memory = core.memory,
         core'.preview \in {None, core.preview}
  PROVE  Step /\ OperationStep
  BY DEF Step, VaultStep, PreviewStep, SameVault, CommitStep, OperationStep, Ended, Idle, Inv, TypeOK

LEMMA InterruptionSteps ==
  Inv /\ (PickBackup \/ DiscardInspection \/ Interrupted) => Step /\ OperationStep
  <1> SUFFICES ASSUME Inv, PickBackup \/ DiscardInspection \/ Interrupted PROVE Step /\ OperationStep
    OBVIOUS
  <1>1. IsCore(core)
    BY CoreIsCore DEF Inv
  <1>2. CASE PickBackup
    BY <1>1, <1>2, CleanCore, InterruptsSame DEF PickBackup, Unsaved
  <1>3. CASE DiscardInspection
    BY <1>1, <1>3, CleanCore, InterruptsSame DEF DiscardInspection, Unsaved
  <1>4. CASE Interrupted
    BY <1>1, <1>4, InvalidatedCore, InterruptsSame DEF Interrupted, Unsaved
  <1> QED
    BY <1>2, <1>3, <1>4

LEMMA BeginsRefused == Inv /\ BeginRefused => Step /\ OperationStep
  <1> SUFFICES ASSUME Inv, BeginRefused PROVE Step /\ OperationStep
    OBVIOUS
  <1> QED
    BY CoreIsCore, RevokedCore, EndsSame DEF BeginRefused, Unsaved, CommitStep, Inv, TypeOK

LEMMA ExpiryStep == Inv /\ PreviewExpires => Step /\ OperationStep
  <1> SUFFICES ASSUME Inv, PreviewExpires PROVE Step /\ OperationStep
    OBVIOUS
  <1>1. /\ IsCore(core') /\ core'.sequence = core.sequence /\ core'.phase = core.phase
        /\ core'.memory = core.memory /\ core'.preview = None /\ core'.pending = core.pending
    BY CoreIsCore DEF PreviewExpires, Inv, IsCore, Core, Option
  <1> QED
    BY <1>1, EndsSame DEF PreviewExpires, Unsaved, CommitStep, Inv, TypeOK

LEMMA InstallStep == Inv /\ Install => Step /\ OperationStep
  <1> SUFFICES ASSUME Inv, Install PROVE Step /\ OperationStep
    OBVIOUS
  <1> DEFINE v == core.preview.version
             c == InitializeSession(core)
  <1>1. v \in files /\ v \in Version /\ v # None /\ v.wallet \subseteq {v.keys} /\ v.keys \in confirmed
    BY FilesSealed DEF Install, Inv, Contents
  <1>2. IsCore(c) /\ c.sequence = core.sequence
    BY CoreIsCore, SessionCore DEF Inv
  <1>3. PICK phase \in {"Unlocked", "Reset"} : core' = SetPhase(c, phase, v)
    BY DEF Install
  <1>4. /\ disk' = v /\ files' = files \cup {v} /\ tampered' = FALSE /\ chosen' = None
        /\ UNCHANGED <<jobs, made, confirmed, last, interrupted>>
    BY DEF Install, Saved
  <1> HIDE DEF v, c
  <1>5. /\ IsCore(core') /\ core'.pending = None /\ core'.sequence = core.sequence
        /\ core'.phase \in {"Unlocked", "Reset"} /\ core'.memory = v /\ core'.preview = None
    <2>1. phase \in Phase /\ phase \in OpenPhases /\ v \in Option(Version)
      BY <1>1 DEF Phase, OpenPhases, Option
    <2> QED
      BY <1>1, <1>2, <1>3, <2>1, PhaseCore DEF Idle
  <1>6. Written
    BY <1>1, <1>4, <1>5 DEF Written
  <1> QED
    BY <1>4, <1>5, <1>6 DEF Step, VaultStep, PreviewStep, CommitStep, OperationStep, Ended, Inv, TypeOK

LEMMA LocksStep == Inv /\ Locks => Step /\ OperationStep
  <1> SUFFICES ASSUME Inv, Locks PROVE Step /\ OperationStep
    OBVIOUS
  <1>1. /\ IsCore(core') /\ core'.pending = None /\ core'.sequence = core.sequence
        /\ core'.preview = None
        /\ core'.phase = IF core.phase \in {"NoVault", "KitNew"} THEN "NoVault" ELSE "Locked"
    BY CoreIsCore, ForgottenCore DEF Locks, Idle, Inv
  <1> QED
    BY <1>1 DEF Locks, Step, VaultStep, PreviewStep, Shut, Unsaved, CommitStep, OperationStep, Ended, Inv, TypeOK

LEMMA GuardStep == Inv /\ GuardUpdate => Step /\ OperationStep
  <1> SUFFICES ASSUME Inv, GuardUpdate PROVE Step /\ OperationStep
    OBVIOUS
  <1>1. IsCore(core)
    BY CoreIsCore DEF Inv
  <1>2. /\ Unsaved /\ tampered' = tampered /\ made' = made /\ confirmed' = confirmed
        /\ last' = last /\ chosen' = chosen /\ jobs' = jobs
    BY DEF GuardUpdate, Unsaved
  <1>3. CASE core' = [InvalidateNative(core) EXCEPT !.guard_up = TRUE]
    <2> DEFINE c == InvalidateNative(core)
    <2>1. /\ IsCore(c) /\ Idle(c, core) /\ c.phase = core.phase /\ c.memory = core.memory
          /\ c.preview = core.preview
      BY <1>1, InvalidatedCore
    <2> HIDE DEF c
    <2>2. core' = [c EXCEPT !.guard_up = TRUE]
      BY <1>3 DEF c
    <2>3. /\ IsCore(core') /\ Idle(core', core) /\ core'.phase = core.phase
          /\ core'.memory = core.memory /\ core'.preview = core.preview
      BY <2>1, <2>2 DEF IsCore, Core, Idle
    <2>4. interrupted' \in {interrupted, core.sequence}
      BY DEF GuardUpdate
    <2> QED
      BY <1>2, <2>3, <2>4, InterruptsSame
  <1>4. CASE core' = [core EXCEPT !.guard_up = FALSE]
    <2>1. /\ IsCore(core') /\ core'.phase = core.phase /\ core'.memory = core.memory
          /\ core'.preview = core.preview /\ core'.pending = core.pending
          /\ core'.sequence = core.sequence /\ core'.guard_up = FALSE
      BY <1>1, <1>4 DEF IsCore, Core
    <2>2. interrupted' = interrupted
      BY <2>1 DEF GuardUpdate
    <2> QED
      BY <1>2, <2>1, <2>2, EndsSame DEF CommitStep, Inv, TypeOK
  <1> QED
    BY <1>3, <1>4 DEF GuardUpdate

LEMMA OutsideStep == Inv /\ (OutsideWrites \/ BackupFileChanges) => Step /\ OperationStep
  <1> SUFFICES ASSUME Inv, OutsideWrites \/ BackupFileChanges PROVE Step /\ OperationStep
    OBVIOUS
  <1>1. IsCore(core)
    BY CoreIsCore DEF Inv
  <1>2. CASE OutsideWrites
    BY <1>1, <1>2 DEF OutsideWrites, Step, VaultStep, PreviewStep, WrittenOutside, CommitStep, OperationStep,
                      Undecided, Inv, TypeOK
  <1>3. CASE BackupFileChanges
    BY <1>1, <1>3 DEF BackupFileChanges, Step, VaultStep, PreviewStep, SameVault, Unsaved, CommitStep,
                      OperationStep, Undecided, Inv, TypeOK
  <1> QED
    BY <1>2, <1>3

LEMMA RestartStep == Inv /\ Restart => Step /\ OperationStep
  <1> SUFFICES ASSUME Inv, Restart PROVE Step /\ OperationStep
    OBVIOUS
  <1>1. /\ IsCore(core') /\ core'.pending = None /\ core'.sequence = 0 /\ core'.preview = None
        /\ core'.phase = IF disk = None THEN "NoVault" ELSE "Locked"
    BY ClosedCore DEF Restart, Inv, TypeOK
  <1> QED
    BY <1>1 DEF Restart, Step, VaultStep, PreviewStep, Shut, Unsaved, CommitStep, OperationStep, Restarted,
                Inv, TypeOK

LEMMA StutterStep == Inv /\ UNCHANGED vars => Step /\ OperationStep
  <1> SUFFICES ASSUME Inv, UNCHANGED vars PROVE Step /\ OperationStep
    OBVIOUS
  <1>1. IsCore(core)
    BY CoreIsCore DEF Inv
  <1> QED
    BY <1>1 DEF vars, Step, VaultStep, PreviewStep, SameVault, Unsaved, CommitStep, OperationStep, Undecided,
                Inv, TypeOK

-----------------------------------------------------------------------------
(* Theorems *)

LEMMA NextStep == Inv /\ [Next]_vars => Inv' /\ Step
  <1> SUFFICES ASSUME Inv, [Next]_vars PROVE Inv' /\ Step
    OBVIOUS
  <1>1. CASE \E action \in Action : BeginNative(action)
    BY <1>1, BeginsInv
  <1>2. CASE PrepareNative
    BY <1>2, PreparesInv
  <1>3. CASE FinishStale \/ FinishWithoutEffect \/ FinishCreate \/ FinishConfirm
    BY <1>3, FinishesStale, FinishesWithoutEffect, FinishesCreate, FinishesConfirm, StepInv
  <1>4. CASE FinishUnlock \/ FinishSetPassword \/ FinishChangePassword \/ FinishRotate
    BY <1>4, FinishesUnlock, FinishesSetPassword, FinishesChangePassword, FinishesRotate, StepInv
  <1>5. CASE FinishInspect \/ FinishEdit \/ EditAtOnce
    BY <1>5, FinishesInspect, FinishesEdit, EditsAtOnce, StepInv
  <1>6. CASE BeginRefused \/ PickBackup \/ DiscardInspection \/ PreviewExpires \/ Interrupted
    BY <1>6, BeginsRefused, InterruptionSteps, ExpiryStep, StepInv
  <1>7. CASE Install \/ Locks \/ GuardUpdate \/ FinishQuickUnlock
    BY <1>7, InstallStep, LocksStep, GuardStep, FinishesQuickUnlock, StepInv
  <1>8. CASE OutsideWrites \/ BackupFileChanges \/ Restart \/ UNCHANGED vars
    BY <1>8, OutsideStep, RestartStep, StutterStep, StepInv
  <1> QED
    BY <1>1, <1>2, <1>3, <1>4, <1>5, <1>6, <1>7, <1>8 DEF Next

LEMMA InvHolds == Spec => []Inv
  BY InitInv, NextStep, PTL DEF Spec

\* The types: a version is open in the open phases and in no other, and what waits, runs or
\* is previewed is made of versions.
THEOREM TypesHold == Spec => []TypeOK
  <1>1. Inv => TypeOK
    BY DEF Inv
  <1> QED
    BY <1>1, InvHolds, PTL

\* What was saved is what is open, whatever failed, unless another program wrote the file.
THEOREM SavedStaysOpen == Spec => []SavedIsOpen
  <1>1. Inv => SavedIsOpen
    BY DEF Inv, Current
  <1> QED
    BY <1>1, InvHolds, PTL

\* No rotation leaves a wallet value sealed with keys that its Vault no longer has.
THEOREM WalletStaysReadable == Spec => []WalletReadable
  <1>1. Inv => WalletReadable
    BY DEF Inv, Sealed
  <1> QED
    BY <1>1, InvHolds, PTL

\* A preview that the owner can still install shows the Notes it would really replace, through
\* password changes, failed saves, locks and files that come from outside.
THEOREM PreviewsCompare == Spec => []PreviewCompares
  <1>1. Inv => PreviewCompares
    BY DEF Inv, Previews, Comparison, Current, SavedIsOpen, PreviewCompares
  <1> QED
    BY <1>1, InvHolds, PTL

\* Keys are on the disk only with a confirmed Recovery Kit, for a new Vault and a rotation.
THEOREM KeysAreConfirmed == Spec => []KitConfirmed
  <1>1. Inv => KitConfirmed
    BY DEF Inv, Sealed
  <1> QED
    BY <1>1, InvHolds, PTL

\* An operation commits to what it was begun with, for any number of workers and any
\* interleaving of what ends operations (`validate_native`).
THEOREM CommitsAreFresh == Spec => []CommitsFresh
  <1>1. Init => CommitsFresh
    BY DEF Init, CommitsFresh
  <1>2. CommitsFresh /\ Step => CommitsFresh'
    BY DEF CommitsFresh, Step, CommitStep
  <1> QED
    BY <1>1, <1>2, InitInv, NextStep, PTL DEF Spec

\* No operation commits that was begun before the last interruption.
THEOREM NoneIsDisturbed == Spec => Undisturbed
  <1>1. Step => (last' # last /\ last' # None => last'.id > interrupted)
    BY DEF Step, CommitStep
  <1>2. Inv /\ [Next]_vars => [last' # last /\ last' # None => last'.id > interrupted]_vars
    BY <1>1, NextStep
  <1> QED
    BY <1>2, InvHolds, PTL DEF Spec, Undisturbed

\* A new version continues the one it replaces, however old what the worker was handed.
THEOREM NoUpdateIsLost == Spec => NoLostUpdate
  <1>1. Inv /\ Step =>
          (disk' \notin files \cup {disk} /\ disk # None /\ ~tampered => disk'.base = disk.number)
    BY DEF Inv, Step, VaultStep, SameVault, Shut, WrittenOutside, Opened, Written, KitMade, Unsaved
  <1>2. Inv /\ [Next]_vars =>
          [disk' \notin files \cup {disk} /\ disk # None /\ ~tampered =>
             disk'.base = disk.number]_vars
    BY <1>1, NextStep
  <1> QED
    BY <1>2, InvHolds, PTL DEF Spec, NoLostUpdate
==============================================================================
