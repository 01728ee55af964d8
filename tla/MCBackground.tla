----------------------------- MODULE MCBackground -----------------------------
(***************************************************************************)
(* What runs beside the open Vault: Trash, Backups, the Companion's grant  *)
(* and Touch ID.  They share no state, so a behaviour follows one of them. *)
(***************************************************************************)
EXTENDS Trash, Backups, Companion, QuickUnlock

CONSTANT Parts  \* the ones a run explores

VARIABLE part

YearsOff == {-3, 3}
AllParts == {"trash", "backups", "companion", "quick"}
AnotherVault == {[id |-> "other", changes |-> {1, 2}]}
TrashOnly == {"trash"}

Init ==
  /\ part \in Parts
  /\ TrashInit /\ BackupInit /\ CompanionInit /\ QuickInit

Next ==
  /\ \/ part = "trash" /\ TrashNext /\ UNCHANGED <<backupVars, companionVars, quickVars>>
     \/ part = "backups" /\ BackupNext /\ UNCHANGED <<trashVars, companionVars, quickVars>>
     \/ part = "companion" /\ CompanionNext /\ UNCHANGED <<trashVars, backupVars, quickVars>>
     \/ part = "quick" /\ QuickNext /\ UNCHANGED <<trashVars, backupVars, companionVars>>
  /\ UNCHANGED part

all == <<part, trashVars, backupVars, companionVars, quickVars>>

\* A part that is not followed stays at rest, where CompanionFair asks nothing.
PartSpec == Init /\ [][Next]_all
Spec == PartSpec /\ CompanionFair
=============================================================================
