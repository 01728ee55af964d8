---------------------------- MODULE MCCoordinator ----------------------------
(***************************************************************************)
(* Small instances of Coordinator.  The first step is one that makes a     *)
(* Recovery Kit or one that ends in a readout; what comes after it is a    *)
(* readout, or an operation that is over soon.                             *)
(***************************************************************************)
EXTENDS Coordinator

TwoSteps == <<{"CreateVault", "ShowWalletField"}, {"ShowWalletField"}>>
OneStep == <<{"CreateVault", "ShowWalletField", "RotateKeys", "Unlock", "CreateNote"}>>
============================================================================
