--------------------------- MODULE VaultRegister ----------------------------
(***************************************************************************)
(* What crates/store promises of the one file vault.enote, without saying  *)
(* how: it reads as one complete version at any moment, an installed       *)
(* version may be undone by a crash until its save is confirmed, and a     *)
(* confirmed one never is.                                                 *)
(***************************************************************************)
CONSTANTS Version, None

VARIABLES
  current,     \* what a read returns, None when there is no Vault
  afterCrash   \* what a read may return after a crash

register == <<current, afterCrash>>

Init == current = None /\ afterCrash = {None}

Install ==
  \E version \in Version :
    current' = version /\ afterCrash' = afterCrash \cup {version}

Confirm == afterCrash' = {current} /\ UNCHANGED current

Crash == current' \in afterCrash /\ afterCrash' = {current'}

Next == Install \/ Confirm \/ Crash

Spec == Init /\ [][Next]_register
=============================================================================
