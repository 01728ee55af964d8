------------------------------- MODULE MCPanels -------------------------------
(***************************************************************************)
(* The two kinds of new password differ in the Current box only, so each   *)
(* is explored on one platform.                                            *)
(***************************************************************************)
EXTENDS Panels

AllShapes ==
  ({"macos"} \X (Kinds \ {"PasswordChange"})) \cup ({"windows"} \X (Kinds \ {"NewPassword"}))
=============================================================================
