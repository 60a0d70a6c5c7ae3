------------------------- MODULE MCControllerHistory -------------------------
(* ControllerHistory on the small instances of MCController. *)
EXTENDS ControllerHistory, MCController
=============================================================================
