----------------------------- MODULE MCKafkaSync -----------------------------
(* Small instances of KafkaSync for TLC. *)
EXTENDS KafkaSync, TLC

CONSTANTS p1, p2

TwoAndQuiet == (p1 :> 2) @@ (p2 :> 0)
=============================================================================
