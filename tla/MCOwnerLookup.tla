---------------------------- MODULE MCOwnerLookup ----------------------------
(* Small instances of OwnerLookup for TLC. *)
EXTENDS OwnerLookup, TLC

CONSTANTS alice, bob, admin
=============================================================================
