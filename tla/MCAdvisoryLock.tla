--------------------------- MODULE MCAdvisoryLock ---------------------------
(* Small instances of AdvisoryLock for TLC. *)
EXTENDS AdvisoryLock, TLC

CONSTANTS p1, p2, a1, a2, b1, u1, u2, c1, c2, c3, c4, c5, c6

TwoReplicas  == (a1 :> p1) @@ (a2 :> p1) @@ (b1 :> p2)
OneReplica   == (a1 :> p1) @@ (a2 :> p1) @@ (u1 :> p1)
OneEach      == (a1 :> p1) @@ (u1 :> p1) @@ (u2 :> p1) @@ (b1 :> p2)
NoReader     == (a1 :> p1) @@ (a2 :> p1)
Connections  == Permutations(Conn)
=============================================================================
