----------------------------- MODULE GlobalLock -----------------------------
(***************************************************************************)
(* What Controller takes the lock of impl.go to be: among the goroutines   *)
(* of all replicas at most one is inside, and one that crashes is out.     *)
(***************************************************************************)
CONSTANT Thread

VARIABLE inside    \* the goroutines between lock() and unlock()

Init == inside = {}

Enter(t) == inside = {} /\ inside' = {t}

Leave(t) == t \in inside /\ inside' = inside \ {t}

Next == \E t \in Thread : Enter(t) \/ Leave(t)

Spec == Init /\ [][Next]_inside
=============================================================================
