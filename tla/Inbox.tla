-------------------------------- MODULE Inbox --------------------------------
(***************************************************************************)
(* What Controller takes Kafka to be: a message is pending from when it is *)
(* published until its handler is done with it or an application of all    *)
(* rules has made up for it, those of a partition in their order; and how  *)
(* messages may be lost instead, and found again.                          *)
(***************************************************************************)
EXTENDS Integers

CONSTANT Partition

VARIABLES
    end,       \* [Partition -> Nat]: the number of messages published
    pending,   \* [Partition -> SUBSET Nat]: not yet handled, covered or lost
    lost       \* [Partition -> SUBSET Nat]: passed over without effect

inboxVars == <<end, pending, lost>>

Init ==
    /\ end = [p \in Partition |-> 0]
    /\ pending = [p \in Partition |-> {}]
    /\ lost = [p \in Partition |-> {}]

Publish(p) ==
    /\ end' = [end EXCEPT ![p] = @ + 1]
    /\ pending' = [pending EXCEPT ![p] = @ \cup {end[p]}]
    /\ UNCHANGED lost

First(p, i) == i \in pending[p] /\ \A j \in pending[p] : i <= j

(* The next message has its effect, or one that comes again after it was   *)
(* lost.  One that comes again although it had its effect changes nothing. *)
Handle(p, i) ==
    /\ First(p, i) \/ i \in lost[p]
    /\ pending' = [pending EXCEPT ![p] = @ \ {i}]
    /\ lost' = [lost EXCEPT ![p] = @ \ {i}]
    /\ UNCHANGED end

(* The next message is given up. *)
GiveUp(p, i) ==
    /\ First(p, i)
    /\ pending' = [pending EXCEPT ![p] = @ \ {i}]
    /\ lost' = [lost EXCEPT ![p] = @ \cup {i}]
    /\ UNCHANGED end

(* All that is pending in some partitions is passed over. *)
Skip(P) ==
    /\ pending' = [p \in Partition |-> IF p \in P THEN {} ELSE pending[p]]
    /\ lost' = [p \in Partition |-> IF p \in P THEN lost[p] \cup pending[p] ELSE lost[p]]
    /\ UNCHANGED end

(* All rules have been applied: the oldest messages are made up for. *)
Cover ==
    /\ \A p \in Partition : \E n \in 0..end[p] :
         /\ pending'[p] = {i \in pending[p] : n <= i}
         /\ lost'[p] = {i \in lost[p] : n <= i}
    /\ pending' = [p \in Partition |-> pending'[p]]
    /\ lost' = [p \in Partition |-> lost'[p]]
    /\ UNCHANGED end

Next ==
    \/ \E p \in Partition : \/ Publish(p)
                            \/ \E i \in 0..(end[p] - 1) : Handle(p, i) \/ GiveUp(p, i)
    \/ \E P \in SUBSET Partition : Skip(P)
    \/ Cover

Spec == Init /\ [][Next]_inboxVars
=============================================================================
