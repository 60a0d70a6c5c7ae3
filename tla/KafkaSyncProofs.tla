--------------------------- MODULE KafkaSyncProofs ---------------------------
(***************************************************************************)
(* For any partitions, bounds and faults: the types of KafkaSync, and that *)
(* a message is lost in no other way than by an error of its handler or by *)
(* OffsetNewest.                                                           *)
(***************************************************************************)
EXTENDS KafkaSync, TLAPS

(* Neither what is committed nor what a session has marked or handed out   *)
(* lies past the end of a partition, and a handler works on a message that *)
(* exists.                                                                 *)
Bounded ==
    /\ \A p \in Partition :
         /\ stored[p] <= end[p]
         /\ InSession => position[p] <= end[p] /\ marked[p] <= position[p]
         /\ p \in handling => position[p] < end[p]
    /\ handling # {} => phase \in {"consuming", "leaving"}

IInv == TypeOK /\ Bounded /\ OnlyTwoLosses

(* The first state has the types and has published nothing. *)
LEMMA InitIInv == Init => IInv
<1> SUFFICES ASSUME Init PROVE IInv
  OBVIOUS
<1>1. TypeOK
  <2>1. end \in [Partition -> Nat] /\ handled \in [Partition -> SUBSET Nat]
    BY DEF Init
  <2>2. stored \in [Partition -> Nat \cup {NoOffset}] /\ NoSync \in [Partition -> Nat \cup {NoOffset}]
    BY DEF Init, NoSync, NoOffset
  <2> QED
    BY <2>1, <2>2 DEF Init, TypeOK
<1>2. Bounded
  BY DEF Init, Bounded, InSession, NoOffset
<1>3. OnlyTwoLosses
  BY DEF Init, OnlyTwoLosses
<1> QED
  BY <1>1, <1>2, <1>3 DEF IInv

(* The types alone are inductive. *)
LEMMA TypeStep == TypeOK /\ [Next]_vars => TypeOK'
<1> SUFFICES ASSUME TypeOK, [Next]_vars PROVE TypeOK'
  OBVIOUS
<1> USE KafkaSyncAssumption DEF TypeOK, NoOffset, NoSync
<1>1. CASE NewConsumer
  BY <1>1 DEF NewConsumer, broker, session, history
<1>2. CASE Synchronised
  BY <1>2 DEF Synchronised, Covered, broker, session
<1>3. CASE Join
  <2>1. skipped' \in [Partition -> SUBSET Nat]
    BY <1>3 DEF Join
  <2>2. position' \in [Partition -> Nat]
    BY <1>3 DEF Join, Usable
  <2> QED
    BY <1>3, <2>1, <2>2 DEF Join, broker
<1>4. CASE BeginSyncBeside
  BY <1>4 DEF BeginSyncBeside, broker, session, history
<1>5. CASE Started
  BY <1>5 DEF Started, Covered, broker, session
<1>6. ASSUME NEW p \in Partition, Publish(p) PROVE TypeOK'
  BY <1>6 DEF Publish, process, session, history
<1>7. ASSUME NEW p \in Partition, DropOldest(p) PROVE TypeOK'
  BY <1>7 DEF DropOldest, process, session, history
<1>8. ASSUME NEW p \in Partition, Deliver(p) PROVE TypeOK'
  BY <1>8 DEF Deliver, broker, process, history
<1>9. ASSUME NEW p \in Partition, HandlerSucceeds(p) PROVE TypeOK'
  BY <1>9 DEF HandlerSucceeds, MarkMessage, broker, process
<1>10. ASSUME NEW p \in Partition, HandlerFails(p) PROVE TypeOK'
  BY <1>10 DEF HandlerFails, MarkMessage, broker, process
<1>11. ASSUME NEW p \in Partition, Commit(p) PROVE TypeOK'
  BY <1>11 DEF Commit, process, history
<1>12. CASE ExpireOffsets
  BY <1>12 DEF ExpireOffsets, Interrupt, process, session, history
<1>13. CASE Rebalance \/ FetchFails \/ Cleanup
  BY <1>13 DEF Rebalance, FetchFails, Cleanup, Interrupt, broker, session, history
<1>14. CASE Rejoin
  BY <1>14 DEF Rejoin, Interrupt, broker, history
<1>15. CASE Crash \/ HandlerPanics \/ Exit
  <2>1. Die /\ interruptions' \in Nat
    BY <1>15 DEF Crash, HandlerPanics, Exit, Interrupt
  <2> QED
    BY <2>1 DEF Die, broker, history
<1>16. CASE Stop
  BY <1>16 DEF Stop, Interrupt, broker, session, history
<1>17. CASE UNCHANGED vars
  BY <1>17 DEF vars, broker, process, session, history
<1> QED
  BY <1>1, <1>2, <1>3, <1>4, <1>5, <1>6, <1>7, <1>8, <1>9, <1>10, <1>11,
     <1>12, <1>13, <1>14, <1>15, <1>16, <1>17
     DEF Next, Startup, Claim, Leave

(* Offsets only follow what was handed out. *)
LEMMA BoundedStep == TypeOK /\ Bounded /\ [Next]_vars => Bounded'
<1> SUFFICES ASSUME TypeOK, Bounded, [Next]_vars PROVE Bounded'
  OBVIOUS
<1> USE KafkaSyncAssumption DEF TypeOK, Bounded, InSession, NoOffset, NoSync
<1>1. CASE NewConsumer
  BY <1>1 DEF NewConsumer, broker, session, history
<1>2. CASE Synchronised
  BY <1>2 DEF Synchronised, broker, session
<1>3. CASE Join
  BY <1>3 DEF Join, Usable, broker
<1>4. CASE BeginSyncBeside
  BY <1>4 DEF BeginSyncBeside, broker, session, history
<1>5. CASE Started
  BY <1>5 DEF Started, broker, session
<1>6. ASSUME NEW p \in Partition, Publish(p) PROVE Bounded'
  BY <1>6 DEF Publish, process, session, history
<1>7. ASSUME NEW p \in Partition, DropOldest(p) PROVE Bounded'
  BY <1>7 DEF DropOldest, process, session, history
<1>8. ASSUME NEW p \in Partition, Deliver(p) PROVE Bounded'
  BY <1>8 DEF Deliver, broker, process, history
<1>9. ASSUME NEW p \in Partition, HandlerSucceeds(p) \/ HandlerFails(p) PROVE Bounded'
  BY <1>9 DEF HandlerSucceeds, HandlerFails, MarkMessage, broker, process
<1>10. ASSUME NEW p \in Partition, Commit(p) PROVE Bounded'
  BY <1>10 DEF Commit, process, history
<1>11. CASE ExpireOffsets
  BY <1>11 DEF ExpireOffsets, process, session, history
<1>12. CASE Rebalance \/ FetchFails \/ Cleanup
  BY <1>12 DEF Rebalance, FetchFails, Cleanup, broker, session, history
<1>13. CASE Rejoin
  BY <1>13 DEF Rejoin, broker, history
<1>14. CASE Crash \/ HandlerPanics \/ Exit
  BY <1>14 DEF Crash, HandlerPanics, Exit, Die, broker, history
<1>15. CASE Stop
  BY <1>15 DEF Stop, broker, session, history
<1>16. CASE UNCHANGED vars
  BY <1>16 DEF vars, broker, process, session, history
<1> QED
  BY <1>1, <1>2, <1>3, <1>4, <1>5, <1>6, <1>7, <1>8, <1>9, <1>10, <1>11,
     <1>12, <1>13, <1>14, <1>15, <1>16
     DEF Next, Startup, Claim, Leave

(* A message the service is done with, or will not come to. *)
Over(p, i) == i \in handled[p] \cup failed[p] \cup skipped[p] \/ i < covered[p]

Ahead(p, i) ==
    /\ stored[p] <= i
    /\ InSession => position[p] <= i /\ marked[p] <= i

LEMMA OnlyTwoLossesIs ==
  OnlyTwoLosses <=> \A p \in Partition : \A i \in 0..(end[p] - 1) : Over(p, i) \/ Ahead(p, i)
BY DEF OnlyTwoLosses, Over, Ahead, Lost, Effective

(* A message that is over stays so, whatever happens. *)
LEMMA OverStays ==
  ASSUME TypeOK, [Next]_vars, NEW p \in Partition, NEW i \in Nat, Over(p, i)
  PROVE  Over(p, i)'
<1> USE DEF TypeOK, Over, NoOffset, NoSync
<1>1. CASE Synchronised \/ Started
  BY <1>1 DEF Synchronised, Started, Covered
<1>2. CASE Join
  BY <1>2 DEF Join
<1>3. ASSUME NEW q \in Partition, HandlerSucceeds(q) \/ HandlerFails(q) PROVE Over(p, i)'
  BY <1>3 DEF HandlerSucceeds, HandlerFails
<1>4. CASE UNCHANGED history
  BY <1>4 DEF history
<1> QED
  BY <1>1, <1>2, <1>3, <1>4
     DEF Next, Startup, Claim, Leave, NewConsumer, BeginSyncBeside, Publish, DropOldest,
         Deliver, Commit, ExpireOffsets, Rebalance, FetchFails, Cleanup, Rejoin,
         Crash, HandlerPanics, Exit, Die, Stop, vars

(* A message ahead stays ahead until it is over. *)
LEMMA AheadOrOver ==
  ASSUME TypeOK, Bounded, [Next]_vars, NEW p \in Partition, NEW i \in Nat,
         i < end[p], Ahead(p, i)
  PROVE  Ahead(p, i)' \/ Over(p, i)'
<1> USE DEF TypeOK, Ahead, InSession, NoOffset, NoSync
<1>1. CASE NewConsumer \/ Synchronised
  BY <1>1 DEF NewConsumer, Synchronised, broker, session
<1>2. CASE Join
  BY <1>2 DEF Join, Usable, Over, broker
<1>3. CASE BeginSyncBeside \/ Started
  BY <1>3 DEF BeginSyncBeside, Started, broker, session
<1>4. ASSUME NEW q \in Partition, Publish(q) \/ DropOldest(q) \/ Deliver(q)
      PROVE  Ahead(p, i)'
  BY <1>4 DEF Publish, DropOldest, Deliver, broker, process, session
<1>5. ASSUME NEW q \in Partition, HandlerSucceeds(q) \/ HandlerFails(q)
      PROVE  Ahead(p, i)' \/ Over(p, i)'
  <2>1. position[p] <= i
    BY <1>5 DEF HandlerSucceeds, HandlerFails, Bounded
  <2>2. CASE q = p /\ position[p] = i
    BY <1>5, <2>2 DEF HandlerSucceeds, HandlerFails, Over
  <2>3. CASE q # p \/ position[p] < i
    BY <1>5, <2>3 DEF HandlerSucceeds, HandlerFails, MarkMessage, broker, process
  <2> QED
    BY <2>1, <2>2, <2>3
<1>6. ASSUME NEW q \in Partition, Commit(q) PROVE Ahead(p, i)'
  BY <1>6 DEF Commit, process
<1>7. CASE ExpireOffsets
  BY <1>7 DEF ExpireOffsets, process, session
<1>8. CASE Rebalance \/ FetchFails \/ Cleanup \/ Stop
  BY <1>8 DEF Rebalance, FetchFails, Cleanup, Stop, broker, session
<1>9. CASE Rejoin \/ Crash \/ HandlerPanics \/ Exit
  BY <1>9 DEF Rejoin, Crash, HandlerPanics, Exit, Die, broker
<1>10. CASE UNCHANGED vars
  BY <1>10 DEF vars, broker, process, session
<1> QED
  BY <1>1, <1>2, <1>3, <1>4, <1>5, <1>6, <1>7, <1>8, <1>9, <1>10
     DEF Next, Startup, Claim, Leave

(* A new message is ahead of every offset. *)
LEMMA PublishedAhead ==
  ASSUME TypeOK, Bounded, [Next]_vars, NEW p \in Partition, NEW i \in Nat,
         ~(i < end[p]), i < end'[p]
  PROVE  Ahead(p, i)'
<1> USE DEF TypeOK, Bounded, Ahead, InSession, NoOffset
<1>1. PICK q \in Partition : Publish(q)
  BY DEF Next, Startup, Claim, Leave, NewConsumer, Synchronised, Join, BeginSyncBeside,
         Started, DropOldest, Deliver, HandlerSucceeds, HandlerFails, Commit,
         ExpireOffsets, Rebalance, FetchFails, Cleanup, Rejoin, Crash, HandlerPanics,
         Exit, Die, Stop, vars, broker
<1> QED
  BY <1>1 DEF Publish, process, session

LEMMA LossesStep == TypeOK /\ Bounded /\ OnlyTwoLosses /\ [Next]_vars => OnlyTwoLosses'
<1> SUFFICES ASSUME TypeOK, Bounded, OnlyTwoLosses, [Next]_vars PROVE OnlyTwoLosses'
  OBVIOUS
<1>1. TypeOK'
  BY TypeStep
<1>2. SUFFICES ASSUME NEW p \in Partition, NEW i \in 0..(end'[p] - 1)
               PROVE  Over(p, i)' \/ Ahead(p, i)'
  BY DEF OnlyTwoLosses, Over, Ahead, Lost, Effective
<1>3. i \in Nat /\ i < end'[p] /\ end[p] \in Nat
  BY <1>1 DEF TypeOK
<1>4. CASE i < end[p]
  <2>1. Over(p, i) \/ Ahead(p, i)
    BY <1>3, <1>4, OnlyTwoLossesIs
  <2> QED
    BY <2>1, <1>3, <1>4, OverStays, AheadOrOver
<1>5. CASE ~(i < end[p])
  BY <1>3, <1>5, PublishedAhead
<1> QED
  BY <1>4, <1>5

(* Every state of KafkaSync has the declared types. *)
THEOREM SyncTypeCorrect == Spec => []TypeOK
<1>1. Init => TypeOK
  BY InitIInv DEF IInv
<1> QED
  BY <1>1, TypeStep, PTL DEF Spec

(* The service comes to every message unless its handler failed or         *)
(* OffsetNewest passed over it.                                            *)
THEOREM MessagesAreAccountedFor == Spec => []OnlyTwoLosses
<1>1. IInv /\ [Next]_vars => IInv'
  BY TypeStep, BoundedStep, LossesStep DEF IInv
<1>2. IInv => OnlyTwoLosses
  BY DEF IInv
<1> QED
  BY InitIInv, <1>1, <1>2, PTL DEF Spec

-----------------------------------------------------------------------------
(* Nothing is known of messages that have not been published. *)
Dated ==
    \A p \in Partition :
      /\ handled[p] \cup failed[p] \cup skipped[p] \subseteq 0..(end[p] - 1)
      /\ covered[p] <= end[p] /\ sync[p] <= end[p]

LEMMA DatedStep == TypeOK /\ Bounded /\ Dated /\ [Next]_vars => Dated'
<1> SUFFICES ASSUME TypeOK, Bounded, Dated, [Next]_vars PROVE Dated'
  OBVIOUS
<1> USE DEF TypeOK, Dated, NoOffset, NoSync
<1>1. CASE NewConsumer \/ BeginSyncBeside
  BY <1>1 DEF NewConsumer, BeginSyncBeside, broker, history
<1>2. CASE Synchronised \/ Started
  BY <1>2 DEF Synchronised, Started, Covered, broker
<1>3. CASE Join
  BY <1>3 DEF Join, broker
<1>4. ASSUME NEW q \in Partition, Publish(q)
      PROVE  Dated'
  BY <1>4 DEF Publish, process, history
<1>5. ASSUME NEW q \in Partition, HandlerSucceeds(q) \/ HandlerFails(q)
      PROVE  Dated'
  <2>1. position[q] \in 0..(end[q] - 1)
    BY <1>5 DEF HandlerSucceeds, HandlerFails, Bounded
  <2> QED
    BY <1>5, <2>1 DEF HandlerSucceeds, HandlerFails, broker, process
<1>6. CASE Die
  BY <1>6 DEF Die, broker, history
<1>7. CASE UNCHANGED <<end, sync, history>>
  BY <1>7 DEF history
<1> QED
  BY <1>1, <1>2, <1>3, <1>4, <1>5, <1>6, <1>7
     DEF Next, Startup, Claim, Leave, DropOldest, Deliver, Commit, ExpireOffsets,
         Rebalance, FetchFails, Cleanup, Rejoin, Crash, HandlerPanics, Exit, Stop,
         vars, broker, process

(* The abstract inbox. *)
LostOf(p) == {i \in 0..(end[p] - 1) : Lost(p, i)}

PendingAll == [p \in Partition |-> Pending(p)]

LostAll == [p \in Partition |-> LostOf(p)]

Same == UNCHANGED <<end, PendingAll, LostAll>>

LEMMA InboxMoves ==
  ASSUME Kafka!Next \/ Same
  PROVE  [Kafka!Next]_(Kafka!inboxVars)
BY DEF Kafka!inboxVars, Same, PendingAll, LostAll, LostOf

(* The parts of the history that matter here are the same. *)
LEMMA InboxStays ==
  ASSUME UNCHANGED <<end, history>>
  PROVE  Same
BY DEF Same, PendingAll, LostAll, LostOf, Pending, Lost, Effective, history

LEMMA PublishInbox ==
  ASSUME TypeOK, Dated, NEW p \in Partition, Publish(p)
  PROVE  Kafka!Next
<1>1. end' = [end EXCEPT ![p] = @ + 1] /\ UNCHANGED history /\ end[p] \in Nat
  BY DEF Publish, TypeOK
<1>2. end'[p] = end[p] + 1 /\ \A q \in Partition \ {p} : end'[q] = end[q]
  BY <1>1 DEF TypeOK
<1>3. /\ end[p] \notin handled[p] \cup failed[p] \cup skipped[p]
      /\ covered[p] <= end[p] /\ covered[p] \in Nat
  BY <1>1 DEF Dated, TypeOK
<1>4. Pending(p)' = Pending(p) \cup {end[p]} /\ LostOf(p)' = LostOf(p)
  BY <1>1, <1>2, <1>3 DEF Pending, LostOf, Lost, Effective, history
<1>5. \A q \in Partition \ {p} : Pending(q)' = Pending(q) /\ LostOf(q)' = LostOf(q)
  BY <1>1, <1>2 DEF Pending, LostOf, Lost, Effective, history
<1>6. /\ PendingAll' = [PendingAll EXCEPT ![p] = @ \cup {end[p]}]
      /\ LostAll' = LostAll
  BY <1>4, <1>5 DEF PendingAll, LostAll
<1> QED
  BY <1>1, <1>6 DEF Kafka!Next, Kafka!Publish, PendingAll, LostAll, LostOf

(* What a handler is at work on is the first message pending, or over.     *)
LEMMA HandlingFirst ==
  ASSUME TypeOK, Bounded, OnlyTwoLosses, NEW p \in handling
  PROVE  /\ position[p] \in 0..(end[p] - 1)
         /\ \A j \in Pending(p) : position[p] <= j
<1>1. p \in Partition /\ position[p] \in 0..(end[p] - 1) /\ InSession
  BY DEF TypeOK, Bounded, InSession
<1> QED
  BY <1>1, OnlyTwoLossesIs DEF Pending, Over, Ahead, Effective

LEMMA HandlerInbox ==
  ASSUME TypeOK, Bounded, OnlyTwoLosses, NEW p \in Partition,
         HandlerSucceeds(p) \/ HandlerFails(p)
  PROVE  Kafka!Next \/ Same
<1> DEFINE i == position[p]
<1>1. /\ i \in 0..(end[p] - 1) /\ end' = end
      /\ \A j \in Pending(p) : i <= j
  BY HandlingFirst DEF HandlerSucceeds, HandlerFails, broker
<1>2. CASE HandlerSucceeds(p)
  <2>1. /\ handled' = [handled EXCEPT ![p] = @ \cup {i}]
        /\ UNCHANGED <<failed, skipped, covered>>
    BY <1>2 DEF HandlerSucceeds
  <2>2. /\ handled'[p] = handled[p] \cup {i}
        /\ \A q \in Partition \ {p} : handled'[q] = handled[q]
    BY <2>1 DEF TypeOK
  <2> HIDE DEF i
  <2>3. Pending(p)' = Pending(p) \ {i} /\ LostOf(p)' = LostOf(p) \ {i}
    BY <1>1, <2>1, <2>2 DEF Pending, LostOf, Lost, Effective
  <2>4. \A q \in Partition \ {p} : Pending(q)' = Pending(q) /\ LostOf(q)' = LostOf(q)
    BY <1>1, <2>1, <2>2 DEF Pending, LostOf, Lost, Effective
  <2>5. CASE i \in Pending(p) \/ i \in LostOf(p)
    <3>1. /\ PendingAll' = [PendingAll EXCEPT ![p] = @ \ {i}]
          /\ LostAll' = [LostAll EXCEPT ![p] = @ \ {i}]
      BY <2>3, <2>4 DEF PendingAll, LostAll
    <3>2. \/ i \in PendingAll[p] /\ \A j \in PendingAll[p] : i <= j
          \/ i \in LostAll[p]
      BY <1>1, <2>5 DEF PendingAll, LostAll
    <3> QED
      BY <1>1, <3>1, <3>2
         DEF Kafka!Next, Kafka!Handle, Kafka!First, PendingAll, LostAll, LostOf
  <2>6. CASE i \notin Pending(p) /\ i \notin LostOf(p)
    <3>1. Pending(p)' = Pending(p) /\ LostOf(p)' = LostOf(p)
      BY <2>3, <2>6
    <3>2. PendingAll' = PendingAll /\ LostAll' = LostAll
      BY <2>4, <3>1 DEF PendingAll, LostAll
    <3> QED
      BY <1>1, <3>2 DEF Same
  <2> QED
    BY <2>5, <2>6
<1>3. CASE HandlerFails(p)
  <2>1. /\ failed' = [failed EXCEPT ![p] = @ \cup {i}]
        /\ UNCHANGED <<handled, skipped, covered>>
    BY <1>3 DEF HandlerFails
  <2>2. /\ failed'[p] = failed[p] \cup {i}
        /\ \A q \in Partition \ {p} : failed'[q] = failed[q]
    BY <2>1 DEF TypeOK
  <2> HIDE DEF i
  <2>3. \A q \in Partition \ {p} : Pending(q)' = Pending(q) /\ LostOf(q)' = LostOf(q)
    BY <1>1, <2>1, <2>2 DEF Pending, LostOf, Lost, Effective
  <2>4. CASE i \in Pending(p)
    <3>1. Pending(p)' = Pending(p) \ {i} /\ LostOf(p)' = LostOf(p) \cup {i}
      BY <1>1, <2>1, <2>2, <2>4 DEF Pending, LostOf, Lost, Effective
    <3>2. /\ PendingAll' = [PendingAll EXCEPT ![p] = @ \ {i}]
          /\ LostAll' = [LostAll EXCEPT ![p] = @ \cup {i}]
      BY <2>3, <3>1 DEF PendingAll, LostAll
    <3>3. i \in PendingAll[p] /\ \A j \in PendingAll[p] : i <= j
      BY <1>1, <2>4 DEF PendingAll
    <3> QED
      BY <1>1, <3>2, <3>3
         DEF Kafka!Next, Kafka!GiveUp, Kafka!First, PendingAll, LostAll, LostOf
  <2>5. CASE i \notin Pending(p)
    <3>1. Pending(p)' = Pending(p) /\ LostOf(p)' = LostOf(p)
      BY <1>1, <2>1, <2>2, <2>5 DEF Pending, LostOf, Lost, Effective
    <3> QED
      BY <1>1, <2>3, <3>1 DEF Same, PendingAll, LostAll
  <2> QED
    BY <2>4, <2>5
<1> QED
  BY <1>2, <1>3

(* OffsetNewest passes over what is pending. *)
LEMMA JoinInbox ==
  ASSUME TypeOK, Join
  PROVE  Kafka!Next
<1>0. PICK P \in SUBSET Partition : P = {p \in Partition : ~Usable(p)}
  OBVIOUS
<1>1. /\ UNCHANGED <<end, handled, failed, covered>>
      /\ \A p \in Partition \ P : skipped'[p] = skipped[p]
      /\ \A p \in P : skipped'[p] = skipped[p] \cup 0..(end[p] - 1)
  BY <1>0 DEF Join, broker
<1>2. \A p \in Partition \ P : Pending(p)' = Pending(p) /\ LostOf(p)' = LostOf(p)
  BY <1>1 DEF Pending, LostOf, Lost, Effective
<1>3. \A p \in P : Pending(p)' = {} /\ LostOf(p)' = LostOf(p) \cup Pending(p)
  BY <1>1 DEF Pending, LostOf, Lost, Effective
<1>4. /\ PendingAll' = [p \in Partition |-> IF p \in P THEN {} ELSE PendingAll[p]]
      /\ LostAll' = [p \in Partition |->
                       IF p \in P THEN LostAll[p] \cup PendingAll[p] ELSE LostAll[p]]
  BY <1>2, <1>3 DEF PendingAll, LostAll
<1>5. Kafka!Skip(P)
  BY <1>1, <1>4 DEF Kafka!Skip, PendingAll, LostAll, LostOf
<1> QED
  BY <1>5 DEF Kafka!Next

(* What an application of all rules covers was published before it began.  *)
LEMMA SynchronisedInbox ==
  ASSUME TypeOK, Dated, Synchronised \/ Started
  PROVE  Kafka!Next
<1>1. covered' = Covered /\ UNCHANGED <<end, handled, failed, skipped>>
  BY DEF Synchronised, Started, broker
<1>2. \A p \in Partition : /\ covered'[p] \in 0..end[p] /\ covered[p] <= covered'[p]
                           /\ covered[p] \in Nat /\ end[p] \in Nat
  BY <1>1 DEF Covered, TypeOK, Dated, NoOffset
<1>3. \A p \in Partition : /\ Pending(p)' = {i \in Pending(p) : covered'[p] <= i}
                           /\ LostOf(p)' = {i \in LostOf(p) : covered'[p] <= i}
  BY <1>1, <1>2 DEF Pending, LostOf, Lost, Effective
<1>4. \A p \in Partition : \E n \in 0..end[p] :
        /\ PendingAll'[p] = {i \in PendingAll[p] : n <= i}
        /\ LostAll'[p] = {i \in LostAll[p] : n <= i}
  BY <1>2, <1>3 DEF PendingAll, LostAll
<1>5. /\ PendingAll' = [p \in Partition |-> PendingAll'[p]]
      /\ LostAll' = [p \in Partition |-> LostAll'[p]]
  BY DEF PendingAll, LostAll
<1>6. Kafka!Cover
  BY <1>1, <1>4, <1>5 DEF Kafka!Cover, PendingAll, LostAll, LostOf
<1> QED
  BY <1>6 DEF Kafka!Next

LEMMA InboxStep ==
  ASSUME TypeOK, Bounded, OnlyTwoLosses, Dated, [Next]_vars
  PROVE  [Kafka!Next]_(Kafka!inboxVars)
<1>1. CASE Join
  BY <1>1, JoinInbox, InboxMoves
<1>2. CASE Synchronised \/ Started
  BY <1>2, SynchronisedInbox, InboxMoves
<1>3. ASSUME NEW p \in Partition, Publish(p)
      PROVE  Kafka!Next
  BY <1>3, PublishInbox
<1>4. ASSUME NEW p \in Partition, HandlerSucceeds(p) \/ HandlerFails(p)
      PROVE  Kafka!Next \/ Same
  BY <1>4, HandlerInbox
<1>5. CASE UNCHANGED <<end, history>>
  BY <1>5, InboxStays, InboxMoves
<1> QED
  BY <1>1, <1>2, <1>3, <1>4, <1>5, InboxMoves
     DEF Next, Startup, Claim, Leave, NewConsumer, BeginSyncBeside, DropOldest, Deliver,
         Commit, ExpireOffsets, Rebalance, FetchFails, Cleanup, Rejoin, Crash,
         HandlerPanics, Exit, Die, Stop, vars, broker

(* Whatever the process, the group and the brokers do, what reaches the    *)
(* controller is an inbox: in each partition messages take effect in their *)
(* order, none returns after it was done with, and what is lost is lost by *)
(* GiveUp or Skip (ConsumeClaim, NewConsumer).                             *)
THEOREM KafkaIsAnInbox == Spec => ImplementsInbox
<1> DEFINE Inv == IInv /\ Dated
<1>1. Init => Inv /\ Kafka!Init
  <2>1. ASSUME Init PROVE Dated
    <3>1. \A p \in Partition : /\ handled[p] = {} /\ failed[p] = {} /\ skipped[p] = {}
                               /\ covered[p] = 0 /\ end[p] = 0 /\ sync[p] = -1
      BY <2>1 DEF Init, NoSync, NoOffset
    <3>2. \A p \in Partition : handled[p] \cup failed[p] \cup skipped[p] \subseteq 0..(end[p] - 1)
      BY <3>1
    <3>3. ASSUME NEW p \in Partition PROVE covered[p] <= end[p] /\ sync[p] <= end[p]
      <4>1. covered[p] = 0 /\ end[p] = 0 /\ sync[p] = -1
        BY <3>1
      <4> QED
        BY <4>1
    <3> QED
      BY <3>2, <3>3, Zenon DEF Dated
  <2>2. Init => Kafka!Init
    BY DEF Init, Kafka!Init, Pending, Lost
  <2> QED
    BY <2>1, <2>2, InitIInv
<1>2. Inv /\ [Next]_vars => Inv'
  BY TypeStep, BoundedStep, LossesStep, DatedStep DEF IInv
<1>3. Inv /\ [Next]_vars => [Kafka!Next]_(Kafka!inboxVars)
  BY InboxStep DEF IInv
<1> HIDE DEF Inv
<1> QED
  BY <1>1, <1>2, <1>3, PTL DEF Spec, ImplementsInbox, Kafka!Spec

(* Nothing is skipped while every partition has a usable offset. *)
NothingSkipped == \A p \in Partition : skipped[p] = {}

LEMMA NothingSkippedStep ==
  ASSUME TypeOK, Bounded, NothingSkipped, GroupIntact, [Next]_vars
  PROVE  NothingSkipped'
<1> USE DEF TypeOK, NothingSkipped
<1>1. CASE Join
  <2>1. \A p \in Partition : Usable(p)
    BY DEF Usable, Bounded, GroupIntact
  <2> QED
    BY <1>1, <2>1 DEF Join
<1>2. CASE UNCHANGED skipped
  BY <1>2
<1> QED
  BY <1>1, <1>2
     DEF Next, Startup, Claim, Leave, NewConsumer, Synchronised, BeginSyncBeside, Started,
         Publish, DropOldest, Deliver, HandlerSucceeds, HandlerFails, Commit, ExpireOffsets,
         Rebalance, FetchFails, Cleanup, Rejoin, Crash, HandlerPanics, Exit, Die, Stop,
         vars, history

(* Crashes, panics, refused commits and rebalances, as many as there may   *)
(* be, lose no message of a group that keeps its offsets and whose         *)
(* handlers do not fail (ConsumeClaim marks a message after its handler,   *)
(* and no stored offset is ever past the end of its partition).            *)
THEOREM GroupsLoseNothing == Spec => IntactGroupsLoseNothing
<1> DEFINE Inv == IInv /\ NothingSkipped
<1>1. Init => Inv
  BY InitIInv DEF Init, NothingSkipped
<1>2. Inv /\ GroupIntact /\ [Next]_vars => Inv'
  BY TypeStep, BoundedStep, LossesStep, NothingSkippedStep DEF IInv
<1>3. Inv /\ GroupIntact => NothingLost
  BY DEF NothingSkipped, GroupIntact, NothingLost, Lost
<1> HIDE DEF Inv
<1> QED
  BY <1>1, <1>2, <1>3, PTL DEF Spec, IntactGroupsLoseNothing
=============================================================================
