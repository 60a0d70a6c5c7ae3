------------------------------ MODULE KafkaSync ------------------------------
(***************************************************************************)
(* How Kafka messages reach the controller, and which do not: NewConsumer, *)
(* Start and the session handler of pkg/kafka/consumer.go, the             *)
(* synchronisation New (pkg/controller) and Start (pkg) run around them,   *)
(* and the end of the process by a signal (main.go).                       *)
(*                                                                         *)
(* A partition is a log of MaxOffset[p] messages at most, of which the broker *)
(* drops the oldest.  What a handler does with a message is Controller's   *)
(* business; here it returns nil, returns an error or panics.              *)
(***************************************************************************)
EXTENDS Integers

CONSTANTS
    Partition,            \* of the two topics
    MaxOffset,            \* [Partition -> Nat]: bound on its messages
    MaxInterruptions,     \* bound on rebalances, ends and refused commits
    ApplyRulesAtStartup,  \* subset of BOOLEAN: apply_rules_at_startup, at each start
    Faults                \* subset of {"handler", "crash", "stop", "rebalance", "broker"}

ASSUME KafkaSyncAssumption ==
    /\ MaxOffset \in [Partition -> Nat]
    /\ MaxInterruptions \in Nat
    /\ ApplyRulesAtStartup \subseteq BOOLEAN
    /\ Faults \subseteq {"handler", "crash", "stop", "rebalance", "broker"}

VARIABLES
    (* the broker *)
    end,       \* [Partition -> Nat]: the offset of the next message
    earliest,  \* [Partition -> Nat]: the oldest message still there
    stored,    \* [Partition -> Int]: the group's offset, NoOffset if none
    (* the process *)
    phase,     \* of the consumer
    sync,      \* where the partitions ended when ApplyAllRules began, or NoSync
    beside,    \* pkg.Start has still to apply all rules itself
    started,   \* Start has returned, main waits for the wait group
    stopping,  \* ctx is cancelled
    position,  \* [Partition -> Nat]: the message handed out next
    handling,  \* partitions whose handler is at work
    marked,    \* [Partition -> Int]: the offset to commit, NoOffset if none
    (* history *)
    handled,   \* [Partition -> SUBSET Nat]: the handler returned nil
    failed,    \* [Partition -> SUBSET Nat]: it returned an error
    skipped,   \* [Partition -> SUBSET Nat]: passed over by OffsetNewest
    covered,   \* [Partition -> Nat]: those below are older than a synchronisation
    interruptions

broker  == <<end, earliest, stored>>
process == <<phase, sync, beside, started, stopping>>
session == <<position, handling, marked>>
history == <<handled, failed, skipped, covered>>
vars    == <<broker, process, session, history, interruptions>>

NoOffset == -1
NoSync   == [p \in Partition |-> NoOffset]

(* A group that has or has not stored offsets before. *)
Init ==
    /\ end = [p \in Partition |-> 0]
    /\ earliest = end
    /\ stored \in [Partition -> {NoOffset, 0}]
    /\ phase = "down"
    /\ sync = NoSync
    /\ beside = FALSE
    /\ started = FALSE
    /\ stopping = FALSE
    /\ position = end
    /\ handling = {}
    /\ marked = NoSync
    /\ handled = [p \in Partition |-> {}]
    /\ failed = handled
    /\ skipped = handled
    /\ covered = end
    /\ interruptions = 0

Interrupt ==
    /\ interruptions < MaxInterruptions
    /\ interruptions' = interruptions + 1

-----------------------------------------------------------------------------
(* The broker and those who write to it. *)
Publish(p) ==
    /\ end[p] < MaxOffset[p]
    /\ end' = [end EXCEPT ![p] = @ + 1]
    /\ UNCHANGED <<earliest, stored, process, session, history, interruptions>>

(* Retention, whether or not a message has been read. *)
DropOldest(p) ==
    /\ "broker" \in Faults
    /\ earliest[p] < end[p]
    /\ earliest' = [earliest EXCEPT ![p] = @ + 1]
    /\ UNCHANGED <<end, stored, process, session, history, interruptions>>

(* The offsets of a group without members expire. *)
ExpireOffsets ==
    /\ "broker" \in Faults
    /\ phase = "down"
    /\ stored # NoSync
    /\ Interrupt
    /\ stored' = NoSync
    /\ UNCHANGED <<end, earliest, process, session, history>>

-----------------------------------------------------------------------------
(* Start. *)

(* Mutant: NewConsumer compares nothing once an offset is stored anywhere. *)
OffsetsUnusableEverywhere == \A p \in Partition : stored[p] < earliest[p]

(* needsSync: the stored offset, -1 if there is none, against the oldest. *)
OffsetsUnusable == \E p \in Partition : stored[p] < earliest[p]

NewConsumer ==
    /\ phase = "down"
    /\ phase' = IF OffsetsUnusable THEN "syncing" ELSE "joining"
    /\ sync' = IF OffsetsUnusable THEN end ELSE NoSync
    /\ \E configured \in ApplyRulesAtStartup :
         beside' = (configured /\ ~OffsetsUnusable)
    /\ UNCHANGED <<broker, started, stopping, session, history, interruptions>>

(* Where ApplyAllRules ends everything is applied that was published       *)
(* before it began.                                                        *)
Covered == [p \in Partition |-> IF sync[p] > covered[p] THEN sync[p] ELSE covered[p]]

(* In New, before the consumer starts. *)
Synchronised ==
    /\ phase = "syncing"
    /\ phase' = "joining"
    /\ covered' = Covered
    /\ sync' = NoSync
    /\ UNCHANGED <<broker, beside, started, stopping, session, handled,
                   failed, skipped, interruptions>>

(* Consume joins the group; Setup lets Start go on.  A partition without a *)
(* usable offset is read from its end.                                     *)
(* Mutant: an offset the group does not have is taken for a position. *)
UsableUnlessPastEnd(p) == stored[p] <= end[p]

(* Mutant: offset 0 is taken for none. *)
UsableUnlessZero(p) == stored[p] # 0 /\ earliest[p] <= stored[p] /\ stored[p] <= end[p]

Usable(p) == earliest[p] <= stored[p] /\ stored[p] <= end[p]

Join ==
    /\ phase = "joining"
    /\ ~stopping
    /\ phase' = "consuming"
    /\ position' = [p \in Partition |-> IF Usable(p) THEN stored[p] ELSE end[p]]
    /\ skipped' = [p \in Partition |->
                     IF Usable(p) THEN skipped[p] ELSE skipped[p] \cup 0..(end[p] - 1)]
    /\ handling' = {}
    /\ marked' = NoSync
    /\ UNCHANGED <<broker, sync, beside, started, stopping, handled, failed,
                   covered, interruptions>>

InSession == phase \in {"consuming", "leaving", "left"}

(* pkg.Start applies all rules if it is configured and New has not. *)
BeginSyncBeside ==
    /\ beside
    /\ InSession
    /\ sync' = end
    /\ beside' = FALSE
    /\ UNCHANGED <<broker, phase, started, stopping, session, history,
                   interruptions>>

(* main has installed its signal handler and waits. *)
Started ==
    /\ ~started /\ ~beside
    /\ phase # "syncing"
    /\ InSession \/ sync # NoSync
    /\ started' = TRUE
    /\ covered' = Covered
    /\ sync' = NoSync
    /\ UNCHANGED <<broker, phase, beside, stopping, session, handled,
                   failed, skipped, interruptions>>

-----------------------------------------------------------------------------
(* Mutant: a message is marked when it is taken, before its handler runs. *)
DeliverMarked(p) ==
    /\ phase \in {"consuming", "leaving"}
    /\ ~stopping
    /\ p \notin handling
    /\ position[p] < end[p]
    /\ handling' = handling \cup {p}
    /\ marked' = [marked EXCEPT ![p] = position[p] + 1]
    /\ UNCHANGED <<broker, process, position, history, interruptions>>

(* A session.  Once it is to end, what was fetched is still handled, but   *)
(* not when the process stops.  What was fetched may be dropped meanwhile. *)
Deliver(p) ==
    /\ phase \in {"consuming", "leaving"}
    /\ ~stopping
    /\ p \notin handling
    /\ position[p] < end[p]
    /\ handling' = handling \cup {p}
    /\ UNCHANGED <<broker, process, position, marked, history, interruptions>>

(* ConsumeClaim after the listener: an error is logged and the message is  *)
(* marked like any other.                                                  *)
MarkMessage(p) ==
    /\ marked' = [marked EXCEPT ![p] = position[p] + 1]
    /\ position' = [position EXCEPT ![p] = @ + 1]
    /\ handling' = handling \ {p}

HandlerSucceeds(p) ==
    /\ p \in handling
    /\ ~stopping
    /\ handled' = [handled EXCEPT ![p] = @ \cup {position[p]}]
    /\ MarkMessage(p)
    /\ UNCHANGED <<broker, process, failed, skipped, covered, interruptions>>

(* With ctx cancelled, transactions are rolled back and lock() returns the *)
(* error of a closed database.                                             *)
HandlerFails(p) ==
    /\ p \in handling
    /\ "handler" \in Faults \/ stopping
    /\ failed' = [failed EXCEPT ![p] = @ \cup {position[p]}]
    /\ MarkMessage(p)
    /\ UNCHANGED <<broker, process, handled, skipped, covered, interruptions>>

(* The offset manager commits what is marked, once a second. *)
Commit(p) ==
    /\ InSession
    /\ marked[p] # NoOffset
    /\ stored' = [stored EXCEPT ![p] = marked[p]]
    /\ marked' = [marked EXCEPT ![p] = NoOffset]
    /\ UNCHANGED <<end, earliest, process, position, handling, history, interruptions>>

Rebalance ==
    /\ "rebalance" \in Faults
    /\ phase = "consuming"
    /\ ~stopping
    /\ Interrupt
    /\ phase' = "leaving"
    /\ UNCHANGED <<broker, sync, beside, started, stopping, session, history>>

(* The message wanted has been dropped: the claim ends, and the session.   *)
FetchFails ==
    /\ phase = "consuming"
    /\ ~stopping
    /\ \E p \in Partition : position[p] < earliest[p]
    /\ phase' = "leaving"
    /\ UNCHANGED <<broker, sync, beside, started, stopping, session, history,
                   interruptions>>

(* Mutant: Cleanup skips wg.Done() when ctx is cancelled. *)
CleanupUnlessStopping ==
    /\ phase = "leaving"
    /\ handling = {}
    /\ ~stopping
    /\ phase' = "left"
    /\ UNCHANGED <<broker, sync, beside, started, stopping, session, history,
                   interruptions>>

(* All claims have returned: Cleanup, and wg.Done() in it. *)
Cleanup ==
    /\ phase = "leaving"
    /\ handling = {}
    /\ phase' = "left"
    /\ UNCHANGED <<broker, sync, beside, started, stopping, session, history,
                   interruptions>>

(* Mutant: the loop around Consume ends with the first session. *)
RejoinNever == FALSE

(* The next session, after the last commit (Commit) was made or refused.   *)
Rejoin ==
    /\ phase = "left"
    /\ ~stopping
    /\ \/ marked = NoSync /\ UNCHANGED interruptions
       \/ marked # NoSync /\ "broker" \in Faults /\ Interrupt
    /\ phase' = "joining"
    /\ marked' = NoSync
    /\ position' = [p \in Partition |-> 0]
    /\ UNCHANGED <<broker, sync, beside, started, stopping, handling, history>>

-----------------------------------------------------------------------------
(* The end of the process. *)
Die ==
    /\ phase' = "down"
    /\ sync' = NoSync
    /\ beside' = FALSE
    /\ started' = FALSE
    /\ stopping' = FALSE
    /\ position' = [p \in Partition |-> 0]
    /\ handling' = {}
    /\ marked' = NoSync
    /\ UNCHANGED <<broker, history>>

(* Killed, a panic, or an error in New or pkg.Start. *)
Crash ==
    /\ "crash" \in Faults
    /\ phase # "down"
    /\ Interrupt
    /\ Die

(* SIGTERM: main cancels ctx, which the consumer group, the database and   *)
(* the HTTP server wait for. *)
Stop ==
    /\ "stop" \in Faults
    /\ started
    /\ ~stopping
    /\ Interrupt
    /\ stopping' = TRUE
    /\ phase' = IF phase = "consuming" THEN "leaving" ELSE phase
    /\ UNCHANGED <<broker, sync, beside, started, session, history>>

(* unlock() finds the database closed and panics before the message is     *)
(* marked.                                                                 *)
HandlerPanics ==
    /\ stopping
    /\ handling # {}
    /\ Die
    /\ UNCHANGED interruptions

(* wg.Wait() returns: Cleanup was before the last commit, which main does  *)
(* not wait for.                                                           *)
Exit ==
    /\ stopping
    /\ phase \in {"left", "joining"}
    /\ Die
    /\ UNCHANGED interruptions

-----------------------------------------------------------------------------
Startup == NewConsumer \/ Synchronised \/ Join \/ BeginSyncBeside \/ Started

Claim(p) == Deliver(p) \/ HandlerSucceeds(p) \/ HandlerFails(p)

Leave == Cleanup \/ Rejoin \/ Exit

Next ==
    \/ Startup
    \/ \E p \in Partition : Publish(p) \/ DropOldest(p) \/ Claim(p) \/ Commit(p)
    \/ ExpireOffsets \/ Rebalance \/ FetchFails \/ Leave
    \/ Crash \/ Stop \/ HandlerPanics

Spec == Init /\ [][Next]_vars

(* The process is started again when it ends, the group lets it join, and  *)
(* statements of handlers end (GetTx gives them a timeout); fetching and   *)
(* committing go on.                                                       *)
Fairness ==
    /\ WF_vars(Startup)
    /\ WF_vars(FetchFails)
    /\ WF_vars(Leave)
    /\ \A p \in Partition : WF_vars(Claim(p)) /\ WF_vars(Commit(p))

FairSpec == Spec /\ Fairness

-----------------------------------------------------------------------------
(* The state has the types the declarations above give it. *)
TypeOK ==
    /\ end \in [Partition -> Nat]
    /\ earliest \in [Partition -> Nat]
    /\ stored \in [Partition -> Nat \cup {NoOffset}]
    /\ phase \in {"down", "syncing", "joining", "consuming", "leaving", "left"}
    /\ sync \in [Partition -> Nat \cup {NoOffset}]
    /\ beside \in BOOLEAN
    /\ started \in BOOLEAN
    /\ stopping \in BOOLEAN
    /\ position \in [Partition -> Nat]
    /\ handling \subseteq Partition
    /\ marked \in [Partition -> Nat \cup {NoOffset}]
    /\ handled \in [Partition -> SUBSET Nat]
    /\ failed \in [Partition -> SUBSET Nat]
    /\ skipped \in [Partition -> SUBSET Nat]
    /\ covered \in [Partition -> Nat]
    /\ interruptions \in Nat

(* The message has had its effect: it was handled, or a synchronisation    *)
(* began after it was published.                                           *)
Effective(p, i) == i \in handled[p] \/ i < covered[p]

Lost(p, i) == ~Effective(p, i) /\ i \in failed[p] \cup skipped[p]

(* Published, not lost, and without effect yet. *)
Pending(p) ==
    {i \in 0..(end[p] - 1) : ~Effective(p, i) /\ i \notin failed[p] \cup skipped[p]}

Kafka == INSTANCE Inbox WITH
    pending <- [p \in Partition |-> Pending(p)],
    lost    <- [p \in Partition |-> {i \in 0..(end[p] - 1) : Lost(p, i)}]

(* Controller may take Kafka for an inbox: the messages of a partition     *)
(* take effect in their order, one that was done with does not become      *)
(* pending again, and what was lost may still be repaired.                 *)
ImplementsInbox == Kafka!Spec

(* The service comes to a message unless it is effective already or lost   *)
(* in one of two ways, an error of its handler or OffsetNewest: whatever   *)
(* crashes, rebalances and refused commits do, neither the stored offset   *)
(* nor the session passes any other message.                               *)
OnlyTwoLosses ==
    \A p \in Partition : \A i \in 0..(end[p] - 1) :
      \/ Effective(p, i) \/ Lost(p, i)
      \/ /\ stored[p] <= i
         /\ InSession => position[p] <= i /\ marked[p] <= i

(* Every message published is handled, covered or lost in one of these two *)
(* ways with some time, across restarts: the group does not hang.          *)
EveryMessageSettles ==
    \A p \in Partition : \A i \in 0..(MaxOffset[p] - 1) :
      i < end[p] ~> Effective(p, i) \/ Lost(p, i)

(* The group can go on from its offsets in every partition, and no handler *)
(* has failed.                                                             *)
GroupIntact == \A p \in Partition : earliest[p] <= stored[p] /\ failed[p] = {}

NothingLost == \A p \in Partition : \A i \in 0..(end[p] - 1) : ~Lost(p, i)

(* Rebalances, crashes and refused commits by themselves lose nothing: a   *)
(* group that has offsets, and whose brokers keep them and what they have  *)
(* not handed out, loses messages with failing handlers only.              *)
IntactGroupsLoseNothing == []GroupIntact => []NothingLost

(* A restart makes up for what was lost of a partition as long as the      *)
(* group has no offset there, whatever it has for other partitions.        *)
RestartRepairs ==
    \A p \in Partition : \A i \in 0..(MaxOffset[p] - 1) :
      phase = "down" /\ stored[p] = NoOffset /\ Lost(p, i) ~> Effective(p, i)

(* A process that got the signal ends: the wait group main waits for comes *)
(* to zero although handlers are at work.                                  *)
StopEnds == stopping ~> phase = "down"

(* A message whose handler failed is not done with: the service leaves     *)
(* what it cannot handle to the next start ("Ignoring queued kafka         *)
(* messages for faster shutdown", consumer.go:160), which comes back to it *)
(* only if no stored offset has passed it.                                 *)
FailedStaysPending ==
    \A p \in Partition : \A i \in failed[p] : Effective(p, i) \/ stored[p] <= i
=============================================================================
