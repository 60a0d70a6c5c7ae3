------------------------- MODULE TemplateStoreProofs -------------------------
(***************************************************************************)
(* For any files, templates and bounds: the types of TemplateStore, that   *)
(* the map follows the directory, and that a rule made of a template is    *)
(* recognised as one.                                                      *)
(***************************************************************************)
EXTENDS TemplateStore, SequenceTheorems, TLAPS

(* The watcher is at work on an event or waits for one. *)
Hand == watcher # "idle" => event \in Event

(* Rule() of a known template is a rule. *)
LEMMA RuleOfType ==
  ASSUME NEW s \in [Name -> Template \cup {None}], NEW tr \in TemplateRule, Known(tr, s)
  PROVE  RuleOf(tr, s) \in Rule
<1>1. s[tr.template] \in Template /\ tr.target \in Target
  BY DEF Known, TemplateRule
<1> QED
  BY <1>1 DEF RuleOf, Rule, Template

(* What a request may see of the map are templates. *)
LEMMA SeenType ==
  ASSUME TypeOK, Hand, NEW s \in Seen
  PROVE  s \in [Name -> Template \cup {None}]
<1>1. ASSUME NEW x \in Template \cup {None}, NEW y \in Template \cup {None}
      PROVE  Mixed(x, y) \subseteq Template \cup {None}
  <2>1. CASE None \in {x, y}
    BY <2>1 DEF Mixed
  <2>2. CASE None \notin {x, y}
    BY <2>2 DEF Mixed, Template
  <2> QED
    BY <2>1, <2>2
<1>2. CASE watcher = "write"
  <2>1. event.name \in Name
    BY <1>2 DEF Hand, Event
  <2>2. PICK t \in Mixed(was, store[event.name]) : s = [store EXCEPT ![event.name] = t]
    BY <1>2 DEF Seen
  <2>3. t \in Template \cup {None}
    BY <1>1, <2>1, <2>2 DEF TypeOK
  <2> QED
    BY <2>1, <2>2, <2>3 DEF TypeOK
<1>3. CASE watcher # "write"
  BY <1>3 DEF Seen, TypeOK
<1> QED
  BY <1>2, <1>3

(* A change of the directory. *)
LEMMA QueuedType ==
  ASSUME events \in Seq(Event), NEW e \in Event
  PROVE  Queued(e) \in Seq(Event)
BY AppendProperties DEF Queued

LEMMA ChangeType ==
  ASSUME TypeOK, Hand, NEW op \in Op, NEW n \in Name,
         NEW x \in Template \cup {Half, None}, Change(op, n, x)
  PROVE  TypeOK' /\ Hand'
<1>1. [op |-> op, name |-> n] \in Event
  BY DEF Event
<1>2. events' \in Seq(Event)
  BY <1>1, QueuedType DEF Change, TypeOK
<1> QED
  BY <1>2, TemplateStoreAssumption
     DEF TypeOK, Hand, Change, startup, map, clients

LEMMA TypeStep == TypeOK /\ Hand /\ [Next]_vars => TypeOK' /\ Hand'
<1> SUFFICES ASSUME TypeOK, Hand, [Next]_vars PROVE TypeOK' /\ Hand'
  OBVIOUS
<1> USE TemplateStoreAssumption
<1>1. ASSUME NEW n \in Name, BeginWrite(n) \/ Remove(n) PROVE TypeOK' /\ Hand'
  BY <1>1, ChangeType DEF BeginWrite, Remove, Op
<1>2. ASSUME NEW n \in Name, NEW t \in FileTemplates[n], FinishWrite(n, t) \/ RenameInto(n, t)
      PROVE  TypeOK' /\ Hand'
  <2>1. t \in Template
    OBVIOUS
  <2> QED
    BY <1>2, <2>1, ChangeType DEF FinishWrite, RenameInto, Op
<1>3. CASE NewStarts
  BY <1>3 DEF NewStarts, TypeOK, Hand, watch, map, clients, bounds
<1>4. ASSUME NEW n \in Name, NewReads(n) PROVE TypeOK' /\ Hand'
  BY <1>4 DEF NewReads, TypeOK, Hand, watch, clients, lapses, bounds
<1>5. CASE NewUnlocks \/ NewWatches
  BY <1>5 DEF NewUnlocks, NewWatches, TypeOK, Hand, watch, map, clients, lapses, bounds
<1>6. CASE TakeEvent
  <2>1. Head(events) \in Event /\ Tail(events) \in Seq(Event)
    BY <1>6, HeadTailProperties DEF TakeEvent, TypeOK
  <2> QED
    BY <1>6, <2>1 DEF TakeEvent, TypeOK, Hand, startup, map, clients, lapses, bounds
<1>7. CASE Lock
  BY <1>7 DEF Lock, TypeOK, Hand, startup, map, clients, lapses, bounds
<1>8. CASE ReadFails
  BY <1>8 DEF ReadFails, TypeOK, Hand, startup, map, clients, bounds
<1>9. CASE Write
  <2>1. event.name \in Name
    BY <1>9 DEF Write, Hand, Event
  <2>2. IF event.op = "Remove" THEN TRUE ELSE dir[event.name] \in Template
    BY <1>9 DEF Write
  <2> QED
    BY <1>9, <2>1, <2>2 DEF Write, TypeOK, Hand, startup, clients, lapses, bounds
<1>10. CASE Unlock
  BY <1>10 DEF Unlock, TypeOK, Hand, startup, clients, lapses, bounds
<1>11. ASSUME NEW i \in Id, NEW tr \in TemplateRule, StoreTemplateRule(i, tr)
       PROVE  TypeOK' /\ Hand'
  <2>1. PICK s \in Seen : Known(tr, s) /\ rules' = [rules EXCEPT ![i] = RuleOf(tr, s)]
    BY <1>11 DEF StoreTemplateRule
  <2>2. RuleOf(tr, s) \in Rule
    BY <2>1, SeenType, RuleOfType
  <2> QED
    BY <1>11, <2>1, <2>2 DEF StoreTemplateRule, TypeOK, Hand, startup, watch, map, lapses, bounds
<1>12. CASE FatalError \/ Stop
  <2>1. store' \in [Name -> Template \cup {None}] /\ events' \in Seq(Event)
    BY <1>12, EmptySeq DEF FatalError, Stop, End, Empty
  <2> QED
    BY <1>12, <2>1 DEF FatalError, Stop, End, TypeOK, Hand, clients, lapses
<1>13. CASE UNCHANGED vars
  BY <1>13 DEF vars, TypeOK, Hand, startup, watch, map, clients, lapses, bounds
<1> QED
  BY <1>1, <1>2, <1>3, <1>4, <1>5, <1>6, <1>7, <1>8, <1>9, <1>10, <1>11, <1>12, <1>13
     DEF Next, Directory, New, Watcher

LEMMA TypeInit == Init => TypeOK /\ Hand
<1> SUFFICES ASSUME Init PROVE TypeOK /\ Hand
  OBVIOUS
<1>1. events \in Seq(Event) /\ store \in [Name -> Template \cup {None}]
  BY EmptySeq DEF Init, Empty
<1>2. /\ rules \in [Id -> Rule \cup {None}] /\ posted \in [Id -> TemplateRule \cup {None}]
      /\ changes \in 0..MaxChanges /\ ends \in 0..MaxEnds
  BY TemplateStoreAssumption DEF Init
<1> QED
  BY <1>1, <1>2 DEF Init, TypeOK, Hand

(* Every state of TemplateStore has the declared types. *)
THEOREM StoreTypeCorrect == Spec => []TypeOK
BY TypeInit, TypeStep, PTL DEF Spec

-----------------------------------------------------------------------------
(* Type() of what Rule() returned is a template rule that gives the same   *)
(* rule but for its priority: with the template it was made of, or with    *)
(* one that has the same group and commands.                               *)
LEMMA RoundTrip ==
  ASSUME NEW s \in [Name -> Template \cup {None}], NEW tr \in TemplateRule,
         Known(tr, s), NEW T \in Types(RuleOf(tr, s), s)
  PROVE  T.Type = "template" /\ Alike(RuleOf(T, s), RuleOf(tr, s))
<1> DEFINE r == RuleOf(tr, s)
<1>1. /\ r.group = s[tr.template].group /\ r.TableRegEx = tr.target
      /\ r.CommandTemplate = s[tr.template].CommandTemplate
      /\ r.DeleteTemplate = s[tr.template].DeleteTemplate
  BY DEF RuleOf
<1>2. tr.template \in Matching(r, s)
  BY <1>1 DEF Matching, matchesTemplate, Known, TemplateRule
<1>3. TargetOf(r) = tr.target
  BY <1>1 DEF TargetOf, Known
<1>4. PICK n \in Matching(r, s) :
        T = [Type |-> "template", template |-> n, target |-> TargetOf(r)]
  BY <1>2 DEF Types
<1>5. /\ s[n].group = r.group /\ s[n].CommandTemplate = r.CommandTemplate
      /\ s[n].DeleteTemplate = r.DeleteTemplate
  BY <1>4 DEF Matching, matchesTemplate
<1>6. T.Type = "template" /\ T.template = n /\ T.target = tr.target
  BY <1>3, <1>4
<1> HIDE DEF r
<1>7. Alike(RuleOf(T, s), r)
  BY <1>1, <1>5, <1>6 DEF RuleOf, r, Alike
<1> QED
  BY <1>6, <1>7 DEF r

(* A rule that a template gives is answered as a template rule, whatever   *)
(* the templates are and whichever of them Type() meets first.             *)
THEOREM RulesAreTyped == Spec => []TypedAsPosted
<1>1. TypeOK => TypedAsPosted
  <2> SUFFICES ASSUME TypeOK, NEW i \in Id, posted[i] # None, Known(posted[i], store),
                      RuleOf(posted[i], store) = rules[i],
                      NEW T \in Types(rules[i], store)
               PROVE  T.Type = "template" /\ Alike(RuleOf(T, store), rules[i])
    BY DEF TypedAsPosted
  <2>1. posted[i] \in TemplateRule /\ store \in [Name -> Template \cup {None}]
    BY DEF TypeOK
  <2> QED
    BY <2>1, RoundTrip
<1> QED
  BY <1>1, TypeInit, TypeStep, PTL DEF Spec

-----------------------------------------------------------------------------
(* What the last event of a file says of it: gone, or there. *)
Tells(e, n) == e.name = n /\ (e.op = "Remove" <=> dir[n] = None)

(* The last event of file n in the queue is the i-th, and tells the truth. *)
LastQueued(n, i) ==
    /\ i \in 1..Len(events)
    /\ Tells(events[i], n)
    /\ \A j \in 1..Len(events) : j > i => events[j].name # n

NoneQueued(n) == \A i \in 1..Len(events) : events[i].name # n

InHand(n) == watcher \in {"lock", "locked"} /\ event.name = n

(* A file is in the map as it is in the directory, or the watcher will     *)
(* still come to an event of it after the file's last change.              *)
Followed(n) ==
    \/ \E i \in 1..Len(events) : LastQueued(n, i)
    \/ NoneQueued(n) /\ InHand(n) /\ Tells(event, n)
    \/ NoneQueued(n) /\ ~InHand(n) /\ store[n] = dir[n]

FollowInv ==
    /\ phase # "watching" => events = <<>> /\ watcher = "idle"
    /\ phase = "down" => store = Empty
    /\ phase = "reading" => \A n \in Name \ missed :
         IF n \in todo THEN store[n] = None ELSE store[n] = dir[n]
    /\ phase = "read" => \A n \in Name \ missed : store[n] = dir[n]
    /\ phase = "watching" /\ ~unread => \A n \in Name \ missed : Followed(n)

(* A change is the last event of its file, whether merged or not, and      *)
(* leaves the events of the other files where they are.                    *)
LEMMA ChangeFollows ==
  ASSUME TypeOK, Hand, FollowInv, NEW op \in Op, NEW n \in Name,
         NEW x \in Template \cup {Half, None}, Change(op, n, x),
         op = "Remove" <=> x = None
  PROVE  FollowInv'
<1> DEFINE e == [op |-> op, name |-> n]
<1>1. CASE phase # "watching"
  BY <1>1 DEF FollowInv, Change, startup, map
<1>2. CASE phase = "watching"
  <2>1. /\ events' = Queued(e) /\ missed' = missed \ {n}
        /\ dir' = [dir EXCEPT ![n] = x]
        /\ UNCHANGED <<phase, watcher, event, store, unread>>
    BY <1>2 DEF Change, startup, map
  <2>2. /\ events' \in Seq(Event) /\ Len(events) \in Nat
        /\ Len(events') >= 1 /\ Len(events') >= Len(events)
        /\ Len(events') \in Nat /\ events'[Len(events')] = e
        /\ \A i \in 1..Len(events) : events'[i] = events[i]
        /\ \A i \in 1..Len(events') : i > Len(events) => events'[i] = e
    <3>1. CASE events # <<>> /\ events[Len(events)] = e
      BY <2>1, <3>1, EmptySeq DEF Queued, TypeOK
    <3>2. CASE ~(events # <<>> /\ events[Len(events)] = e)
      <4>1. e \in Event /\ events \in Seq(Event) /\ events' = Append(events, e)
        BY <2>1, <3>2 DEF Queued, TypeOK, Event
      <4> QED
        BY <4>1, AppendProperties
    <3> QED
      BY <3>1, <3>2
  <2>3. e.name = n /\ e.op = op
    OBVIOUS
  <2> HIDE DEF e
  <2>4. Followed(n)'
    <3>1. dir'[n] = x
      BY <2>1 DEF TypeOK
    <3>2. PICK k : k = Len(events')
      OBVIOUS
    <3>3. LastQueued(n, k)'
      BY <2>2, <2>3, <3>1, <3>2 DEF LastQueued, Tells
    <3> QED
      BY <2>2, <3>2, <3>3 DEF Followed
  <2>5. ASSUME NEW m \in Name \ missed', m # n, ~unread PROVE Followed(m)'
    <3>1. dir'[m] = dir[m] /\ m \notin missed
      BY <2>1, <2>5 DEF TypeOK
    <3>2. Followed(m)
      BY <1>2, <2>5, <3>1 DEF FollowInv
    <3>3. ASSUME NEW i \in 1..Len(events), LastQueued(m, i) PROVE Followed(m)'
      <4>1. i \in 1..Len(events') /\ events'[i] = events[i]
        BY <2>2
      <4>2. \A j \in 1..Len(events') : j > i => events'[j].name # m
        BY <2>2, <2>3, <2>5, <3>3 DEF LastQueued
      <4> QED
        BY <3>1, <3>3, <4>1, <4>2 DEF LastQueued, Tells, Followed
    <3>4. CASE NoneQueued(m)
      <4>1. \A j \in 1..Len(events') : events'[j].name # m
        BY <2>2, <2>3, <2>5, <3>4 DEF NoneQueued
      <4> QED
        BY <2>1, <3>1, <3>2, <3>4, <4>1
           DEF NoneQueued, Followed, LastQueued, InHand, Tells
    <3> QED
      BY <3>2, <3>3, <3>4 DEF Followed
  <2>6. phase' = "watching" /\ ~unread' => \A m \in Name \ missed' : Followed(m)'
    BY <2>1, <2>4, <2>5
  <2> QED
    BY <1>2, <2>1, <2>6 DEF FollowInv
<1> QED
  BY <1>1, <1>2

(* The watcher takes an event: what was last in the queue still is, or is  *)
(* now in hand.                                                            *)
LEMMA TakeEventFollows ==
  ASSUME TypeOK, Hand, FollowInv, TakeEvent
  PROVE  FollowInv'
<1>1. /\ events # <<>> /\ watcher = "idle" /\ watcher' = "lock" /\ event' = events[1]
      /\ UNCHANGED <<dir, phase, todo, store, missed, unread>>
  BY DEF TakeEvent, startup, map, lapses, TypeOK
<1>2. /\ Len(events) \in Nat /\ Len(events) >= 1
      /\ events' = Tail(events) /\ Len(events') = Len(events) - 1
      /\ \A i \in 1..Len(events') : events'[i] = events[i + 1]
  BY <1>1, HeadTailProperties, EmptySeq DEF TakeEvent, TypeOK
<1>3. phase = "watching"
  BY <1>1 DEF FollowInv
<1>4. ASSUME NEW n \in Name \ missed, ~unread PROVE Followed(n)'
  <2>1. Followed(n) /\ ~InHand(n)
    BY <1>1, <1>3, <1>4 DEF FollowInv, InHand
  <2>2. ASSUME NEW i \in 1..Len(events), LastQueued(n, i), i # 1 PROVE Followed(n)'
    <3>1. i - 1 \in 1..Len(events') /\ events'[i - 1] = events[i]
      BY <1>2, <2>2
    <3>2. \A j \in 1..Len(events') : j > i - 1 => events'[j].name # n
      BY <1>2, <2>2 DEF LastQueued
    <3> QED
      BY <1>1, <2>2, <3>1, <3>2 DEF LastQueued, Tells, Followed
  <2>3. CASE LastQueued(n, 1)
    <3>1. \A j \in 1..Len(events') : events'[j].name # n
      BY <1>2, <2>3 DEF LastQueued
    <3> QED
      BY <1>1, <2>3, <3>1 DEF LastQueued, Tells, Followed, NoneQueued, InHand
  <2>4. CASE NoneQueued(n)
    <3>1. \A j \in 1..Len(events') : events'[j].name # n
      BY <1>2, <2>4 DEF NoneQueued
    <3>2. events[1].name # n
      BY <1>2, <2>4 DEF NoneQueued
    <3>3. store[n] = dir[n]
      BY <2>1, <2>4 DEF Followed, LastQueued, NoneQueued, Tells
    <3> QED
      BY <1>1, <3>1, <3>2, <3>3 DEF Followed, NoneQueued, InHand
  <2> QED
    BY <2>1, <2>2, <2>3, <2>4 DEF Followed
<1> QED
  BY <1>1, <1>3, <1>4 DEF FollowInv

LEMMA WriteFollows ==
  ASSUME TypeOK, Hand, FollowInv, Write
  PROVE  FollowInv'
<1>1. /\ watcher = "locked" /\ watcher' = "write" /\ event \in Event
      /\ store' = [store EXCEPT ![event.name] =
                     IF event.op = "Remove" THEN None ELSE dir[event.name]]
      /\ UNCHANGED <<dir, phase, todo, events, event, missed, unread>>
  BY DEF Write, startup, lapses, Hand
<1>2. phase = "watching"
  BY <1>1 DEF FollowInv
<1>3. ASSUME NEW n \in Name \ missed, ~unread PROVE Followed(n)'
  <2>1. Followed(n)
    BY <1>2, <1>3 DEF FollowInv
  <2>2. CASE event.name = n
    <3>1. store'[n] = IF event.op = "Remove" THEN None ELSE dir[n]
      BY <1>1, <2>2 DEF TypeOK
    <3> QED
      BY <1>1, <2>1, <2>2, <3>1 DEF Followed, LastQueued, NoneQueued, InHand, Tells
  <2>3. CASE event.name # n
    <3>1. store'[n] = store[n]
      BY <1>1, <2>3 DEF TypeOK
    <3> QED
      BY <1>1, <2>1, <2>3, <3>1 DEF Followed, LastQueued, NoneQueued, InHand, Tells
  <2> QED
    BY <2>2, <2>3
<1> QED
  BY <1>1, <1>2, <1>3 DEF FollowInv

LEMMA FollowStep == TypeOK /\ Hand /\ FollowInv /\ [Next]_vars => FollowInv'
<1> SUFFICES ASSUME TypeOK, Hand, FollowInv, [Next]_vars PROVE FollowInv'
  OBVIOUS
<1>1. ASSUME NEW n \in Name, BeginWrite(n) \/ Remove(n) PROVE FollowInv'
  BY <1>1, ChangeFollows, TemplateStoreAssumption DEF BeginWrite, Remove, Op
<1>2. ASSUME NEW n \in Name, NEW t \in FileTemplates[n], FinishWrite(n, t) \/ RenameInto(n, t)
      PROVE  FollowInv'
  <2>1. t \in Template /\ t # None
    BY TemplateStoreAssumption
  <2> QED
    BY <1>2, <2>1, ChangeFollows DEF FinishWrite, RenameInto, Op
<1>3. CASE NewStarts
  BY <1>3 DEF NewStarts, FollowInv, Empty, watch, map
<1>4. ASSUME NEW n \in Name, NewReads(n) PROVE FollowInv'
  BY <1>4 DEF NewReads, FollowInv, watch, lapses, TypeOK
<1>5. CASE NewUnlocks
  BY <1>5 DEF NewUnlocks, FollowInv, watch, map, lapses
<1>6. CASE NewWatches
  <2>1. events' = <<>> /\ watcher' = "idle" /\ UNCHANGED <<store, dir, missed, unread>>
    BY <1>6 DEF NewWatches, FollowInv, watch, map, lapses
  <2>2. \A n \in Name \ missed : store[n] = dir[n]
    BY <1>6 DEF NewWatches, FollowInv
  <2>3. \A n \in Name \ missed' : Followed(n)'
    BY <2>1, <2>2, EmptySeq DEF Followed, NoneQueued, InHand
  <2> QED
    BY <1>6, <2>1, <2>3 DEF NewWatches, FollowInv
<1>7. CASE TakeEvent
  BY <1>7, TakeEventFollows
<1>8. CASE Lock
  BY <1>8 DEF Lock, FollowInv, Followed, LastQueued, NoneQueued, InHand, Tells,
              startup, map, lapses
<1>9. CASE ReadFails
  BY <1>9 DEF ReadFails, FollowInv, startup, map
<1>10. CASE Write
  BY <1>10, WriteFollows
<1>11. CASE Unlock
  BY <1>11 DEF Unlock, FollowInv, Followed, LastQueued, NoneQueued, InHand, Tells,
               startup, lapses
<1>12. CASE FatalError \/ Stop
  BY <1>12 DEF FatalError, Stop, End, FollowInv
<1>13. CASE UNCHANGED <<dir, startup, watch, map, lapses>>
  BY <1>13 DEF FollowInv, Followed, LastQueued, NoneQueued, InHand, Tells,
               startup, watch, map, lapses
<1> QED
  BY <1>1, <1>2, <1>3, <1>4, <1>5, <1>6, <1>7, <1>8, <1>9, <1>10, <1>11, <1>12, <1>13
     DEF Next, Directory, New, Watcher, StoreTemplateRule, vars

(* Whenever the watcher has nothing left to do, the map is the directory:  *)
(* for any number of files, changes and ends of the process.               *)
THEOREM StoreFollowsDirectory == Spec => []UpToDate
<1>1. Init => FollowInv
  BY DEF Init, FollowInv
<1>2. TypeOK /\ FollowInv => UpToDate
  <2> SUFFICES ASSUME TypeOK, FollowInv, phase = "watching", events = <<>>,
                      watcher = "idle", ~unread, NEW n \in Name \ missed
               PROVE  store[n] = dir[n]
    BY DEF UpToDate
  <2>1. Followed(n)
    BY DEF FollowInv
  <2>2. \A i \in 1..Len(events) : FALSE
    BY EmptySeq
  <2> QED
    BY <2>1, <2>2 DEF Followed, InHand
<1> QED
  BY <1>1, <1>2, TypeInit, TypeStep, FollowStep, PTL DEF Spec
=============================================================================
