---------------------------- MODULE OrphanProofs ----------------------------
(***************************************************************************)
(* When a deleted rule leaves nothing behind: if owners stay, and all a    *)
(* client ever puts into one rule is for the same users and roles and      *)
(* matches the same tables.                                                *)
(***************************************************************************)
EXTENDS ControllerProofs

(* The versions of a rule are alike to the queries, as far as PostgreSQL   *)
(* accepts their regular expressions.                                      *)
VersionsAlike ==
    \A r \in Rule : \A c, d \in Offered[r] :
      /\ Principals[c] = Principals[d]
      /\ d \in InvalidRegEx \/ TableRegEx[c] \subseteq TableRegEx[d]

(* Rows have contents that clients offered for the rule. *)
OfferedInv ==
    /\ \A r \in Rule :
         /\ rows[r] # None => rows[r].content \in Offered[r]
         /\ tx.rows[r] # None => tx.rows[r].content \in Offered[r]
         /\ sec.picked[r] # None => sec.picked[r].content \in Offered[r]
    /\ \A w \in Worker :
         job[w].op = "run" => job[w].row.content \in Offered[job[w].rule]

(* Content c of a rule selects table t. *)
Selects(c, t) ==
    t \in tables /\ t \in TableRegEx[c] /\ Principals[c] \cap owner[t] # {}

(* Effects are where their content selects the table. *)
PlaceInv ==
    \A o \in objects \cup tx.objects : o[3] \in Offered[o[2]] /\ Selects(o[3], o[1])

PickInv ==
    /\ sec.pc = "select" => sec.who = owner[sec.table]
    /\ \A r \in Rule : sec.picked[r] # None =>
         sec.pc = "exec" /\ Selects(sec.picked[r].content, sec.table)

(* What a deletion has not removed yet is on a table it will come to, or   *)
(* on the one it is at, where the delete template has still to be run or   *)
(* has failed.                                                             *)
LeftInv ==
    holder # None /\ job[holder].op = "delete" =>
      \A o \in tx.objects : o[2] = job[holder].rule =>
        \/ o[1] \in sec.todo
        \/ sec.pc = "select" /\ o[1] = sec.table
        \/ /\ sec.pc = "exec" /\ o[1] = sec.table
           /\ sec.picked[o[2]] # None \/ ~sec.ok

OrphanInv == OfferedInv /\ PlaceInv /\ PickInv /\ LeftInv /\ NoOrphans

(* Rows and jobs whose contents clients offered. *)
OfferedRows == \A r \in Rule : rows[r] # None => rows[r].content \in Offered[r]
OfferedJobs == \A w \in Worker :
                 job[w].op = "run" => job[w].row.content \in Offered[job[w].rule]

(* Steps of others: the holder's section and the effects stay, no row goes. *)
LEMMA OthersKeepPlace ==
  ASSUME TypeInv, OrphanInv, OfferedRows', OfferedJobs',
         UNCHANGED <<objects, owner, holder, sec, tx>>, tables \subseteq tables',
         holder # None => job'[holder] = job[holder],
         \A r \in Rule : rows[r] # None => rows'[r] # None
  PROVE  OrphanInv'
<1>1. OfferedInv'
  BY DEF OrphanInv, OfferedInv, OfferedRows, OfferedJobs
<1>2. PlaceInv' /\ PickInv'
  BY DEF OrphanInv, PlaceInv, PickInv, Selects
<1>3. LeftInv'
  BY DEF OrphanInv, LeftInv
<1>4. NoOrphans'
  BY DEF OrphanInv, NoOrphans, TypeInv, TypeOK, Object
<1> QED BY <1>1, <1>2, <1>3, <1>4 DEF OrphanInv

(* The section ends, or is rolled back to save errors. *)
LEMMA LeavingKeepsPlace ==
  ASSUME OrphanInv, OfferedRows', OfferedJobs',
         tx' = NoTx, sec'.picked = NoRows, sec'.pc # "select",
         objects' \subseteq objects \cup tx.objects,
         UNCHANGED <<tables, owner>>, NoOrphans'
  PROVE  OrphanInv'
<1>1. OfferedInv'
  BY DEF OfferedInv, OfferedRows, OfferedJobs, NoTx, NoRows
<1>2. PlaceInv' /\ PickInv'
  BY DEF OrphanInv, PlaceInv, PickInv, Selects, NoTx, NoRows
<1>3. LeftInv'
  BY DEF LeftInv, NoTx
<1> QED BY <1>1, <1>2, <1>3 DEF OrphanInv

(* ... without a commit. *)
LEMMA UndoingKeepsPlace ==
  ASSUME TypeInv, OrphanInv, UNCHANGED <<rows, objects, tables, owner>>,
         \/ \E w \in Worker : Release(w)
         \/ \E w \in Worker, row \in Row :
              RollbackAndSave(w, row) /\ row.content \in Offered[job[w].rule]
         \/ Die
  PROVE  OrphanInv'
<1>1. OfferedRows' /\ NoOrphans'
  BY DEF OrphanInv, OfferedInv, OfferedRows, NoOrphans
<1>2. OfferedJobs /\ job \in [Worker -> Job]
  BY DEF OrphanInv, OfferedInv, OfferedJobs, TypeInv, TypeOK
<1>3. ASSUME NEW w \in Worker, Release(w) PROVE OrphanInv'
  <2>1. OfferedJobs'
    BY <1>2, <1>3 DEF OfferedJobs, Release, Idle
  <2> QED BY <1>1, <1>3, <2>1, LeavingKeepsPlace DEF Release, NoSec
<1>4. ASSUME NEW w \in Worker, NEW row \in Row, RollbackAndSave(w, row),
             row.content \in Offered[job[w].rule]
      PROVE  OrphanInv'
  <2>1. OfferedJobs'
    BY <1>2, <1>4 DEF OfferedJobs, RollbackAndSave, Job
  <2> QED BY <1>1, <1>4, <2>1, LeavingKeepsPlace DEF RollbackAndSave, NoSec
<1>5. CASE Die
  <2>1. OfferedJobs'
    BY <1>5 DEF OfferedJobs, Die, Idle
  <2> QED BY <1>1, <1>5, <2>1, LeavingKeepsPlace DEF Die, NoSec
<1> QED BY <1>3, <1>4, <1>5

LEMMA GivingUpKeepsPlace ==
  ASSUME TypeInv, OrphanInv, NEW w \in Worker, GiveUp(w),
         UNCHANGED <<rows, objects, tables, owner>>
  PROVE  OrphanInv'
<1>1. CASE job[w].op = "run"
  <2>1. /\ [job[w].row EXCEPT !.errors = TRUE] \in Row
        /\ [job[w].row EXCEPT !.errors = TRUE].content \in Offered[job[w].rule]
    BY <1>1 DEF TypeInv, JobInv, OrphanInv, OfferedInv, Row
  <2> QED BY <1>1, <2>1, UndoingKeepsPlace DEF GiveUp
<1>2. CASE job[w].op # "run"
  BY <1>2, UndoingKeepsPlace DEF GiveUp
<1> QED BY <1>1, <1>2

LEMMA RequestsKeepPlace ==
  ASSUME TypeInv, HolderInv, OrphanInv, Requests
  PROVE  OrphanInv'
<1>1. UNCHANGED <<objects, tables, owner, holder, sec, tx>>
  BY DEF Requests, CreateRule, UpdateRule, RequestDelete, ReceiveMessage
<1>2. \A v \in Worker : job[v].op # "idle" => job'[v] = job[v]
  BY DEF TypeInv, TypeOK, Requests, CreateRule, UpdateRule, RequestDelete,
         ReceiveMessage, GoRunRule
<1>3. holder # None => job'[holder] = job[holder]
  BY <1>2 DEF HolderInv, SectionInv, TypeInv, TypeOK
<1>4. OfferedRows /\ OfferedJobs /\ rows \in Rows /\ job \in [Worker -> Job]
  BY DEF OrphanInv, OfferedInv, OfferedRows, OfferedJobs, TypeInv, TypeOK
<1>5. /\ OfferedRows' /\ OfferedJobs'
      /\ \A r \in Rule : rows[r] # None => rows'[r] # None
  <2>1. ASSUME NEW w \in Worker, NEW r \in Rule, NEW e \in ClientErrors,
               NEW c \in Offered[r], CreateRule(w, r, c, e) \/ UpdateRule(w, r, c, e)
        PROVE  /\ OfferedRows' /\ OfferedJobs'
               /\ \A q \in Rule : rows[q] # None => rows'[q] # None
    <3>1. PICK p : p = Payload(c, e)
      OBVIOUS
    <3>2. p # None /\ p.content = c
      BY <3>1, PayloadType DEF Payload
    <3>3. /\ rows' = [rows EXCEPT ![r] = p]
          /\ job' = [job EXCEPT ![w] = [op |-> "run", rule |-> r, row |-> p, msg |-> None]]
      BY <2>1, <3>1 DEF CreateRule, UpdateRule, GoRunRule, Idle
    <3> QED BY <1>4, <3>2, <3>3 DEF OfferedRows, OfferedJobs, Rows
  <2>2. ASSUME NEW w \in Worker, NEW r \in Rule, RequestDelete(w, r)
        PROVE  OfferedJobs' /\ rows' = rows
    BY <1>4, <2>2 DEF RequestDelete, OfferedJobs, Idle
  <2>3. ASSUME NEW w \in Worker, NEW m \in inbox, ReceiveMessage(w, m)
        PROVE  OfferedJobs' /\ rows' = rows
    BY <1>4, <2>3 DEF ReceiveMessage, OfferedJobs, Idle
  <2> QED BY <1>4, <2>1, <2>2, <2>3 DEF Requests, OfferedRows
<1> QED BY <1>1, <1>3, <1>5, OthersKeepPlace

(* Entering the lock: a deletion has a list of all the tables it must visit. *)
LEMMA EnterKeepsPlace ==
  ASSUME TypeInv, OrphanInv, NEW w \in Worker, NEW pc \in {"page", "table"},
         NEW ids, NEW todo, Enter(w, pc, ids, todo),
         UNCHANGED <<rows, objects, tables, owner>>, OfferedJobs',
         job'[w].op = job[w].op, job'[w].rule = job[w].rule,
         job[w].op = "delete" =>
           \A o \in objects : o[2] = job[w].rule => o[1] \in todo
  PROVE  OrphanInv'
<1>1. /\ holder' = w /\ tx'.rows = NoRows /\ tx'.objects = objects
      /\ sec'.picked = NoRows /\ sec'.pc = pc /\ sec'.todo = todo
  BY DEF Enter, NoSec
<1>2. OfferedInv'
  BY <1>1 DEF OrphanInv, OfferedInv, OfferedJobs, NoRows
<1>3. PlaceInv' /\ PickInv'
  BY <1>1 DEF OrphanInv, PlaceInv, PickInv, Selects, NoRows
<1>4. LeftInv'
  BY <1>1 DEF LeftInv
<1>5. NoOrphans'
  BY DEF OrphanInv, NoOrphans
<1> QED BY <1>2, <1>3, <1>4, <1>5 DEF OrphanInv

LEMMA BeginKeepsPlace ==
  ASSUME VersionsAlike, TypeInv, HolderInv, OrphanInv, NEW w \in Worker, Begin(w)
  PROVE  OrphanInv'
<1>0. OfferedJobs /\ job \in [Worker -> Job]
  BY DEF OrphanInv, OfferedInv, OfferedJobs, TypeInv, TypeOK
<1>1. CASE BeginRun(w)
  <2>1. /\ job[w].op = "run" /\ job[w].row \in Row
        /\ job[w].row.content \in Offered[job[w].rule]
    BY <1>0, <1>1 DEF BeginRun, OfferedJobs, TypeInv, JobInv
  <2>2. ASSUME NEW T, Enter(w, "table", {job[w].rule}, T),
               job' = [job EXCEPT ![w].row.errors = FALSE]
        PROVE  OrphanInv'
    <3>1. /\ job'[w].op = job[w].op /\ job'[w].rule = job[w].rule
          /\ job'[w].row = [job[w].row EXCEPT !.errors = FALSE]
          /\ \A v \in Worker \ {w} : job'[v] = job[v]
      BY <1>0, <2>2 DEF Job
    <3>2. job'[w].row.content = job[w].row.content
      BY <2>1, <3>1 DEF Row
    <3>3. OfferedJobs'
      BY <1>0, <2>1, <3>1, <3>2 DEF OfferedJobs
    <3> QED BY <1>1, <2>1, <2>2, <3>1, <3>3, EnterKeepsPlace DEF BeginRun
  <2>3. /\ [job[w].row EXCEPT !.errors = TRUE] \in Row
        /\ [job[w].row EXCEPT !.errors = TRUE].content \in Offered[job[w].rule]
    BY <2>1 DEF Row
  <2>4. CASE Release(w)
    BY <1>1, <2>4, UndoingKeepsPlace DEF BeginRun
  <2> QED BY <1>1, <2>2, <2>3, <2>4, UndoingKeepsPlace DEF BeginRun
<1>2. CASE BeginDelete(w)
  <2> DEFINE r == job[w].rule
             T == FindMatchingTables(rows, tables, {r})
  <2>1. CASE /\ ~FindMatchingTablesFails(rows, tables, {r})
             /\ Enter(w, "table", {r}, T)
             /\ UNCHANGED job
    <3>1. ASSUME NEW o \in objects, o[2] = r
          PROVE  o[1] \in T
      <4>1. rows[r] # None /\ r \in Rule
        BY <3>1 DEF OrphanInv, NoOrphans, TypeInv, TypeOK, Object
      <4>2. o[3] \in Offered[r] /\ o[1] \in tables /\ o[1] \in TableRegEx[o[3]]
        BY <3>1 DEF OrphanInv, PlaceInv, Selects
      <4>3. rows[r].content \in Offered[r]
        BY <4>1 DEF OrphanInv, OfferedInv
      <4>4. rows[r].content \notin InvalidRegEx
        BY <2>1, <4>1, <4>2 DEF FindMatchingTablesFails
      <4>5. o[1] \in TableRegEx[rows[r].content]
        BY <4>1, <4>2, <4>3, <4>4 DEF VersionsAlike
      <4> QED BY <4>1, <4>2, <4>5 DEF FindMatchingTables
    <3>2. OfferedJobs'
      BY <1>0, <2>1 DEF OfferedJobs
    <3> HIDE DEF T
    <3> QED BY <1>2, <2>1, <3>1, <3>2, EnterKeepsPlace DEF BeginDelete
  <2>2. CASE Release(w)
    BY <1>2, <2>2, UndoingKeepsPlace DEF BeginDelete
  <2> QED BY <1>2, <2>1, <2>2 DEF BeginDelete
<1>3. CASE BeginMessage(w)
  <2>1. ASSUME NEW T, Enter(w, "table", Rule, T), UNCHANGED job
        PROVE  OrphanInv'
    <3>1. OfferedJobs'
      BY <1>0, <2>1 DEF OfferedJobs
    <3> QED BY <1>3, <2>1, <3>1, EnterKeepsPlace DEF BeginMessage
  <2>2. CASE Release(w)
    BY <1>3, <2>2, UndoingKeepsPlace DEF BeginMessage
  <2> QED BY <1>3, <2>1, <2>2 DEF BeginMessage
<1>4. CASE BeginApplyAll(w)
  <2>1. OfferedJobs'
    BY <1>0, <1>4 DEF OfferedJobs, BeginApplyAll
  <2> QED BY <1>4, <2>1, EnterKeepsPlace DEF BeginApplyAll
<1> QED BY <1>1, <1>2, <1>3, <1>4 DEF Begin

(* The holder goes on without writing. *)
LEMMA LocalStepKeepsPlace ==
  ASSUME OrphanInv, UNCHANGED <<rows, objects, tables, owner, tx>>, OfferedJobs',
         \A r \in Rule : sec'.picked[r] # None => sec'.picked[r].content \in Offered[r],
         PickInv', LeftInv'
  PROVE  OrphanInv'
<1>1. OfferedInv'
  BY DEF OrphanInv, OfferedInv, OfferedJobs
<1>2. PlaceInv' /\ NoOrphans'
  BY DEF OrphanInv, PlaceInv, Selects, NoOrphans
<1> QED BY <1>1, <1>2 DEF OrphanInv

(* ... and comes to a table, or to a page. *)
LEMMA BetweenTables ==
  ASSUME TypeInv, HolderInv, OrphanInv, NEW w \in Worker, holder = w,
         UNCHANGED <<rows, objects, tables, owner, tx, holder>>, OfferedJobs',
         job'[w].op = job[w].op, job'[w].rule = job[w].rule,
         sec.pc # "select", sec'.pc \in {"page", "table"},
         \A r \in Rule : sec.picked[r] = None, sec'.picked = sec.picked,
         job[w].op = "delete" => sec'.todo = sec.todo /\ (sec.pc = "exec" => sec.ok)
  PROVE  OrphanInv'
<1>1. PickInv'
  BY DEF PickInv
<1>2. LeftInv'
  <2> SUFFICES ASSUME job[w].op = "delete",
                      NEW o \in tx.objects, o[2] = job[w].rule
               PROVE  o[1] \in sec'.todo
    BY DEF LeftInv
  <2>1. o[2] \in Rule /\ w # None
    BY ControllerAssumption DEF TypeInv, TypeOK, Object
  <2> QED BY <2>1 DEF OrphanInv, LeftInv
<1> QED BY <1>1, <1>2, LocalStepKeepsPlace

LEMMA LookupOwnersKeepsPlace ==
  ASSUME TypeInv, HolderInv, OrphanInv, NEW w \in Worker, NEW t \in Table,
         LookupOwners(w, t)
  PROVE  OrphanInv'
<1>1. /\ holder = w /\ w # None /\ sec.pc = "table"
      /\ sec'.pc = "select" /\ sec'.table = t /\ sec'.who = owner[t]
      /\ sec'.todo = sec.todo \ {t} /\ sec'.picked = sec.picked
      /\ UNCHANGED <<rows, objects, tables, owner, tx, holder, job>>
  BY ControllerAssumption DEF LookupOwners, TypeInv, TypeOK, Sec
<1>2. \A r \in Rule : sec.picked[r] = None
  BY <1>1 DEF OrphanInv, PickInv
<1>3. PickInv'
  BY <1>1, <1>2 DEF PickInv
<1>4. LeftInv'
  BY <1>1 DEF OrphanInv, LeftInv
<1>5. OfferedJobs'
  BY <1>1 DEF OrphanInv, OfferedInv, OfferedJobs
<1> QED BY <1>1, <1>2, <1>3, <1>4, <1>5, LocalStepKeepsPlace

(* The contents the transaction reads. *)
LEMMA SeenOffered ==
  ASSUME OrphanInv
  PROVE  \A r \in Rule : Seen[r] # None => Seen[r].content \in Offered[r]
BY DEF OrphanInv, OfferedInv, Seen

(* A deletion selects its rule wherever it left an effect. *)
LEMMA SelectRulesKeepsPlace ==
  ASSUME VersionsAlike, TypeInv, HolderInv, OrphanInv, NEW w \in Worker, SelectRules(w)
  PROVE  OrphanInv'
<1>1. PICK S \in FindMatchingRules(Seen, tables, sec.table, sec.who, sec.ids) :
        sec' = [sec EXCEPT !.pc = "exec",
                           !.picked = [r \in Rule |-> IF r \in S THEN Seen[r] ELSE None]]
  BY DEF SelectRules
<1>2. /\ holder = w /\ w # None /\ sec.pc = "select" /\ sec.who = owner[sec.table]
      /\ sec'.pc = "exec" /\ sec'.table = sec.table /\ sec'.todo = sec.todo
      /\ \A r \in Rule : sec'.picked[r] = IF r \in S THEN Seen[r] ELSE None
      /\ UNCHANGED <<rows, objects, tables, owner, tx, holder, job>>
  BY <1>1, ControllerAssumption DEF SelectRules, TypeInv, TypeOK, Sec, OrphanInv, PickInv
<1>3. S \subseteq Candidates(Seen, tables, sec.table, owner[sec.table], sec.ids)
  BY <1>2 DEF FindMatchingRules
<1>4. PickInv'
  BY <1>2, <1>3 DEF PickInv, Candidates, Owned, Selects
<1>5. LeftInv'
  <2> SUFFICES ASSUME job[w].op = "delete",
                      NEW o \in tx.objects, o[2] = job[w].rule, o[1] \notin sec.todo
               PROVE  o[1] = sec.table /\ sec'.picked[o[2]] # None
    BY <1>2 DEF LeftInv
  <2> DEFINE r == o[2]
             d == Seen[r].content
  <2>1. r \in Rule /\ o \in objects /\ sec.ids = {r}
    BY <1>2 DEF HolderInv, SectionInv, OwnRuleInv, TypeInv, TypeOK, Object
  <2>2. rows[r] # None /\ Seen[r] # None
    BY <2>1 DEF OrphanInv, NoOrphans, Seen
  <2>3. o[1] = sec.table
    BY <1>2 DEF OrphanInv, LeftInv
  <2>4. o[3] \in Offered[r] /\ Selects(o[3], sec.table)
    BY <2>3 DEF OrphanInv, PlaceInv
  <2>5. d \in Offered[r]
    BY <2>1, <2>2, SeenOffered
  <2>6. Principals[d] = Principals[o[3]] /\ r \in Owned(Seen, sec.who, sec.ids)
    BY <1>2, <2>1, <2>2, <2>4, <2>5 DEF VersionsAlike, Owned, Selects
  <2>7. d \notin InvalidRegEx
    BY <2>4, <2>6 DEF SelectRules, FindMatchingRulesFails, Selects
  <2>8. r \in Candidates(Seen, tables, sec.table, sec.who, sec.ids)
    <3>1. sec.table \in tables /\ sec.table \in TableRegEx[o[3]]
      BY <2>4 DEF Selects
    <3>2. TableRegEx[o[3]] \subseteq TableRegEx[d]
      BY <2>1, <2>4, <2>5, <2>7 DEF VersionsAlike
    <3> QED BY <2>6, <3>1, <3>2 DEF Candidates
  <2>9. PICK s \in S : TRUE
    BY <2>8 DEF FindMatchingRules, IsSelection
  <2>10. s = r
    BY <1>3, <2>1, <2>9 DEF Candidates, Owned
  <2> QED BY <1>2, <2>1, <2>2, <2>3, <2>9, <2>10
<1>6. \A r \in Rule : sec'.picked[r] # None => sec'.picked[r].content \in Offered[r]
  BY <1>2, SeenOffered
<1>7. OfferedJobs'
  BY <1>2 DEF OrphanInv, OfferedInv, OfferedJobs
<1> QED BY <1>2, <1>4, <1>5, <1>6, <1>7, LocalStepKeepsPlace

LEMMA ExecTemplateKeepsPlace ==
  ASSUME TypeInv, HolderInv, OrphanInv, NEW w \in Worker, NEW r \in Rule,
         ExecTemplate(w, r)
  PROVE  OrphanInv'
<1>1. /\ holder = w /\ w # None /\ sec.pc = "exec"
      /\ sec.picked[r] # None /\ sec.picked[r] \in Row
      /\ UNCHANGED <<rows, objects, tables, owner, holder, job>>
      /\ sec \in Sec /\ tx \in [rows : Rows, objects : SUBSET Object]
  BY ControllerAssumption DEF ExecTemplate, Picked, TypeInv, TypeOK, Sec, Rows
<1>2. sec.picked[r].content \in Offered[r] /\ Selects(sec.picked[r].content, sec.table)
  BY <1>1 DEF OrphanInv, OfferedInv, PickInv
<1>3. /\ sec'.pc = "exec" /\ sec'.table = sec.table /\ sec'.todo = sec.todo
      /\ \A q \in Rule : sec'.picked[q] = IF q = r THEN None ELSE sec.picked[q]
  <2> DEFINE left == [sec.picked EXCEPT ![r] = None]
  <2>1. \A q \in Rule : left[q] = IF q = r THEN None ELSE sec.picked[q]
    BY <1>1 DEF Sec, Rows
  <2>2. \/ sec' = [sec EXCEPT !.picked = left]
        \/ sec' = [sec EXCEPT !.picked = left, !.ok = FALSE]
    BY <1>1 DEF ExecTemplate, Sec
  <2> HIDE DEF left
  <2> QED BY <1>1, <2>1, <2>2 DEF Sec
<1>4. \/ tx'.objects = Effect(r) /\ tx'.rows = tx.rows /\ sec'.ok = sec.ok
      \/ /\ tx'.objects = tx.objects /\ sec'.ok = FALSE
         /\ tx'.rows = [tx.rows EXCEPT ![r] = [sec.picked[r] EXCEPT !.errors = TRUE]]
  BY <1>1 DEF ExecTemplate, Sec
<1>5. OfferedInv'
  <2>1. [sec.picked[r] EXCEPT !.errors = TRUE].content = sec.picked[r].content
    BY <1>1 DEF Row
  <2>2. \A q \in Rule : tx'.rows[q] # None => tx'.rows[q].content \in Offered[q]
    BY <1>1, <1>2, <1>4, <2>1 DEF OrphanInv, OfferedInv, Rows
  <2> QED BY <1>1, <1>3, <2>2 DEF OrphanInv, OfferedInv
<1>6. PlaceInv'
  <2>1. tx'.objects \subseteq tx.objects \cup {<<sec.table, r, sec.picked[r].content>>}
    BY <1>4 DEF Effect
  <2> QED BY <1>1, <1>2, <2>1 DEF OrphanInv, PlaceInv, Selects
<1>7. PickInv'
  BY <1>1, <1>3 DEF OrphanInv, PickInv, Selects
<1>8. LeftInv'
  <2> SUFFICES ASSUME job[w].op = "delete",
                      NEW o \in tx'.objects, o[2] = job[w].rule, o[1] \notin sec.todo
               PROVE  o[1] = sec.table /\ ~sec'.ok
    BY <1>1, <1>3 DEF LeftInv
  <2>1. /\ o \in tx.objects /\ o \in Object
        /\ tx'.objects = tx.objects \ ({sec.table} \X {r} \X Content) \/ ~sec'.ok
    BY <1>1, <1>4 DEF Effect
  <2>2. o[1] = sec.table
    BY <1>1, <2>1 DEF OrphanInv, LeftInv
  <2>3. o[2] = r
    BY <1>1 DEF HolderInv, OwnRuleInv
  <2>4. o \in {sec.table} \X {r} \X Content
    BY <2>1, <2>2, <2>3 DEF Object
  <2> QED BY <2>1, <2>2, <2>4
<1>9. NoOrphans'
  BY <1>1 DEF OrphanInv, NoOrphans
<1> QED BY <1>5, <1>6, <1>7, <1>8, <1>9 DEF OrphanInv

(* A run, a message or the application of all rules commits. *)
LEMMA CommitKeepsPlace ==
  ASSUME TypeInv, HolderInv, OrphanInv, NEW w \in Worker, holder = w, Release(w),
         job[w].op # "delete", sec.pc # "save",
         objects' = tx.objects, UNCHANGED <<tables, owner>>, OfferedRows',
         \A r \in Rule : rows[r] # None => rows'[r] # None
  PROVE  OrphanInv'
<1>1. OfferedJobs'
  BY DEF OrphanInv, OfferedInv, OfferedJobs, Release, Idle, TypeInv, TypeOK
<1>2. NoOrphans'
  <2> SUFFICES ASSUME NEW o \in tx.objects PROVE rows'[o[2]] # None
    BY DEF NoOrphans
  <2>1. o[2] \in Rule /\ w # None
    BY ControllerAssumption DEF TypeInv, TypeOK, Object
  <2>2. rows[o[2]] # None
    BY <2>1 DEF HolderInv, EffectInv, OrphanInv, NoOrphans
  <2> QED BY <2>1, <2>2
<1> QED BY <1>1, <1>2, LeavingKeepsPlace DEF Release, NoSec

LEMMA FinishKeepsPlace ==
  ASSUME TypeInv, HolderInv, OrphanInv, NEW w \in Worker,
         \/ FinishRun(w) \/ SaveErrors(w) \/ FinishDelete(w)
         \/ FinishMessage(w) \/ FinishApplyAll(w)
  PROVE  OrphanInv'
<1>0. /\ w # None /\ job[w] \in Job /\ rows \in Rows /\ Seen \in Rows
      /\ OfferedRows /\ OfferedJobs /\ None \notin Row
      /\ \A r \in Rule : rows[r] # None => Seen[r] # None
      /\ \A r \in Rule : Seen[r] # None => Seen[r].content \in Offered[r]
  BY ControllerAssumption, SelectionAssumption, SeenType, SeenOffered
     DEF TypeInv, TypeOK, OrphanInv, OfferedInv, OfferedRows, OfferedJobs, Seen
<1>1. CASE FinishRun(w)
  <2> DEFINE r == job[w].rule
             row == [job[w].row EXCEPT !.completed = TRUE]
  <2>1. /\ job[w].op = "run" /\ sec.pc = "table" /\ holder = w
        /\ Release(w) /\ UNCHANGED <<tables, owner>>
    BY <1>1 DEF FinishRun, LastTableDone
  <2>2. row \in Row /\ row.content \in Offered[r]
    BY <1>0, <2>1 DEF TypeInv, JobInv, OfferedJobs, Row
  <2>3. CASE rows' = [Seen EXCEPT ![r] = row] /\ objects' = tx.objects
    <3> HIDE DEF row
    <3>1. OfferedRows' /\ \A q \in Rule : rows[q] # None => rows'[q] # None
      BY <1>0, <2>2, <2>3 DEF OfferedRows, Rows
    <3> QED BY <2>1, <2>3, <3>1, CommitKeepsPlace
  <2>4. CASE UNCHANGED <<rows, objects>>
    BY <2>1, <2>4, UndoingKeepsPlace
  <2> QED BY <1>1, <2>3, <2>4 DEF FinishRun
<1>2. CASE SaveErrors(w)
  <2>1. /\ job[w].op = "run" /\ Release(w) /\ UNCHANGED <<objects, tables, owner>>
        /\ job[w].row \in Row /\ job[w].row.content \in Offered[job[w].rule]
    BY <1>0, <1>2 DEF SaveErrors, TypeInv, JobInv, OfferedJobs
  <2>2. OfferedRows' /\ \A q \in Rule : rows[q] # None => rows'[q] # None
    BY <1>0, <1>2, <2>1 DEF SaveErrors, OfferedRows, Rows
  <2>3. NoOrphans'
    BY <2>1, <2>2 DEF OrphanInv, NoOrphans, TypeInv, TypeOK, Object
  <2>4. OfferedJobs'
    BY <1>0, <2>1 DEF OfferedJobs, Release, Idle, TypeInv, TypeOK
  <2> QED BY <2>1, <2>2, <2>3, <2>4, LeavingKeepsPlace DEF Release, NoSec
<1>3. CASE FinishDelete(w)
  <2> DEFINE r == job[w].rule
  <2>1. /\ job[w].op = "delete" /\ sec.pc = "table" /\ sec.todo = {} /\ holder = w
        /\ Release(w) /\ UNCHANGED <<tables, owner>>
    BY <1>3 DEF FinishDelete, LastTableDone
  <2>2. CASE rows' = [Seen EXCEPT ![r] = None] /\ objects' = tx.objects
    <3>1. OfferedRows' /\ OfferedJobs'
      BY <1>0, <2>1, <2>2 DEF OfferedRows, OfferedJobs, Rows, Release, Idle, TypeInv, TypeOK
    <3>2. NoOrphans'
      <4> SUFFICES ASSUME NEW o \in tx.objects PROVE rows'[o[2]] # None
        BY <2>2 DEF NoOrphans
      <4>1. o[2] # r
        BY <1>0, <2>1 DEF OrphanInv, LeftInv
      <4>2. o \in objects /\ o[2] \in Rule
        BY <1>0, <2>1 DEF HolderInv, SectionInv, TypeInv, TypeOK, Object
      <4> QED BY <1>0, <2>2, <4>1, <4>2 DEF OrphanInv, NoOrphans, Rows
    <3> QED BY <2>1, <2>2, <3>1, <3>2, LeavingKeepsPlace DEF Release, NoSec
  <2>3. CASE UNCHANGED <<rows, objects>>
    BY <2>1, <2>3, UndoingKeepsPlace
  <2> QED BY <1>3, <2>2, <2>3 DEF FinishDelete
<1>4. CASE FinishMessage(w)
  <2>1. /\ job[w].op = "message" /\ sec.pc = "table" /\ holder = w
        /\ Release(w) /\ UNCHANGED <<tables, owner>>
    BY <1>4 DEF FinishMessage, LastTableDone
  <2>2. CASE rows' = Seen /\ objects' = tx.objects
    BY <1>0, <2>1, <2>2, CommitKeepsPlace DEF OfferedRows
  <2>3. CASE UNCHANGED <<rows, objects>>
    BY <2>1, <2>3, UndoingKeepsPlace
  <2> QED BY <1>4, <2>2, <2>3 DEF FinishMessage
<1>5. CASE FinishApplyAll(w)
  <2>1. /\ job[w].op = "applyAll" /\ sec.pc = "table" /\ holder = w
        /\ Release(w) /\ UNCHANGED <<tables, owner>>
        /\ rows' = Seen /\ objects' = tx.objects
    BY <1>5 DEF FinishApplyAll, LastTableDone
  <2> QED BY <1>0, <2>1, CommitKeepsPlace DEF OfferedRows
<1> QED BY <1>1, <1>2, <1>3, <1>4, <1>5

LEMMA ProceedKeepsPlace ==
  ASSUME VersionsAlike, TypeInv, HolderInv, OrphanInv, NEW w \in Worker, Proceed(w)
  PROVE  OrphanInv'
<1>0. /\ OfferedJobs /\ job \in [Worker -> Job] /\ sec \in Sec /\ w # None
      /\ \A r \in Rule : sec.picked[r] # None => sec.pc = "exec"
  BY ControllerAssumption
     DEF OrphanInv, OfferedInv, OfferedJobs, PickInv, TypeInv, TypeOK
<1>1. CASE ListPage(w)
  <2>1. /\ sec'.pc = "table" /\ sec'.picked = sec.picked
        /\ holder = w /\ sec.pc = "page"
        /\ UNCHANGED <<rows, objects, tables, owner, job, holder, tx>>
    BY <1>0, <1>1 DEF ListPage, Sec
  <2>2. job[w].op = "applyAll"
    BY <2>1 DEF HolderInv, SectionInv
  <2>3. OfferedJobs'
    BY <1>0, <2>1 DEF OfferedJobs
  <2> QED BY <1>0, <2>1, <2>2, <2>3, BetweenTables
<1>2. ASSUME NEW t \in Table, LookupOwners(w, t)
      PROVE  OrphanInv'
  BY <1>2, LookupOwnersKeepsPlace
<1>3. ASSUME NEW t \in Table, LookupFails(w, t)
      PROVE  OrphanInv'
  <2>1. CASE job[w].op = "applyAll"
    <3>1. /\ sec'.pc = "table" /\ sec'.picked = sec.picked
          /\ holder = w /\ sec.pc = "table"
          /\ UNCHANGED <<rows, objects, tables, owner, job, holder, tx>>
      BY <1>0, <1>3, <2>1 DEF LookupFails, Sec
    <3>2. OfferedJobs'
      BY <1>0, <3>1 DEF OfferedJobs
    <3> QED BY <1>0, <2>1, <3>1, <3>2, BetweenTables
  <2>2. CASE job[w].op # "applyAll"
    BY <1>3, <2>2, GivingUpKeepsPlace DEF LookupFails
  <2> QED BY <2>1, <2>2
<1>4. CASE SelectRules(w)
  BY <1>4, SelectRulesKeepsPlace
<1>5. ASSUME NEW r \in Rule, ExecTemplate(w, r)
      PROVE  OrphanInv'
  BY <1>5, ExecTemplateKeepsPlace
<1>6. CASE ApplyFails(w)
  BY <1>6, GivingUpKeepsPlace DEF ApplyFails
<1>7. CASE RunTableDone(w)
  <2> DEFINE row == Seen[job[w].rule]
  <2>1. /\ job[w].op = "run" /\ holder = w /\ sec.pc = "exec" /\ Picked = {}
        /\ row # None /\ job[w].rule \in Rule
        /\ UNCHANGED <<rows, objects, tables, owner>>
    BY <1>7 DEF RunTableDone, TableApplied, TypeInv, TypeOK, JobInv
  <2>2. row \in Row /\ row.content \in Offered[job[w].rule]
    BY <2>1, SeenType, SeenOffered DEF TypeInv, Rows
  <2> HIDE DEF row
  <2>3. CASE RollbackAndSave(w, row)
    BY <2>1, <2>2, <2>3, UndoingKeepsPlace
  <2>4. CASE NextTable /\ job' = [job EXCEPT ![w].row = row] /\ UNCHANGED <<holder, tx>>
    <3>1. /\ job'[w].op = job[w].op /\ job'[w].rule = job[w].rule
          /\ sec'.pc = "table" /\ sec'.picked = sec.picked
      BY <1>0, <2>4 DEF NextTable, Job, Sec
    <3>2. OfferedJobs'
      BY <1>0, <2>2, <2>4 DEF OfferedJobs, Job
    <3> QED BY <2>1, <2>4, <3>1, <3>2, BetweenTables DEF Picked
  <2> QED BY <1>7, <2>3, <2>4 DEF RunTableDone, row
<1>8. CASE DeleteTableDone(w)
  <2>1. CASE sec.ok
    <3>1. /\ sec'.pc = "table" /\ sec'.picked = sec.picked /\ sec'.todo = sec.todo
          /\ holder = w /\ sec.pc = "exec" /\ Picked = {}
          /\ UNCHANGED <<rows, objects, tables, owner, job, holder, tx>>
      BY <1>0, <1>8, <2>1 DEF DeleteTableDone, TableApplied, NextTable, Sec
    <3>2. OfferedJobs'
      BY <1>0, <3>1 DEF OfferedJobs
    <3> QED BY <2>1, <3>1, <3>2, BetweenTables DEF Picked
  <2>2. CASE ~sec.ok
    BY <1>8, <2>2, UndoingKeepsPlace DEF DeleteTableDone
  <2> QED BY <2>1, <2>2
<1>9. CASE TableDone(w)
  <2>1. /\ sec'.pc = "table" /\ sec'.picked = sec.picked /\ job[w].op # "delete"
        /\ holder = w /\ sec.pc = "exec" /\ Picked = {}
        /\ UNCHANGED <<rows, objects, tables, owner, job, holder, tx>>
    BY <1>0, <1>9 DEF TableDone, TableApplied, NextTable, Sec
  <2>2. OfferedJobs'
    BY <1>0, <2>1 DEF OfferedJobs
  <2> QED BY <2>1, <2>2, BetweenTables DEF Picked
<1>10. CASE NextPage(w)
  <2>1. /\ sec'.pc = "page" /\ sec'.picked = sec.picked
        /\ holder = w /\ sec.pc = "table" /\ job[w].op = "applyAll"
        /\ UNCHANGED <<rows, objects, tables, owner, job, holder, tx>>
    BY <1>0, <1>10 DEF NextPage, LastTableDone, Sec
  <2>2. OfferedJobs'
    BY <1>0, <2>1 DEF OfferedJobs
  <2> QED BY <1>0, <2>1, <2>2, BetweenTables
<1> QED BY <1>1, <1>2, <1>3, <1>4, <1>5, <1>6, <1>7, <1>8, <1>9, <1>10,
           FinishKeepsPlace DEF Proceed

LEMMA OrphanNext ==
  ASSUME VersionsAlike, Devices = {}, TypeInv, HolderInv, OrphanInv, [Next]_vars
  PROVE  OrphanInv'
<1>0. OfferedRows /\ OfferedJobs
  BY DEF OrphanInv, OfferedInv, OfferedRows, OfferedJobs
<1>1. CASE Requests
  BY <1>1, RequestsKeepPlace
<1>2. ASSUME NEW w \in Worker, Begin(w) \/ Proceed(w)
      PROVE  OrphanInv'
  BY <1>2, BeginKeepsPlace, ProceedKeepsPlace
<1>3. CASE Process
  <2>1. CASE Die
    BY <2>1, UndoingKeepsPlace DEF Die
  <2>2. ASSUME NEW w \in Worker, NEW sync \in BOOLEAN, Start(w, sync)
        PROVE  OrphanInv'
    <3>1. holder = None
      BY <2>2 DEF Start, TypeInv, TypeOK, JobInv, HolderInv, SectionInv
    <3>2. OfferedRows' /\ OfferedJobs'
      BY <1>0, <2>2 DEF Start, OfferedRows, OfferedJobs, Idle, TypeInv, TypeOK
    <3> QED BY <2>2, <3>1, <3>2, OthersKeepPlace DEF Start
  <2> QED BY <1>3, <2>1, <2>2 DEF Process, Crash, StartupFails, Panic
<1>4. CASE Environment
  <2>1. PICK t \in Table : CreateTable(t)
    BY <1>4 DEF Environment
  <2>2. OfferedRows' /\ OfferedJobs'
    BY <1>0, <2>1 DEF CreateTable, OfferedRows, OfferedJobs
  <2> QED BY <2>1, <2>2, OthersKeepPlace DEF CreateTable
<1>5. CASE UNCHANGED vars
  <2>1. OfferedRows' /\ OfferedJobs'
    BY <1>0, <1>5 DEF vars, OfferedRows, OfferedJobs
  <2> QED BY <1>5, <2>1, OthersKeepPlace DEF vars
<1> QED BY <1>1, <1>2, <1>3, <1>4, <1>5 DEF Next

LEMMA OrphanInit ==
  ASSUME Init
  PROVE  OrphanInv
<1>1. OfferedInv
  BY DEF Init, OfferedInv, NoRows, NoTx, NoSec, Idle
<1>2. PlaceInv /\ PickInv /\ LeftInv /\ NoOrphans
  BY DEF Init, PlaceInv, PickInv, LeftInv, NoOrphans, NoRows, NoTx, NoSec
<1> QED BY <1>1, <1>2 DEF OrphanInv

(* What a deleted rule leaves behind it leaves because the owner of a      *)
(* table changed or the rule was rewritten to select other tables: where   *)
(* owners stay and the versions of a rule select alike, nothing is left,   *)
(* whatever requests, messages, failed statements, failed templates and    *)
(* crashes came between (DeleteRule, applyRulesForTable).                  *)
THEOREM DeletedRulesLeaveNothing ==
  ASSUME Devices = {}, VersionsAlike
  PROVE  Spec => []NoOrphans
<1>1. Init => TypeInv /\ HolderInv /\ OrphanInv
  BY TypeInit, HolderInit, OrphanInit
<1>2. TypeInv /\ HolderInv /\ OrphanInv /\ [Next]_vars
        => (TypeInv /\ HolderInv /\ OrphanInv)'
  BY TypeNext, HolderNext, OrphanNext
<1>3. OrphanInv => NoOrphans
  BY DEF OrphanInv
<1> QED BY <1>1, <1>2, <1>3, PTL DEF Spec
=============================================================================
