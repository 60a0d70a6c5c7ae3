-------------------------- MODULE ControllerProofs --------------------------
(***************************************************************************)
(* Proofs about Controller for every value of its constants.               *)
(***************************************************************************)
EXTENDS Controller, FiniteSetTheorems, TLAPS

(* TypeOK is not inductive: that a run carries a row, and that what is     *)
(* written back belongs to a row that exists, is needed with it.           *)
TypeInv == TypeOK /\ JobInv /\ RowInv /\ TableInv

(* What the transaction reads are rows. *)
LEMMA SeenType ==
  ASSUME TypeOK
  PROVE  Seen \in Rows /\ Existing \subseteq Rule
BY DEF TypeOK, Seen, Rows, Existing

LEMMA InitialValues ==
  NoRows \in Rows /\ Idle \in Job /\ NoSec \in Sec
  /\ NoTx \in [rows : Rows, objects : SUBSET Object]
<1>1. NoRows \in Rows
  BY DEF NoRows, Rows
<1>2. Idle \in Job
  BY DEF Idle, Job
<1>3. NoSec \in Sec
  BY <1>1 DEF NoSec, Sec
<1>4. NoTx \in [rows : Rows, objects : SUBSET Object]
  BY <1>1 DEF NoTx
<1> QED BY <1>1, <1>2, <1>3, <1>4

LEMMA EnterType ==
  ASSUME TypeOK, NEW w \in Worker, NEW pc \in {"page", "table"},
         NEW ids \in SUBSET Rule, NEW todo \in SUBSET Table,
         Enter(w, pc, ids, todo)
  PROVE  /\ holder' \in Worker \cup {None}
         /\ sec' \in Sec
         /\ tx' \in [rows : Rows, objects : SUBSET Object]
BY InitialValues DEF TypeOK, Enter, NoSec, Sec

LEMMA ReleaseType ==
  ASSUME TypeInv, NEW w \in Worker, Release(w)
  PROVE  /\ holder' \in Worker \cup {None}
         /\ sec' \in Sec
         /\ tx' \in [rows : Rows, objects : SUBSET Object]
         /\ job' \in [Worker -> Job]
         /\ \A v \in Worker : job'[v] = job[v] \/ job'[v] = Idle
BY InitialValues DEF TypeInv, TypeOK, Release

LEMMA RollbackType ==
  ASSUME TypeInv, NEW w \in Worker, NEW row \in Row, RollbackAndSave(w, row)
  PROVE  /\ holder' \in Worker \cup {None}
         /\ sec' \in Sec
         /\ tx' \in [rows : Rows, objects : SUBSET Object]
         /\ job' \in [Worker -> Job]
         /\ \A v \in Worker : /\ job'[v].op = job[v].op
                              /\ job'[v].rule = job[v].rule
                              /\ job'[v].msg = job[v].msg
                              /\ job'[v].row \in {job[v].row, row}
<1>1. job' \in [Worker -> Job]
  BY DEF TypeInv, TypeOK, RollbackAndSave, Job
<1>2. sec' \in Sec /\ holder' \in Worker \cup {None}
  BY InitialValues DEF RollbackAndSave, NoSec, Sec
<1>3. tx' \in [rows : Rows, objects : SUBSET Object]
  BY InitialValues DEF RollbackAndSave
<1>4. \A v \in Worker : /\ job'[v].op = job[v].op
                        /\ job'[v].rule = job[v].rule
                        /\ job'[v].msg = job[v].msg
                        /\ job'[v].row \in {job[v].row, row}
  BY DEF TypeInv, TypeOK, RollbackAndSave, Job
<1> QED BY <1>1, <1>2, <1>3, <1>4

LEMMA DieType ==
  ASSUME TypeInv, Die
  PROVE  TypeInv'
<1>1. inbox' \subseteq Message
  BY DEF TypeInv, TypeOK, Die, Job
<1>2. TypeOK'
  BY <1>1, InitialValues DEF TypeInv, TypeOK, Die
<1>3. JobInv'
  BY DEF Die, JobInv, Idle
<1>4. RowInv'
  BY DEF TypeInv, RowInv, Die, NoTx, NoSec, NoRows
<1>5. TableInv'
  BY DEF TableInv, Die, NoSec
<1> QED BY <1>2, <1>3, <1>4, <1>5 DEF TypeInv
LEMMA PayloadType ==
  ASSUME NEW r \in Rule, NEW e \in ClientErrors, NEW c \in Offered[r]
  PROVE  Payload(c, e) \in Row /\ Payload(c, e) # None
<1>1. c \in Content
  BY ControllerAssumption
<1>2. e \in BOOLEAN
  BY ControllerAssumption
<1>3. Payload(c, e) \in Row
  BY <1>1, <1>2 DEF Payload, Row
<1> QED BY <1>3, SelectionAssumption

LEMMA RequestsKeep ==
  ASSUME TypeInv, Requests
  PROVE  TypeInv'
<1>1. ASSUME NEW w \in Worker, NEW r \in Rule, NEW e \in ClientErrors,
             NEW c \in Offered[r], CreateRule(w, r, c, e) \/ UpdateRule(w, r, c, e)
      PROVE  TypeInv'
  <2> DEFINE row == Payload(c, e)
  <2>1. row \in Row /\ row # None
    BY PayloadType
  <2>2. /\ phase = "up" /\ phase' = phase
        /\ used' \in SUBSET Rule /\ used \subseteq used' /\ r \in used'
        /\ rows' = [rows EXCEPT ![r] = row]
        /\ GoRunRule(w, r, row)
        /\ UNCHANGED <<objects, tables, owner, inbox, holder, sec, tx>>
    <3>1. CASE CreateRule(w, r, c, e)
      BY <3>1 DEF CreateRule, TypeInv, TypeOK
    <3>2. CASE UpdateRule(w, r, c, e)
      BY <3>2 DEF UpdateRule, TypeInv, TypeOK, RowInv
    <3> QED BY <3>1, <3>2, <1>1
  <2> HIDE DEF row
  <2>3. job' \in [Worker -> Job]
        /\ \A v \in Worker : \/ job'[v] = job[v]
                             \/ job'[v] = [op |-> "run", rule |-> r, row |-> row, msg |-> None]
    BY <2>1, <2>2 DEF TypeInv, TypeOK, GoRunRule, Idle, Job
  <2>4. TypeOK'
    BY <2>1, <2>2, <2>3 DEF TypeInv, TypeOK, Rows
  <2>5. JobInv'
    BY <2>1, <2>2, <2>3 DEF TypeInv, JobInv
  <2>6. RowInv' /\ TableInv'
    BY <2>1, <2>2 DEF TypeInv, TypeOK, RowInv, TableInv, Rows
  <2> QED BY <2>4, <2>5, <2>6 DEF TypeInv
<1>2. ASSUME NEW w \in Worker, NEW r \in Rule, RequestDelete(w, r)
      PROVE  TypeInv'
  <2>1. job' \in [Worker -> Job]
        /\ \A v \in Worker : \/ job'[v] = job[v]
                             \/ job'[v] = [op |-> "delete", rule |-> r, row |-> None, msg |-> None]
    BY <1>2 DEF TypeInv, TypeOK, RequestDelete, Idle, Job
  <2>2. TypeOK' /\ RowInv' /\ TableInv'
    BY <1>2, <2>1 DEF TypeInv, TypeOK, RowInv, TableInv, RequestDelete
  <2>3. JobInv'
    BY <1>2, <2>1 DEF TypeInv, JobInv, RequestDelete
  <2> QED BY <2>2, <2>3 DEF TypeInv
<1>3. ASSUME NEW w \in Worker, NEW m \in inbox, ReceiveMessage(w, m)
      PROVE  TypeInv'
  <2>1. m \in Message
    BY DEF TypeInv, TypeOK
  <2>2. job' \in [Worker -> Job]
        /\ \A v \in Worker : \/ job'[v] = job[v]
                             \/ job'[v] = [op |-> "message", rule |-> None, row |-> None, msg |-> m]
    BY <1>3, <2>1 DEF TypeInv, TypeOK, ReceiveMessage, Idle, Job
  <2>3. TypeOK' /\ RowInv' /\ TableInv'
    BY <1>3, <2>2 DEF TypeInv, TypeOK, RowInv, TableInv, ReceiveMessage
  <2>4. JobInv'
    BY <1>3, <2>1, <2>2 DEF TypeInv, JobInv, ReceiveMessage
  <2> QED BY <2>3, <2>4 DEF TypeInv
<1> QED BY <1>1, <1>2, <1>3 DEF Requests
(* Entering the lock leaves rows and requests alone. *)
LEMMA EnterKeeps ==
  ASSUME TypeInv, NEW w \in Worker, NEW pc \in {"page", "table"},
         NEW ids \in SUBSET Rule, NEW todo \in SUBSET Table,
         Enter(w, pc, ids, todo),
         UNCHANGED <<rows, used, objects, tables, owner, inbox, phase>>,
         job' \in [Worker -> Job], JobInv'
  PROVE  TypeInv'
<1>1. TypeOK'
  BY EnterType DEF TypeInv, TypeOK
<1>2. RowInv' /\ TableInv'
  BY DEF TypeInv, RowInv, TableInv, Enter, NoSec, NoRows
<1> QED BY <1>1, <1>2 DEF TypeInv

LEMMA ReleaseKeeps ==
  ASSUME TypeInv, NEW w \in Worker, Release(w),
         rows' \in Rows, objects' \subseteq Object,
         \A r \in Rule : rows'[r] # None => r \in used,
         UNCHANGED <<used, tables, owner, inbox>>,
         phase' = phase \/ (phase = "syncing" /\ phase' = "up")
                        \/ (phase = "consuming" /\ phase' = "up")
  PROVE  TypeInv'
<1>1. TypeOK'
  BY ReleaseType DEF TypeInv, TypeOK
<1>2. JobInv'
  BY ReleaseType DEF TypeInv, JobInv, Idle
<1>3. RowInv' /\ TableInv'
  BY DEF TypeInv, RowInv, TableInv, Release, NoSec, NoTx, NoRows
<1> QED BY <1>1, <1>2, <1>3 DEF TypeInv

LEMMA RollbackKeeps ==
  ASSUME TypeInv, NEW w \in Worker, NEW row \in Row, RollbackAndSave(w, row),
         UNCHANGED <<rows, used, objects, tables, owner, inbox, phase>>
  PROVE  TypeInv'
<1>1. TypeOK'
  BY RollbackType DEF TypeInv, TypeOK
<1>2. JobInv'
  BY RollbackType DEF TypeInv, JobInv
<1>3. RowInv' /\ TableInv'
  BY DEF TypeInv, RowInv, TableInv, RollbackAndSave, NoSec, NoTx, NoRows
<1> QED BY <1>1, <1>2, <1>3 DEF TypeInv

LEMMA GiveUpKeeps ==
  ASSUME TypeInv, NEW w \in Worker, GiveUp(w),
         UNCHANGED <<rows, used, objects, tables, owner, inbox, phase>>
  PROVE  TypeInv'
<1>1. CASE job[w].op = "run"
  <2>1. [job[w].row EXCEPT !.errors = TRUE] \in Row
    BY <1>1 DEF TypeInv, JobInv, Row
  <2> QED BY <1>1, <2>1, RollbackKeeps DEF GiveUp
<1>2. CASE job[w].op # "run"
  BY <1>2, ReleaseKeeps DEF GiveUp, TypeInv, TypeOK, RowInv
<1> QED BY <1>1, <1>2

LEMMA BeginKeeps ==
  ASSUME TypeInv, NEW w \in Worker, Begin(w)
  PROVE  TypeInv'
<1> USE DEF TypeInv
<1>0. \A r \in Rule : rows[r] # None => r \in used
  BY DEF RowInv
<1>1. CASE BeginRun(w)
  <2> DEFINE ids == {job[w].rule}
             T == FindMatchingTables(rows, tables, ids)
  <2>1. job[w].row \in Row /\ job[w].rule \in Rule /\ ids \in SUBSET Rule
    BY <1>1 DEF BeginRun, JobInv, TypeOK
  <2>2. T \in SUBSET Table
    BY DEF FindMatchingTables, TypeOK
  <2> HIDE DEF T
  <2>3. CASE /\ Enter(w, "table", ids, T)
             /\ job' = [job EXCEPT ![w].row.errors = FALSE]
    <3>1. [job[w].row EXCEPT !.errors = FALSE] \in Row
      BY <2>1 DEF Row
    <3>2. job' \in [Worker -> Job]
      BY <2>3, <3>1 DEF TypeOK, Job
    <3>3. JobInv'
      BY <1>1, <2>3, <3>1 DEF BeginRun, TypeOK, JobInv, Job
    <3> QED BY <1>1, <2>1, <2>2, <2>3, <3>2, <3>3, EnterKeeps DEF BeginRun
  <2>4. CASE RollbackAndSave(w, [job[w].row EXCEPT !.errors = TRUE])
    <3>1. [job[w].row EXCEPT !.errors = TRUE] \in Row
      BY <2>1 DEF Row
    <3> QED BY <1>1, <2>4, <3>1, RollbackKeeps DEF BeginRun
  <2>5. CASE Release(w)
    BY <1>0, <1>1, <2>5, ReleaseKeeps DEF BeginRun, TypeOK
  <2> QED BY <1>1, <2>3, <2>4, <2>5 DEF BeginRun, T
<1>2. CASE BeginDelete(w)
  <2> DEFINE ids == {job[w].rule}
             T == FindMatchingTables(rows, tables, ids)
  <2>1. ids \in SUBSET Rule
    BY <1>2 DEF BeginDelete, JobInv, TypeOK
  <2>2. T \in SUBSET Table
    BY DEF FindMatchingTables, TypeOK
  <2> HIDE DEF T, ids
  <2>3. CASE Enter(w, "table", ids, T) /\ UNCHANGED job
    <3>1. job' \in [Worker -> Job] /\ JobInv'
      BY <1>2, <2>3 DEF BeginDelete, TypeOK, JobInv
    <3> QED BY <1>2, <2>1, <2>2, <2>3, <3>1, EnterKeeps DEF BeginDelete
  <2>4. CASE Release(w)
    BY <1>0, <1>2, <2>4, ReleaseKeeps DEF BeginDelete, TypeOK
  <2> QED BY <1>2, <2>3, <2>4 DEF BeginDelete, T, ids
<1>3. CASE BeginMessage(w)
  <2>1. job[w].msg \in Message
    BY <1>3 DEF BeginMessage, JobInv
  <2>2. MessageTables(job[w].msg) \subseteq SUBSET Table
    BY <2>1 DEF MessageTables, Received, Message
  <2>3. ASSUME NEW T \in MessageTables(job[w].msg), Enter(w, "table", Rule, T), UNCHANGED job
        PROVE  TypeInv'
    <3>1. job' \in [Worker -> Job] /\ JobInv'
      BY <1>3, <2>3 DEF BeginMessage, TypeOK, JobInv
    <3> QED BY <1>3, <2>2, <2>3, <3>1, EnterKeeps DEF BeginMessage
  <2>4. CASE Release(w)
    BY <1>0, <1>3, <2>4, ReleaseKeeps DEF BeginMessage, TypeOK
  <2> QED BY <1>3, <2>3, <2>4 DEF BeginMessage
<1>4. CASE BeginApplyAll(w)
  <2>1. job' \in [Worker -> Job] /\ JobInv'
    BY <1>4 DEF BeginApplyAll, TypeOK, JobInv
  <2> QED BY <1>4, <2>1, EnterKeeps DEF BeginApplyAll
<1> QED BY <1>1, <1>2, <1>3, <1>4 DEF Begin
(* Steps that change only the holder's local variables. *)
LEMMA LocalStepKeeps ==
  ASSUME TypeInv, sec' \in Sec,
         \A r \in Rule : sec'.picked[r] # None => rows[r] # None,
         TableInv',
         UNCHANGED <<rows, used, objects, tables, owner, inbox, job, holder, tx, phase>>
  PROVE  TypeInv'
BY DEF TypeInv, TypeOK, JobInv, RowInv

(* A commit: the rows written were rows of existing rules. *)
LEMMA CommitType ==
  ASSUME TypeInv
  PROVE  /\ tx.objects \subseteq Object
         /\ \A r \in Rule : Seen[r] # None => rows[r] # None /\ r \in used
BY DEF TypeInv, TypeOK, RowInv, Seen

LEMMA ListPageKeeps ==
  ASSUME TypeInv, NEW w \in Worker, ListPage(w)
  PROVE  TypeInv'
<1>1. PICK ids \in SUBSET Existing :
        sec' = [sec EXCEPT !.pc = "table",
                           !.ids = ids,
                           !.offset = @ + Cardinality(ids),
                           !.todo = FindMatchingTables(Seen, tables, ids)]
  BY DEF ListPage, Received
<1>2. ids \in SUBSET Rule
  BY DEF Existing
<1>3. Cardinality(ids) \in Nat
  BY <1>2, ControllerAssumption, FS_Subset, FS_CardinalityType
<1>4. FindMatchingTables(Seen, tables, ids) \in SUBSET Table
  BY DEF FindMatchingTables, TypeInv, TypeOK
<1>5. sec' \in Sec /\ sec'.picked = sec.picked /\ TableInv'
  <2> DEFINE n == sec.offset + Cardinality(ids)
             T == FindMatchingTables(Seen, tables, ids)
  <2>1. sec \in Sec /\ n \in Nat
    BY <1>3 DEF TypeInv, TypeOK, Sec
  <2>2. sec' = [sec EXCEPT !.pc = "table", !.ids = ids, !.offset = n, !.todo = T]
    BY <1>1
  <2> HIDE DEF n, T
  <2>3. T \in SUBSET Table
    BY <1>4 DEF T
  <2> QED BY <1>2, <2>1, <2>2, <2>3 DEF TableInv, Sec
<1> QED BY <1>5, LocalStepKeeps DEF ListPage, TypeInv, RowInv

LEMMA SelectRulesKeeps ==
  ASSUME TypeInv, NEW w \in Worker, SelectRules(w)
  PROVE  TypeInv'
<1>1. PICK S \in FindMatchingRules(Seen, tables, sec.table, sec.who, sec.ids) :
        sec' = [sec EXCEPT !.pc = "exec",
                           !.picked = [r \in Rule |-> IF r \in S THEN Seen[r] ELSE None]]
  BY DEF SelectRules
<1>2. [r \in Rule |-> IF r \in S THEN Seen[r] ELSE None] \in Rows
  BY SeenType DEF TypeInv, Rows
<1>3. sec' \in Sec /\ TableInv'
  BY <1>1, <1>2 DEF TypeInv, TypeOK, TableInv, SelectRules, Sec
<1>4. \A r \in Rule : sec'.picked[r] # None => rows[r] # None
  BY <1>1, CommitType DEF TypeInv, TypeOK, Sec
<1> QED BY <1>3, <1>4, LocalStepKeeps DEF SelectRules

LEMMA ExecTemplateKeeps ==
  ASSUME TypeInv, NEW w \in Worker, NEW r \in Rule, ExecTemplate(w, r)
  PROVE  TypeInv'
<1>1. /\ sec.picked[r] \in Row /\ rows[r] # None
      /\ sec.table \in Table /\ sec.picked \in Rows
  BY DEF TypeInv, TypeOK, RowInv, TableInv, ExecTemplate, Picked, Sec, Rows
<1>2. /\ sec' \in Sec /\ TableInv'
      /\ \A q \in Rule : sec'.picked[q] # None => rows[q] # None
  <2> DEFINE left == [sec.picked EXCEPT ![r] = None]
  <2>1. left \in Rows /\ \A q \in Rule : left[q] # None => rows[q] # None
    BY <1>1 DEF TypeInv, RowInv, Rows
  <2>2. \/ sec' = [sec EXCEPT !.picked = left]
        \/ sec' = [sec EXCEPT !.picked = left, !.ok = FALSE]
    BY DEF TypeInv, TypeOK, ExecTemplate, Sec
  <2> HIDE DEF left
  <2> QED BY <2>1, <2>2 DEF TypeInv, TypeOK, TableInv, Sec
<1>3. /\ tx' \in [rows : Rows, objects : SUBSET Object]
      /\ \A q \in Rule : tx'.rows[q] # None => rows[q] # None /\ tx'.rows[q].errors
  <2>1. CASE tx' = [tx EXCEPT !.objects = Effect(r)]
    <3>1. Effect(r) \subseteq Object
      <4>1. sec.picked[r].content \in Content
        BY <1>1 DEF Row
      <4>2. <<sec.table, r, sec.picked[r].content>> \in Object
        BY <1>1, <4>1 DEF Object
      <4>3. tx.objects \cup {<<sec.table, r, sec.picked[r].content>>} \subseteq Object
        BY <4>2, CommitType
      <4>4. tx.objects \ ({sec.table} \X {r} \X Content) \subseteq Object
        BY CommitType
      <4> QED BY <4>3, <4>4 DEF Effect
    <3> QED BY <1>1, <2>1, <3>1 DEF TypeInv, TypeOK, RowInv
  <2>2. CASE tx' = [tx EXCEPT !.rows[r] = [sec.picked[r] EXCEPT !.errors = TRUE]]
    <3>1. /\ [sec.picked[r] EXCEPT !.errors = TRUE] \in Row
          /\ [sec.picked[r] EXCEPT !.errors = TRUE].errors
      BY <1>1 DEF Row
    <3> QED BY <1>1, <2>2, <3>1 DEF TypeInv, TypeOK, RowInv, Rows
  <2> QED BY <2>1, <2>2 DEF ExecTemplate
<1>4. TypeOK' /\ RowInv'
  BY <1>2, <1>3 DEF TypeInv, TypeOK, RowInv, ExecTemplate
<1>5. JobInv'
  BY DEF TypeInv, JobInv, ExecTemplate
<1> QED BY <1>2, <1>4, <1>5 DEF TypeInv
LEMMA RunTableDoneKeeps ==
  ASSUME TypeInv, NEW w \in Worker, RunTableDone(w)
  PROVE  TypeInv'
<1> DEFINE row == Seen[job[w].rule]
<1>1. row \in Row
  BY SeenType DEF TypeInv, TypeOK, JobInv, RunTableDone, TableApplied, Rows
<1>2. CASE RollbackAndSave(w, row)
  BY <1>1, <1>2, RollbackKeeps DEF RunTableDone
<1>3. CASE NextTable /\ job' = [job EXCEPT ![w].row = row] /\ UNCHANGED <<holder, tx>>
  <2> HIDE DEF row
  <2>1. job' \in [Worker -> Job] /\ JobInv'
    BY <1>1, <1>3 DEF TypeInv, TypeOK, JobInv, RunTableDone, Job
  <2>2. sec' \in Sec /\ sec'.pc = "table" /\ sec'.picked = sec.picked
    BY <1>3 DEF TypeInv, TypeOK, NextTable, Sec
  <2>3. TypeOK' /\ RowInv' /\ TableInv'
    BY <1>3, <2>1, <2>2 DEF TypeInv, TypeOK, RowInv, TableInv, RunTableDone
  <2> QED BY <2>1, <2>3 DEF TypeInv
<1> QED BY <1>2, <1>3 DEF RunTableDone

LEMMA FinishKeeps ==
  ASSUME TypeInv, NEW w \in Worker,
         \/ FinishRun(w) \/ SaveErrors(w) \/ FinishDelete(w)
         \/ FinishMessage(w) \/ FinishApplyAll(w)
  PROVE  TypeInv'
<1>1. rows \in Rows /\ Seen \in Rows /\ objects \subseteq Object
      /\ \A r \in Rule : rows[r] # None => r \in used
  BY SeenType DEF TypeInv, TypeOK, RowInv
<1>2. CASE FinishRun(w)
  <2>1. job[w].row \in Row /\ job[w].rule \in Rule
    BY <1>2 DEF TypeInv, TypeOK, JobInv, FinishRun, LastTableDone
  <2>2. [job[w].row EXCEPT !.completed = TRUE] \in Row
    BY <2>1 DEF Row
  <2>3. /\ rows' \in Rows /\ objects' \subseteq Object
        /\ \A r \in Rule : rows'[r] # None => r \in used
    BY <1>1, <1>2, <2>1, <2>2, CommitType DEF FinishRun, Rows
  <2> QED BY <1>2, <2>3, ReleaseKeeps DEF FinishRun
<1>3. CASE SaveErrors(w)
  <2>1. job[w].row \in Row /\ job[w].rule \in Rule
    BY <1>3 DEF TypeInv, TypeOK, JobInv, SaveErrors
  <2>2. /\ rows' \in Rows
        /\ \A r \in Rule : rows'[r] # None => r \in used
    BY <1>1, <1>3, <2>1 DEF SaveErrors, Rows
  <2> QED BY <1>1, <1>3, <2>2, ReleaseKeeps DEF SaveErrors
<1>4. CASE FinishDelete(w)
  <2>1. /\ rows' \in Rows /\ objects' \subseteq Object
        /\ \A r \in Rule : rows'[r] # None => r \in used
    BY <1>1, <1>4, CommitType DEF FinishDelete, Rows
  <2> QED BY <1>4, <2>1, ReleaseKeeps DEF FinishDelete
<1>5. CASE FinishMessage(w)
  <2>1. /\ rows' \in Rows /\ objects' \subseteq Object
        /\ \A r \in Rule : rows'[r] # None => r \in used
    BY <1>1, <1>5, CommitType DEF FinishMessage
  <2> QED BY <1>5, <2>1, ReleaseKeeps DEF FinishMessage
<1>6. CASE FinishApplyAll(w)
  <2>1. /\ rows' \in Rows /\ objects' \subseteq Object
        /\ \A r \in Rule : rows'[r] # None => r \in used
    BY <1>1, <1>6, CommitType DEF FinishApplyAll
  <2>2. phase \in {"syncing", "consuming", "up"}
    BY <1>6 DEF FinishApplyAll, LastTableDone, TypeInv, TypeOK, JobInv
  <2> QED BY <1>6, <2>1, <2>2, ReleaseKeeps DEF FinishApplyAll
<1> QED BY <1>2, <1>3, <1>4, <1>5, <1>6
LEMMA ProceedKeeps ==
  ASSUME TypeInv, NEW w \in Worker, Proceed(w)
  PROVE  TypeInv'
<1>1. CASE ListPage(w)
  BY <1>1, ListPageKeeps
<1>2. ASSUME NEW t \in Table, LookupOwners(w, t)
      PROVE  TypeInv'
  <2>1. sec' \in Sec /\ sec'.picked = sec.picked /\ TableInv'
    BY <1>2, ControllerAssumption DEF TypeInv, TypeOK, TableInv, LookupOwners, Sec
  <2> QED BY <1>2, <2>1, LocalStepKeeps DEF LookupOwners, TypeInv, RowInv
<1>3. ASSUME NEW t \in Table, LookupFails(w, t)
      PROVE  TypeInv'
  <2>1. CASE job[w].op = "applyAll"
    <3>1. sec' \in Sec /\ sec'.picked = sec.picked /\ TableInv'
      BY <1>3, <2>1 DEF TypeInv, TypeOK, TableInv, LookupFails, Sec
    <3> QED BY <1>3, <2>1, <3>1, LocalStepKeeps DEF LookupFails, TypeInv, RowInv
  <2>2. CASE job[w].op # "applyAll"
    BY <1>3, <2>2, GiveUpKeeps DEF LookupFails
  <2> QED BY <2>1, <2>2
<1>4. CASE SelectRules(w)
  BY <1>4, SelectRulesKeeps
<1>5. ASSUME NEW r \in Rule, ExecTemplate(w, r)
      PROVE  TypeInv'
  BY <1>5, ExecTemplateKeeps
<1>6. CASE ApplyFails(w)
  BY <1>6, GiveUpKeeps DEF ApplyFails
<1>7. CASE RunTableDone(w)
  BY <1>7, RunTableDoneKeeps
<1>8. CASE DeleteTableDone(w)
  <2>1. CASE sec.ok
    <3>1. sec' \in Sec /\ sec'.picked = sec.picked /\ TableInv'
      BY <1>8, <2>1 DEF TypeInv, TypeOK, TableInv, DeleteTableDone, NextTable, Sec
    <3> QED BY <1>8, <2>1, <3>1, LocalStepKeeps DEF DeleteTableDone, TypeInv, RowInv
  <2>2. CASE ~sec.ok
    BY <1>8, <2>2, ReleaseKeeps DEF DeleteTableDone, TypeInv, TypeOK, RowInv
  <2> QED BY <2>1, <2>2
<1>9. CASE TableDone(w)
  <2>1. sec' \in Sec /\ sec'.picked = sec.picked /\ TableInv'
    BY <1>9 DEF TypeInv, TypeOK, TableInv, TableDone, NextTable, Sec
  <2> QED BY <1>9, <2>1, LocalStepKeeps DEF TableDone, TypeInv, RowInv
<1>10. CASE NextPage(w)
  <2>1. sec' \in Sec /\ sec'.picked = sec.picked /\ TableInv'
    BY <1>10 DEF TypeInv, TypeOK, TableInv, NextPage, Sec
  <2> QED BY <1>10, <2>1, LocalStepKeeps DEF NextPage, TypeInv, RowInv
<1> QED BY <1>1, <1>2, <1>3, <1>4, <1>5, <1>6, <1>7, <1>8, <1>9, <1>10,
           FinishKeeps DEF Proceed

LEMMA StartKeeps ==
  ASSUME TypeInv, NEW w \in Worker, NEW sync \in BOOLEAN, Start(w, sync)
  PROVE  TypeInv'
<1>1. /\ phase' \in {"syncing", "consuming", "up"}
      /\ \A v \in Worker : job[v].op = "idle"
      /\ job' \in [Worker -> Job]
      /\ \A v \in Worker : \/ job'[v] = job[v]
                           \/ job'[v] = [Idle EXCEPT !.op = "applyAll"]
  BY DEF TypeInv, TypeOK, JobInv, Start, Idle, Job
<1>2. TypeOK' /\ RowInv' /\ TableInv'
  BY <1>1 DEF TypeInv, TypeOK, RowInv, TableInv, Start
<1>3. JobInv'
  BY <1>1 DEF TypeInv, JobInv, Idle
<1> QED BY <1>2, <1>3 DEF TypeInv

LEMMA EnvironmentKeeps ==
  ASSUME TypeInv, Environment
  PROVE  TypeInv'
<1>1. /\ tables' \subseteq Table /\ owner' \in [Table -> SUBSET Principal]
      /\ inbox' \subseteq Message
  <2>1. ASSUME NEW t \in Table, CreateTable(t)
        PROVE  /\ tables' \subseteq Table /\ owner' \in [Table -> SUBSET Principal]
               /\ inbox' \subseteq Message
    BY <2>1 DEF TypeInv, TypeOK, CreateTable, Message
  <2>2. ASSUME NEW D \in Devices, NEW o \in OwnerSets, ChangeOwner(D, o)
        PROVE  /\ tables' \subseteq Table /\ owner' \in [Table -> SUBSET Principal]
               /\ inbox' \subseteq Message
    BY <2>2, ControllerAssumption DEF TypeInv, TypeOK, ChangeOwner, Message
  <2> QED BY <2>1, <2>2 DEF Environment
<1>2. UNCHANGED <<rows, used, objects, job, holder, sec, tx, phase>>
  BY DEF Environment, CreateTable, ChangeOwner
<1> QED BY <1>1, <1>2 DEF TypeInv, TypeOK, JobInv, RowInv, TableInv
LEMMA TypeNext ==
  ASSUME TypeInv, [Next]_vars
  PROVE  TypeInv'
<1>1. CASE Requests
  BY <1>1, RequestsKeep
<1>2. ASSUME NEW w \in Worker, Begin(w) \/ Proceed(w)
      PROVE  TypeInv'
  BY <1>2, BeginKeeps, ProceedKeeps
<1>3. CASE Process
  <2>1. CASE Die
    BY <2>1, DieType
  <2>2. ASSUME NEW w \in Worker, NEW sync \in BOOLEAN, Start(w, sync)
        PROVE  TypeInv'
    BY <2>2, StartKeeps
  <2> QED BY <1>3, <2>1, <2>2 DEF Process, Crash, StartupFails, Panic
<1>4. CASE Environment
  BY <1>4, EnvironmentKeeps
<1>5. CASE UNCHANGED vars
  BY <1>5 DEF vars, TypeInv, TypeOK, JobInv, RowInv, TableInv
<1> QED BY <1>1, <1>2, <1>3, <1>4, <1>5 DEF Next

LEMMA TypeInit ==
  ASSUME Init
  PROVE  TypeInv
<1>1. TypeOK
  BY InitialValues, ControllerAssumption DEF Init, TypeOK
<1>2. JobInv
  BY DEF Init, JobInv, Idle
<1>3. RowInv /\ TableInv
  BY DEF Init, RowInv, TableInv, NoRows, NoTx, NoSec
<1> QED BY <1>1, <1>2, <1>3 DEF TypeInv

(* Every variable keeps its type in every behaviour of the service, for    *)
(* any number of goroutines, rules and tables and whatever fails.          *)
THEOREM TypeCorrect == Spec => []TypeOK
<1>1. Spec => []TypeInv
  BY TypeInit, TypeNext, PTL DEF Spec
<1>2. TypeInv => TypeOK
  BY DEF TypeInv
<1> QED BY <1>1, <1>2, PTL
-----------------------------------------------------------------------------
(* The critical section. *)
HolderInv == SectionInv /\ OwnRuleInv /\ EffectInv /\ VerdictInv

(* It is empty when nobody is in it. *)
LEMMA LeftEmpty ==
  ASSUME holder' = None, sec' = NoSec, tx' = NoTx
  PROVE  HolderInv'
BY DEF HolderInv, SectionInv, OwnRuleInv, EffectInv, VerdictInv, NoSec

(* Steps of others do not disturb it. *)
LEMMA OthersLeaveItAlone ==
  ASSUME TypeInv, HolderInv,
         UNCHANGED <<objects, holder, sec, tx>>,
         holder # None => job'[holder] = job[holder],
         \A r \in Rule : rows[r] # None => rows'[r] # None
  PROVE  HolderInv'
<1>1. SectionInv'
  BY DEF HolderInv, SectionInv, NoSec
<1>2. OwnRuleInv'
  BY DEF HolderInv, OwnRuleInv
<1>3. EffectInv'
  <2> SUFFICES ASSUME holder # None, sec.pc # "save", NEW o \in tx.objects \ objects
               PROVE  rows'[o[2]] # None
    BY DEF EffectInv
  <2>1. o[2] \in Rule
    BY DEF TypeInv, TypeOK, Object
  <2> QED BY <2>1 DEF HolderInv, EffectInv
<1>4. VerdictInv'
  BY DEF HolderInv, VerdictInv
<1> QED BY <1>1, <1>2, <1>3, <1>4 DEF HolderInv

LEMMA EnterHolder ==
  ASSUME TypeInv, HolderInv, NEW w \in Worker, NEW ids, NEW todo,
         \/ Enter(w, "table", ids, todo)
         \/ Enter(w, "page", ids, todo) /\ job[w].op = "applyAll",
         UNCHANGED <<rows, objects>>,
         job'[w].op = job[w].op, job'[w].rule = job[w].rule, job[w].op # "idle",
         job[w].op \in {"run", "delete"} => ids = {job[w].rule},
         job[w].op = "run" => ~job'[w].row.errors
  PROVE  HolderInv'
<1>1. /\ holder' = w /\ w # None
      /\ tx'.rows = NoRows /\ tx'.objects = objects
      /\ sec'.ids = ids /\ sec'.picked = NoRows /\ sec'.pc \in {"table", "page"}
      /\ sec'.pc = "page" => job[w].op = "applyAll"
  <2>1. holder' = w /\ w # None
    BY ControllerAssumption DEF Enter
  <2>2. tx'.rows = NoRows /\ tx'.objects = objects
    BY DEF Enter
  <2>3. ASSUME NEW pc, Enter(w, pc, ids, todo)
        PROVE  sec'.ids = ids /\ sec'.picked = NoRows /\ sec'.pc = pc
    BY <2>3 DEF Enter, NoSec
  <2> QED BY <2>1, <2>2, <2>3
<1>2. SectionInv'
  BY <1>1 DEF SectionInv
<1>3. OwnRuleInv'
  BY <1>1 DEF OwnRuleInv, NoRows
<1>4. EffectInv'
  BY <1>1 DEF EffectInv
<1>5. VerdictInv'
  BY <1>1 DEF VerdictInv
<1> QED BY <1>2, <1>3, <1>4, <1>5 DEF HolderInv

LEMMA RollbackHolder ==
  ASSUME TypeInv, NEW w \in Worker, NEW row, RollbackAndSave(w, row), job[w].op = "run",
         row.errors = TRUE
  PROVE  HolderInv'
<1>1. holder' = w /\ w # None /\ sec'.pc = "save" /\ tx' = NoTx
  BY ControllerAssumption DEF RollbackAndSave, NoSec
<1>2. job'[w].op = "run" /\ job'[w].row = row
  BY DEF RollbackAndSave, TypeInv, TypeOK, Job
<1> QED BY <1>1, <1>2 DEF HolderInv, SectionInv, OwnRuleInv, EffectInv, VerdictInv

LEMMA GiveUpHolder ==
  ASSUME TypeInv, NEW w \in Worker, GiveUp(w)
  PROVE  HolderInv'
<1>1. CASE job[w].op = "run"
  <2>1. [job[w].row EXCEPT !.errors = TRUE].errors = TRUE
    BY <1>1 DEF TypeInv, JobInv, Row
  <2> QED BY <1>1, <2>1, RollbackHolder DEF GiveUp
<1>2. CASE job[w].op # "run"
  BY <1>2, LeftEmpty DEF GiveUp, Release
<1> QED BY <1>1, <1>2

(* The holder goes on without writing. *)
LEMMA LocalStepHolder ==
  ASSUME TypeInv, HolderInv, NEW w \in Worker, holder = w,
         UNCHANGED <<rows, objects, holder, tx>>,
         job'[w].op = job[w].op, job'[w].rule = job[w].rule,
         job[w].op = "run" /\ ~job[w].row.errors => ~job'[w].row.errors,
         sec.pc # "save", sec'.pc \in {"page", "table", "select", "exec"},
         sec'.pc = "page" => job[w].op = "applyAll",
         sec'.ids = sec.ids \/ job[w].op = "applyAll",
         \A r \in Rule : sec'.picked[r] # None => sec.picked[r] # None \/ r \in sec.ids
  PROVE  HolderInv'
<1>1. w # None
  BY ControllerAssumption
<1>2. SectionInv'
  BY <1>1 DEF HolderInv, SectionInv
<1>3. OwnRuleInv'
  BY <1>1 DEF HolderInv, OwnRuleInv
<1>4. EffectInv'
  BY DEF HolderInv, EffectInv
<1>5. VerdictInv'
  BY <1>1 DEF HolderInv, VerdictInv
<1> QED BY <1>2, <1>3, <1>4, <1>5 DEF HolderInv

LEMMA SelectRulesHolder ==
  ASSUME TypeInv, HolderInv, NEW w \in Worker, SelectRules(w)
  PROVE  HolderInv'
<1>1. PICK S \in FindMatchingRules(Seen, tables, sec.table, sec.who, sec.ids) :
        sec' = [sec EXCEPT !.pc = "exec",
                           !.picked = [r \in Rule |-> IF r \in S THEN Seen[r] ELSE None]]
  BY DEF SelectRules
<1>2. S \subseteq sec.ids
  BY DEF FindMatchingRules, Candidates, Owned
<1>3. /\ sec'.pc = "exec" /\ sec'.ids = sec.ids
      /\ \A r \in Rule : sec'.picked[r] # None => r \in sec.ids
  BY <1>1, <1>2 DEF TypeInv, TypeOK, Sec
<1> QED BY <1>3, LocalStepHolder DEF SelectRules

LEMMA ExecTemplateHolder ==
  ASSUME TypeInv, HolderInv, NEW w \in Worker, NEW r \in Rule, ExecTemplate(w, r)
  PROVE  HolderInv'
<1>1. /\ holder = w /\ w # None /\ holder' = w /\ job' = job
      /\ rows' = rows /\ objects' = objects /\ sec.pc = "exec"
      /\ sec.picked[r] # None /\ rows[r] # None
      /\ sec \in Sec /\ tx \in [rows : Rows, objects : SUBSET Object]
  BY ControllerAssumption DEF ExecTemplate, Picked, TypeInv, TypeOK, RowInv
<1>2. /\ sec'.pc = "exec" /\ sec'.ids = sec.ids
      /\ \A q \in Rule : sec'.picked[q] # None => sec.picked[q] # None
  BY <1>1 DEF ExecTemplate, Sec, Rows
<1>3. \/ tx'.objects = Effect(r) /\ tx'.rows = tx.rows
      \/ tx'.objects = tx.objects /\ \A q \in Rule \ {r} : tx'.rows[q] = tx.rows[q]
  BY <1>1 DEF ExecTemplate, Rows
<1>4. /\ \A o \in tx'.objects \ tx.objects : o[2] = r /\ job[w].op # "delete"
      /\ \A o \in tx.objects \ tx'.objects : o[2] = r /\ job[w].op = "delete"
  BY <1>1, <1>3 DEF Effect
<1>5. job[w].op \in {"run", "delete"} => r = job[w].rule
  BY <1>1 DEF HolderInv, OwnRuleInv
<1>6. SectionInv'
  BY <1>1, <1>2, <1>4 DEF HolderInv, SectionInv
<1>7. OwnRuleInv'
  BY <1>1, <1>2, <1>3, <1>4, <1>5 DEF HolderInv, OwnRuleInv
<1>8. EffectInv'
  BY <1>1, <1>2, <1>4 DEF HolderInv, EffectInv
<1>9. VerdictInv'
  BY <1>1, <1>2 DEF HolderInv, VerdictInv
<1> QED BY <1>6, <1>7, <1>8, <1>9 DEF HolderInv
LEMMA RequestsHolder ==
  ASSUME TypeInv, HolderInv, Requests
  PROVE  HolderInv'
<1>1. UNCHANGED <<objects, holder, sec, tx>>
  BY DEF Requests, CreateRule, UpdateRule, RequestDelete, ReceiveMessage
<1>2. \A v \in Worker : job[v].op # "idle" => job'[v] = job[v]
  BY DEF TypeInv, TypeOK, Requests, CreateRule, UpdateRule, RequestDelete,
         ReceiveMessage, GoRunRule
<1>3. holder # None => job'[holder] = job[holder]
  BY <1>2 DEF HolderInv, SectionInv, TypeInv, TypeOK
<1>4. \A r \in Rule : rows[r] # None => rows'[r] # None
  <2>1. ASSUME NEW w \in Worker, NEW r \in Rule, NEW e \in ClientErrors,
               NEW c \in Offered[r], CreateRule(w, r, c, e) \/ UpdateRule(w, r, c, e)
        PROVE  \A q \in Rule : rows[q] # None => rows'[q] # None
    <3>1. Payload(c, e) # None
      BY PayloadType
    <3>2. rows' = [rows EXCEPT ![r] = Payload(c, e)]
      BY <2>1 DEF CreateRule, UpdateRule
    <3> QED BY <3>1, <3>2 DEF TypeInv, TypeOK, Rows
  <2> QED BY <2>1 DEF Requests, RequestDelete, ReceiveMessage
<1> QED BY <1>1, <1>3, <1>4, OthersLeaveItAlone

LEMMA BeginHolder ==
  ASSUME TypeInv, HolderInv, NEW w \in Worker, Begin(w)
  PROVE  HolderInv'
<1>1. CASE BeginRun(w)
  <2>1. ASSUME NEW T, Enter(w, "table", {job[w].rule}, T),
               job' = [job EXCEPT ![w].row.errors = FALSE]
        PROVE  HolderInv'
    <3>1. /\ job'[w].op = job[w].op /\ job'[w].rule = job[w].rule
          /\ ~job'[w].row.errors
      BY <1>1, <2>1 DEF BeginRun, TypeInv, TypeOK, JobInv, Job, Row
    <3> QED BY <1>1, <2>1, <3>1, EnterHolder DEF BeginRun
  <2>2. [job[w].row EXCEPT !.errors = TRUE].errors = TRUE
    BY <1>1 DEF BeginRun, TypeInv, JobInv, Row
  <2>3. CASE Release(w)
    BY <1>1, <2>3, LeftEmpty DEF BeginRun, Release
  <2> QED BY <1>1, <2>1, <2>2, <2>3, RollbackHolder DEF BeginRun
<1>2. CASE BeginDelete(w)
  BY <1>2, EnterHolder, LeftEmpty DEF BeginDelete, Release
<1>3. CASE BeginMessage(w)
  BY <1>3, EnterHolder, LeftEmpty DEF BeginMessage, Release
<1>4. CASE BeginApplyAll(w)
  BY <1>4, EnterHolder DEF BeginApplyAll
<1> QED BY <1>1, <1>2, <1>3, <1>4 DEF Begin

LEMMA ProceedHolder ==
  ASSUME TypeInv, HolderInv, NEW w \in Worker, Proceed(w)
  PROVE  HolderInv'
<1>0. sec \in Sec
  BY DEF TypeInv, TypeOK
<1>1. CASE ListPage(w)
  <2>1. /\ sec'.pc = "table" /\ sec'.picked = sec.picked
        /\ holder = w /\ sec.pc = "page"
        /\ UNCHANGED <<rows, objects, job, holder, tx>>
    BY <1>0, <1>1 DEF ListPage, Sec
  <2>2. job[w].op = "applyAll"
    BY <2>1 DEF HolderInv, SectionInv
  <2> QED BY <2>1, <2>2, LocalStepHolder
<1>2. ASSUME NEW t \in Table, LookupOwners(w, t)
      PROVE  HolderInv'
  <2>1. /\ sec'.pc = "select" /\ sec'.picked = sec.picked /\ sec'.ids = sec.ids
        /\ holder = w /\ sec.pc = "table"
        /\ UNCHANGED <<rows, objects, job, holder, tx>>
    BY <1>0, <1>2 DEF LookupOwners, Sec
  <2> QED BY <2>1, LocalStepHolder
<1>3. ASSUME NEW t \in Table, LookupFails(w, t)
      PROVE  HolderInv'
  <2>1. CASE job[w].op = "applyAll"
    <3>1. /\ sec'.pc = "table" /\ sec'.picked = sec.picked
          /\ holder = w /\ sec.pc = "table"
          /\ UNCHANGED <<rows, objects, job, holder, tx>>
      BY <1>0, <1>3, <2>1 DEF LookupFails, Sec
    <3> QED BY <2>1, <3>1, LocalStepHolder
  <2>2. CASE job[w].op # "applyAll"
    BY <1>3, <2>2, GiveUpHolder DEF LookupFails
  <2> QED BY <2>1, <2>2
<1>4. CASE SelectRules(w)
  BY <1>4, SelectRulesHolder
<1>5. ASSUME NEW r \in Rule, ExecTemplate(w, r)
      PROVE  HolderInv'
  BY <1>5, ExecTemplateHolder
<1>6. CASE ApplyFails(w)
  BY <1>6, GiveUpHolder DEF ApplyFails
<1>7. CASE RunTableDone(w)
  <2>0. Seen[job[w].rule] \in Row
    BY <1>7, SeenType DEF TypeInv, TypeOK, JobInv, RunTableDone, TableApplied, Rows
  <2>1. CASE /\ RollbackAndSave(w, Seen[job[w].rule])
             /\ Seen[job[w].rule].errors
    <3>1. Seen[job[w].rule].errors = TRUE
      BY <2>0, <2>1 DEF Row
    <3> QED BY <1>7, <2>1, <3>1, RollbackHolder DEF RunTableDone, TableApplied
  <2>2. CASE /\ NextTable
             /\ job' = [job EXCEPT ![w].row = Seen[job[w].rule]]
             /\ UNCHANGED <<holder, tx>>
             /\ ~Seen[job[w].rule].errors
    <3>1. /\ job'[w].op = job[w].op /\ job'[w].rule = job[w].rule
          /\ ~job'[w].row.errors
      BY <2>2 DEF TypeInv, TypeOK, Job
    <3>2. /\ sec'.pc = "table" /\ sec'.picked = sec.picked /\ sec'.ids = sec.ids
          /\ holder = w /\ sec.pc = "exec"
          /\ UNCHANGED <<rows, objects>>
      BY <1>0, <1>7, <2>2 DEF RunTableDone, TableApplied, NextTable, Sec
    <3> QED BY <2>2, <3>1, <3>2, LocalStepHolder
  <2> QED BY <1>7, <2>1, <2>2 DEF RunTableDone
<1>8. CASE DeleteTableDone(w)
  <2>1. CASE sec.ok
    <3>1. /\ sec'.pc = "table" /\ sec'.picked = sec.picked /\ sec'.ids = sec.ids
          /\ holder = w /\ sec.pc = "exec"
          /\ UNCHANGED <<rows, objects, job, holder, tx>>
      BY <1>0, <1>8, <2>1 DEF DeleteTableDone, TableApplied, NextTable, Sec
    <3> QED BY <3>1, LocalStepHolder
  <2>2. CASE ~sec.ok
    BY <1>8, <2>2, LeftEmpty DEF DeleteTableDone, Release
  <2> QED BY <2>1, <2>2
<1>9. CASE TableDone(w)
  <2>1. /\ sec'.pc = "table" /\ sec'.picked = sec.picked /\ sec'.ids = sec.ids
        /\ holder = w /\ sec.pc = "exec"
        /\ UNCHANGED <<rows, objects, job, holder, tx>>
    BY <1>0, <1>9 DEF TableDone, TableApplied, NextTable, Sec
  <2> QED BY <2>1, LocalStepHolder
<1>10. CASE NextPage(w)
  <2>1. /\ sec'.pc = "page" /\ sec'.picked = sec.picked /\ sec'.ids = sec.ids
        /\ holder = w /\ sec.pc = "table" /\ job[w].op = "applyAll"
        /\ UNCHANGED <<rows, objects, job, holder, tx>>
    BY <1>0, <1>10 DEF NextPage, LastTableDone, Sec
  <2> QED BY <2>1, LocalStepHolder
<1>11. CASE \/ FinishRun(w) \/ SaveErrors(w) \/ FinishDelete(w)
            \/ FinishMessage(w) \/ FinishApplyAll(w)
  BY <1>11, LeftEmpty DEF FinishRun, SaveErrors, FinishDelete, FinishMessage,
                          FinishApplyAll, Release
<1> QED BY <1>1, <1>2, <1>3, <1>4, <1>5, <1>6, <1>7, <1>8, <1>9, <1>10, <1>11 DEF Proceed

LEMMA HolderNext ==
  ASSUME TypeInv, HolderInv, [Next]_vars
  PROVE  HolderInv'
<1>1. CASE Requests
  BY <1>1, RequestsHolder
<1>2. ASSUME NEW w \in Worker, Begin(w) \/ Proceed(w)
      PROVE  HolderInv'
  BY <1>2, BeginHolder, ProceedHolder
<1>3. CASE Process
  <2>1. CASE Die
    BY <2>1, LeftEmpty DEF Die
  <2>2. ASSUME NEW w \in Worker, NEW sync \in BOOLEAN, Start(w, sync)
        PROVE  HolderInv'
    <3>1. holder = None
      BY <2>2 DEF Start, TypeInv, TypeOK, JobInv, HolderInv, SectionInv
    <3> QED BY <2>2, <3>1, OthersLeaveItAlone DEF Start
  <2> QED BY <1>3, <2>1, <2>2 DEF Process, Crash, StartupFails, Panic
<1>4. CASE Environment
  BY <1>4, OthersLeaveItAlone DEF Environment, CreateTable, ChangeOwner
<1>5. CASE UNCHANGED vars
  BY <1>5 DEF vars, HolderInv, SectionInv, OwnRuleInv, EffectInv, VerdictInv
<1> QED BY <1>1, <1>2, <1>3, <1>4, <1>5 DEF Next

LEMMA HolderInit ==
  ASSUME Init
  PROVE  HolderInv
BY DEF Init, HolderInv, SectionInv, OwnRuleInv, EffectInv, VerdictInv, NoSec

(* In every behaviour a critical section leaves nothing behind, a pending  *)
(* row or effect belongs to a rule that exists, and a run or a deletion    *)
(* stays within its rule.                                                  *)
THEOREM AlwaysConsistent == Spec => []Consistent
<1>1. Init => TypeInv /\ HolderInv
  BY TypeInit, HolderInit
<1>2. TypeInv /\ HolderInv /\ [Next]_vars => (TypeInv /\ HolderInv)'
  BY TypeNext, HolderNext
<1>3. TypeInv /\ HolderInv => Consistent
  BY DEF TypeInv, HolderInv, Consistent
<1> QED BY <1>1, <1>2, <1>3, PTL DEF Spec
=============================================================================
