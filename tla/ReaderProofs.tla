---------------------------- MODULE ReaderProofs ----------------------------
(***************************************************************************)
(* What those see who read committed rows and effects: Controller          *)
(* implements RuleBook, for every value of the constants; and a client     *)
(* that waits for the verdict of a rule before it PUTs it again finds what *)
(* it PUT, as long as no command fails.                                    *)
(***************************************************************************)
EXTENDS ControllerProofs, ControllerHistory

(* What a critical section has to know about itself when it commits. *)
LEMMA CommittedEffects ==
  ASSUME TypeInv, HolderInv, holder # None, sec.pc # "save",
         NEW r \in Rule, job[holder].op \in {"run", "delete"}, job[holder].rule = r
  PROVE  /\ \A q \in Rule \ {r} : Seen[q] = rows[q]
         /\ tx.objects \ objects \in SUBSET RuleBookSpec!EffectsOf(r)
         /\ objects \ tx.objects \in SUBSET RuleBookSpec!EffectsOf(r)
<1>1. \A q \in Rule \ {r} : Seen[q] = rows[q]
  BY DEF HolderInv, OwnRuleInv, Seen
<1>2. \A o \in Object : o[2] = r => o \in RuleBookSpec!EffectsOf(r)
  BY DEF Object, RuleBookSpec!EffectsOf
<1>3. objects \subseteq Object /\ tx.objects \subseteq Object
  BY DEF TypeInv, TypeOK
<1>4. /\ \A o \in tx.objects \ objects : o[2] = r
      /\ \A o \in objects \ tx.objects : o[2] = r
  BY DEF HolderInv, OwnRuleInv
<1> QED BY <1>1, <1>2, <1>3, <1>4

LEMMA RequestsRefine ==
  ASSUME TypeInv, Requests
  PROVE  [RuleBookSpec!Next]_RuleBookSpec!bookVars
<1>1. ASSUME NEW w \in Worker, NEW r \in Rule, NEW e \in ClientErrors,
             NEW c \in Offered[r], CreateRule(w, r, c, e) \/ UpdateRule(w, r, c, e)
      PROVE  RuleBookSpec!Next
  <2>1. Payload(c, e) \in RuleBookSpec!Book /\ ~Payload(c, e).completed
    BY PayloadType DEF RuleBookSpec!Book, Row, Payload
  <2>2. CASE CreateRule(w, r, c, e)
    BY <2>1, <2>2 DEF CreateRule, RuleBookSpec!Create, RuleBookSpec!Next
  <2>3. CASE UpdateRule(w, r, c, e)
    BY <2>1, <2>3 DEF UpdateRule, RuleBookSpec!Update, RuleBookSpec!Next
  <2> QED BY <1>1, <2>2, <2>3
<1>2. CASE UNCHANGED <<rows, used, objects>>
  BY <1>2 DEF RuleBookSpec!bookVars
<1> QED BY <1>1, <1>2 DEF Requests, RequestDelete, ReceiveMessage

LEMMA CompletedRow ==
  ASSUME NEW x \in Row, x.errors = FALSE
  PROVE  [x EXCEPT !.completed = TRUE] =
           [content |-> x.content, errors |-> FALSE, completed |-> TRUE]
<1> DEFINE y == [x EXCEPT !.completed = TRUE]
<1>1. /\ y \in Row /\ y.content = x.content
      /\ y.errors = FALSE /\ y.completed = TRUE
  BY DEF Row
<1> HIDE DEF y
<1>2. y = [content |-> y.content, errors |-> y.errors, completed |-> y.completed]
  BY <1>1 DEF Row
<1> QED BY <1>1, <1>2 DEF y

LEMMA FinishRunRefines ==
  ASSUME TypeInv, HolderInv, NEW w \in Worker, FinishRun(w)
  PROVE  [RuleBookSpec!Next]_RuleBookSpec!bookVars
<1> DEFINE r == job[w].rule
           row == [job[w].row EXCEPT !.completed = TRUE]
<1>1. /\ holder = w /\ holder # None /\ sec.pc = "table" /\ job[w].op = "run"
      /\ r \in Rule /\ job[w].row \in Row
  BY ControllerAssumption DEF FinishRun, LastTableDone, TypeInv, TypeOK, JobInv
<1>2. CASE UNCHANGED <<rows, objects>>
  BY <1>2 DEF FinishRun, RuleBookSpec!bookVars
<1>3. CASE rows[r] # None /\ rows' = [Seen EXCEPT ![r] = row] /\ objects' = tx.objects
  <2>1. job[w].row.errors = FALSE
    BY <1>1 DEF HolderInv, VerdictInv, Row
  <2>2. row = [content |-> job[w].row.content, errors |-> FALSE, completed |-> TRUE]
    BY <1>1, <2>1, CompletedRow
  <2>3. rows' = [rows EXCEPT ![r] = row]
    <3> HIDE DEF row
    <3> QED BY <1>1, <1>3, CommittedEffects, SeenType DEF TypeInv, TypeOK, Rows
  <2>4. job[w].row.content \in Content
    BY <1>1 DEF Row
  <2>5. objects' = objects \cup (tx.objects \ objects)
    BY <1>1, <1>3 DEF HolderInv, SectionInv
  <2>6. tx.objects \ objects \in SUBSET RuleBookSpec!EffectsOf(r)
    BY <1>1, CommittedEffects
  <2> HIDE DEF r, row
  <2>7. RuleBookSpec!Complete(r)
    BY <1>3, <2>2, <2>3, <2>4, <2>5, <2>6 DEF RuleBookSpec!Complete, FinishRun
  <2> QED BY <1>1, <2>7 DEF RuleBookSpec!Next
<1> QED BY <1>2, <1>3 DEF FinishRun

LEMMA SaveErrorsRefines ==
  ASSUME TypeInv, HolderInv, NEW w \in Worker, SaveErrors(w)
  PROVE  [RuleBookSpec!Next]_RuleBookSpec!bookVars
<1> DEFINE r == job[w].rule
<1>1. /\ holder = w /\ holder # None /\ sec.pc = "save" /\ job[w].op = "run"
      /\ r \in Rule /\ job[w].row \in Row
  BY ControllerAssumption DEF SaveErrors, TypeInv, TypeOK, JobInv
<1>2. CASE UNCHANGED rows
  BY <1>2 DEF SaveErrors, RuleBookSpec!bookVars
<1>3. CASE rows[r] # None /\ rows' = [rows EXCEPT ![r] = job[w].row]
  <2>1. job[w].row \in RuleBookSpec!Book /\ job[w].row.errors
    BY <1>1 DEF HolderInv, VerdictInv, RuleBookSpec!Book, Row
  <2>2. RuleBookSpec!Fail(r)
    BY <1>3, <2>1 DEF RuleBookSpec!Fail, SaveErrors
  <2> QED BY <1>1, <2>2 DEF RuleBookSpec!Next
<1> QED BY <1>2, <1>3 DEF SaveErrors

LEMMA FinishDeleteRefines ==
  ASSUME TypeInv, HolderInv, NEW w \in Worker, FinishDelete(w)
  PROVE  [RuleBookSpec!Next]_RuleBookSpec!bookVars
<1> DEFINE r == job[w].rule
<1>1. /\ holder = w /\ holder # None /\ sec.pc = "table" /\ job[w].op = "delete"
      /\ r \in Rule
  BY ControllerAssumption DEF FinishDelete, LastTableDone, TypeInv, TypeOK, JobInv
<1>2. CASE UNCHANGED <<rows, objects>>
  BY <1>2 DEF FinishDelete, RuleBookSpec!bookVars
<1>3. CASE rows[r] # None /\ rows' = [Seen EXCEPT ![r] = None] /\ objects' = tx.objects
  <2>1. rows' = [rows EXCEPT ![r] = None]
    BY <1>1, <1>3, CommittedEffects, SeenType DEF TypeInv, TypeOK, Rows
  <2>2. objects' = objects \ (objects \ tx.objects)
    BY <1>1, <1>3 DEF HolderInv, SectionInv
  <2>3. objects \ tx.objects \in SUBSET RuleBookSpec!EffectsOf(r)
    BY <1>1, CommittedEffects
  <2> HIDE DEF r
  <2>4. RuleBookSpec!Delete(r)
    BY <1>3, <2>1, <2>2, <2>3 DEF RuleBookSpec!Delete, FinishDelete
  <2> QED BY <1>1, <2>4 DEF RuleBookSpec!Next
<1> QED BY <1>2, <1>3 DEF FinishDelete

(* A message and ApplyAllRules commit what they wrote. *)
LEMMA CommitRefines ==
  ASSUME TypeInv, HolderInv, holder # None, sec.pc = "table",
         job[holder].op \in {"message", "applyAll"},
         rows' = Seen, objects' = tx.objects, used' = used
  PROVE  RuleBookSpec!Next
<1>1. \A r \in Rule : \/ rows'[r] = rows[r]
                      \/ rows[r] # None /\ rows'[r] \in {b \in RuleBookSpec!Book : b.errors}
  BY DEF Seen, TypeInv, TypeOK, RowInv, Rows, Row, RuleBookSpec!Book
<1>2. rows' \in [Rule -> RuleBookSpec!Book \cup {None}]
  BY SeenType DEF TypeInv, Rows, Row, RuleBookSpec!Book
<1>3. objects \subseteq objects'
  BY DEF HolderInv, SectionInv
<1>4. \A o \in objects' \ objects :
        \E r \in Rule : rows[r] # None /\ o \in RuleBookSpec!EffectsOf(r)
  <2> TAKE o \in objects' \ objects
  <2>1. rows[o[2]] # None /\ o \in Object
    BY DEF HolderInv, EffectInv, TypeInv, TypeOK
  <2>2. o[2] \in Rule /\ o \in RuleBookSpec!EffectsOf(o[2])
    BY <2>1 DEF Object, RuleBookSpec!EffectsOf
  <2> QED BY <2>1, <2>2
<1> QED BY <1>1, <1>2, <1>3, <1>4 DEF RuleBookSpec!Apply, RuleBookSpec!Next

LEMMA StepRefines ==
  ASSUME TypeInv, HolderInv, [Next]_vars
  PROVE  [RuleBookSpec!Next]_RuleBookSpec!bookVars
<1>0. CASE UNCHANGED <<rows, used, objects>>
  BY <1>0 DEF RuleBookSpec!bookVars
<1>1. CASE Requests
  BY <1>1, RequestsRefine
<1>2. ASSUME NEW w \in Worker, Begin(w)
      PROVE  UNCHANGED <<rows, used, objects>>
  BY <1>2 DEF Begin, BeginRun, BeginDelete, BeginMessage, BeginApplyAll
<1>3. ASSUME NEW w \in Worker, Proceed(w)
      PROVE  [RuleBookSpec!Next]_RuleBookSpec!bookVars
  <2>1. CASE FinishRun(w) \/ SaveErrors(w) \/ FinishDelete(w)
    BY <2>1, FinishRunRefines, SaveErrorsRefines, FinishDeleteRefines
  <2>2. CASE FinishMessage(w) \/ FinishApplyAll(w)
    <3>1. /\ holder # None /\ sec.pc = "table" /\ used' = used
          /\ job[holder].op \in {"message", "applyAll"}
      BY <2>2, ControllerAssumption DEF FinishMessage, FinishApplyAll, LastTableDone
    <3>2. CASE rows' = Seen /\ objects' = tx.objects
      BY <3>1, <3>2, CommitRefines
    <3>3. CASE UNCHANGED <<rows, objects>>
      BY <3>1, <3>3, <1>0
    <3> QED BY <2>2, <3>2, <3>3 DEF FinishMessage, FinishApplyAll
  <2>3. CASE \/ ListPage(w)
             \/ \E t \in Table : LookupOwners(w, t) \/ LookupFails(w, t)
             \/ SelectRules(w)
             \/ \E r \in Rule : ExecTemplate(w, r)
             \/ ApplyFails(w)
             \/ RunTableDone(w) \/ DeleteTableDone(w) \/ TableDone(w)
             \/ NextPage(w)
    <3>1. UNCHANGED <<rows, used, objects>>
      BY <2>3 DEF ListPage, LookupOwners, LookupFails, SelectRules, ExecTemplate,
                  ApplyFails, RunTableDone, DeleteTableDone, TableDone, NextPage
    <3> QED BY <1>0, <3>1
  <2> QED BY <1>3, <2>1, <2>2, <2>3 DEF Proceed
<1>4. CASE Process
  <2>1. UNCHANGED <<rows, used, objects>>
    BY <1>4 DEF Process, Crash, StartupFails, Panic, Start, Die
  <2> QED BY <1>0, <2>1
<1>5. CASE Environment
  <2>1. UNCHANGED <<rows, used, objects>>
    BY <1>5 DEF Environment, CreateTable, ChangeOwner
  <2> QED BY <1>0, <2>1
<1>6. CASE UNCHANGED vars
  BY <1>0, <1>6 DEF vars
<1> QED BY <1>0, <1>1, <1>2, <1>3, <1>4, <1>5, <1>6 DEF Next

LEMMA InitRefines ==
  ASSUME Init
  PROVE  RuleBookSpec!Init
BY DEF Init, RuleBookSpec!Init, NoRows

(* Whatever goroutines, messages, crashes and failures do, readers of the  *)
(* committed data see the rule book: a run's effects appear with its       *)
(* completed verdict or not at all, effects disappear only with their      *)
(* rule, ids are not reused and a deleted rule never comes back.           *)
THEOREM ControllerImplementsRuleBook == Spec => ImplementsRuleBook
<1>1. Init => TypeInv /\ HolderInv
  BY TypeInit, HolderInit
<1>2. TypeInv /\ HolderInv /\ [Next]_vars => (TypeInv /\ HolderInv)'
  BY TypeNext, HolderNext
<1>3. TypeInv /\ HolderInv /\ [Next]_vars => [RuleBookSpec!Next]_RuleBookSpec!bookVars
  BY StepRefines
<1>4. Init => RuleBookSpec!Init
  BY InitRefines
<1> QED BY <1>1, <1>2, <1>3, <1>4, PTL
        DEF Spec, ImplementsRuleBook, RuleBookSpec!Spec

-----------------------------------------------------------------------------
(* Rows are changed by runs only: by one that ends and writes what it has, *)
(* or not at all.  What a run has stays, or is what its row has.           *)
RunsWrite ==
    /\ tx'.rows = NoRows
    /\ \A v \in Worker :
         job'[v].op = "run" =>
           LET r == job[v].rule
           IN  /\ job[v].op = "run" /\ job'[v].rule = r
               /\ \/ job'[v].row.content = job[v].row.content
                  \/ rows[r] # None /\ job'[v].row.content = rows[r].content
    /\ \A r \in Rule :
         \/ rows'[r] = rows[r]
         \/ rows'[r] = None
         \/ /\ rows[r] # None
            /\ \E v \in Worker :
                 /\ job[v].op = "run" /\ job[v].rule = r
                 /\ job'[v].op # "run"
                 /\ rows'[r].content = job[v].row.content

LEMMA ReleaseRuns ==
  ASSUME TypeInv, NEW w \in Worker, Release(w),
         \A r \in Rule : \/ rows'[r] = rows[r]
                         \/ rows'[r] = None
                         \/ /\ rows[r] # None /\ job[w].op = "run" /\ job[w].rule = r
                            /\ rows'[r].content = job[w].row.content
  PROVE  RunsWrite
<1>1. tx'.rows = NoRows
  BY DEF Release, NoTx
<1>2. job'[w] = Idle /\ \A v \in Worker \ {w} : job'[v] = job[v]
  BY DEF Release, TypeInv, TypeOK
<1> QED BY <1>1, <1>2 DEF RunsWrite, Idle

LEMMA RollbackRuns ==
  ASSUME TypeInv, NEW w \in Worker, NEW row \in Row, RollbackAndSave(w, row),
         rows' = rows, job[w].op = "run",
         \/ row.content = job[w].row.content
         \/ rows[job[w].rule] # None /\ row.content = rows[job[w].rule].content
  PROVE  RunsWrite
<1>1. tx'.rows = NoRows
  BY DEF RollbackAndSave, NoTx
<1>2. /\ job'[w].op = job[w].op /\ job'[w].rule = job[w].rule /\ job'[w].row = row
      /\ \A v \in Worker \ {w} : job'[v] = job[v]
  BY DEF RollbackAndSave, TypeInv, TypeOK, Job
<1> QED BY <1>1, <1>2 DEF RunsWrite

LEMMA GiveUpRuns ==
  ASSUME TypeInv, NEW w \in Worker, GiveUp(w), rows' = rows
  PROVE  RunsWrite
<1>1. CASE job[w].op = "run"
  <2> DEFINE row == [job[w].row EXCEPT !.errors = TRUE]
  <2>1. job[w].row \in Row
    BY <1>1 DEF TypeInv, JobInv
  <2>2. row \in Row /\ row.content = job[w].row.content
    BY <2>1 DEF Row
  <2>3. RollbackAndSave(w, row)
    BY <1>1 DEF GiveUp
  <2> HIDE DEF row
  <2> QED BY <1>1, <2>2, <2>3, RollbackRuns
<1>2. CASE job[w].op # "run"
  BY <1>2, ReleaseRuns DEF GiveUp
<1> QED BY <1>1, <1>2

LEMMA BeginRuns ==
  ASSUME TypeInv, NEW w \in Worker, Begin(w)
  PROVE  RunsWrite
<1>1. rows' = rows /\ job \in [Worker -> Job]
  BY DEF Begin, BeginRun, BeginDelete, BeginMessage, BeginApplyAll, TypeInv, TypeOK
<1>2. ASSUME NEW pc, NEW ids, NEW todo, Enter(w, pc, ids, todo), UNCHANGED job
      PROVE  RunsWrite
  BY <1>1, <1>2 DEF Enter, RunsWrite
<1>3. CASE BeginRun(w)
  <2>1. job[w].op = "run" /\ job[w].row \in Row
    BY <1>3 DEF BeginRun, TypeInv, JobInv
  <2>2. ASSUME tx'.rows = NoRows, job' = [job EXCEPT ![w].row.errors = FALSE]
        PROVE  RunsWrite
    <3>1. /\ job'[w].op = "run" /\ job'[w].rule = job[w].rule
          /\ job'[w].row = [job[w].row EXCEPT !.errors = FALSE]
          /\ \A v \in Worker \ {w} : job'[v] = job[v]
      BY <1>1, <2>1, <2>2 DEF Job
    <3>2. job'[w].row.content = job[w].row.content
      BY <2>1, <3>1 DEF Row
    <3> QED BY <1>1, <2>1, <2>2, <3>1, <3>2 DEF RunsWrite
  <2>3. [job[w].row EXCEPT !.errors = TRUE] \in Row
        /\ [job[w].row EXCEPT !.errors = TRUE].content = job[w].row.content
    BY <2>1 DEF Row
  <2>4. ASSUME RollbackAndSave(w, [job[w].row EXCEPT !.errors = TRUE])
        PROVE  RunsWrite
    BY <1>1, <2>1, <2>3, <2>4, RollbackRuns
  <2>5. CASE Release(w)
    BY <1>1, <2>5, ReleaseRuns
  <2> QED BY <1>3, <2>2, <2>4, <2>5 DEF BeginRun, Enter
<1>4. CASE BeginDelete(w)
  BY <1>1, <1>2, <1>4, ReleaseRuns DEF BeginDelete
<1>5. CASE BeginMessage(w)
  BY <1>1, <1>2, <1>5, ReleaseRuns DEF BeginMessage
<1>6. CASE BeginApplyAll(w)
  BY <1>1, <1>2, <1>6 DEF BeginApplyAll
<1> QED BY <1>3, <1>4, <1>5, <1>6 DEF Begin

LEMMA SeenIsCommitted ==
  ASSUME TypeInv, tx.rows = NoRows
  PROVE  Seen = rows
BY DEF Seen, NoRows, TypeInv, TypeOK, Rows

LEMMA FinishRuns ==
  ASSUME TypeInv, NEW w \in Worker, tx.rows = NoRows,
         \/ FinishRun(w) \/ SaveErrors(w) \/ FinishDelete(w)
         \/ FinishMessage(w) \/ FinishApplyAll(w)
  PROVE  RunsWrite
<1> DEFINE q == job[w].rule
<1>0. Seen = rows /\ rows \in Rows /\ None \notin Row
  BY SeenIsCommitted, SelectionAssumption DEF TypeInv, TypeOK
<1>1. ASSUME NEW row, job[w].op = "run", rows[q] # None, rows' = [rows EXCEPT ![q] = row],
             row.content = job[w].row.content, Release(w)
      PROVE  RunsWrite
  <2>1. q \in Rule
    BY <1>1 DEF TypeInv, TypeOK, JobInv
  <2>2. rows'[q] = row /\ \A r \in Rule \ {q} : rows'[r] = rows[r]
    BY <1>0, <1>1, <2>1 DEF Rows
  <2> HIDE DEF q
  <2> QED BY <1>1, <2>2, ReleaseRuns DEF q
<1>2. ASSUME rows' = rows \/ rows' = [rows EXCEPT ![q] = None], Release(w)
      PROVE  RunsWrite
  <2>1. \A r \in Rule : rows'[r] = rows[r] \/ rows'[r] = None
    BY <1>0, <1>2 DEF Rows
  <2> QED BY <1>2, <2>1, ReleaseRuns
<1>3. job[w].op = "run" => job[w].row \in Row
  BY DEF TypeInv, JobInv
<1>4. CASE FinishRun(w)
  <2>1. job[w].op = "run" /\ Release(w)
    BY <1>4 DEF FinishRun, LastTableDone
  <2>2. [job[w].row EXCEPT !.completed = TRUE].content = job[w].row.content
    BY <1>3, <2>1 DEF Row
  <2> QED BY <1>0, <1>1, <1>2, <1>4, <2>1, <2>2 DEF FinishRun
<1>5. CASE SaveErrors(w)
  BY <1>1, <1>2, <1>5 DEF SaveErrors
<1>6. CASE FinishDelete(w) \/ FinishMessage(w) \/ FinishApplyAll(w)
  BY <1>0, <1>2, <1>6 DEF FinishDelete, FinishMessage, FinishApplyAll
<1> QED BY <1>4, <1>5, <1>6

LEMMA ProceedRuns ==
  ASSUME TypeInv, "template" \notin Faults, tx.rows = NoRows, NEW w \in Worker, Proceed(w)
  PROVE  RunsWrite
<1>0. Seen = rows /\ job \in [Worker -> Job] /\ tx \in [rows : Rows, objects : SUBSET Object]
  BY SeenIsCommitted DEF TypeInv, TypeOK
<1>1. CASE UNCHANGED <<rows, job>> /\ tx'.rows = tx.rows
  BY <1>1 DEF RunsWrite
<1>2. CASE RunTableDone(w)
  <2> DEFINE q == job[w].rule
  <2>1. job[w].op = "run" /\ rows' = rows /\ rows[q] # None /\ q \in Rule
    BY <1>0, <1>2 DEF RunTableDone, TableApplied, TypeInv, TypeOK, JobInv
  <2>2. rows[q] \in Row
    BY <2>1 DEF TypeInv, TypeOK, Rows
  <2>3. CASE rows[q].errors
    BY <1>0, <1>2, <2>1, <2>2, <2>3, RollbackRuns DEF RunTableDone
  <2>4. CASE ~rows[q].errors
    <3>1. job' = [job EXCEPT ![w].row = rows[q]] /\ tx' = tx
      BY <1>0, <1>2, <2>4 DEF RunTableDone
    <3>2. /\ job'[w].op = "run" /\ job'[w].rule = q /\ job'[w].row = rows[q]
          /\ \A v \in Worker \ {w} : job'[v] = job[v]
      BY <1>0, <2>1, <3>1 DEF Job
    <3> HIDE DEF q
    <3> QED BY <2>1, <3>1, <3>2 DEF RunsWrite, q
  <2> QED BY <2>3, <2>4
<1>3. ASSUME NEW t \in Table, LookupFails(w, t)
      PROVE  RunsWrite
  BY <1>1, <1>3, GiveUpRuns DEF LookupFails
<1>4. CASE ApplyFails(w)
  BY <1>4, GiveUpRuns DEF ApplyFails
<1>5. CASE DeleteTableDone(w)
  BY <1>1, <1>5, ReleaseRuns DEF DeleteTableDone
<1>6. ASSUME NEW r \in Rule, ExecTemplate(w, r)
      PROVE  RunsWrite
  <2>1. tx'.rows = tx.rows /\ UNCHANGED <<rows, job>>
    BY <1>0, <1>6 DEF ExecTemplate
  <2> QED BY <1>1, <2>1
<1>7. CASE \/ ListPage(w) \/ SelectRules(w) \/ TableDone(w) \/ NextPage(w)
           \/ \E t \in Table : LookupOwners(w, t)
  BY <1>1, <1>7 DEF ListPage, SelectRules, TableDone, NextPage, LookupOwners
<1>8. CASE \/ FinishRun(w) \/ SaveErrors(w) \/ FinishDelete(w)
           \/ FinishMessage(w) \/ FinishApplyAll(w)
  BY <1>8, FinishRuns
<1> QED BY <1>2, <1>3, <1>4, <1>5, <1>6, <1>7, <1>8 DEF Proceed

(* Every step but a POST or PUT. *)
LEMMA OnlyRunsWrite ==
  ASSUME TypeInv, "template" \notin Faults, tx.rows = NoRows, [Next]_vars
  PROVE  \/ RunsWrite
         \/ \E w \in Worker, r \in Rule, e \in ClientErrors : \E c \in Offered[r] :
              CreateRule(w, r, c, e) \/ UpdateRule(w, r, c, e)
<1>0. job \in [Worker -> Job]
  BY DEF TypeInv, TypeOK
<1>1. ASSUME UNCHANGED <<rows, tx>>,
             \A v \in Worker : job'[v] = job[v] \/ job'[v].op # "run"
      PROVE  RunsWrite
  BY <1>1 DEF RunsWrite
<1>2. ASSUME NEW w \in Worker, NEW r \in Rule, RequestDelete(w, r)
      PROVE  RunsWrite
  BY <1>0, <1>1, <1>2 DEF RequestDelete, Idle
<1>3. ASSUME NEW w \in Worker, NEW m \in inbox, ReceiveMessage(w, m)
      PROVE  RunsWrite
  BY <1>0, <1>1, <1>3 DEF ReceiveMessage, Idle
<1>4. CASE Process
  <2>1. CASE Die
    BY <2>1 DEF Die, RunsWrite, NoTx, Idle
  <2>2. ASSUME NEW w \in Worker, NEW sync \in BOOLEAN, Start(w, sync)
        PROVE  RunsWrite
    BY <1>0, <1>1, <2>2 DEF Start, Idle
  <2> QED BY <1>4, <2>1, <2>2 DEF Process, Crash, StartupFails, Panic
<1>5. CASE Environment
  BY <1>1, <1>5 DEF Environment, CreateTable, ChangeOwner
<1>6. CASE UNCHANGED vars
  BY <1>1, <1>6 DEF vars
<1> QED BY <1>2, <1>3, <1>4, <1>5, <1>6, BeginRuns, ProceedRuns DEF Next, Requests

(* While a run of an existing rule is under way it is the only one, it has *)
(* what was last answered, and the rule has no verdict; but for rules that *)
(* were PUT while a run of theirs was under way.                           *)
PatientInv ==
    /\ tx.rows = NoRows
    /\ \A r \in Existing \ overtaken : rows[r].content = latest[r]
    /\ \A w \in Worker :
         job[w].op = "run" /\ job[w].rule \in Existing \ overtaken =>
           /\ ~Settled(job[w].rule)
           /\ job[w].row.content = latest[job[w].rule]
           /\ \A v \in Worker :
                job[v].op = "run" /\ job[v].rule = job[w].rule => v = w

(* What HistoryNext adds to a step of Controller. *)
Recorded ==
    /\ latest' = [r \in Rule |-> IF Answered(r) THEN rows'[r].content ELSE latest[r]]
    /\ overtaken' = overtaken \cup {r \in Existing : Answered(r) /\ ~Settled(r)}

LEMMA RunsKeepLatest ==
  ASSUME TypeInv, PatientInv, RunsWrite, Recorded
  PROVE  PatientInv'
<1>1. overtaken' = overtaken /\ \A r \in Rule : latest'[r] = latest[r]
  BY DEF Recorded, Answered, RunsWrite, Existing
<1>2. ASSUME NEW r \in Existing' \ overtaken'
      PROVE  r \in Existing \ overtaken /\ rows'[r].content = latest'[r]
  <2>1. r \in Rule /\ rows'[r] # None /\ r \notin overtaken
    BY <1>1, <1>2 DEF Existing
  <2> QED BY <1>1, <2>1 DEF PatientInv, RunsWrite, Existing
<1>3. ASSUME NEW w \in Worker, job'[w].op = "run", job'[w].rule \in Existing' \ overtaken'
      PROVE  /\ ~Settled(job[w].rule)'
             /\ job'[w].row.content = latest'[job'[w].rule]
             /\ \A v \in Worker :
                  job'[v].op = "run" /\ job'[v].rule = job'[w].rule => v = w
  <2> DEFINE r == job[w].rule
  <2>1. /\ job[w].op = "run" /\ job'[w].rule = r /\ r \in Rule
        /\ \/ job'[w].row.content = job[w].row.content
           \/ rows[r] # None /\ job'[w].row.content = rows[r].content
    BY <1>3 DEF RunsWrite, TypeInv, TypeOK, JobInv
  <2>2. r \in Existing \ overtaken
    BY <1>2, <1>3, <2>1
  <2>3. /\ ~Settled(r) /\ job[w].row.content = latest[r] /\ rows[r].content = latest[r]
        /\ \A v \in Worker : job[v].op = "run" /\ job[v].rule = r => v = w
    BY <2>1, <2>2 DEF PatientInv
  <2>4. rows'[r] = rows[r]
    BY <1>3, <2>1, <2>3 DEF RunsWrite, Existing
  <2>5. \A v \in Worker : job'[v].op = "run" /\ job'[v].rule = r => v = w
    BY <2>3 DEF RunsWrite
  <2> HIDE DEF r
  <2> QED BY <1>1, <2>1, <2>3, <2>4, <2>5 DEF Settled
<1>4. tx'.rows = NoRows
  BY DEF RunsWrite
<1> QED BY <1>2, <1>3, <1>4 DEF PatientInv

LEMMA PatientWrites ==
  ASSUME ClientErrors \subseteq {FALSE}, TypeInv, PatientInv,
         NEW w \in Worker, NEW q \in Rule, NEW e \in ClientErrors, NEW c \in Offered[q],
         CreateRule(w, q, c, e) \/ UpdateRule(w, q, c, e),
         Recorded
  PROVE  PatientInv'
<1>1. PICK p : p = Payload(c, e)
  OBVIOUS
<1>2. /\ p # None /\ p.content = c /\ ~p.errors /\ ~p.completed
  BY <1>1, PayloadType DEF Payload
<1>3. /\ rows' = [rows EXCEPT ![q] = p]
      /\ job' = [job EXCEPT ![w] = [op |-> "run", rule |-> q, row |-> p, msg |-> None]]
      /\ job[w].op = "idle" /\ tx' = tx
      /\ job \in [Worker -> Job] /\ rows \in Rows
  BY <1>1 DEF CreateRule, UpdateRule, GoRunRule, Idle, TypeInv, TypeOK
<1>4. rows'[q] = p /\ \A r \in Rule \ {q} : rows'[r] = rows[r]
  BY <1>3 DEF Rows
<1>5. /\ job'[w].op = "run" /\ job'[w].rule = q /\ job'[w].row = p
      /\ \A v \in Worker \ {w} : job'[v] = job[v]
  BY <1>3
<1>6. Answered(q) /\ \A r \in Rule \ {q} : ~Answered(r)
  BY <1>3, <1>5 DEF Answered
<1>7. /\ latest'[q] = c /\ \A r \in Rule \ {q} : latest'[r] = latest[r]
      /\ \A r \in Rule \ {q} : r \in overtaken' <=> r \in overtaken
      /\ q \notin overtaken' => q \notin overtaken /\ (q \in Existing => Settled(q))
  BY <1>2, <1>4, <1>6 DEF Recorded
<1>8. ASSUME q \notin overtaken'
      PROVE  \A v \in Worker : ~(job[v].op = "run" /\ job[v].rule = q)
  <2>1. CASE rows[q] = None
    BY <1>3, <2>1 DEF CreateRule, UpdateRule, TypeInv, JobInv
  <2>2. CASE rows[q] # None
    BY <1>7, <1>8, <2>2 DEF PatientInv, Existing
  <2> QED BY <2>1, <2>2
<1>9. \A r \in Existing' \ overtaken' : rows'[r].content = latest'[r]
  BY <1>2, <1>4, <1>7 DEF PatientInv, Existing
<1>10. ASSUME NEW u \in Worker, job'[u].op = "run", job'[u].rule \in Existing' \ overtaken'
       PROVE  /\ ~Settled(job[u].rule)'
              /\ job'[u].row.content = latest'[job'[u].rule]
              /\ \A v \in Worker :
                   job'[v].op = "run" /\ job'[v].rule = job'[u].rule => v = u
  <2>1. CASE u = w
    BY <1>2, <1>4, <1>5, <1>7, <1>8, <1>10, <2>1 DEF Settled
  <2>2. CASE u # w
    <3>1. job'[u] = job[u] /\ job[u].rule \in Rule \ {q}
      BY <1>5, <1>8, <1>10, <2>2 DEF TypeInv, TypeOK, JobInv
    <3>2. job[u].rule \in Existing \ overtaken
      BY <1>4, <1>7, <1>10, <3>1 DEF Existing
    <3> QED BY <1>4, <1>5, <1>7, <1>10, <3>1, <3>2 DEF PatientInv, Settled
  <2> QED BY <2>1, <2>2
<1> QED BY <1>3, <1>9, <1>10 DEF PatientInv

LEMMA PatientStep ==
  ASSUME ClientErrors \subseteq {FALSE}, "template" \notin Faults,
         TypeInv, PatientInv, [HistoryNext]_historyVars
  PROVE  PatientInv'
<1>1. CASE HistoryNext
  <2>1. [Next]_vars /\ Recorded
    BY <1>1 DEF HistoryNext, Recorded
  <2>2. CASE RunsWrite
    BY <2>1, <2>2, RunsKeepLatest
  <2>3. ASSUME NEW w \in Worker, NEW r \in Rule, NEW e \in ClientErrors,
               NEW c \in Offered[r], CreateRule(w, r, c, e) \/ UpdateRule(w, r, c, e)
        PROVE  PatientInv'
    BY <2>1, <2>3, PatientWrites
  <2> QED BY <2>1, <2>2, <2>3, OnlyRunsWrite DEF PatientInv
<1>2. CASE UNCHANGED historyVars
  BY <1>2 DEF historyVars, vars, PatientInv, Existing, Settled
<1> QED BY <1>1, <1>2

(* What was PUT and answered is what GET returns, of every rule whose      *)
(* clients wait for the verdict before they PUT it again: whatever other   *)
(* clients, messages, deletions, failing statements, lookups and crashes   *)
(* came between (UpdateRule, runRule, saveRule).  Commands that fail are   *)
(* excepted, since applyRulesForTable writes the row back that it selected.*)
THEOREM PatientClientsLoseNothing ==
  ASSUME ClientErrors \subseteq {FALSE}, "template" \notin Faults
  PROVE  HistorySpec => []PatientPutIsKept
<1>1. HistoryInit => TypeInv /\ PatientInv
  <2>1. Init => PatientInv
    BY DEF Init, PatientInv, NoTx, NoRows, Existing, Idle
  <2> QED BY <2>1, TypeInit DEF HistoryInit
<1>2. TypeInv /\ PatientInv /\ [HistoryNext]_historyVars => (TypeInv /\ PatientInv)'
  <2>1. [HistoryNext]_historyVars => [Next]_vars
    BY DEF HistoryNext, historyVars
  <2> QED BY <2>1, TypeNext, PatientStep
<1>3. PatientInv => PatientPutIsKept
  BY DEF PatientInv, PatientPutIsKept
<1> QED BY <1>1, <1>2, <1>3, PTL DEF HistorySpec
=============================================================================
