------------------------- MODULE ConvergenceProofs -------------------------
(***************************************************************************)
(* When the service at rest has applied its rules: nothing but crashes     *)
(* fails, a crash is followed by an application of all rules, which fit    *)
(* one page, and no two rules compete for a group of a table.              *)
(***************************************************************************)
EXTENDS OrphanProofs

(* No two rules can be candidates for one group of one table. *)
NoRivals ==
    \A r, q \in Rule : r # q =>
      \A c \in Offered[r], d \in Offered[q] :
        Group[c] = Group[d] => TableRegEx[c] \cap TableRegEx[d] = {}

Converging ==
    /\ Faults \subseteq {"crash"}
    /\ "crash" \in Faults => ApplyRulesAtStartup
    /\ ClientErrors \subseteq {FALSE}
    /\ Cardinality(Rule) <= ListLimit
    /\ \A r \in Rule : \A c, d \in Offered[r] :
         c \notin InvalidRegEx /\ TableRegEx[c] = TableRegEx[d]
    /\ NoRivals

(* No row has errors, and no run is rolled back. *)
CleanInv ==
    /\ OfferedRows /\ OfferedJobs
    /\ \A r \in Rule : rows[r] # None => ~rows[r].errors
    /\ tx.rows = NoRows
    /\ sec.pc # "save"

Waiting(w, op) == w # holder /\ job[w].op = op

(* A message that names table t is still to be handled. *)
Announced(t) ==
    \/ \E m \in inbox : t \in m.tables
    \/ \E w \in Worker : Waiting(w, "message") /\ t \in job[w].msg.tables

(* Somebody who has still to take the lock will apply rule r to table t. *)
Wanted(r, t) ==
    \/ Announced(t)
    \/ \E w \in Worker : Waiting(w, "run") /\ job[w].rule = r
    \/ \E w \in Worker : Waiting(w, "applyAll")
    \/ phase = "down" /\ ApplyRulesAtStartup

(* What the present version of rule r leaves on table t. *)
Expected(r, t) == <<t, r, rows[r].content>>

(* The holder of the lock has applied it, or is going to. *)
InHand(r, t) ==
    /\ holder # None
    /\ job[holder].op # "delete"
    /\ \/ sec.pc = "page" /\ sec.offset = 0
       \/ sec.pc # "page" /\ r \in sec.ids /\ t \in sec.todo
       \/ sec.pc = "select" /\ r \in sec.ids /\ t = sec.table /\ sec.who = owner[t]
       \/ sec.pc = "exec" /\ t = sec.table /\ sec.picked[r] = rows[r]
       \/ Expected(r, t) \in tx.objects

Due(r, t) == rows[r] # None /\ Selects(rows[r].content, t)

(* What is due is done, or somebody will do it. *)
OwedInv ==
    \A r \in Rule, t \in Table :
      Due(r, t) => Expected(r, t) \in objects \/ Wanted(r, t) \/ InHand(r, t)

(* A run that is about to write an older version back: the PUT came after  *)
(* its last look at the row, and the run of the PUT waits; or it found no  *)
(* table, and those its rule matches now have been announced since.        *)
StaleInv ==
    \A r \in Rule, t \in Table :
      /\ holder # None /\ job[holder].op = "run" /\ job[holder].rule = r
      /\ sec.pc = "table" /\ sec.todo = {}
      /\ rows[r] # None /\ job[holder].row.content # rows[r].content
      /\ t \in tables /\ t \in TableRegEx[rows[r].content]
      => Wanted(r, t)

ConvInv == CleanInv /\ OwedInv /\ StaleInv

-----------------------------------------------------------------------------
(* The transaction reads what is committed, and no statement fails.        *)
LEMMA NothingFails ==
  ASSUME Converging, TypeInv, CleanInv
  PROVE  /\ Seen = rows
         /\ "database" \notin Faults /\ "template" \notin Faults /\ "lookup" \notin Faults
         /\ \A ids \in SUBSET Rule : ~FindMatchingTablesFails(rows, tables, ids)
         /\ \A w \in Worker : ~StatementFails(w)
<1>1. Seen = rows
  BY DEF CleanInv, Seen, NoRows, TypeInv, TypeOK, Rows
<1>2. "database" \notin Faults /\ "template" \notin Faults /\ "lookup" \notin Faults
  BY DEF Converging
<1>3. \A r \in Rule : rows[r] # None => rows[r].content \notin InvalidRegEx
  BY DEF Converging, CleanInv, OfferedRows
<1>4. \A ids \in SUBSET Rule : ~FindMatchingTablesFails(rows, tables, ids)
  BY <1>3 DEF FindMatchingTablesFails
<1>5. \A ids \in SUBSET Rule : \A t, who : ~FindMatchingRulesFails(rows, tables, t, who, ids)
  BY <1>3 DEF FindMatchingRulesFails, Owned
<1>6. sec.ids \in SUBSET Rule
  BY DEF TypeInv, TypeOK, Sec
<1> QED BY <1>1, <1>2, <1>4, <1>5, <1>6 DEF StatementFails

(* A table of a rule is one whatever version of it the rows have. *)
LEMMA SameTables ==
  ASSUME Converging, NEW r \in Rule, NEW c \in Offered[r], NEW d \in Offered[r]
  PROVE  TableRegEx[c] = TableRegEx[d]
BY DEF Converging

(* Who waits for the lock goes on waiting when the holder does something.  *)
LEMMA WantedByOthers ==
  ASSUME TypeInv, HolderInv, NEW w \in Worker, holder = w, UNCHANGED inbox,
         \/ holder' = w
         \/ holder' = None /\ job'[w].op = "idle",
         \A v \in Worker \ {w} : job'[v] = job[v],
         NEW r \in Rule, NEW t \in Table
  PROVE  Wanted(r, t) => Wanted(r, t)'
<1>1. phase # "down"
  BY ControllerAssumption DEF TypeInv, JobInv, HolderInv, SectionInv
<1>2. \A v \in Worker : \A op : Waiting(v, op) => job'[v] = job[v] /\ Waiting(v, op)'
  BY ControllerAssumption DEF Waiting
<1> QED BY <1>1, <1>2 DEF Wanted, Announced

(* Others do something, or enter: the holder's section stays.              *)
LEMMA OthersOwe ==
  ASSUME TypeInv, HolderInv, ConvInv,
         UNCHANGED <<rows, objects, holder, sec, tx>>,
         holder # None => job'[holder] = job[holder],
         OfferedJobs',
         \A r \in Rule, t \in Table :
           Due(r, t)' /\ ~Wanted(r, t)' => Due(r, t) /\ ~Wanted(r, t) /\ owner'[t] = owner[t],
         \A r \in Rule, t \in Table :
           t \in tables' /\ ~Wanted(r, t)' => t \in tables /\ ~Wanted(r, t)
  PROVE  ConvInv'
<1>1. CleanInv'
  BY DEF ConvInv, CleanInv, OfferedRows
<1>2. OwedInv'
  <2> SUFFICES ASSUME NEW r \in Rule, NEW t \in Table, Due(r, t)', ~Wanted(r, t)'
               PROVE  Expected(r, t)' \in objects' \/ InHand(r, t)'
    BY DEF OwedInv
  <2>1. Expected(r, t) \in objects \/ InHand(r, t)
    BY DEF ConvInv, OwedInv
  <2> QED BY <2>1 DEF Expected, InHand
<1>3. StaleInv'
  BY DEF ConvInv, StaleInv, HolderInv, SectionInv, TypeInv, TypeOK, JobInv
<1> QED BY <1>1, <1>2, <1>3 DEF ConvInv

(* A POST or PUT of rule q: its goroutine waits from then on.              *)
LEMMA WriteOwes ==
  ASSUME TypeInv, HolderInv, ConvInv, ClientErrors \subseteq {FALSE},
         NEW w \in Worker, NEW q \in Rule, NEW e \in ClientErrors, NEW c \in Offered[q],
         CreateRule(w, q, c, e) \/ UpdateRule(w, q, c, e)
  PROVE  ConvInv'
<1>1. PICK p : p = Payload(c, e)
  OBVIOUS
<1>2. p # None /\ p.content = c /\ ~p.errors
  BY <1>1, PayloadType DEF Payload
<1>3. /\ rows' = [rows EXCEPT ![q] = p]
      /\ job' = [job EXCEPT ![w] = [op |-> "run", rule |-> q, row |-> p, msg |-> None]]
      /\ job[w].op = "idle" /\ phase' = phase
      /\ UNCHANGED <<objects, tables, owner, inbox, holder, sec, tx>>
  BY <1>1 DEF CreateRule, UpdateRule, GoRunRule, Idle
<1>4. rows \in Rows /\ job \in [Worker -> Job] /\ holder # w
  BY <1>3, ControllerAssumption DEF TypeInv, TypeOK, HolderInv, SectionInv
<1>5. \A r \in Rule \ {q} : rows'[r] = rows[r]
  BY <1>3, <1>4 DEF Rows
<1>6. rows'[q] = p /\ \A v \in Worker \ {w} : job'[v] = job[v]
  BY <1>3, <1>4 DEF Rows
<1>7. job'[w].op = "run" /\ job'[w].rule = q /\ job'[w].row = p
  BY <1>3, <1>4
<1>8. CleanInv'
  BY <1>2, <1>3, <1>5, <1>6, <1>7 DEF ConvInv, CleanInv, OfferedRows, OfferedJobs
<1>9. /\ \A t : Wanted(q, t)'
      /\ \A r \in Rule : \A t : Wanted(r, t) => Wanted(r, t)'
  <2>1. \A v \in Worker : \A op : Waiting(v, op) /\ op # "idle" => job'[v] = job[v] /\ Waiting(v, op)'
    BY <1>3, <1>6 DEF Waiting
  <2>2. Waiting(w, "run")'
    BY <1>3, <1>4, <1>7 DEF Waiting
  <2> QED BY <1>3, <1>7, <2>1, <2>2 DEF Wanted, Announced
<1>10. OwedInv'
  <2> SUFFICES ASSUME NEW r \in Rule, NEW t \in Table, Due(r, t)', ~Wanted(r, t)'
               PROVE  Expected(r, t)' \in objects' \/ InHand(r, t)'
    BY DEF OwedInv
  <2>1. r # q /\ rows'[r] = rows[r] /\ ~Wanted(r, t)
    BY <1>5, <1>9
  <2>2. Expected(r, t) \in objects \/ InHand(r, t)
    BY <1>3, <2>1 DEF ConvInv, OwedInv, Due, Selects
  <2>3. holder # None => job'[holder] = job[holder]
    BY <1>4, <1>6 DEF TypeInv, TypeOK
  <2> QED BY <1>3, <2>1, <2>2, <2>3 DEF Expected, InHand
<1>11. StaleInv'
  <2>1. holder # None => job'[holder] = job[holder]
    BY <1>4, <1>6 DEF TypeInv, TypeOK
  <2>2. \A t \in Table : Wanted(q, t)'
    BY <1>9
  <2>3. \A r \in Rule \ {q}, t \in Table : Wanted(r, t) => Wanted(r, t)'
    BY <1>9
  <2> QED BY <1>3, <1>5, <2>1, <2>2, <2>3 DEF ConvInv, StaleInv
<1> QED BY <1>8, <1>10, <1>11 DEF ConvInv

LEMMA RequestsOwe ==
  ASSUME TypeInv, HolderInv, ConvInv, ClientErrors \subseteq {FALSE}, Requests
  PROVE  ConvInv'
<1>0. job \in [Worker -> Job] /\ OfferedJobs
  BY DEF TypeInv, TypeOK, ConvInv, CleanInv
<1>1. ASSUME NEW w \in Worker, NEW r \in Rule, RequestDelete(w, r)
      PROVE  ConvInv'
  <2>1. /\ job[w].op = "idle" /\ job'[w].op = "delete"
        /\ \A v \in Worker \ {w} : job'[v] = job[v]
        /\ UNCHANGED <<rows, objects, tables, owner, inbox, holder, sec, tx, phase>>
    BY <1>0, <1>1 DEF RequestDelete, Idle
  <2>2. OfferedJobs' /\ (holder # None => job'[holder] = job[holder])
    BY <1>0, <2>1 DEF OfferedJobs, HolderInv, SectionInv, TypeInv, TypeOK
  <2>3. \A q \in Rule : \A t : Wanted(q, t) => Wanted(q, t)'
    <3>1. \A v \in Worker : \A op : Waiting(v, op) /\ op # "idle" => job'[v] = job[v] /\ Waiting(v, op)'
      BY <2>1 DEF Waiting
    <3> QED BY <2>1, <3>1 DEF Wanted, Announced
  <2> QED BY <2>1, <2>2, <2>3, OthersOwe DEF Due, Selects, TypeInv, TypeOK
<1>2. ASSUME NEW w \in Worker, NEW m \in inbox, ReceiveMessage(w, m)
      PROVE  ConvInv'
  <2>1. /\ job[w].op = "idle" /\ job'[w].op = "message" /\ job'[w].msg = m
        /\ \A v \in Worker \ {w} : job'[v] = job[v]
        /\ inbox' = inbox \ {m}
        /\ UNCHANGED <<rows, objects, tables, owner, holder, sec, tx, phase>>
    BY <1>0, <1>2 DEF ReceiveMessage, Idle
  <2>2. OfferedJobs' /\ (holder # None => job'[holder] = job[holder]) /\ holder # w
    BY <1>0, <2>1, ControllerAssumption DEF OfferedJobs, HolderInv, SectionInv, TypeInv, TypeOK
  <2>3. \A q \in Rule : \A t : Wanted(q, t) => Wanted(q, t)'
    <3>1. \A v \in Worker : \A op : Waiting(v, op) /\ op # "idle" => job'[v] = job[v] /\ Waiting(v, op)'
      BY <2>1 DEF Waiting
    <3>2. Waiting(w, "message")'
      BY <2>1, <2>2 DEF Waiting
    <3> QED BY <2>1, <3>1, <3>2 DEF Wanted, Announced
  <2> QED BY <2>1, <2>2, <2>3, OthersOwe DEF Due, Selects, TypeInv, TypeOK
<1> QED BY <1>1, <1>2, WriteOwes DEF Requests

LEMMA EnvironmentOwes ==
  ASSUME TypeInv, HolderInv, ConvInv, Environment
  PROVE  ConvInv'
<1>0. OfferedJobs /\ owner \in [Table -> SUBSET Principal]
  BY DEF TypeInv, TypeOK, ConvInv, CleanInv
<1>1. ASSUME NEW m, inbox' = inbox \cup {m}, UNCHANGED <<job, holder, phase>>
      PROVE  /\ \A r, t : Wanted(r, t) => Wanted(r, t)'
             /\ \A r, t : t \in m.tables => Wanted(r, t)'
  BY <1>1 DEF Wanted, Announced, Waiting
<1>2. ASSUME NEW u \in Table, CreateTable(u)
      PROVE  ConvInv'
  <2> DEFINE m == [topic |-> "tables", tables |-> {u}]
  <2>0. m.tables = {u}
    OBVIOUS
  <2>1. /\ tables' = tables \cup {u} /\ OfferedJobs'
        /\ UNCHANGED <<rows, objects, owner, job, holder, sec, tx, phase>>
        /\ inbox' = inbox \cup {m}
    BY <1>0, <1>2 DEF CreateTable, OfferedJobs
  <2> HIDE DEF m
  <2>2. /\ \A r, t : Wanted(r, t) => Wanted(r, t)'
        /\ \A r : Wanted(r, u)'
    BY <1>1, <2>0, <2>1
  <2> QED BY <2>1, <2>2, OthersOwe DEF Due, Selects
<1>3. ASSUME NEW D \in Devices, NEW o \in OwnerSets, ChangeOwner(D, o)
      PROVE  ConvInv'
  <2> DEFINE m == [topic |-> "permissions", tables |-> D]
  <2>0. m.tables = D
    OBVIOUS
  <2>1. /\ owner' = [t \in Table |-> IF t \in D THEN o ELSE owner[t]] /\ OfferedJobs'
        /\ UNCHANGED <<rows, objects, tables, job, holder, sec, tx, phase>>
        /\ inbox' = inbox \cup {m}
    BY <1>0, <1>3 DEF ChangeOwner, OfferedJobs
  <2> HIDE DEF m
  <2>2. /\ \A r, t : Wanted(r, t) => Wanted(r, t)'
        /\ \A r, t : t \in D => Wanted(r, t)'
    BY <1>1, <2>0, <2>1
  <2> QED BY <1>0, <2>1, <2>2, OthersOwe DEF Due, Selects
<1> QED BY <1>2, <1>3 DEF Environment

(* Taking the lock: what was wanted of the goroutine is then in its hand.  *)
LEMMA EnterOwes ==
  ASSUME TypeInv, HolderInv, ConvInv, NEW w \in Worker,
         NEW pc \in {"page", "table"}, NEW ids, NEW todo, Enter(w, pc, ids, todo),
         UNCHANGED <<rows, objects, tables, owner, inbox, phase>>,
         \A v \in Worker \ {w} : job'[v] = job[v],
         job'[w].op = job[w].op, job[w].op # "idle", OfferedJobs',
         job[w].op = "applyAll" => pc = "page",
         \A r \in Rule, t \in Table :
           Due(r, t) /\ \/ job[w].op = "run" /\ job[w].rule = r
                        \/ job[w].op = "message" /\ t \in job[w].msg.tables
             => pc = "table" /\ r \in ids /\ t \in todo,
         StaleInv'
  PROVE  ConvInv'
<1>1. /\ holder = None /\ holder' = w /\ w # None
      /\ tx'.rows = NoRows /\ tx'.objects = objects
      /\ sec'.pc = pc /\ sec'.ids = ids /\ sec'.todo = todo /\ sec'.offset = 0
  BY ControllerAssumption DEF Enter, NoSec
<1>2. CleanInv'
  BY <1>1 DEF ConvInv, CleanInv, OfferedRows
<1>3. phase # "down"
  BY DEF TypeInv, JobInv
<1>4. OwedInv'
  <2> SUFFICES ASSUME NEW r \in Rule, NEW t \in Table, Due(r, t)
               PROVE  Expected(r, t)' \in objects' \/ Wanted(r, t)' \/ InHand(r, t)'
    BY DEF OwedInv, Due, Selects
  <2>1. Expected(r, t) \in objects \/ Wanted(r, t)
    BY <1>1 DEF ConvInv, OwedInv, InHand
  <2>2. CASE Expected(r, t) \in objects
    BY <2>2 DEF Expected
  <2>3. CASE Wanted(r, t)
    <3>1. \A v \in Worker \ {w} : \A op : Waiting(v, op) => Waiting(v, op)'
      BY <1>1 DEF Waiting
    <3>2. \/ Wanted(r, t)'
          \/ Waiting(w, "message") /\ t \in job[w].msg.tables
          \/ Waiting(w, "run") /\ job[w].rule = r
          \/ Waiting(w, "applyAll")
      BY <1>3, <2>3, <3>1 DEF Wanted, Announced
    <3>3. CASE job[w].op \in {"message", "run"} /\ ~Wanted(r, t)'
      BY <1>1, <3>2, <3>3 DEF InHand, Waiting
    <3>4. CASE job[w].op = "applyAll"
      BY <1>1, <3>4 DEF InHand
    <3> QED BY <3>2, <3>3, <3>4 DEF Waiting
  <2> QED BY <2>1, <2>2, <2>3
<1> QED BY <1>2, <1>4 DEF ConvInv

LEMMA BeginOwes ==
  ASSUME Converging, TypeInv, HolderInv, ConvInv, NEW w \in Worker, Begin(w)
  PROVE  ConvInv'
<1>0. /\ OfferedRows /\ OfferedJobs /\ job \in [Worker -> Job] /\ "database" \notin Faults
      /\ \A ids \in SUBSET Rule : ~FindMatchingTablesFails(rows, tables, ids)
  BY NothingFails DEF ConvInv, CleanInv, TypeInv, TypeOK
<1>1. CASE BeginRun(w)
  <2> DEFINE q == job[w].rule
             T == FindMatchingTables(rows, tables, {q})
  <2>1. /\ job[w].op = "run" /\ q \in Rule /\ job[w].row \in Row
        /\ job[w].row.content \in Offered[q]
    BY <1>0, <1>1 DEF BeginRun, TypeInv, TypeOK, JobInv, OfferedJobs
  <2>2. /\ Enter(w, "table", {q}, T)
        /\ job' = [job EXCEPT ![w].row.errors = FALSE]
        /\ UNCHANGED <<rows, objects, tables, owner, inbox, phase>>
    BY <1>0, <1>1, <2>1 DEF BeginRun
  <2>3. /\ \A v \in Worker \ {w} : job'[v] = job[v]
        /\ job'[w].op = "run" /\ job'[w].rule = q
        /\ job'[w].row = [job[w].row EXCEPT !.errors = FALSE]
    BY <1>0, <2>1, <2>2 DEF Job
  <2>4. job'[w].row.content = job[w].row.content
    BY <2>1, <2>3 DEF Row
  <2>5. OfferedJobs'
    BY <1>0, <2>1, <2>3, <2>4 DEF OfferedJobs
  <2>6. \A t \in Table : rows[q] # None /\ t \in tables /\ t \in TableRegEx[rows[q].content]
                           => t \in T
    BY DEF FindMatchingTables
  <2> HIDE DEF T, q
  <2>7. StaleInv'
    <3>1. holder' = w /\ sec'.todo = T
      BY <2>2 DEF Enter, NoSec
    <3> QED BY <2>2, <2>3, <2>6, <3>1 DEF StaleInv
  <2> QED BY <2>1, <2>2, <2>3, <2>5, <2>6, <2>7, EnterOwes DEF q, Due, Selects
<1>2. CASE BeginDelete(w)
  <2> DEFINE T == FindMatchingTables(rows, tables, {job[w].rule})
  <2>1. job[w].op = "delete" /\ job[w].rule \in Rule
    BY <1>2 DEF BeginDelete, TypeInv, TypeOK, JobInv
  <2>2. /\ Enter(w, "table", {job[w].rule}, T)
        /\ UNCHANGED <<rows, objects, tables, owner, inbox, phase, job>>
    BY <1>0, <1>2, <2>1 DEF BeginDelete
  <2> HIDE DEF T
  <2>3. OfferedJobs' /\ StaleInv'
    BY <1>0, <2>1, <2>2 DEF OfferedJobs, StaleInv, Enter
  <2> QED BY <2>1, <2>2, <2>3, EnterOwes
<1>3. CASE BeginMessage(w)
  <2>1. job[w].op = "message"
    BY <1>3 DEF BeginMessage
  <2>2. PICK T \in MessageTables(job[w].msg) : Enter(w, "table", Rule, T) /\ UNCHANGED job
    BY <1>0, <1>3 DEF BeginMessage
  <2>3. T = job[w].msg.tables \/ T = job[w].msg.tables \cap tables
    BY <1>0, <2>2 DEF MessageTables, Received
  <2>4. OfferedJobs' /\ StaleInv' /\ UNCHANGED <<rows, objects, tables, owner, inbox, phase>>
    BY <1>0, <1>3, <2>1, <2>2 DEF OfferedJobs, StaleInv, Enter, BeginMessage
  <2> QED BY <2>1, <2>2, <2>3, <2>4, EnterOwes DEF Due, Selects
<1>4. CASE BeginApplyAll(w)
  <2>1. /\ job[w].op = "applyAll" /\ Enter(w, "page", {}, {})
        /\ UNCHANGED <<rows, objects, tables, owner, inbox, phase, job>>
    BY <1>4 DEF BeginApplyAll
  <2>2. OfferedJobs' /\ StaleInv'
    BY <1>0, <2>1 DEF OfferedJobs, StaleInv, Enter
  <2> QED BY <2>1, <2>2, EnterOwes
<1> QED BY <1>1, <1>2, <1>3, <1>4 DEF Begin

(* The holder goes on: what it has in hand it keeps in hand.               *)
LEMMA GoingOnOwes ==
  ASSUME TypeInv, HolderInv, ConvInv, NEW w \in Worker, holder = w,
         UNCHANGED <<rows, objects, tables, owner, inbox, phase, holder>>,
         \A v \in Worker \ {w} : job'[v] = job[v],
         job'[w].op = job[w].op, job'[w].rule = job[w].rule,
         OfferedJobs', tx'.rows = tx.rows, sec'.pc # "save",
         \A r \in Rule, t \in Table :
           Due(r, t) /\ Due(r, t)' /\ InHand(r, t) => InHand(r, t)',
         sec'.pc = "table" /\ job[w].op = "run" =>
           \A r \in Rule : rows[r] # None /\ job[w].rule = r
             => job'[w].row.content = rows[r].content
  PROVE  ConvInv'
<1>1. CleanInv'
  BY DEF ConvInv, CleanInv, OfferedRows
<1>2. OwedInv'
  <2> SUFFICES ASSUME NEW r \in Rule, NEW t \in Table, Due(r, t)'
               PROVE  Expected(r, t)' \in objects' \/ Wanted(r, t)' \/ InHand(r, t)'
    BY DEF OwedInv
  <2>1. Due(r, t)
    BY DEF Due, Selects
  <2>2. Expected(r, t) \in objects \/ Wanted(r, t) \/ InHand(r, t)
    BY <2>1 DEF ConvInv, OwedInv
  <2>3. Wanted(r, t) => Wanted(r, t)'
    BY WantedByOthers
  <2> QED BY <2>1, <2>2, <2>3 DEF Expected
<1>3. StaleInv'
  BY DEF StaleInv
<1> QED BY <1>1, <1>2, <1>3 DEF ConvInv

(* Every rule is on the first page. *)
LEMMA ListPageOwes ==
  ASSUME Converging, TypeInv, HolderInv, ConvInv, NEW w \in Worker, ListPage(w)
  PROVE  ConvInv'
<1>1. Seen = rows /\ "database" \notin Faults
  BY NothingFails DEF ConvInv
<1>2. PICK ids \in SUBSET Existing :
        /\ Cardinality(ids) = IF Cardinality(Existing) - sec.offset < ListLimit
                              THEN Cardinality(Existing) - sec.offset ELSE ListLimit
        /\ sec' = [sec EXCEPT !.pc = "table",
                              !.ids = ids,
                              !.offset = @ + Cardinality(ids),
                              !.todo = FindMatchingTables(rows, tables, ids)]
  BY <1>1 DEF ListPage, Received
<1>3. /\ holder = w /\ w # None /\ sec.pc = "page" /\ sec \in Sec
      /\ sec'.pc = "table" /\ sec'.ids = ids
      /\ sec'.todo = FindMatchingTables(rows, tables, ids)
      /\ UNCHANGED <<rows, objects, tables, owner, inbox, phase, holder, job, tx>>
  BY <1>2, ControllerAssumption DEF ListPage, TypeInv, TypeOK, Sec
<1>4. job[w].op = "applyAll"
  BY <1>3 DEF HolderInv, SectionInv
<1>5. sec.offset = 0 => ids = Existing
  <2>1. /\ IsFiniteSet(Existing) /\ Cardinality(Existing) <= Cardinality(Rule)
        /\ Cardinality(Existing) \in Nat /\ Cardinality(Rule) \in Nat
    BY ControllerAssumption, FS_Subset, FS_CardinalityType DEF Existing
  <2>2. Cardinality(Existing) <= ListLimit /\ ListLimit \in Nat
    BY <2>1, ControllerAssumption DEF Converging
  <2>3. sec.offset = 0 => Cardinality(ids) = Cardinality(Existing)
    BY <1>2, <2>1, <2>2
  <2> QED BY <2>1, <2>3, FS_Subset
<1>6. ASSUME NEW r \in Rule, NEW t \in Table, Due(r, t), InHand(r, t)
      PROVE  InHand(r, t)'
  <2>1. CASE sec.offset = 0
    <3>1. r \in ids /\ t \in FindMatchingTables(rows, tables, ids)
      BY <1>5, <1>6, <2>1 DEF Due, Selects, Existing, FindMatchingTables
    <3> QED BY <1>3, <1>4, <3>1 DEF InHand
  <2>2. CASE Expected(r, t) \in tx.objects
    BY <1>3, <1>4, <2>2 DEF InHand, Expected
  <2> QED BY <1>3, <1>6, <2>1, <2>2 DEF InHand
<1>7. OfferedJobs'
  BY <1>3 DEF ConvInv, CleanInv, OfferedJobs
<1> QED BY <1>3, <1>4, <1>6, <1>7, GoingOnOwes

(* A rule that is to be applied to a table wins its group there. *)
LEMMA NoRivalsSelected ==
  ASSUME Converging, OfferedRows, NEW t, NEW who, NEW ids \in SUBSET Rule,
         NEW S \in FindMatchingRules(rows, tables, t, who, ids)
  PROVE  S = Candidates(rows, tables, t, who, ids)
<1> DEFINE C == Candidates(rows, tables, t, who, ids)
<1>1. S \subseteq C /\ IsSelection(S, C, rows)
  BY DEF FindMatchingRules
<1>2. ASSUME NEW r \in C
      PROVE  r \in S
  <2>1. PICK s \in S : Group[rows[s].content] = Group[rows[r].content]
    BY <1>1 DEF IsSelection
  <2>2. /\ s \in Rule /\ r \in Rule
        /\ rows[s].content \in Offered[s] /\ rows[r].content \in Offered[r]
        /\ t \in TableRegEx[rows[s].content] /\ t \in TableRegEx[rows[r].content]
    BY <1>1 DEF Candidates, Owned, OfferedRows
  <2> QED BY <2>1, <2>2 DEF Converging, NoRivals
<1> QED BY <1>1, <1>2

LEMMA SelectRulesOwes ==
  ASSUME Converging, TypeInv, HolderInv, ConvInv, NEW w \in Worker, SelectRules(w)
  PROVE  ConvInv'
<1>1. Seen = rows
  BY NothingFails DEF ConvInv
<1>2. PICK S \in FindMatchingRules(rows, tables, sec.table, sec.who, sec.ids) :
        sec' = [sec EXCEPT !.pc = "exec",
                           !.picked = [r \in Rule |-> IF r \in S THEN rows[r] ELSE None]]
  BY <1>1 DEF SelectRules
<1>3. /\ holder = w /\ w # None /\ sec.pc = "select" /\ sec.ids \in SUBSET Rule
      /\ sec'.pc = "exec" /\ sec'.table = sec.table /\ sec'.todo = sec.todo
      /\ sec'.ids = sec.ids
      /\ \A r \in Rule : sec'.picked[r] = IF r \in S THEN rows[r] ELSE None
      /\ UNCHANGED <<rows, objects, tables, owner, inbox, phase, holder, job, tx>>
  BY <1>2, ControllerAssumption DEF SelectRules, TypeInv, TypeOK, Sec
<1>4. S = Candidates(rows, tables, sec.table, sec.who, sec.ids)
  BY <1>3, NoRivalsSelected DEF ConvInv, CleanInv
<1>5. ASSUME NEW r \in Rule, NEW t \in Table, Due(r, t), InHand(r, t)
      PROVE  InHand(r, t)'
  <2>1. CASE r \in sec.ids /\ t = sec.table /\ sec.who = owner[t]
    <3>1. r \in S
      BY <1>4, <1>5, <2>1 DEF Due, Selects, Candidates, Owned
    <3> QED BY <1>3, <1>5, <2>1, <3>1 DEF InHand
  <2>2. CASE r \in sec.ids /\ t \in sec.todo
    BY <1>3, <1>5, <2>2 DEF InHand
  <2>3. CASE Expected(r, t) \in tx.objects
    BY <1>3, <1>5, <2>3 DEF InHand, Expected
  <2> QED BY <1>3, <1>5, <2>1, <2>2, <2>3 DEF InHand
<1>6. OfferedJobs'
  BY <1>3 DEF ConvInv, CleanInv, OfferedJobs
<1> QED BY <1>3, <1>5, <1>6, GoingOnOwes

LEMMA ExecTemplateOwes ==
  ASSUME Converging, TypeInv, HolderInv, ConvInv, NEW w \in Worker, NEW q \in Rule,
         ExecTemplate(w, q)
  PROVE  ConvInv'
<1>1. /\ holder = w /\ w # None /\ sec.pc = "exec" /\ sec.picked[q] # None
      /\ sec \in Sec /\ tx \in [rows : Rows, objects : SUBSET Object]
      /\ tx' = [tx EXCEPT !.objects = Effect(q)]
      /\ sec' = [sec EXCEPT !.picked[q] = None]
      /\ UNCHANGED <<rows, objects, tables, owner, inbox, phase, holder, job>>
  BY NothingFails, ControllerAssumption
     DEF ExecTemplate, Picked, TypeInv, TypeOK, ConvInv
<1>2. /\ sec'.pc = "exec" /\ sec'.table = sec.table /\ sec'.todo = sec.todo
      /\ sec'.ids = sec.ids
      /\ \A r \in Rule \ {q} : sec'.picked[r] = sec.picked[r]
      /\ tx'.rows = tx.rows /\ tx'.objects = Effect(q)
  BY <1>1 DEF Sec, Rows
<1>3. ASSUME NEW r \in Rule, NEW t \in Table, InHand(r, t)
      PROVE  InHand(r, t)'
  <2>1. tx.objects \cup {<<sec.table, q, sec.picked[q].content>>} \subseteq tx'.objects
    BY <1>1, <1>2, <1>3 DEF InHand, Effect
  <2>2. CASE t = sec.table /\ sec.picked[r] = rows[r]
    BY <1>1, <1>2, <1>3, <2>1, <2>2 DEF InHand, Expected
  <2>3. CASE r \in sec.ids /\ t \in sec.todo
    BY <1>1, <1>2, <1>3, <2>3 DEF InHand
  <2>4. CASE Expected(r, t) \in tx.objects
    BY <1>1, <1>2, <1>3, <2>1, <2>4 DEF InHand, Expected
  <2> QED BY <1>1, <1>3, <2>2, <2>3, <2>4 DEF InHand
<1>4. OfferedJobs'
  BY <1>1 DEF ConvInv, CleanInv, OfferedJobs
<1> QED BY <1>1, <1>2, <1>3, <1>4, GoingOnOwes

(* From one table to the next. *)
LEMMA TablesOwe ==
  ASSUME Converging, TypeInv, HolderInv, ConvInv, NEW w \in Worker,
         \/ \E t \in Table : LookupOwners(w, t)
         \/ RunTableDone(w) \/ (DeleteTableDone(w) /\ sec.ok) \/ TableDone(w)
         \/ NextPage(w)
  PROVE  ConvInv'
<1>0. /\ OfferedRows /\ OfferedJobs /\ w # None /\ sec \in Sec /\ job \in [Worker -> Job]
      /\ Seen = rows /\ \A r \in Rule : rows[r] # None => ~rows[r].errors
  BY ControllerAssumption, NothingFails DEF ConvInv, CleanInv, TypeInv, TypeOK
<1>1. ASSUME NEW u \in Table, LookupOwners(w, u)
      PROVE  ConvInv'
  <2>1. /\ holder = w /\ sec.pc = "table"
        /\ sec'.pc = "select" /\ sec'.table = u /\ sec'.who = owner[u]
        /\ sec'.todo = sec.todo \ {u} /\ sec'.ids = sec.ids
        /\ UNCHANGED <<rows, objects, tables, owner, inbox, phase, holder, job, tx>>
    BY <1>0, <1>1 DEF LookupOwners, Sec
  <2>2. \A r \in Rule, t \in Table : InHand(r, t) => InHand(r, t)'
    BY <1>0, <2>1 DEF InHand, Expected
  <2>3. OfferedJobs'
    BY <1>0, <2>1 DEF OfferedJobs
  <2> QED BY <2>1, <2>2, <2>3, GoingOnOwes
<1>2. CASE RunTableDone(w)
  <2> DEFINE q == job[w].rule
  <2>1. /\ holder = w /\ job[w].op = "run" /\ sec.pc = "exec" /\ Picked = {}
        /\ rows[q] # None /\ q \in Rule
        /\ UNCHANGED <<rows, objects, tables, owner, inbox, phase>>
    BY <1>0, <1>2 DEF RunTableDone, TableApplied, TypeInv, TypeOK, JobInv
  <2>2. ~rows[q].errors
    BY <1>0, <2>1
  <2>3. NextTable /\ job' = [job EXCEPT ![w].row = rows[q]] /\ UNCHANGED <<holder, tx>>
    BY <1>0, <1>2, <2>2 DEF RunTableDone
  <2>4. /\ job'[w].op = job[w].op /\ job'[w].rule = q /\ job'[w].row = rows[q]
        /\ \A v \in Worker \ {w} : job'[v] = job[v]
    BY <1>0, <2>3 DEF Job
  <2>5. sec'.pc = "table" /\ sec'.todo = sec.todo /\ sec'.ids = sec.ids
    BY <1>0, <2>3 DEF NextTable, Sec
  <2> HIDE DEF q
  <2>6. OfferedJobs'
    BY <1>0, <2>1, <2>4 DEF OfferedJobs, OfferedRows, q
  <2>7. \A r \in Rule, t \in Table : Due(r, t) /\ InHand(r, t) => InHand(r, t)'
    BY <1>0, <2>1, <2>3, <2>4, <2>5 DEF InHand, Expected, Due, Picked
  <2> QED BY <2>1, <2>3, <2>4, <2>5, <2>6, <2>7, GoingOnOwes DEF q
<1>3. CASE (DeleteTableDone(w) /\ sec.ok) \/ TableDone(w)
  <2>1. /\ holder = w /\ sec.pc = "exec" /\ Picked = {} /\ job[w].op # "run"
        /\ sec'.pc = "table" /\ sec'.todo = sec.todo /\ sec'.ids = sec.ids
        /\ UNCHANGED <<rows, objects, tables, owner, inbox, phase, holder, job, tx>>
    BY <1>0, <1>3 DEF DeleteTableDone, TableDone, TableApplied, NextTable, Sec
  <2>2. \A r \in Rule, t \in Table : Due(r, t) /\ InHand(r, t) => InHand(r, t)'
    BY <1>0, <2>1 DEF InHand, Expected, Due, Picked
  <2>3. OfferedJobs'
    BY <1>0, <2>1 DEF OfferedJobs
  <2> QED BY <2>1, <2>2, <2>3, GoingOnOwes
<1>4. CASE NextPage(w)
  <2>1. /\ holder = w /\ sec.pc = "table" /\ sec.todo = {} /\ sec'.pc = "page"
        /\ UNCHANGED <<rows, objects, tables, owner, inbox, phase, holder, job, tx>>
    BY <1>0, <1>4 DEF NextPage, LastTableDone, Sec
  <2>2. \A r \in Rule, t \in Table : InHand(r, t) => InHand(r, t)'
    BY <1>0, <2>1 DEF InHand, Expected
  <2>3. OfferedJobs'
    BY <1>0, <2>1 DEF OfferedJobs
  <2> QED BY <2>1, <2>2, <2>3, GoingOnOwes
<1> QED BY <1>1, <1>2, <1>3, <1>4

(* The section ends. *)
LEMMA LeavingOwes ==
  ASSUME TypeInv, HolderInv, ConvInv, NEW w \in Worker, holder = w, Release(w),
         UNCHANGED <<tables, owner, inbox>>, OfferedRows',
         \A r \in Rule : rows'[r] # None => ~rows'[r].errors,
         \A r \in Rule, t \in Table :
           Due(r, t)' /\ ~Wanted(r, t) => Expected(r, t)' \in objects'
  PROVE  ConvInv'
<1>1. /\ holder' = None /\ tx' = NoTx /\ sec' = NoSec
      /\ job' = [job EXCEPT ![w] = Idle] /\ job \in [Worker -> Job]
  BY DEF Release, TypeInv, TypeOK
<1>2. job'[w].op = "idle" /\ \A v \in Worker \ {w} : job'[v] = job[v]
  BY <1>1 DEF Idle
<1>3. CleanInv'
  BY <1>1, <1>2 DEF ConvInv, CleanInv, OfferedJobs, NoTx, NoSec
<1>4. OwedInv'
  BY <1>1, <1>2, WantedByOthers DEF OwedInv
<1>5. StaleInv'
  BY <1>1 DEF StaleInv
<1> QED BY <1>3, <1>4, <1>5 DEF ConvInv

(* At the end of its list the holder has in hand what it is to commit.     *)
LEMMA ListDone ==
  ASSUME TypeInv, ConvInv, NEW w \in Worker, NEW op, LastTableDone(w, op),
         NEW r \in Rule, NEW t \in Table, Due(r, t), ~Wanted(r, t)
  PROVE  \/ Expected(r, t) \in objects
         \/ op # "delete" /\ Expected(r, t) \in tx.objects
BY DEF ConvInv, OwedInv, InHand, LastTableDone

LEMMA FinishOwes ==
  ASSUME Converging, TypeInv, HolderInv, ConvInv, NEW w \in Worker,
         \/ FinishRun(w) \/ SaveErrors(w) \/ FinishDelete(w)
         \/ FinishMessage(w) \/ FinishApplyAll(w)
  PROVE  ConvInv'
<1>0. /\ w # None /\ job \in [Worker -> Job] /\ rows \in Rows /\ Seen = rows
      /\ OfferedRows /\ OfferedJobs /\ "database" \notin Faults
      /\ \A r \in Rule : rows[r] # None => ~rows[r].errors
      /\ None \notin Row
  BY ControllerAssumption, SelectionAssumption, NothingFails
     DEF TypeInv, TypeOK, ConvInv, CleanInv
<1>1. CASE FinishRun(w)
  <2> DEFINE q == job[w].rule
             row == [job[w].row EXCEPT !.completed = TRUE]
  <2>1. /\ holder = w /\ job[w].op = "run" /\ sec.pc = "table" /\ sec.todo = {}
        /\ LastTableDone(w, "run") /\ Release(w) /\ UNCHANGED <<tables, owner, inbox>>
    BY <1>1 DEF FinishRun, LastTableDone
  <2>2. q \in Rule /\ job[w].row \in Row /\ job[w].row.content \in Offered[q]
    BY <1>0, <2>1 DEF TypeInv, TypeOK, JobInv, OfferedJobs
  <2>3. ~job[w].row.errors
    BY <1>0, <2>1 DEF HolderInv, VerdictInv
  <2>4. row.content = job[w].row.content /\ ~row.errors
    BY <2>2, <2>3 DEF Row
  <2>5. objects \subseteq tx.objects /\ \A o \in tx.objects \ objects : o[2] = q
    BY <1>0, <2>1 DEF HolderInv, SectionInv, OwnRuleInv
  <2>6. CASE /\ rows[q] # None
             /\ rows' = [rows EXCEPT ![q] = row]
             /\ objects' = tx.objects
    <3> HIDE DEF q, row
    <3>1. rows'[q] = row /\ \A r \in Rule \ {q} : rows'[r] = rows[r]
      BY <1>0, <2>2, <2>6 DEF Rows
    <3>2. OfferedRows' /\ \A r \in Rule : rows'[r] # None => ~rows'[r].errors
      BY <1>0, <2>2, <2>4, <3>1 DEF OfferedRows
    <3>3. ASSUME NEW r \in Rule, NEW t \in Table, Due(r, t)', ~Wanted(r, t)
          PROVE  Expected(r, t)' \in objects'
      <4>1. CASE rows'[r] # None /\ rows'[r].content = rows[r].content /\ rows[r] # None
        <5>1. Due(r, t) /\ Expected(r, t)' = Expected(r, t)
          BY <2>1, <3>3, <4>1 DEF Due, Selects, Expected
        <5> QED BY <2>1, <2>5, <2>6, <3>3, <5>1, ListDone
      <4>2. CASE r = q /\ row.content # rows[q].content
        <5>1. t \in tables /\ t \in TableRegEx[row.content]
          BY <2>1, <3>1, <3>3, <4>2 DEF Due, Selects
        <5>2. t \in TableRegEx[rows[q].content]
          BY <1>0, <2>2, <2>4, <2>6, <5>1, SameTables DEF OfferedRows
        <5>3. Wanted(q, t)
          BY <1>0, <2>1, <2>2, <2>4, <2>6, <4>2, <5>1, <5>2 DEF ConvInv, StaleInv, q
        <5> QED BY <3>3, <4>2, <5>3
      <4> QED BY <2>6, <3>1, <3>3, <4>1, <4>2 DEF Due
    <3> QED BY <2>1, <3>2, <3>3, LeavingOwes
  <2>7. CASE rows[q] = None /\ UNCHANGED <<rows, objects>>
    <3>1. ASSUME NEW r \in Rule, NEW t \in Table, Due(r, t)', ~Wanted(r, t)
          PROVE  Expected(r, t)' \in objects'
      <4>1. Due(r, t) /\ Expected(r, t)' = Expected(r, t) /\ r # q
        BY <2>1, <2>7, <3>1 DEF Due, Selects, Expected
      <4>2. Expected(r, t) \in objects \/ Expected(r, t) \in tx.objects
        BY <2>1, <3>1, <4>1, ListDone
      <4> QED BY <2>5, <2>7, <4>1, <4>2 DEF Expected
    <3> QED BY <1>0, <2>1, <2>7, <3>1, LeavingOwes DEF OfferedRows
  <2> QED BY <1>0, <1>1, <2>6, <2>7 DEF FinishRun
<1>2. CASE SaveErrors(w)
  BY <1>2 DEF SaveErrors, ConvInv, CleanInv
<1>3. CASE FinishDelete(w)
  <2> DEFINE q == job[w].rule
  <2>1. /\ holder = w /\ job[w].op = "delete" /\ sec.pc = "table"
        /\ LastTableDone(w, "delete") /\ Release(w) /\ UNCHANGED <<tables, owner, inbox>>
        /\ q \in Rule
    BY <1>3 DEF FinishDelete, LastTableDone, TypeInv, TypeOK, JobInv
  <2>2. \A o \in objects \ tx.objects : o[2] = q
    BY <1>0, <2>1 DEF HolderInv, OwnRuleInv
  <2>3. CASE rows' = [rows EXCEPT ![q] = None] /\ objects' = tx.objects
    <3>1. /\ OfferedRows' /\ rows'[q] = None
          /\ \A r \in Rule \ {q} : rows'[r] = rows[r]
      BY <1>0, <2>1, <2>3 DEF OfferedRows, Rows
    <3>2. ASSUME NEW r \in Rule, NEW t \in Table, Due(r, t)', ~Wanted(r, t)
          PROVE  Expected(r, t)' \in objects'
      <4>1. Due(r, t) /\ Expected(r, t)' = Expected(r, t) /\ r # q
        BY <2>1, <3>1, <3>2 DEF Due, Selects, Expected
      <4>2. Expected(r, t) \in objects
        BY <2>1, <3>2, <4>1, ListDone
      <4> QED BY <2>2, <2>3, <4>1, <4>2 DEF Expected
    <3> QED BY <1>0, <2>1, <3>1, <3>2, LeavingOwes
  <2>4. CASE UNCHANGED <<rows, objects>>
    <3>1. \A r \in Rule, t \in Table :
            Due(r, t)' /\ ~Wanted(r, t) => Expected(r, t)' \in objects'
      BY <2>1, <2>4, ListDone DEF Due, Selects, Expected
    <3> QED BY <1>0, <2>1, <2>4, <3>1, LeavingOwes DEF OfferedRows
  <2> QED BY <1>0, <1>3, <2>3, <2>4 DEF FinishDelete
<1>4. ASSUME NEW op \in {"message", "applyAll"}, LastTableDone(w, op), Release(w),
             rows' = rows, objects' = tx.objects, UNCHANGED <<tables, owner, inbox>>
      PROVE  ConvInv'
  <2>1. holder = w /\ objects \subseteq tx.objects
    BY <1>0, <1>4 DEF LastTableDone, HolderInv, SectionInv
  <2>2. \A r \in Rule, t \in Table :
          Due(r, t)' /\ ~Wanted(r, t) => Expected(r, t)' \in objects'
    BY <1>4, <2>1, ListDone DEF Due, Selects, Expected
  <2> QED BY <1>0, <1>4, <2>1, <2>2, LeavingOwes DEF OfferedRows
<1>5. CASE FinishMessage(w)
  BY <1>0, <1>4, <1>5 DEF FinishMessage
<1>6. CASE FinishApplyAll(w)
  BY <1>0, <1>4, <1>6 DEF FinishApplyAll
<1> QED BY <1>1, <1>2, <1>3, <1>5, <1>6

LEMMA ProceedOwes ==
  ASSUME Converging, TypeInv, HolderInv, ConvInv, NEW w \in Worker, Proceed(w)
  PROVE  ConvInv'
<1>0. /\ "lookup" \notin Faults /\ "database" \notin Faults /\ ~StatementFails(w)
      /\ OfferedRows /\ \A r \in Rule : rows[r] # None => ~rows[r].errors
  BY NothingFails DEF ConvInv, CleanInv
<1>1. CASE ListPage(w)
  BY <1>1, ListPageOwes
<1>2. CASE \E t \in Table : LookupOwners(w, t)
  BY <1>2, TablesOwe
<1>3. CASE SelectRules(w)
  BY <1>3, SelectRulesOwes
<1>4. CASE \E r \in Rule : ExecTemplate(w, r)
  BY <1>4, ExecTemplateOwes
<1>5. CASE DeleteTableDone(w) /\ ~sec.ok
  <2>1. /\ holder = w /\ job[w].op = "delete" /\ sec.pc = "exec" /\ Release(w)
        /\ UNCHANGED <<rows, objects, tables, owner, inbox>>
    BY <1>5 DEF DeleteTableDone, TableApplied
  <2>2. ASSUME NEW r \in Rule, NEW t \in Table, Due(r, t)', ~Wanted(r, t)
        PROVE  Expected(r, t)' \in objects'
    <3>1. Due(r, t)
      BY <2>1, <2>2 DEF Due, Selects
    <3>2. ~InHand(r, t)
      BY <2>1 DEF InHand
    <3> QED BY <2>1, <2>2, <3>1, <3>2 DEF ConvInv, OwedInv, Expected
  <2> QED BY <1>0, <2>1, <2>2, LeavingOwes DEF OfferedRows
<1>6. CASE \/ RunTableDone(w) \/ (DeleteTableDone(w) /\ sec.ok)
           \/ TableDone(w) \/ NextPage(w)
  BY <1>6, TablesOwe
<1>7. CASE FinishRun(w) \/ SaveErrors(w) \/ FinishDelete(w) \/ FinishMessage(w)
           \/ FinishApplyAll(w)
  BY <1>7, FinishOwes
<1>8. ~ApplyFails(w) /\ \A t \in Table : ~LookupFails(w, t)
  BY <1>0 DEF ApplyFails, LookupFails
<1> QED BY <1>1, <1>2, <1>3, <1>4, <1>5, <1>6, <1>7, <1>8 DEF Proceed

(* A crash leaves all to the application of all rules at the next start.   *)
LEMMA CrashOwes ==
  ASSUME TypeInv, ConvInv, ApplyRulesAtStartup, Die
  PROVE  ConvInv'
<1>1. /\ phase' = "down" /\ holder' = None /\ sec' = NoSec /\ tx' = NoTx
      /\ job' = [w \in Worker |-> Idle] /\ rows' = rows
  BY DEF Die
<1>2. CleanInv'
  BY <1>1 DEF ConvInv, CleanInv, OfferedRows, OfferedJobs, NoTx, NoSec, Idle
<1>3. OwedInv' /\ StaleInv'
  BY <1>1 DEF OwedInv, Wanted, StaleInv
<1> QED BY <1>2, <1>3 DEF ConvInv

LEMMA StartOwes ==
  ASSUME TypeInv, HolderInv, ConvInv, NEW w \in Worker, NEW sync \in BOOLEAN, Start(w, sync)
  PROVE  ConvInv'
<1>1. /\ \A v \in Worker : job[v].op = "idle"
      /\ holder = None /\ holder' = None /\ w # None /\ job \in [Worker -> Job]
      /\ phase = "down" /\ phase' # "down"
      /\ UNCHANGED <<rows, objects, tables, owner, inbox, sec, tx>>
  BY ControllerAssumption
     DEF Start, TypeInv, TypeOK, JobInv, HolderInv, SectionInv
<1>2. OfferedJobs'
  BY <1>1 DEF Start, OfferedJobs, Idle, ConvInv, CleanInv
<1>3. ASSUME NEW r \in Rule, NEW t \in Table, Wanted(r, t)
      PROVE  Wanted(r, t)'
  <2>1. CASE \E m \in inbox : t \in m.tables
    BY <1>1, <2>1 DEF Wanted, Announced
  <2>2. CASE ApplyRulesAtStartup
    <3>1. job' = [job EXCEPT ![w] = [Idle EXCEPT !.op = "applyAll"]]
      BY <2>2 DEF Start
    <3>2. Waiting(w, "applyAll")'
      BY <1>1, <3>1 DEF Waiting, Idle
    <3> QED BY <3>2 DEF Wanted
  <2> QED BY <1>1, <1>3, <2>1, <2>2 DEF Wanted, Announced, Waiting
<1>4. CleanInv'
  BY <1>1, <1>2 DEF ConvInv, CleanInv, OfferedRows
<1>5. OwedInv'
  BY <1>1, <1>3 DEF ConvInv, OwedInv, Due, Selects, Expected, InHand
<1>6. StaleInv'
  BY <1>1 DEF StaleInv
<1> QED BY <1>4, <1>5, <1>6 DEF ConvInv

LEMMA ProcessOwes ==
  ASSUME Converging, TypeInv, HolderInv, ConvInv, Process
  PROVE  ConvInv'
<1>1. ASSUME NEW w \in Worker
      PROVE  ~StartupFails(w) /\ ~Panic(w)
  <2>1. Existing \in SUBSET Rule
    BY DEF Existing
  <2> QED BY <2>1, NothingFails DEF StartupFails, Panic, ConvInv
<1>2. CASE Crash
  BY <1>2, CrashOwes DEF Crash, Converging
<1> QED BY <1>1, <1>2, StartOwes DEF Process

LEMMA ConvNext ==
  ASSUME Converging, TypeInv, HolderInv, ConvInv, [Next]_vars
  PROVE  ConvInv'
<1>1. CASE Requests
  BY <1>1, RequestsOwe DEF Converging
<1>2. ASSUME NEW w \in Worker, Begin(w) \/ Proceed(w)
      PROVE  ConvInv'
  BY <1>2, BeginOwes, ProceedOwes
<1>3. CASE Process
  BY <1>3, ProcessOwes
<1>4. CASE Environment
  BY <1>4, EnvironmentOwes
<1>5. CASE UNCHANGED vars
  <2>1. OfferedJobs'
    BY <1>5 DEF vars, OfferedJobs, ConvInv, CleanInv
  <2>2. \A r \in Rule, t \in Table : Wanted(r, t)' <=> Wanted(r, t)
    BY <1>5 DEF vars, Wanted, Announced, Waiting
  <2> QED BY <1>5, <2>1, <2>2, OthersOwe DEF vars, Due, Selects
<1> QED BY <1>1, <1>2, <1>3, <1>4, <1>5 DEF Next

LEMMA ConvInit ==
  ASSUME Init
  PROVE  ConvInv
<1>1. CleanInv
  BY DEF Init, CleanInv, OfferedRows, OfferedJobs, NoRows, NoTx, NoSec, Idle
<1>2. OwedInv
  BY DEF Init, OwedInv, Due, NoRows
<1>3. StaleInv
  BY DEF Init, StaleInv
<1> QED BY <1>1, <1>2, <1>3 DEF ConvInv

(* At rest nobody is left to do what is due. *)
LEMMA RestIsDone ==
  ASSUME Converging, TypeInv, HolderInv, ConvInv, Quiescent,
         NEW r \in Rule, NEW t \in Table, Due(r, t)
  PROVE  Expected(r, t) \in objects
<1>1. holder = None
  BY DEF Quiescent, HolderInv, SectionInv, TypeInv, TypeOK
<1>2. ~Wanted(r, t)
  BY DEF Quiescent, Wanted, Announced, Waiting
<1> QED BY <1>1, <1>2 DEF ConvInv, OwedInv, InHand

(* All candidates of a table are a selection, and it has been applied. *)
LEMMA RestIsApplied ==
  ASSUME Converging, TypeInv, HolderInv, ConvInv, Quiescent, NEW t \in tables
  PROVE  Applied(t)
<1> DEFINE C == Candidates(rows, tables, t, owner[t], Rule)
<1>0. /\ t \in Table /\ OfferedRows /\ Offered \in [Rule -> SUBSET Content]
      /\ Priority \in [Content -> Nat]
  BY ControllerAssumption, SelectionAssumption DEF TypeInv, TypeOK, ConvInv, CleanInv
<1>1. \A r \in C : /\ r \in Rule /\ rows[r] # None /\ rows[r].content \in Offered[r]
                   /\ t \in TableRegEx[rows[r].content]
                   /\ Priority[rows[r].content] \in Nat
                   /\ Principals[rows[r].content] \cap owner[t] # {}
  BY <1>0 DEF Candidates, Owned, OfferedRows
<1>2. IsSelection(C, C, rows)
  <2>1. \A r, s \in C : Group[rows[r].content] = Group[rows[s].content] => r = s
    BY <1>1 DEF Converging, NoRivals
  <2>2. \A r \in C : Priority[rows[r].content] >= Priority[rows[r].content]
    BY <1>1
  <2> QED BY <2>1, <2>2 DEF IsSelection
<1>3. C \in FindMatchingRules(rows, tables, t, owner[t], Rule)
  BY <1>2 DEF FindMatchingRules
<1>4. ASSUME NEW r \in C
      PROVE  <<t, r, rows[r].content>> \in objects
  BY <1>0, <1>1, RestIsDone DEF Due, Selects, Expected
<1> QED BY <1>3, <1>4 DEF Applied

(* Where nothing but crashes fails, all rules fit one page, the versions   *)
(* of a rule match the same tables, no rules compete, and a crash is       *)
(* followed by an application of all rules, a service at rest has applied  *)
(* every rule it should have, whatever requests, changes of owners, new    *)
(* tables, messages and crashes overtook each other (runRule, the Kafka    *)
(* handlers, ApplyAllRules).                                               *)
THEOREM RulesAreApplied ==
  ASSUME Converging
  PROVE  Spec => []Convergence
<1>1. Init => TypeInv /\ HolderInv /\ ConvInv
  BY TypeInit, HolderInit, ConvInit
<1>2. TypeInv /\ HolderInv /\ ConvInv /\ [Next]_vars => (TypeInv /\ HolderInv /\ ConvInv)'
  BY TypeNext, HolderNext, ConvNext
<1>3. TypeInv /\ HolderInv /\ ConvInv => Convergence
  BY RestIsApplied DEF Convergence
<1> QED BY <1>1, <1>2, <1>3, PTL DEF Spec
=============================================================================
