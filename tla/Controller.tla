----------------------------- MODULE Controller -----------------------------
(***************************************************************************)
(* One process of the rule manager (pkg/controller): the API handlers, the *)
(* goroutines they start, the Kafka handlers and ApplyAllRules, stepping   *)
(* between their database statements against the rule table, the tables of *)
(* schema public and what the rules' commands create there.                *)
(*                                                                         *)
(* The global lock (impl.mux and the advisory lock) is taken to work:      *)
(* AdvisoryLock examines it.  Transactions are READ COMMITTED, the default *)
(* of PostgreSQL.  A command leaves one object per table, rule and content *)
(* and the delete template of a rule removes what any content of that rule *)
(* left on the table.  Kafka keeps a message until its handler is done.    *)
(***************************************************************************)
EXTENDS RuleSelection

CONSTANTS
    Worker,              \* goroutines: bound on jobs accepted at one time
    Offered,             \* [Rule -> SUBSET Content]: what clients put in a rule
    ClientErrors,        \* subset of BOOLEAN: is "errors" set in a payload
    OwnerSets,           \* the sets of users and roles a table can belong to
    Devices,             \* sets of tables that belong to one device
    ListLimit,           \* the page size of ApplyAllRules (1000 in the code)
    ApplyRulesAtStartup, \* config.json: apply_rules_at_startup
    Faults               \* subset of {"template", "lookup", "database", "crash"}

VARIABLES
    rows,     \* the committed rule table
    used,     \* ids drawn so far
    objects,  \* committed effects of commands: <<table, rule, content>>
    tables,   \* tables of schema public
    owner,    \* users and roles a table belongs to, in the other services
    inbox,    \* Kafka messages not yet handled
    job,      \* what each goroutine is working on
    holder,   \* the goroutine inside lock() ... unlock(), or None
    sec,      \* its local variables there
    tx,       \* its transaction: rows written (else None), objects as it sees them
    phase     \* of the process; "syncing" and "consuming" are stages of Start

vars == <<rows, used, objects, tables, owner, inbox, job, holder, sec, tx, phase>>

Object  == Table \X Rule \X Content
Message == [topic : {"tables", "permissions"}, tables : SUBSET Table]
Job == [op   : {"idle", "run", "delete", "message", "applyAll"},
        rule : Rule \cup {None},
        row  : Row \cup {None},      \* runRule's variable rule
        msg  : Message \cup {None}]
Sec == [pc     : {"idle", "page", "table", "select", "exec", "save"},
        ids    : SUBSET Rule,        \* limitToRuleIds (Rule: nil)
        offset : Nat,
        todo   : SUBSET Table,       \* tables the loop has still to visit
        table  : Table \cup {None},
        who    : SUBSET Principal,   \* tableInfo.UserIds and tableInfo.Roles
        picked : Rows,               \* rows selected and still to be executed
        ok     : BOOLEAN]            \* allRanOk

ASSUME ControllerAssumption ==
    /\ Offered \in [Rule -> SUBSET Content]
    /\ ClientErrors \subseteq BOOLEAN
    /\ OwnerSets \subseteq SUBSET Principal
    /\ Devices \subseteq SUBSET Table
    /\ ListLimit \in Nat \ {0}
    /\ ApplyRulesAtStartup \in BOOLEAN
    /\ Faults \subseteq {"template", "lookup", "database", "crash"}
    /\ None \notin Rule \cup Table \cup Worker
    /\ IsFiniteSet(Rule)

NoRows == [r \in Rule |-> None]
Idle   == [op |-> "idle", rule |-> None, row |-> None, msg |-> None]
NoSec  == [pc |-> "idle", ids |-> {}, offset |-> 0, todo |-> {}, table |-> None,
           who |-> {}, picked |-> NoRows, ok |-> TRUE]
NoTx   == [rows |-> NoRows, objects |-> {}]

Init ==
    /\ rows = NoRows
    /\ used = {}
    /\ objects = {}
    /\ tables \in SUBSET Table
    /\ owner \in [Table -> OwnerSets]
    /\ \A D \in Devices : \A t, u \in D : owner[t] = owner[u]
    /\ inbox = {}
    /\ job = [w \in Worker |-> Idle]
    /\ holder = None
    /\ sec = NoSec
    /\ tx = NoTx
    /\ phase = "down"

-----------------------------------------------------------------------------
(* What the statements of the holder's transaction read. *)
Seen == [r \in Rule |-> IF tx.rows[r] # None THEN tx.rows[r] ELSE rows[r]]

Existing == {r \in Rule : rows[r] # None}

(* queryStrings and ListRules never ask rows.Err(): a result that breaks   *)
(* off is taken for the whole of it.                                       *)
Received(S) == IF "database" \in Faults THEN SUBSET S ELSE {S}

(* lock() and GetTx(). *)
Enter(w, pc, ids, todo) ==
    /\ holder = None
    /\ holder' = w
    /\ sec' = [NoSec EXCEPT !.pc = pc, !.ids = ids, !.todo = todo]
    /\ tx' = [rows |-> NoRows, objects |-> objects]

(* Mutant: an early return that skips the deferred unlock(). *)
ReleaseWithoutUnlock(w) ==
    /\ holder' = holder
    /\ sec' = NoSec
    /\ tx' = NoTx
    /\ job' = [job EXCEPT ![w] = Idle]

(* The deferred unlock() and cancel(): what is not committed is undone. *)
Release(w) ==
    /\ holder' = None
    /\ sec' = NoSec
    /\ tx' = NoTx
    /\ job' = [job EXCEPT ![w] = Idle]

(* The process ends.  Messages whose handler has not returned are not      *)
(* marked, so the consumer group delivers them again.                      *)
Die ==
    /\ phase' = "down"
    /\ holder' = None
    /\ sec' = NoSec
    /\ tx' = NoTx
    /\ job' = [w \in Worker |-> Idle]
    /\ inbox' = inbox \cup ({job[w].msg : w \in Worker} \ {None})
    /\ UNCHANGED <<rows, used, objects, tables, owner>>

-----------------------------------------------------------------------------
(* Requests.  CreateRule and UpdateRule take no lock; each is a            *)
(* transaction of one statement and then go runRule(rule).                 *)
(* Mutant: the column CompletedRun is left out. *)
PayloadWithoutCompleted(c, e) == [content |-> c, errors |-> e]

Payload(c, e) == [content |-> c, errors |-> e, completed |-> FALSE]

GoRunRule(w, r, row) ==
    job' = [job EXCEPT ![w] = [Idle EXCEPT !.op = "run", !.rule = r, !.row = row]]

CreateRule(w, r, c, e) ==
    /\ phase = "up"
    /\ job[w].op = "idle"
    /\ r \notin used
    /\ used' = used \cup {r}
    /\ rows' = [rows EXCEPT ![r] = Payload(c, e)]
    /\ GoRunRule(w, r, Payload(c, e))
    /\ UNCHANGED <<objects, tables, owner, inbox, holder, sec, tx, phase>>

(* Mutant: the run is started with the rule as it was before. *)
UpdateRuleRunningOld(w, r, c, e) ==
    /\ phase = "up"
    /\ job[w].op = "idle"
    /\ rows[r] # None
    /\ tx.rows[r] = None
    /\ rows' = [rows EXCEPT ![r] = Payload(c, e)]
    /\ GoRunRule(w, r, rows[r])
    /\ UNCHANGED <<used, objects, tables, owner, inbox, holder, sec, tx, phase>>

(* The UPDATE waits while the holder's transaction has written the row. *)
UpdateRule(w, r, c, e) ==
    /\ phase = "up"
    /\ job[w].op = "idle"
    /\ rows[r] # None
    /\ tx.rows[r] = None
    /\ rows' = [rows EXCEPT ![r] = Payload(c, e)]
    /\ GoRunRule(w, r, Payload(c, e))
    /\ UNCHANGED <<used, objects, tables, owner, inbox, holder, sec, tx, phase>>

RequestDelete(w, r) ==
    /\ phase = "up"
    /\ job[w].op = "idle"
    /\ r \in used
    /\ job' = [job EXCEPT ![w] = [Idle EXCEPT !.op = "delete", !.rule = r]]
    /\ UNCHANGED <<rows, used, objects, tables, owner, inbox, holder, sec, tx, phase>>

ReceiveMessage(w, m) ==
    /\ phase \in {"up", "consuming"}
    /\ job[w].op = "idle"
    /\ inbox' = inbox \ {m}
    /\ job' = [job EXCEPT ![w] = [Idle EXCEPT !.op = "message", !.msg = m]]
    /\ UNCHANGED <<rows, used, objects, tables, owner, holder, sec, tx, phase>>

-----------------------------------------------------------------------------
(* Entering the lock. *)

(* Mutant: the rollback is forgotten. *)
SaveWithoutRollback(w, row) ==
    /\ holder' = w
    /\ sec' = [NoSec EXCEPT !.pc = "save"]
    /\ tx' = tx
    /\ job' = [job EXCEPT ![w].row = row]

(* runRule's rollbackAndSave: the transaction is given up and the errors   *)
(* are to be stored by one of its own.                                     *)
RollbackAndSave(w, row) ==
    /\ holder' = w
    /\ sec' = [NoSec EXCEPT !.pc = "save"]
    /\ tx' = NoTx
    /\ job' = [job EXCEPT ![w].row = row]

(* lock() may fail, and then the run has no verdict; or the statement that *)
(* finds the tables.                                                       *)
BeginRun(w) ==
    /\ job[w].op = "run"
    /\ holder = None
    /\ LET ids   == {job[w].rule}
           fails == FindMatchingTablesFails(rows, tables, ids)
       IN  \/ /\ ~fails
              /\ Enter(w, "table", ids, FindMatchingTables(rows, tables, ids))
              /\ job' = [job EXCEPT ![w].row.errors = FALSE]
           \/ /\ fails \/ "database" \in Faults
              /\ RollbackAndSave(w, [job[w].row EXCEPT !.errors = TRUE])
           \/ /\ "database" \in Faults
              /\ Release(w)
    /\ UNCHANGED <<rows, used, objects, tables, owner, inbox, phase>>

BeginDelete(w) ==
    /\ job[w].op = "delete"
    /\ holder = None
    /\ LET ids   == {job[w].rule}
           fails == FindMatchingTablesFails(rows, tables, ids)
       IN  \/ /\ ~fails
              /\ Enter(w, "table", ids, FindMatchingTables(rows, tables, ids))
              /\ UNCHANGED job
           \/ /\ fails \/ "database" \in Faults
              /\ Release(w)
    /\ UNCHANGED <<rows, used, objects, tables, owner, inbox, phase>>

(* kafkaMessageHandler: the tables the message names, or those that exist  *)
(* of the device it names.                                                 *)
MessageTables(m) ==
    IF m.topic = "tables" THEN {m.tables} ELSE Received(m.tables \cap tables)

BeginMessage(w) ==
    /\ job[w].op = "message"
    /\ holder = None
    /\ \/ /\ \E T \in MessageTables(job[w].msg) : Enter(w, "table", Rule, T)
          /\ UNCHANGED job
       \/ /\ "database" \in Faults
          /\ Release(w)
    /\ UNCHANGED <<rows, used, objects, tables, owner, inbox, phase>>

BeginApplyAll(w) ==
    /\ job[w].op = "applyAll"
    /\ Enter(w, "page", {}, {})
    /\ UNCHANGED <<rows, used, objects, tables, owner, inbox, job, phase>>

(* ListRules(limit, offset) has no ORDER BY: a page is any rules of its    *)
(* size.  It reads outside the transaction.                                *)
ListPage(w) ==
    /\ holder = w
    /\ sec.pc = "page"
    /\ LET left == Cardinality(Existing) - sec.offset
           size == IF left < ListLimit THEN left ELSE ListLimit
       IN  \E page \in SUBSET Existing :
             /\ Cardinality(page) = size
             /\ \E ids \in Received(page) :
                  /\ ~FindMatchingTablesFails(Seen, tables, ids)
                  /\ sec' = [sec EXCEPT !.pc = "table",
                                        !.ids = ids,
                                        !.offset = @ + Cardinality(ids),
                                        !.todo = FindMatchingTables(Seen, tables, ids)]
    /\ UNCHANGED <<rows, used, objects, tables, owner, inbox, job, holder, tx, phase>>

-----------------------------------------------------------------------------
(* applyRulesForTable. *)
LookupOwners(w, t) ==
    /\ holder = w
    /\ sec.pc = "table"
    /\ t \in sec.todo
    /\ sec' = [sec EXCEPT !.pc = "select",
                          !.todo = @ \ {t},
                          !.table = t,
                          !.who = owner[t]]
    /\ UNCHANGED <<rows, used, objects, tables, owner, inbox, job, holder, tx, phase>>

SelectRules(w) ==
    /\ holder = w
    /\ sec.pc = "select"
    /\ ~FindMatchingRulesFails(Seen, tables, sec.table, sec.who, sec.ids)
    /\ \E S \in FindMatchingRules(Seen, tables, sec.table, sec.who, sec.ids) :
         sec' = [sec EXCEPT !.pc = "exec",
                            !.picked = [r \in Rule |-> IF r \in S THEN Seen[r] ELSE None]]
    /\ UNCHANGED <<rows, used, objects, tables, owner, inbox, job, holder, tx, phase>>

Picked == {r \in Rule : sec.picked[r] # None}

Effect(r) ==
    IF job[holder].op = "delete"
    THEN tx.objects \ ({sec.table} \X {r} \X Content)
    ELSE tx.objects \cup {<<sec.table, r, sec.picked[r].content>>}

(* The selected rules in the order of their groups.  On an error the       *)
(* savepoint is restored and the row, as it was selected, is written back  *)
(* with the error.                                                         *)
ExecTemplate(w, r) ==
    /\ holder = w
    /\ sec.pc = "exec"
    /\ r \in Picked
    /\ \A q \in Picked :
         Group[sec.picked[r].content] <= Group[sec.picked[q].content]
    /\ \/ /\ tx' = [tx EXCEPT !.objects = Effect(r)]
          /\ sec' = [sec EXCEPT !.picked[r] = None]
       \/ /\ "template" \in Faults
          /\ tx' = [tx EXCEPT !.rows[r] = [sec.picked[r] EXCEPT !.errors = TRUE]]
          /\ sec' = [sec EXCEPT !.picked[r] = None, !.ok = FALSE]
    /\ UNCHANGED <<rows, used, objects, tables, owner, inbox, job, holder, phase>>

(* Mutant: the run only logs the error. *)
GiveUpSilently(w) == Release(w)

(* applyRulesForTable returned an error to runRule, DeleteRule or the      *)
(* Kafka handler.                                                          *)
GiveUp(w) ==
    IF job[w].op = "run"
    THEN RollbackAndSave(w, [job[w].row EXCEPT !.errors = TRUE])
    ELSE Release(w)

(* The owner or (a query outside the transaction) the columns of the table *)
(* could not be found.  ApplyAllRules goes on with the next table.         *)
LookupFails(w, t) ==
    /\ {"lookup", "database"} \cap Faults # {}
    /\ holder = w
    /\ sec.pc = "table"
    /\ t \in sec.todo
    /\ IF job[w].op = "applyAll"
       THEN /\ sec' = [sec EXCEPT !.todo = @ \ {t}]
            /\ UNCHANGED <<job, holder, tx>>
       ELSE GiveUp(w)
    /\ UNCHANGED <<rows, used, objects, tables, owner, inbox, phase>>

(* A statement failed: the transaction cannot be continued. *)
StatementFails(w) ==
    /\ holder = w
    /\ \/ "database" \in Faults /\ sec.pc \in {"select", "exec"}
       \/ /\ sec.pc = "select"
          /\ FindMatchingRulesFails(Seen, tables, sec.table, sec.who, sec.ids)

ApplyFails(w) ==
    /\ StatementFails(w)
    /\ job[w].op # "applyAll"
    /\ GiveUp(w)
    /\ UNCHANGED <<rows, used, objects, tables, owner, inbox, phase>>

-----------------------------------------------------------------------------
(* After a table. *)
TableApplied(w, op) ==
    /\ holder = w
    /\ job[w].op = op
    /\ sec.pc = "exec"
    /\ Picked = {}

NextTable == sec' = [sec EXCEPT !.pc = "table"]

(* runRule reads its rule again and looks for errors in the row. *)
RunTableDone(w) ==
    /\ TableApplied(w, "run")
    /\ Seen[job[w].rule] # None
    /\ IF Seen[job[w].rule].errors
       THEN RollbackAndSave(w, Seen[job[w].rule])
       ELSE /\ NextTable
            /\ job' = [job EXCEPT ![w].row = Seen[job[w].rule]]
            /\ UNCHANGED <<holder, tx>>
    /\ UNCHANGED <<rows, used, objects, tables, owner, inbox, phase>>

(* Mutant: allRanOk is ignored. *)
DeleteTableDoneAnyway(w) ==
    /\ TableApplied(w, "delete")
    /\ NextTable
    /\ UNCHANGED <<rows, used, objects, tables, owner, inbox, job, holder, tx, phase>>

DeleteTableDone(w) ==
    /\ TableApplied(w, "delete")
    /\ IF sec.ok
       THEN NextTable /\ UNCHANGED <<job, holder, tx>>
       ELSE Release(w)
    /\ UNCHANGED <<rows, used, objects, tables, owner, inbox, phase>>

TableDone(w) ==
    /\ TableApplied(w, "message") \/ TableApplied(w, "applyAll")
    /\ NextTable
    /\ UNCHANGED <<rows, used, objects, tables, owner, inbox, job, holder, tx, phase>>

-----------------------------------------------------------------------------
(* After the last table. *)
LastTableDone(w, op) ==
    /\ holder = w
    /\ job[w].op = op
    /\ sec.pc = "table"
    /\ sec.todo = {}

(* Mutant: an upsert, which brings a deleted rule back. *)
FinishRunUpserting(w) ==
    /\ LastTableDone(w, "run")
    /\ rows' = [Seen EXCEPT ![job[w].rule] = [job[w].row EXCEPT !.completed = TRUE]]
    /\ objects' = tx.objects
    /\ Release(w)
    /\ UNCHANGED <<used, tables, owner, inbox, phase>>

(* UpdateRule and Commit.  Without the row, or with a database that fails, *)
(* the run only logs.                                                      *)
FinishRun(w) ==
    /\ LastTableDone(w, "run")
    /\ LET r == job[w].rule
       IN  \/ /\ rows[r] # None
              /\ rows' = [Seen EXCEPT ![r] = [job[w].row EXCEPT !.completed = TRUE]]
              /\ objects' = tx.objects
           \/ /\ rows[r] = None \/ "database" \in Faults
              /\ UNCHANGED <<rows, objects>>
    /\ Release(w)
    /\ UNCHANGED <<used, tables, owner, inbox, phase>>

(* saveRule. *)
SaveErrors(w) ==
    /\ holder = w
    /\ job[w].op = "run"
    /\ sec.pc = "save"
    /\ LET r == job[w].rule
       IN  \/ rows[r] # None /\ rows' = [rows EXCEPT ![r] = job[w].row]
           \/ rows[r] = None /\ UNCHANGED rows
           \/ "database" \in Faults /\ UNCHANGED rows
    /\ Release(w)
    /\ UNCHANGED <<used, objects, tables, owner, inbox, phase>>

FinishDelete(w) ==
    /\ LastTableDone(w, "delete")
    /\ LET r == job[w].rule
       IN  \/ /\ rows[r] # None
              /\ rows' = [Seen EXCEPT ![r] = None]
              /\ objects' = tx.objects
           \/ /\ rows[r] = None \/ "database" \in Faults
              /\ UNCHANGED <<rows, objects>>
    /\ Release(w)
    /\ UNCHANGED <<used, tables, owner, inbox, phase>>

FinishMessage(w) ==
    /\ LastTableDone(w, "message")
    /\ \/ /\ rows' = Seen
          /\ objects' = tx.objects
       \/ /\ "database" \in Faults
          /\ UNCHANGED <<rows, objects>>
    /\ Release(w)
    /\ UNCHANGED <<used, tables, owner, inbox, phase>>

NextPage(w) ==
    /\ LastTableDone(w, "applyAll")
    /\ Cardinality(sec.ids) >= ListLimit
    /\ sec' = [sec EXCEPT !.pc = "page"]
    /\ UNCHANGED <<rows, used, objects, tables, owner, inbox, job, holder, tx, phase>>

FinishApplyAll(w) ==
    /\ LastTableDone(w, "applyAll")
    /\ Cardinality(sec.ids) < ListLimit
    /\ rows' = Seen
    /\ objects' = tx.objects
    /\ phase' = "up"
    /\ Release(w)
    /\ UNCHANGED <<used, tables, owner, inbox>>

-----------------------------------------------------------------------------
(* The end of the process, and its start. *)

(* ApplyAllRules returns an error: New or pkg.Start fails, log.Fatal. *)
StartupFails(w) ==
    /\ job[w].op = "applyAll"
    /\ \/ StatementFails(w)
       \/ "database" \in Faults
       \/ /\ sec.pc = "page"
          /\ sec.offset < Cardinality(Existing)
          /\ FindMatchingTablesFails(Seen, tables, Existing)
    /\ Die

(* GetTx fails outside gin: cancel is nil and the deferred call panics.    *)
(* GetRule fails in runRule: rule is nil and rule.Errors panics.           *)
Panic(w) ==
    /\ "database" \in Faults
    /\ \/ holder = None /\ job[w].op \in {"run", "message"}
       \/ holder = w /\ sec.pc = "save"
       \/ TableApplied(w, "run")
    /\ Die

Crash ==
    /\ "crash" \in Faults
    /\ phase # "down"
    /\ Die

(* Mutant: rules are applied only when the consumer needs it. *)
StartWithoutApplying(w, sync) ==
    /\ phase = "down"
    /\ phase' = IF sync THEN "syncing" ELSE "up"
    /\ job' = IF sync
              THEN [job EXCEPT ![w] = [Idle EXCEPT !.op = "applyAll"]]
              ELSE job
    /\ UNCHANGED <<rows, used, objects, tables, owner, inbox, holder, sec, tx>>

(* sync is NewConsumer's needsSync: then ApplyAllRules runs before the     *)
(* consumer starts; with ApplyRulesAtStartup alone it runs beside it.      *)
Start(w, sync) ==
    /\ phase = "down"
    /\ phase' = IF sync THEN "syncing"
                ELSE IF ApplyRulesAtStartup THEN "consuming" ELSE "up"
    /\ job' = IF sync \/ ApplyRulesAtStartup
              THEN [job EXCEPT ![w] = [Idle EXCEPT !.op = "applyAll"]]
              ELSE job
    /\ UNCHANGED <<rows, used, objects, tables, owner, inbox, holder, sec, tx>>

-----------------------------------------------------------------------------
(* The services around it. *)
CreateTable(t) ==
    /\ t \notin tables
    /\ tables' = tables \cup {t}
    /\ inbox' = inbox \cup {[topic |-> "tables", tables |-> {t}]}
    /\ UNCHANGED <<rows, used, objects, owner, job, holder, sec, tx, phase>>

ChangeOwner(D, o) ==
    /\ \E t \in D : owner[t] # o
    /\ owner' = [t \in Table |-> IF t \in D THEN o ELSE owner[t]]
    /\ inbox' = inbox \cup {[topic |-> "permissions", tables |-> D]}
    /\ UNCHANGED <<rows, used, objects, tables, job, holder, sec, tx, phase>>

-----------------------------------------------------------------------------
Requests ==
    \E w \in Worker :
      \/ \E r \in Rule, e \in ClientErrors : \E c \in Offered[r] :
            CreateRule(w, r, c, e) \/ UpdateRule(w, r, c, e)
      \/ \E r \in Rule : RequestDelete(w, r)
      \/ \E m \in inbox : ReceiveMessage(w, m)

Begin(w) == BeginRun(w) \/ BeginDelete(w) \/ BeginMessage(w) \/ BeginApplyAll(w)

Proceed(w) ==
    \/ ListPage(w)
    \/ \E t \in Table : LookupOwners(w, t) \/ LookupFails(w, t)
    \/ SelectRules(w)
    \/ \E r \in Rule : ExecTemplate(w, r)
    \/ ApplyFails(w)
    \/ RunTableDone(w) \/ DeleteTableDone(w) \/ TableDone(w)
    \/ FinishRun(w) \/ SaveErrors(w) \/ FinishDelete(w) \/ FinishMessage(w)
    \/ NextPage(w) \/ FinishApplyAll(w)

Process ==
    \/ Crash
    \/ \E w \in Worker : StartupFails(w) \/ Panic(w)
    \/ \E w \in Worker, sync \in BOOLEAN : Start(w, sync)

Environment ==
    \/ \E t \in Table : CreateTable(t)
    \/ \E D \in Devices, o \in OwnerSets : ChangeOwner(D, o)

Next ==
    \/ Requests
    \/ \E w \in Worker : Begin(w) \/ Proceed(w)
    \/ Process
    \/ Environment

Spec == Init /\ [][Next]_vars

(* sync.Mutex hands itself to a waiter that has waited for 1ms; statements *)
(* end (GetTx gives them a timeout).                                       *)
Fairness == \A w \in Worker : SF_vars(Begin(w)) /\ WF_vars(Proceed(w))

FairSpec == Spec /\ Fairness
-----------------------------------------------------------------------------
(* The state has the types the declarations above give it. *)
TypeOK ==
    /\ rows \in Rows
    /\ used \subseteq Rule
    /\ objects \subseteq Object
    /\ tables \subseteq Table
    /\ owner \in [Table -> SUBSET Principal]
    /\ inbox \subseteq Message
    /\ job \in [Worker -> Job]
    /\ holder \in Worker \cup {None}
    /\ sec \in Sec
    /\ tx \in [rows : Rows, objects : SUBSET Object]
    /\ phase \in {"down", "syncing", "consuming", "up"}

(* The parts of the inductive invariant.  Nothing of a critical section    *)
(* outlives it: no leaked transaction, no table list of an earlier holder. *)
SectionInv ==
    /\ holder = None => sec = NoSec /\ tx = NoTx
    /\ holder # None => sec.pc # "idle" /\ job[holder].op # "idle"
    /\ sec.pc = "save" => tx = NoTx /\ job[holder].op = "run"
    /\ sec.pc = "page" => job[holder].op = "applyAll"
    /\ holder # None /\ sec.pc # "save" => IF job[holder].op = "delete"
                                           THEN tx.objects \subseteq objects
                                           ELSE objects \subseteq tx.objects

(* A goroutine carries what its operation needs. *)
JobInv ==
    \A w \in Worker :
      /\ job[w].op \in {"run", "delete"} => job[w].rule \in used
      /\ job[w].op = "run" => job[w].row \in Row
      /\ job[w].op = "message" => job[w].msg \in Message
      /\ job[w].op # "idle" => phase # "down"
      /\ job[w].op \in {"run", "delete"} => phase = "up"

(* Rows are written for ids that were drawn, and a pending row, or one     *)
(* picked for execution, is of a rule that still exists: nothing the       *)
(* holder writes later can bring a deleted rule back.                      *)
RowInv ==
    \A r \in Rule :
      /\ rows[r] # None => r \in used
      /\ tx.rows[r] # None => rows[r] # None /\ tx.rows[r].errors
      /\ sec.picked[r] # None => rows[r] # None

(* While rules are selected and executed there is a table. *)
TableInv == sec.pc \in {"select", "exec"} => sec.table \in Table

(* A run and a deletion stay within their rule. *)
OwnRuleInv ==
    holder # None /\ job[holder].op \in {"run", "delete"} /\ sec.pc # "save" =>
      LET r == job[holder].rule
      IN  /\ sec.ids = {r}
          /\ \A q \in Rule \ {r} : tx.rows[q] = None /\ sec.picked[q] = None
          /\ \A o \in tx.objects \ objects : o[2] = r
          /\ \A o \in objects \ tx.objects : o[2] = r

(* The effects the holder has not committed are of rules that exist, or    *)
(* the holder is deleting theirs.                                          *)
EffectInv ==
    holder # None /\ sec.pc # "save" =>
      \A o \in tx.objects \ objects : rows[o[2]] # None

(* The row a run carries has errors exactly when they are to be saved. *)
VerdictInv ==
    holder # None /\ job[holder].op = "run" =>
      (job[holder].row.errors <=> sec.pc = "save")

(* A critical section leaves nothing behind, writes rows only of rules     *)
(* that exist, and a run or a deletion changes nothing of another rule.    *)
Consistent ==
    /\ SectionInv /\ JobInv /\ RowInv /\ TableInv
    /\ OwnRuleInv /\ EffectInv /\ VerdictInv

RuleBookSpec == INSTANCE RuleBook

(* Readers who see only committed data see the rule book: a run's effects  *)
(* and its verdict together, no effect of a run that was rolled back, no   *)
(* deleted rule written back by a goroutine that started before.           *)
ImplementsRuleBook == RuleBookSpec!Spec
-----------------------------------------------------------------------------
(* Nothing is being worked on and no message is waiting. *)
Quiescent == phase = "up" /\ inbox = {} /\ \A w \in Worker : job[w].op = "idle"

(* The rules that are to be applied to a table have been: one per group,   *)
(* in its present version.                                                 *)
Applied(t) ==
    \E S \in FindMatchingRules(rows, tables, t, owner[t], Rule) :
      \A r \in S : <<t, r, rows[r].content>> \in objects

(* Once the service is at rest, every table has the rules applied that the *)
(* documentation of group and priority selects for it (swagger.json), in   *)
(* whatever order requests, runs, messages, crashes and restarts came.     *)
Convergence == Quiescent => \A t \in tables : Applied(t)

(* A deleted rule leaves nothing behind: the delete template has been run  *)
(* wherever the command template had been (TestRuleLogicForDeviceTables).  *)
NoOrphans == \A o \in objects : rows[o[2]] # None

Settled(r) == rows[r] = None \/ rows[r].completed \/ rows[r].errors

(* A rule that was accepted gets its verdict: it completes, or has errors, *)
(* or is deleted; whoever polls GET /rules/:id gets an answer.             *)
AcceptedRuleSettles == \A r \in Rule : ~Settled(r) ~> Settled(r)

(* Every request and message is done with some time: no goroutine waits    *)
(* for the lock for ever.                                                  *)
EveryJobEnds == \A w \in Worker : job[w].op # "idle" ~> job[w].op = "idle"

-----------------------------------------------------------------------------
(* What documentation and tests say and the code does not keep up.         *)

(* A command takes effect on a table only if no rule of its group that     *)
(* matches the table has a higher priority (swagger.json, priority).       *)
PriorityRespected ==
    [][\A o \in objects' \ objects :
         \A r \in Candidates(rows, tables, o[1], owner[o[1]], Rule) :
           Group[rows[r].content] = Group[o[3]] =>
             Priority[rows[r].content] <= Priority[o[3]]]_vars
=============================================================================
