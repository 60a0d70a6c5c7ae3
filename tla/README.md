# timescale-rule-manager in TLA+

The rule manager keeps *rules* in a table of PostgreSQL. A rule has a regular
expression over table names, users and roles, a group, a priority, and two
templates of SQL commands. A rule is *applied* to a table by executing its
command template there, and removed by executing its delete template. These
modules say what the service does when requests, Kafka messages, failing
commands, crashes and other replicas interleave, and what holds nevertheless.
`file:line` below is relative to `src/`.

## 1. The system

| part | state | operations | interacts through |
|---|---|---|---|
| controller (`pkg/controller/impl.go`) | goroutines of `runRule`, `impl.mux` | CreateRule, UpdateRule, DeleteRule, GetRule, ListRules, runRule, ApplyAllRules, applyRulesForTable | transactions on the database, the global lock, owner lookups in other services |
| Kafka handlers (`pkg/controller/kafka.go`) | the messages a handler has not finished | one handler, two topics (tables, permissions) | global lock, applyRulesForTable |
| database (`pkg/database`) | the rule table, the tables of schema `public`, the pool of connections, the advisory lock | GetTx, InsertRule, UpdateRule, DeleteRule, GetRule, ListRules, FindMatching..., Lock, Unlock | PostgreSQL through `database/sql` and `lib/pq` |
| consumer (`pkg/kafka/consumer.go`) | offsets of the group, `ready` | NewConsumer (`needsSync`), Start, ConsumeClaim | calls the handler, marks messages |
| process (`main.go`, `pkg/pkg.go`) | phase of start and stop | Start, shutdown by context and wait group | everything |
| template store (`pkg/templates`) | map of templates, its mutex | New, file watcher | read by `model.Type` in requests |
| template rules (`pkg/model`, `pkg/api/template-rules.go`) | none | Type, TemplateRule.Rule, Copy | template store |
| owner lookup (`impl.go:248-345`, `pkg/security`) | the cached token, `tableInfo` | GetToken, GetResource, ListDevices, GetRealmRoleMappings | called inside the global lock; permissions service, device repository, Keycloak |
| HTTP layer, configuration, logging, migration, SQL text | none of their own | routing, decoding, formatting | |

What is hard here:

* **POST and PUT take no lock and answer before anything is applied.** They
  commit the row and start `go runRule(rule)` (`impl.go:116`, `141`) with the
  rule *as it was sent*. The goroutine waits for the lock, applies the rule
  to its tables and writes **all** columns back.
* **Everything else is serialised by one lock**, a mutex and a PostgreSQL
  advisory lock, and by one transaction per holder; errors are rolled back to
  a savepoint and stored in the row, or roll the whole run back and are stored
  by a second transaction.
* **The advisory lock belongs to a connection**, and Lock and Unlock take
  whatever connection the pool hands out.
* **Owners of tables live in other services** and change at any time; what a
  rule applies to is computed again for every operation.
* Statements, lookups and the process can fail between any two steps, Kafka
  delivers again what was not marked.

What makes each part correct:

* controller: readers see a run's effects and its verdict together or not at
  all; a deleted rule does not come back and leaves nothing behind; every
  accepted rule gets a verdict; at rest every table has the rules applied that
  the selection (group, priority, users, roles) gives;
* lock: at most one goroutine of all replicas works; nobody waits for ever;
  after unlock() no session keeps the lock;
* consumer: a message is handled or a synchronisation covers it, and where it
  is lost the ways are known; the group goes on after rebalances and restarts;
* template store: when the watcher is idle the map is the directory;
* owner lookup: no call carries an expired token, and the owners found were
  owners;
* template rules: what `Rule()` builds, `Type()` recognises;
* process: it ends when it is told to.

## 2. Modules

| module | models |
|---|---|
| `RuleSelection` | the two selection queries of `pkg/database/impl.go` as sets, with the columns as functions of a rule's content, `DISTINCT ON (Group) ORDER BY Group, Priority DESC`, and when PostgreSQL rejects a regular expression |
| `Controller` | one process: requests, goroutines, handlers, start, crash, the services around it |
| `RuleBook` | the abstract specification of `Controller`: what readers of committed data see |
| `ControllerHistory` | `Controller` and history variables: the content of the last answered POST or PUT (`latest`) and the rules that were PUT before they had their verdict (`overtaken`) |
| `AdvisoryLock` | mutex, advisory lock and connection pools of several replicas |
| `GlobalLock` | the abstract specification of `AdvisoryLock`, and what `Controller` assumes of its variable `holder` |
| `KafkaSync` | the brokers' log and the group's offsets, the consumer, the synchronisations around it, restarts and the end by a signal |
| `Inbox` | the abstract specification of `KafkaSync`: what `Controller` takes Kafka to be, and how messages may be lost |
| `Transformations` | `Type()` and `TemplateRule.Rule()` as operators |
| `TemplateStore` | directory, inotify, `New`, the watcher, requests that read the map; EXTENDS `Transformations` |
| `OwnerLookup` | one call after the other of a lookup, the token, time, and owners that change meanwhile |
| `ControllerProofs`, `OrphanProofs`, `ConvergenceProofs`, `ReaderProofs`, `AdvisoryLockProofs`, `KafkaSyncProofs`, `TemplateStoreProofs`, `OwnerLookupProofs` | the theorems of section 4 |
| `MC...` | contents, placements, files and symmetry for TLC |

`Controller` is the middle. Its action `LookupOwners` is a whole behaviour of
`OwnerLookup` from `Begin` to `Finish`, and `LookupFails` one that ends in
`Fail`; its `inbox` is the `pending` of `Inbox`, which `KafkaSync`
implements, of all partitions and in any order, without the losses; its `StartupFails` and `Crash` are `Crash` of `KafkaSync`; the rule a
`CreateRule` or `UpdateRule` takes may come from `StoreTemplateRule` of
`TemplateStore`.

`Controller` and `AdvisoryLock` describe the same lock at two grains:
`Controller` takes it for a variable that one goroutine holds, `AdvisoryLock`
shows where that is true (one process always, several replicas only as long as
the pool is used by nobody else).

### Controller and the code

Variables: `rows` is the committed rule table, `used` the ids drawn, `objects`
the committed effects `<<table, rule, content>>` of commands, `tables` and
`owner` the tables and whom they belong to, `inbox` the messages not handled,
`job` what each goroutine was started for (with `runRule`'s variable `rule` in
`row`), `holder`, `sec` and `tx` the goroutine inside the lock with its local
variables and its transaction, `phase` the stage of the process.

A content stands for everything a client chooses in a rule; group, priority,
tables matched, users and roles are functions of it. A row is a content and
two booleans: whether `Errors` is non-empty and `CompletedRun`.

| code | actions |
|---|---|
| CreateRule, UpdateRule | `CreateRule`, `UpdateRule`: one statement, commit, `GoRunRule` |
| DeleteRule | `RequestDelete`, `BeginDelete`, the table loop, `DeleteTableDone`, `FinishDelete` |
| runRule, saveRule | `BeginRun`, the table loop, `RunTableDone` (GetRule, then the look at `Errors`), `FinishRun`, `RollbackAndSave`, `SaveErrors` |
| kafkaMessageHandler | `ReceiveMessage`, `BeginMessage`, the table loop, `TableDone`, `FinishMessage` |
| ApplyAllRules | `BeginApplyAll`, `ListPage`, the table loop, `NextPage`, `FinishApplyAll` |
| applyRulesForTable | `LookupOwners`/`LookupFails`, `SelectRules`, `ExecTemplate` for each rule in the order of groups (second disjunct: savepoint and `errorhandling`), `ApplyFails` |
| New, pkg.Start, main | `Start`, `StartupFails`, `Panic`, `Crash` |

A step is what lies between two statements another goroutine can get between.
Requests see only committed data (READ COMMITTED); a PUT of a row the holder's
transaction has written waits for it. `Faults` says what may fail: `template` (parsing, executing or
running a command), `lookup` (the owner of a table), `database` (lock(),
statements, commits, GetTx, results that break off without anybody asking `rows.Err()`)
and `crash`.

### AdvisoryLock and the code

A thread goes through `mutex` (it asked), `waiting` (`pg_advisory_lock` runs on
`conn`), `locked`, `tx`, `ended` and back; a run that was rolled back goes from
`tx` through `failed` and `saving`, the transaction of `saveRule`. `free` is the idle list of a pool:
the last connection returned is handed out first, more than `MaxIdle` (2, the
default, nothing in the code sets it) are closed, and a closed connection ends
its session and the lock the session has. `SideQuery` is a query outside the
transaction while it is open (GetColumns, FindDeviceTables, ListRules), a
`Reader` a request that uses the pool without the lock. `CancelTx` and
`RollBack` are an early return, after which `database/sql` and `lib/pq` roll
back in the background, either returning or closing the connection.
`IdleBreaks` is an idle connection that is lost, with the lock its session may
have: `database/sql` notices when it hands the connection out and retries on
another. `UnlockFails` is the panic of unlock(), which ends the process unless
the goroutine is one that gin recovers; `LockFails` is lock() that returns an
error, after which each caller returns.

### KafkaSync and the code

`end`, `earliest` and `stored` belong to the brokers, per partition of both
topics. `phase` is where the consumer is: `down`, `syncing` (ApplyAllRules in
`controller.New`), `joining` (in `Consume`, before `Setup`), `consuming`,
`leaving` (the session ends, claims still run), `left` (after `Cleanup`, before
sarama's last commit). `sync` is where the partitions ended when ApplyAllRules
began, so that `covered` can say afterwards what it made up for.

| code | actions |
|---|---|
| NewConsumer | `NewConsumer`, with `OffsetsUnusable` for `needsSync` and `Usable` for `OffsetNewest` |
| controller.New, pkg.Start | `Synchronised`, `BeginSyncBeside`, `Started` |
| Start, Setup | `Join`, `Rejoin` |
| ConsumeClaim, errorhandler | `Deliver`, `HandlerSucceeds`, `HandlerFails`, each with `MarkMessage` |
| Cleanup | `Cleanup` |
| main | `Stop`, `Exit`; `HandlerPanics` is unlock() with the closed database |

Sarama and the brokers are external: `Commit` stores what is marked, once a
second and at the end of a session; a session ends by a rebalance or because
the message wanted is gone (`FetchFails`). `Cleanup` calls `wg.Done()` before
the last commit, so `Exit` may come first. main installs its signal handler
after `pkg.Start`; before that a signal is a `Crash`, like an error in `Start`.
Two ways to lose a message are part of the design: `ConsumeClaim` marks a
message whose handler failed, and a partition without a usable offset is read
from its end, so what was published after ApplyAllRules read the tables and
before the group was joined is skipped (at a rebalance also: whatever was
published before, if nothing has been committed there yet).

### TemplateStore, Transformations and the code

`dir` is the directory, where a file is a template, `Half` (truncated, or no
JSON) or absent; `events` the queue of inotify, which merges an event that
equals the last. `mux` says who has the mutex, `watcher` where its goroutine
is. `NewStarts` to `NewWatches` are `New`; an error leaves the mutex locked and
no watcher, and `pkg.Start` only logs it (`pkg.go:37-40`), so requests are
served with what was read. `TakeEvent`, `Lock`, `ReadFails`, `Write`, `Unlock`
are the watcher. `Write` to `Unlock` is the time in which the map is being
written: a request then sees an entry read in part (`Seen`), or Go's runtime
ends the process (`FatalError`). `ReadFails` is the `continue` with the mutex
locked (`templates.go:106`, `111`), after which `Lock` is never enabled again.
The image of the `Dockerfile` has no directory `template_dir`; `NewStarts` then
takes its second disjunct and there are no templates. Files that are mounted
by a symbolic link swap give no event for a name ending in `.json`; they are
changes the watcher is never told of and outside the model.

Of a template, its description is left out, and of a rule its users and roles,
which templates do not touch. `TableRegEx` is the target it stands for, or
`"other"`.

### OwnerLookup and the code

A lookup asks the permissions service for users and roles (`Permissions`), the
device repository for the timezone (`DeviceAttributes`), and Keycloak for the
roles of each user (`RealmRoles`, `NextUser`); a table of an export starts with
its user. Each call but the second gets a token first: `UseToken` or
`RequestToken`, `Issue`, `ReceiveToken`. `validUntil` is when Keycloak ends a
token it issued, `requested` what GetToken counts from. Time passes while a
call is under way or nothing is done, never between the check of a token and
the call; a call is given up after `Timeout` (`Fail`). `Slack` is the ten
seconds of `security.go:51`, `Timeout` the five of its HTTP clients;
`TimingAssumption` asks that a call fits into the slack and two calls into the
life of a token. `always` and `ever` remember what held during the lookup.

A change of realm roles announces nothing on Kafka, so `ChangeOwner` of
`Controller`, which comes with a message, stands for permissions only: after a
change of roles rules stay as they are until the next message or start.

## 3. Runs

| run | bounds | shows |
|---|---|---|
| `Controller_faults` | 2 rules, each valid or with a rejected regular expression, 1 table, 2 goroutines, page size 1, all faults | `TypeOK`, `Consistent`, `ImplementsRuleBook` (1 070 690 states) |
| `Controller_verdict` | 1 rule, 2 tables, 2 goroutines, fixed owners, faults template and lookup, fairness | `NoOrphans`, `AcceptedRuleSettles`, `EveryJobEnds` (43 104 states) |
| `ControllerHistory_converge` | 2 rules of different groups, one with two versions, 1 table, 2 owners, 2 goroutines, crashes | `Convergence`, `PatientPutIsKept` (1 067 108 states) |
| `AdvisoryLock_process` | 1 replica, 2 threads, 1 reader, 4 connections, all hazards | `TypeOK`, `ImplementsGlobalLock` |
| `AdvisoryLock_quiet` | 2 replicas, 3 threads, 4 connections, crashes, fairness | `NothingLeaked`, `ImplementsGlobalLock`, `Served` |
| `KafkaSync_delivery` | a partition with 2 messages and one without, 3 interruptions, all faults, fairness | `TypeOK`, `OnlyTwoLosses`, `ImplementsInbox`, `IntactGroupsLoseNothing`, `EveryMessageSettles`, `RestartRepairs`, `StopEnds` (90 847 states) |
| `TemplateStore_watch` | 2 files, 3 templates, 1 rule, 3 changes, 1 end, fairness | `TypeOK`, `UpToDate`, `TypedAsPosted`, `FilesAreLoaded` (94 119 states) |
| `OwnerLookup_calls` | 2 users, 1 role, tokens of 3 ticks, slack and timeout 1, 5 ticks, 2 changes, fairness | `TypeOK`, `TokensValid`, `LookupIsTrue`, `LookupEnds` (552 080 states) |
| `Controller_priority`, `ControllerHistory_lostput`, `AdvisoryLock_readers`, `KafkaSync_stop` | one or two rules, replicas or partitions each | a counterexample, see section 5 |

Why the bounds are enough. A race in `Controller` is between the holder of the
lock and one goroutine that has not got it yet, or a request; the holder is
alone, so two goroutines give every pair, and a goroutine that ends is used
again. Two rules are needed for what one does to another (`OwnRuleInv`,
messages that pick several); two tables for a failure after a success; two
versions of one rule for stale writes; page size 1 for the second page. In
`AdvisoryLock` a third idle connection is what exceeds the pool. The quiet run,
which has the liveness property, always has a connection left to hand out; in
`AdvisoryLock_process` the bound limits how many cancelled transactions are
still to be rolled back: two, beside a waiting goroutine and a reader.

In `KafkaSync` a partition without messages has an offset or none of its own,
which is what `needsSync` compares beside the other's; two messages let one be
queued, marked or dropped while the other is at work; three interruptions are
one that loses something, one that ends the process, and one during the
restart. In `TemplateStore` two files let one be read late while the other
changes, and one of the three templates differs from another in the delete
template only, one in the priority only; three changes are a write in place
(two) and another before the first is read. In `OwnerLookup` a token is asked
for, used, found too old and asked for again within five ticks, and two changes
fall between any two of the three kinds of calls; a role granted through one
user and directly, or through both, needs two users and one role.

The other bounds have names as well: `Worker` (jobs accepted at one time),
`Offered`, `ClientErrors`, `OwnerSets`, `Devices`, `Conn`, and `MaxDepth`, above
which nobody *asks* for the lock, so that no counterexample of `Served` comes
from the bound; `MaxOffset`, `MaxInterruptions`, `MaxChanges`, `MaxEnds`,
`MaxTime`. Ids are not drawn twice, so the number of rules ever created is the
size of `Rule`.

Deadlock is not checked where the bounds end everything that happens
(`KafkaSync`, `TemplateStore`) and checked in `Controller_*`, `AdvisoryLock_*` and
`OwnerLookup_calls`, unless the `.cfg` says otherwise.

Fairness. `Begin(w)` of `Controller`, taking the lock, is strongly fair: a
goroutine that waits for a `sync.Mutex` longer than a millisecond is handed it
next (starvation mode), and PostgreSQL queues the waiters of an advisory lock.
`Proceed(w)` is weakly fair: statements end, since GetTx gives every transaction
a deadline. `LockMux` and the steps of a holder in `AdvisoryLock` have the same
reasons, a reader returns its connection, and `database/sql` finishes a
rollback. Nothing is assumed of requests, messages, crashes, starts and the
environment of `Controller`.

In `KafkaSync` the process is started again when it ends (it is run as a
container; `log.Fatal` and panics rely on that), the group lets it join, sarama
fetches and commits, and handlers end for the reason above. In `TemplateStore`
only goroutines that are not blocked go on. In `OwnerLookup` a call is answered
or times out: the HTTP clients of `pkg/security` have a timeout, and the same is
assumed of the two clients of other repositories.

`Controller_verdict` leaves out the faults `crash` and `database` because the
code has no answer to them: a run lost in a crash is not repeated, and a
verdict that cannot be stored is only logged (`impl.go:521-530`).
`ControllerHistory_converge` leaves out failing commands, lookups and statements for the
same reason, and has `apply_rules_at_startup` set; `Controller_verdict` has fixed
owners because of item 5 of section 5.

## 4. Proofs

Every theorem holds for all values of the constants that satisfy the
assumptions named in the modules (`SelectionAssumption`, `ControllerAssumption`
and their like), and the conditions the table names.

| module | theorems |
|---|---|
| `ControllerProofs` | `TypeCorrect`: `[]TypeOK`; `AlwaysConsistent`: `[]Consistent` |
| `OrphanProofs` | `DeletedRulesLeaveNothing`: `[]NoOrphans` if owners stay (`Devices = {}`) and all that clients put into one rule is alike to the queries (`VersionsAlike`), whatever fails |
| `ConvergenceProofs` | `RulesAreApplied`: `[]Convergence` if nothing but crashes fails and a crash is followed by ApplyAllRules, all rules fit one page, the versions of a rule have a valid regular expression and the same tables, and no two rules compete for a group of a table (`Converging`) |
| `ReaderProofs` | `ControllerImplementsRuleBook`: `ImplementsRuleBook`, the refinement under the identity on `rows`, `used` and `objects`; `PatientClientsLoseNothing`: `[]PatientPutIsKept` if commands do not fail (`template`) and clients send no errors |
| `AdvisoryLockProofs` | `LockTypeCorrect`: `[]TypeOK`; `OneProcessExcludes`: `ImplementsGlobalLock` if all threads are of one replica; `QuietLockIsReleased`: `[]NothingLeaked` and `QuietLockExcludes`: `ImplementsGlobalLock` if there are no readers, two idle connections are kept and nothing but crashes happens (`Quiet`) |
| `KafkaSyncProofs` | `SyncTypeCorrect`: `[]TypeOK`; `MessagesAreAccountedFor`: `[]OnlyTwoLosses`; `KafkaIsAnInbox`: `ImplementsInbox`; `GroupsLoseNothing`: `IntactGroupsLoseNothing` |
| `TemplateStoreProofs` | `StoreTypeCorrect`: `[]TypeOK`; `RulesAreTyped`: `[]TypedAsPosted`; `StoreFollowsDirectory`: `[]UpToDate` |
| `OwnerLookupProofs` | `LookupTypeCorrect`: `[]TypeOK`; `TokensAreValid`: `[]TokensValid`; `LookupsAreTrue`: `[]LookupIsTrue` |

**Controller.** The argument has two layers. `TypeInv` adds to `TypeOK` what
writing a row back needs: a run carries a row (`JobInv`), a pending or picked
row belongs to a rule that exists (`RowInv`, the reason why no deleted rule
returns), and there is a table while rules are executed (`TableInv`). It is
inductive by itself. `HolderInv` is about the goroutine inside the lock: nothing
of a critical section outlives it (`SectionInv`), a run or deletion touches its
own rule only (`OwnRuleInv`), uncommitted effects are of existing rules
(`EffectInv`), and the row a run carries has errors exactly when they are about
to be saved (`VerdictInv`, the reason why a completed run has none). It is
inductive relative to `TypeInv`. Lemmas say once what entering, leaving and
rolling back do to either; then there is one lemma per action or group of
actions. For the refinement, `CommittedEffects` and its neighbours say what a
commit changes. FinishRun is `Complete`, SaveErrors `Fail`, FinishDelete
`Delete`, a message or ApplyAllRules `Apply`, and every other step stutters or
is a request; crashes and panics stutter, which is what atomicity means here.

For `NoOrphans` a third layer, `OrphanInv`, relates effects to the rows that
will be asked for them: an effect lies where its content selects the table
(`PlaceInv`), contents of one rule select alike, so a deletion finds every table
it must visit (`EnterKeepsPlace`) and selects its rule there
(`SelectRulesKeepsPlace`); what it has not removed yet is on a table still to
come, or on the present one with its template still to run or already failed
(`LeftInv`), in which case the row stays too. A regular expression PostgreSQL
rejects does no harm: the deletion fails as a whole. Neither condition can be
dropped (section 5, item 5).

`Convergence` speaks of a service at rest; `OwedInv` is what holds before. What
a row asks for on a table (`Due`: it matches the name and one of the owners of
now) is there, or is wanted of somebody who has not got the lock yet (`Wanted`:
a message that names the table, the run of the rule, ApplyAllRules, the next
start), or is in the hand of the holder (`InHand`: the table is still to come,
was looked up and the owners are still the same, the present row is picked, or
the transaction has done it already). A PUT, a new table and a change of owners
make something due and wanted in the same step; a holder leaves nothing in his
hand when he commits. The one step that could make something due without anybody
being told is a run that writes an older version back (item 2 of section 5). It
reads the row again after each table, so the version it carries is older only if
a PUT came after that, whose own run still waits, or if it found no table at
all: then the tables its rule matches by now, which are those of every version,
have been announced since. That is `StaleInv`. Each condition of
`Converging` is needed: TLC finds a service at rest without its rules when any of
them is dropped (items 5, 6, 9, 11 and 12 of section 5, and section 3).

For `PatientPutIsKept`, `PatientInv` says that while a run of an existing rule
is under way, of a rule not `overtaken`, it is the only one of that rule, carries
the version answered last, and the rule has no verdict yet, which is what a
patient client waits for. Both conditions are needed (items 2 and 7 of section 5).
`RunsWrite` says what any other step may do to runs and rows: end runs, delete
rules, and give a verdict when their run ends. It holds of all steps but
requests, which is a lemma per kind of step.

**AdvisoryLock.** Within one process exclusion follows from the mutex alone: a
thread that works has `mux` of its replica, through panics and crashes, and
whatever the database answers. Between replicas it needs the pool to be quiet:
the proof then keeps account of the connections of a replica, of which the one
that has the advisory lock lies idle in the pool while its holder works, and on
top of the list when the holder unlocks, and it is never the third.

**KafkaSync.** `OnlyTwoLosses` says of each message where the stored offset is;
the invariant adds where the mark, the position and the messages in hand are,
in a session and after it, and that a synchronisation under way covers at most
what was published.

Under the refinement, `pending` are the messages published that are neither
effective nor lost. A handler that ends takes the first of them (`HandlingFirst`,
from `OnlyTwoLosses`: what is pending is not behind the position), or gets one
a second time that is over, which is a stutter or, if it was lost before, a
repair. `Join` is `Skip` of the partitions without a usable offset, the end of
ApplyAllRules is `Cover`, and all else stutters: crashes, commits and rebalances
do not show. That a synchronisation covers no more than has been published, and
history knows no message of the future, is `Dated`. `GroupsLoseNothing`
needs no more than `Bounded`: a stored offset never passes `end`, so `Join` skips
nothing while the group has offsets the brokers still serve (`GroupIntact`).

**TemplateStore.** `FollowInv`: each file is in the map as it is in the
directory, or the last event of it, in the queue or in the watcher's hand, says
whether it is there (`Followed`). A merged event is still the last one. During
`New` the files not read yet are those not in the map. `TypedAsPosted` follows
from `RoundTrip`, a lemma on the operators of `Transformations` alone.

**OwnerLookup.** The invariant relates the token of a call to the time it began
(`requested` before it was issued, the call within `Timeout` of its start), and
what was found to the facts that held when the answers came.

Only model-checked: the liveness properties (the prover has no rules for
fairness: `AcceptedRuleSettles`, `EveryJobEnds`, `Served`, `EveryMessageSettles`,
`RestartRepairs`, `StopEnds`, `FilesAreLoaded`,
`LookupEnds`), and what the properties of `AdvisoryLock` and `Controller` do
outside the conditions above, which is section 5.

## 5. Where code and documentation differ

Shown by a run:

1. `Controller_priority`: `runRule` limits the selection to its own rule
   (`impl.go:501`), so a rule is applied beside a matching one of its group
   with a higher priority, against `swagger.json:18`.
2. `ControllerHistory_lostput`: a run writes back the version it was started
   with (`impl.go:521`), undoing a PUT that was answered in between; both
   runs' effects stay. Clients that wait for the verdict are safe from this
   (`PatientPutIsKept`) unless commands fail: with `Faults =
   {"template"}` and owners that change, a message handler that selected the row
   before the PUT writes it back with the error of its command
   (`impl.go:375`).
3. `AdvisoryLock_readers`: another request takes the connection that has the
   advisory lock; unlock() releases nothing and does not notice
   (`pg_advisory_unlock` answers false), and the next lock() waits for a
   connection that lies in its own pool, against `impl.go:571`. The constant
   `Hazards = {"cancel"}` without readers gives the same deadlock: after an
   early return the rollback still has the connection when unlock() runs. So
   does `Hazards = {"database"}` with `Gin = {a1}`: the panic of unlock() in a
   DELETE is recovered by gin (`api.go:73`) and the mutex stays locked.
4. `KafkaSync_stop`: at a signal the handler at work fails *because* of the
   signal, and its message is marked and committed like one that was handled
   (`consumer.go:166-170`); the messages behind it are left to the next start
   (`consumer.go:160`), this one is not, and the next start finds a usable
   offset and does not synchronise.

Visible in the same models with other constants; no run of the project:

5. `NoOrphans` fails in `Controller` as soon as owners change (`OwnerSets <-
   TwoOwners`, `Devices <- OneDevice`, one rule, one table, no faults): DELETE
   looks for tables with their present owners (`impl.go:164`) and leaves what
   was created for an earlier one. With fixed owners it fails when a PUT
   narrows the regular expression before the DELETE. Where neither happens it
   is proved (section 4).
6. `Convergence` fails with two rules of one group (`Content <- GroupContents`,
   `Offered <- GroupOffered`, no faults): deleting the one with the higher
   priority does not apply the other (`impl.go:173`), against `swagger.json:18`.
7. With `ClientErrors = {TRUE, FALSE}` a run is rolled back although none of its
   commands failed: errors already in the row, from a client or from an earlier
   application, are taken for its own (`impl.go:474` clears only the variable,
   `513` looks at the row), against `swagger.json:54`. `PatientPutIsKept` fails
   too: a row with errors from a client looks as if its run were over.
8. `ImplementsGlobalLock` fails in `AdvisoryLock` with two replicas and two
   readers (`On <- OneEach`, `MaxDepth = 1`, six connections): two idle
   connections make the pool close the one lock() gives back; its session ends,
   and two replicas work at once.
9. The `database` fault loses verdicts (section 3), and a rule whose regular
   expression PostgreSQL rejects can be stored but not deleted, makes messages
   for tables of its users fail and the next synchronisation or start end in
   `StartupFails`.
10. A template file that is read while it is being written stops the watcher
    for good (`ReadFails`); the log says that templates *might* not update.
    Writing in place sends an event for the truncated file, so this is the
    normal course for an editor that does not rename.
11. `Convergence` fails with two rules of different groups and `ListLimit = 1`:
    ListRules pages without ORDER BY (`database/impl.go:160`), a page may repeat
    a rule, and another is not applied at the start.
12. `Convergence` fails when the versions of a rule match different tables: a
    run of the older version that finds no table writes it back (item 2), and
    nothing applies it when it is what the row says. It fails also when the
    process ends between a POST and its run while `apply_rules_at_startup` is
    not set.

## 6. Abstractions, and what is not modelled

* An effect is one object per table, rule and content; a delete template
  removes all of its rule's on that table. Templates are not evaluated.
* Users and roles are both `Principal`. In `Controller` the owner lookup is one
  step; its calls are in `OwnerLookup`. A table name of unknown format is a
  failing lookup.
* `Controller` has no state between two statements nobody can get between: a
  GetColumns that fails under ApplyAllRules skips the table in `LookupFails`,
  before the rules are selected, since selecting changes nothing.
* `AdvisoryLock` has no step for GetTx that fails under the lock: the nil
  `cancel` panics, the deferred unlock() runs and, outside gin, the process
  ends, which is `Panic` of `Controller`.
* A commit whose answer is lost is taken for a failed or a successful one, no
  third outcome. Tables are not dropped, and DELETE commands on the topics,
  which return at once, are left out. `ApplyAllRulesForTable` and
  `FindMatchingRules` have no callers in the service.
* `Controller` is one process; Kafka keeps a message until its handler is done,
  and `needsSync` is any value. `KafkaSync` says which messages do not come and
  when `needsSync` is set. An instance of `KafkaSync` is a group with one member
  and the partitions assigned to it; what a second replica does to its
  partitions is a rebalance.
* `OwnerLookup` begins with a token, which `New` got or ended the process.
  Clocks of the services agree in speed.
* `Type()` ranges over the map while the watcher may write it; beside the fatal
  error and a torn entry (`Seen`), an entry that appears during the iteration
  makes no further difference.
* Not modelled because they hold no state or only format: SQL text, migration,
  routing, configuration, logging, the tables of error codes, `Copy`, GET
  requests. `GetUsers` of `pkg/security` has no callers.

## 7. What is left

* A composition of `Controller` with `Inbox`: convergence up to the messages lost.
  A lost message is a step of `Controller` that takes one from `inbox` without
  effect; `OwedInv` would except the tables it named until ApplyAllRules.
* The goroutines of `runRule` at shutdown (`impl_test.go:583` waits two seconds
  to avoid their panic): the process ends with them, which is `Crash`, so
  nothing new can be stated until their verdict is promised.
* Rules, once changed: a verdict that survives a crash (`completed_run` and
  `errors` both unset are never looked at again) would make `AcceptedRuleSettles`
  hold with the faults `crash` and `database`.
