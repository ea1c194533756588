# A formal model of the Qefro framework

Qefro is a metadata-driven business application framework in Rust: entities,
workflows, operations, automations and scheduling are declared, and a server
over PostgreSQL runs them. Almost all of its state is in the database; several
processes (`qefro serve`, `qefro worker`) and many concurrent requests share
it. What is hard to get right, and hard to test, is what happens *between* the
statements: decisions made on rows that are read before a transaction, locks
taken too late or in different orders, jobs that are run twice or forgotten
after a crash, events that are delivered twice or to the wrong process, and
registries and caches in memory that the tables know nothing of.

This directory models that part in TLA+. TLC checks the models on small
instances, and TLAPS proves the main safety properties for all values of the
constants. Line references are to files under `crates/` of the repository unless
they say otherwise; `PROJECT.json` maps every definition to the lines it stands
for, and lists the hazards of the code with the properties that cover them.

To check one run: `tlc -config MCRecords_requests.cfg MCRecords.tla`. To check
the proofs of a component: `tlapm RecordsProofs.tla`.

## 1. Inventory

### Components

| component | state it keeps | operations | made of | what makes it correct | modules |
|---|---|---|---|---|---|
| **Job queue** `qefro-db/src/jobs.rs` | `jobs` rows: status, attempts, max_attempts, run_at, idempotency key | enqueue in a transaction, claim (`SKIP LOCKED`), report success or failure with backoff, reclaim of running rows at a worker's start | statements that commit one by one, driven by the worker loops | one row per key; a job runs until it has succeeded or used up its attempts; one runner at a time; every job settles | `JobQueue`, `JobContract` |
| **Business operations** `operation.rs`, `operation_run.rs` | `qefro_operation_runs`, the record, the job of an asynchronous run | execute (sync or async) with an idempotency key, replay, execute job | one transaction per execution, a unique index on keys, a row lock on the record | one key, one effect; the run row and the effect agree; a transition is taken once | `OperationRun`, `OperationContract` |
| **Outbox and bus** `outbox.rs`, `qefro-events`, `realtime.rs` | `qefro_outbox`, the bus's subscribers | enqueue in the mutation's transaction, dispatch a batch | a transaction that holds its rows' locks while the handlers run | an event exists exactly when its change does; at-least-once delivery; no duplicates without a fault; dispatchers do not starve each other of connections | `Outbox`, `Chains` |
| **Automation engine** `automation.rs` | `qefro_automation_executions`: status, cursor, snapshot | start on an event, walk the steps, wait, retry, resume; scan of schedules | a claim (INSERT, SELECT, conditional UPDATE), a persisted cursor, jobs | one holder of an execution; no step is repeated or passed over; it ends; no scheduled minute is passed over; automations that set each other off come to an end | `Automation`, `Chains`, `Schedules` |
| **Record engine** `service.rs`, `repository.rs` | one table per entity, child tables, audit and activity rows | create, update, transition, delete, operations | a read and decisions *before* a transaction that writes | the trail matches the changes; locked documents stay as they are; status follows the workflow; deleted is final; totals match the child rows | `Records`, `Documents` |
| **Workflow engine** `qefro-workflow` | none (definition) | find a transition, apply it | a pure lookup | part of the record engine's | `Records` |
| **Document numbering** `numbering.rs` | `document_sequences` | allocate | an upsert whose row lock lasts to the COMMIT | no gap, no duplicate, one number per document | `Records` |
| **Schema and queries** `schema.rs`, `query.rs` | unique indexes, foreign keys | DDL at start; lookups before a write | lookups outside the transaction, constraints inside it | a unique field is unique; a relation leads to a row | `References` |
| **Scheduling** `scheduling.rs`, `scheduling_ops.rs` | the bookings (records) | conflict check inside create, PATCH, reschedule; slots of a day; reminders | advisory lock, locked candidates; a pure generator of slots | no double booking; what is offered is accepted | `Bookings`, `Slots`, `Reminders` |
| **Document operations, bulk** `document_ops.rs`, `bulk.rs` | documents and their child rows | duplicate, amend, bulk update and delete | calls of the record engine, one transaction per record | a copy has its rows; a total is that of its rows | `Documents` |
| **Imports** `import.rs` | import rows, checkpoint, counts | submit, process, cancel, retry | a job that writes row by row, a checkpoint every hundred | every row lands once or is reported; cancelled means stopped | `Imports` |
| **Communications** `communication.rs` | delivery log, jobs | queue, deliver, fall back to another channel | a log row and a job written separately | a message is sent or ends as dead letter; the log tells the truth | `Delivery` |
| **Notifications, webhooks, due reminders** `platform.rs`, `due.rs` | inbox rows, delivery rows, reminder jobs | event handlers and jobs | the same shape as communications | no target is lost, or told twice without a fault; a reminder belongs to the date that stands | `Delivery`, `Reminders` |
| **Attachments** `attachments.rs`, `blobs.rs` | metadata rows, blobs, purge jobs | put, replace, update, delete, purge | a database and a blob store without a common transaction | no row without its blob, no orphan left for ever | `Attachments` |
| **Accounting and commerce** `accounting.rs`, `commerce.rs` | orders, invoices, payments, journals, periods | issue, record, receive, fulfil, refund, reverse, close a period | operations that lock what they read with `get`, and not what they `list` | no invoice is overpaid; orders and ledger add up; closed periods stay closed | `Sales` |
| **Studio** `studio.rs`, `registry.rs` | versions, YAML files, the process's registry, columns | publish, roll back | four stores changed one after the other | registry, columns and history agree; fields stay unless destructively published | `Studio` |
| **Authentication and tenants** `qefro-auth`, `qefro-tenant` | users, memberships, sessions | login, authenticate, refresh, logout, switch, administration of members | a transaction per statement | a session never outlives what it stands on; an administrator remains | `Sessions` |
| **Permissions** `qefro-permissions` | grants in memory, overlay | grant at boot, publish, allows | a matrix with wildcards | what is published is enforced | `Permissions` |
| **Custom fields, app registry** `custom_fields.rs`, `app_registry.rs` | field rows and process-wide caches; migration rows | upsert, list; apply migrations | a lookup, a check and a write; an advisory lock | stored values have the field's type; a migration is executed once | `CustomFields`, `AppMigrations` |
| **Metadata, formulas, validation** `field.rs`, `validation.rs`, `condition.rs`, `formula.rs` | none | checks of a patch and of a record, rules and conditions, order of computed fields | pure functions, called with a selection of their own at each place that writes | an accepted record satisfies its rules, a right one is accepted, each formula after what it reads | `Rules`, `Formulas` |
| **Applications** `catalog.rs`, `app_cmd.rs`, `lifecycle.rs`, `installed.rs` | `.qefro/installed.json`, `.qefro/store`, what a server has loaded | install, update, disable, enable, uninstall, by command line and by Studio; start of a server | files that are read, changed and written by processes without a lock | commands are not undone by others; a recorded application has its directory and its dependencies; the server starts | `Apps` |
| **Tenant settings** `qefro-tenant`, `entitlement.rs` | the tenant's row (list of applications, plan, branding), a copy for five seconds | PATCH of list, branding, tenant; `enable-tenant`, `disable-tenant` | a row that is read through a cache and written as a whole | a change leaves the others alone; requests and jobs may use what the tenant has been given | `TenantApps` |
| **Offers** `routes.rs`, `workspace.rs`, `pages.rs`, `qefro-agent`, `operation.rs` | none | workspace, pages, list of tools and of operations, the actions of a record | each place filters by checks of its own, and the services check again | what is offered is answered, and guards hold | `Offers` |
| **Runtime loops** `runtime.rs` | the processes | serve, run_worker | loops over the above | modelled as their schedules | `JobQueue`, `Outbox`, `Schedules` |

### Components that are not modelled

Reports and print (read-only aggregation, HTML and PDF; whether a report may be
asked for is in `Offers`), the front end and the JavaScript packages, the
examples and deployment files. Of the HTTP API and the agent tools only the
decisions are modelled (`Offers`, and each request as the action that begins
it), not routing, serialisation and OpenAPI; of the command line only the commands on
applications and migrations (`Apps`, `TenantApps`, `AppMigrations`), not
scaffolding and validation.

### How they interact

```
 HTTP ──► EntityService / operations ──┬─ rows, audit, numbers  (one transaction)
              │                        ├─ outbox rows           (same transaction)
              │                        └─ jobs rows             (same transaction)
              │ lookups, scheduling check, workflow
              ▼
 dispatch_outbox (after a mutation, and in the loop of every process)
     └─► bus handlers: notifications, webhooks, communications, realtime (SSE),
         automation ─► qefro_automation_executions, qefro_communications ─► jobs
 worker loop: reclaim at start; scan of schedules; claim ─► handler ─► report
     └─ operation.execute, automation.run, communication.deliver, webhook.deliver,
        import.run, attachment.purge, due and booking reminders
 Studio ─► registry, permission overlay (memory) ─► YAML, columns, version rows
```

Shared state is a table, a blob store, or a file; the exceptions are the bus, the
realtime hub, the registries, the permission overlay, the caches of custom
fields and tenants and the loaded applications, which belong to one process each.

### Behaviours that are hard

* *interleaving*: callers with the same key, workers with the same job, claims of
  one execution, requests on one record, bookings of one resource, two
  administrators, two publishers, a payment and a period's close;
* *stale reads*: `EntityService` decides on a row it read before its transaction;
  so do the lookups of unique fields and relations, the switch of a tenant and
  the analysis of a publication;
* *crashes*: a worker between effect and report, a dispatcher between handlers
  and COMMIT, an automation between claim and persisted cursor, an import between
  a row and its checkpoint, a request between blob and row;
* *lost statements and retries*: a report that fails, a COMMIT whose answer is lost,
  a provider that answers after it has sent;
* *locks*: rows of the outbox, of records, of sequences, of accounts and periods,
  advisory locks, and cycles of them;
* *several processes*: an embedded worker and separate ones, one bus, one registry
  and one cache each.

The section on each module says which of them it contains.

## 2. Plan

Modules are written so that they can be proved about as well as checked:
parameters are CONSTANTS with named assumptions, there is one action per
statement or handler, invariants are conjunctions of named parts, and no module that
is proved about uses a RECURSIVE operator (`Formulas` alone declares some). The order put first what the rest is built on.

| step | module | composes with | state |
|---|---|---|---|
| 1 | `JobQueue`, abstract `JobContract` | refinement `JobQueue => JobContract` | checked, proved |
| 2 | `OperationRun`, abstract `OperationContract` | refinement `OperationRun => OperationContract`; assumes what `JobContract` and `OneRunner` promise of its job | checked, proved |
| 3 | `Outbox` | the delivery that `Automation` and `Delivery` start from | checked, proved |
| 4 | `Automation` | jobs (by key), redelivery of the outbox, Studio's publication | checked, proved |
| 5 | `Records` | numbering and workflow inside the record engine's transactions | checked, proved |
| 6 | `Bookings` | the same transactions, with the scheduling check | checked, proved |
| 7 | `Imports` | a job with a checkpoint, its cancellation and retries | checked, proved |
| 8 | `Delivery`, `Reminders` | outbox and jobs reduced to their contracts | checked, proved |
| 9 | `Attachments` | rows, blobs and purge jobs | checked, proved |
| 10 | `Sales` | operations, ledger and periods in one transaction | checked, proved |
| 11 | `Studio` | registry, file, columns, versions | checked, proved |
| 12 | `Documents`, `References` | child rows and totals; constraints and lookups | checked, proved |
| 13 | `Sessions`, `CustomFields`, `Schedules` | statements of several processes | checked, proved |
| 14 | `AppMigrations`, `Permissions` | advisory lock; overlay | checked, proved |
| 15 | `Formulas`, `Slots` | pure operators against a reference definition | `Slots` checked and proved, `Formulas` checked |
| 16 | `Apps`, `TenantApps` | files and rows that several processes rewrite | checked, proved |
| 17 | `Offers` | workspace, tools and records against the services behind them | checked, proved |
| 18 | `Chains` | outbox, automations and their retry jobs over a pool of connections | checked, proved |
| 19 | `Rules` | what metadata declare, through every request that writes a record, to its columns | checked, proved |

What the plan has left, in order: capacity and several resources in `Bookings`;
several currencies, taxes and stock moves in `Sales`; the conditions of automations; reading by row policies (lists, search, reports, links). Every safety property of a
run is proved, except `FormulasOrdered` (section 6); liveness stays with TLC.

The number of runs is deliberately small: one per module of the core that holds all
its properties, a second one where the interesting instance is of another shape
(`jobs_enqueue`), and two that put smaller, independent behaviours side by side:

* `platform_services` (`MCPlatform`) holds `Delivery`, `Reminders`, `Attachments`,
  `Sales`, `Studio` and `Chains`, which share nothing but the queue and the outbox;
* `tenant_admin` (`MCTenant`) holds `Sessions`, `Permissions`, `CustomFields`,
  `AppMigrations`, `Documents`, `Rules`, `References`, `Schedules`, `Apps`, `TenantApps`,
  `Offers`, `Formulas` and `Slots`.

In both a variable `part` is chosen initially and never changes; each behaviour is one of the
named part, and the variables of the others keep one fixed value (their initial
predicate is evaluated once). A property of the run is the conjunction over its
parts, or belongs to the one part it names. Each module stays a specification
of its own (`Init`, `Next`, `Spec`) and is instantiated under its own name.

`PlatformParts` and `TenantParts` declare the constants and variables of these parts,
instantiate the modules and state the assumptions and the properties; the proofs extend them.
`MCPlatform` and `MCTenant` extend them too, give the constants values and compose the
parts (`Init`, `Next`, `Fairness`); `MCTenant` also adds `Formulas`. All parts start in their
`Init`, and the parts that are not chosen stutter: a behaviour of the composition is one of
every part's `Spec`, so that what is proved from these holds of it.

## 3. The modules

Every module abstracts time to "due or not yet", tenants to their scope (a name
stands for tenant and name), and data to what its properties tell apart. Each SQL
statement that can wait for a lock or is seen by others when it is over is an
action; statements in between, whose effects are invisible until the COMMIT, are
part of the next one that is. Crashes, lost statements and roll-backs are actions
without fairness.

### JobQueue and JobContract

| actions | code |
|---|---|
| `Lookup`, `Insert`, `CommitInsert`, `EndWithoutInsert` | `enqueue_tx` inside a caller's transaction (jobs.rs:74-131): select by key, insert, COMMIT or rollback. An insert under a key that an open transaction holds waits for it (`KeyLocked`, the unique index). |
| `BecomeDue` | `run_at <= now()` |
| `Start`, `StartWithoutReclaim` | a worker process or embedded worker starts: `reclaim_running` (jobs.rs:282) turns *all* running rows into pending ones; both callers ignore its failure |
| `Claim`, `ClaimLost` | `claim_one`: a due pending row under `SKIP LOCKED` (any of them: the order of run_at is left out); the lost variant is an UPDATE that was applied and whose answer never came |
| `HandlerReturns` | Ok only for a registered handler that is worker safe |
| `ReportSuccess`, `ReportFailure`, `ReportLost` | `process_one`: status, attempts and run_at from the record *as it was read at the claim* |
| `Crash`, `Sigterm` | the process dies; the loop's `select!` drops the handler's future (runtime.rs:1051) |

`JobContract` is the queue without workers: a job is open until a success that
happened is recorded, or until its limit of failures is. The refinement maps
`pending` and `running` to `open` and `attempts` to `failures`.

`ExclusiveStart` is a discipline of deployment: no worker starts while another is in
the middle of a job, as with the one worker process of `docs/deployment.md:3` and
`QEFRO_EMBED_WORKER=false`. `reclaim_running` needs it, and nothing in the code enforces it;
`OneRunner` and the contract are stated under it, and `jobs_reclaim` shows what
happens without it. `RetryBudget`, `SucceededRan` and `SettledStable` are proved
and follow from the contract that `jobs_workers` checks.

### OperationRun

A process (client or executor) is one database transaction at a time. `Ask` is a
request after `find_idempotent`; `Insert` writes the run row (waiting for a
concurrent insert of its key, and then answering with that run);
`CommitQueued` commits run and job together and answers `queued`; `Take`, `Find`,
`Mark` are the execute job with its key lookup and the lock on the run row;
`Apply` takes the record's lock, prechecks the transition and runs the handler;
`Refuse` and `Fail` roll back; `Commit` completes the row in the effect's
transaction; `CommitLost` is a COMMIT whose answer is lost; `ReportOk`, `ReportErr`
settle the job; `Crash` kills a process and makes its job ready again. The job is
`JobQueue` reduced to its contract; the constant `OneRunner` says whether the
queue may run a job twice at a time, and properties that need it say so.

`OperationContract` is what a caller may rely on, with every operation as one step:
`Repeat` answers a request whose key is known with the run as it is, `Accept` commits a
queued run, `Perform` executes a synchronous operation for a key that is free (its answer
may be lost), `PerformQueued` executes a queued run: once when it has a key and a job
has one runner, any number of times otherwise. `Execute`, in both, starts from a record
that allows the transition, and moves it, completes the run and has the effect together.
The refinement mapping is the identity on the committed rows, the effects and the
answers; what it hides is the transactions, locks, jobs and crashes.

### Outbox

`Write`, `CommitWrite`, `Rollback`: events inside a mutation. `Select`: the oldest
unpublished rows that no other dispatcher has locked, at most `MaxBatch`, in order of
created_at. `Handle`: the bus calls one subscriber, whose error is swallowed;
`Mark`: published_at; `CommitBatch`: the COMMIT that publishes the batch and
releases it; `Fault`: the dispatcher dies, or a statement fails, and the batch is
pending again. `heard` is what the SSE clients of a serving process received.

### Automation

One execution, because executions share nothing but the definition: the unique
(tenant, automation, event) makes the row the only meeting point. `Deliver` is the
event handler, `Take` a worker that takes one of the execution's jobs (the retry
job, or the resumption of a wait); both call `run_payload`, which is `Peek`, then the claim
(`Insert`, `Check`, `Update` - three statements), `Remember` (the snapshot), the steps
of `Walk` (`Act`, `ActFails`, `Branch`, `WaitBegins`, `WaitIsOver`, `Leave`), and the
persisting statement of its outcome, followed by `Resume` after a wait. Cursors are
the paths of the code: `<<i, w, j>>` is step `j` of block `w` of the branch `i`.
`Publish` and `Switch` are Studio's; `Redeliver` is the outbox after a fault;
`Restart` kills a set of runs and reclaims their jobs.

### Chains

Several automations, several events, and who dispatches them. `Change` is a request that commits
a record and its event; `Dispatch` takes the pending events that nobody has locked, and from there
to `Commit` holds a connection, while `Trigger` goes through the automations that match an event
(`matches_event`: name and depth) and `Published` ends it. An automation is `Claim`, `Remember`,
`Act` (its change and events commit together) or `ActFails`, then `Dispatch` again, one level deeper on `stack`, and
`Settle` or `Persist`; `Failed` enqueues the retry, `TakeJob` is a loop that takes it. Whatever
takes a connection needs `Free`; `WaitedTooLong` is the time-out of an acquisition, with what the code makes of
it at each place (`TimeOut`): the dispatch of a change is given up in silence, an action fails, a
statement of the run leaves its row as it is. `NotEnqueued` is the retry that could not be stored,
which also leaves out the automations that follow. `depth_after` is the depth an event carries: one
more for those of a changed record, none for `comment.created`, `*.assigned` and those of operations.
What a dispatcher still has to publish is a set of rows, taken in the order in which they were made.

### Records

A request is `Create`, `Update`, `Transition`, `Delete` or `Operation`. The first
four decide on the row they read (`saw` is its stamp) outside the transaction; `Write`,
`Number`, `Insert` and `Commit` are the transaction. An operation locks and reads in
one statement (`Operate`) and decides on what it has locked. `Number` is
`numbering::allocate`, at creation or when an operation submits the document; the
lock of the sequence lasts to the COMMIT. `Trail` stands for the audit, activity
and outbox rows of the transaction. `DeleteChildren` and `LeaveChildren` come after
the COMMIT of a delete. The column `value` stands for an ordinary field;
`stamp` counts committed changes and plays `updated_at`.

### Bookings

`Create`, `Move`, `Assign`, `Place` (PATCHes of the span, of the resource, of both) and
`Transition` decide before their transaction; `Reschedule` is an operation
and locks the booking first (`LockOwn`). `LockDate` is the advisory lock of
(resource, local date of the start), `Select` and `LockRow` are `SELECT ... FOR UPDATE`,
which locks its rows one by one in no particular order; `Accept` and `Refuse` are the
overlap test; `Write` and `Commit` end it, and a PATCH writes only its own columns on
the row as it is by then (`Written`). PostgreSQL's deadlock detection (`Blocker`,
`Deadlocked`, `Abort`) is outside the repository and modelled from its
documented effect: one transaction of a cycle ends with an error. The set `vetted` is a
history variable: bookings whose committed row is the one that was checked.

### Imports

One import with a file of a few rows. `Submit` and `EnqueueFirst` are
`create_import_job` (row, then job, two statements); `CancelRead`/`CancelWrite` and
`RetryRead`/`RetryWrite`/`RetryEnqueue` the two requests, which decide on what they read. A
worker's run is `Claim` (the handler reads the row once), `SkipEnded`, `MarkCancelled`,
`Validate`, `StartRows` (from the checkpoint, with the counts stored beside it), then per row
`SeesCancel`, `BeginRow` (`lookup_existing`), `WriteRow` and, at every hundredth
row, a cancellation or an error of a strict import, `Save`; `Finish` and `Report` end it.
`Outcome` is the table of modes (create, update, upsert) and duplicate policies of
`import_one_row`. `Fault`, `Restart`, `StatementFails` and `RequestDies` are what may go
wrong. `Batch` stands for the hundred rows. What is left out: parsing and coercion of
cells, dry runs, previews, and the synchronous import of small files.

### Delivery and Reminders

`Delivery` is what one domain event sets off. `Start`, `Notify`, `EnqueueHook` are the
platform handler; `Skipped`, `InsertQueued`, `EnqueueDeliver` are
`enqueue_communication` on the channels of the template, of the recipient's preference
and of the opt-out (`select_channels`); `Publish` is the COMMIT of the outbox, without
which all of it is done again. A job is `Claim`, `MarkSending`, `Send` or `SendInApp`, and
`MarkSent`, `MarkSkipped` or `MarkFailed`; the webhook's job is `Post` and `Record`. The
attempts of the log row are counted by `mark` and those of the job by the
queue, and both decide when a message is given up.

`Reminders` has one record with a due date, or a booking with a start. `Create`,
`ChangeDate`, `ChangeState`, `Delete` are the requests, each of which leaves a
job under the key of the record and its date, or none (`Plans`: `OperationCtx`
plans none); `Claim`, `Emit`, `Complete`, `Fail`, `Restart` the job. `sameZone` says whether
requests and jobs read a start alike.

### Attachments

`PutBlob`, `WriteRow`, `RowFails`, `RemoveOld`, `RemoveOldFails` are create and replace,
`UpdateMeta` the PATCH, `DeleteRow`, `DeleteBlob`, `DeleteBlobFails` the deletion, `Emit` the
audit and event rows after it; a removal that fails becomes an `attachment.purge` job
(`EnqueuePurge`, `ClaimPurge`, `PurgeBlob`, `PurgeFails`). A storage key is a name, so
replacing a file by one of the same name writes the key it will remove.
`raced`, `reused` and `leaked` are history: requests that overlapped, keys written again while
their removal was due, and removals that were lost with a process.

### Sales

A request is one transaction of `execute_in_transaction`: `Begin...` locks its record
and reads, `Commit...` is the handler's writes and the COMMIT. Between
them are what can wait: `Allocate` (an invoice's row lock, `apply_payment_allocations`),
`LockAccounts`, and `SeePeriod` (a list, without a lock) or `LockPeriod` (a named
period, with one). `PostJournal` is `post_ledger`. `MovePeriod` closes and
reopens the period. `Amounts` and `Given` are what a payment adds to its invoices, `Ledger`, `Open`, `Refunded`
and `Reversed` the sums that the properties compare. `Needs`, `WaitsFor` and `DeadlockEnds` are PostgreSQL's deadlock
detection. Prices, taxes and stock are outside; a document has one total.

### Studio

A publication is `Start` (analysis against the registry: `Destructive`, `Additive`, `Allowed`),
`Read` (the clone), `Put` (`overlay_put`), `WriteFile`, `Migrate`, `ReadNumber` and
`InsertVersion`; a rollback the same with the version's entity and without
migration of its own or version. `Fails` leaves the overlay as it is. `Restart` reads the
registry from the files. `met` and `unsure` are history: publishers that
overlapped, fields whose file or migration failed.

### Sessions

A request presents its token (`Present`), is authenticated from the tables (`Authenticate`) and
does its statements: `IssueToken`, `Reissue`, `Logout`, `SwitchTenant`,
`CreateUser`/`AddMembership`, `Exclude`/`RevokeSessions`, `Enable`, `Demote`. Between any two
of them others run and the process may die. Sessions expire at any time. The
history variable `ended` holds the sessions that a completed exclusion must have
ended; `excused` says that two changes of members overlapped or an administrator
gave up the role.

### CustomFields and AppMigrations

`Listed`, `Fetch`, `Insert` are `list_effective` with its cache; `Check`, `CheckVersion`, `Write`,
`Invalidate` the upsert, which compares with the cache of its own process. The
request is dropped at any await (`Abandon`) and processes restart. `overlapped` is
history: two requests of one process of which one stores.

`AppMigrations` has command line processes that list what is pending (`Start`), then per
migration `Take`, `Lock` (`pg_advisory_lock`), `Read`, `Execute`, `Commit` or
`RecordFailure`; `Dies` releases the lock and rolls back. `Skips` is a
destructive migration without `--yes`; editions are checksums.

### Documents and References

`Documents`: two documents with child rows and a total. A request is create, PATCH (of columns, of
child rows, of both), delete, copy (duplicate, amend) or a bulk loop over these;
`UpdateRow`, `ListChildren`, `WriteChildren`, `Commit` are its transaction,
`DeleteRow`, `ListSwept`, `EraseRow` a deletion and the sweep of child rows after its COMMIT.
`Total` is the formula of the computed column over the rows that were listed.
A PATCH of child rows alone locks nothing until its total is written; `raced`
and `clash` record the overlaps in which that matters.

`References`: items with a unique code and a relation to a target. `CheckRelation` and
`CheckUnique` are the lookups, before the transaction; `Write` and `Commit` are
the statement with the index (`Taken`) and the foreign key (`Known`, `Restricted`, `AfterDrop`),
which wait for those who have touched the same entry (`Free`); `Refused` is
`map_db_err`. Deletion is soft or hard, `policy` is the field's on_delete.

### Rules

One record, its table, and one upgrade of the server. `Def` is the metadata of the fields, of two
editions; `ValidRule` and `ValidCustom` are what an app or a custom field must pass.
`RecordErrors`, `ReadonlyErrors`, `LockedErrors`, `FieldRuleErrors` and `EntityErrors` are the checks,
`Takes` what the columns themselves refuse. Each place that writes calls a selection of
them: `Create` and `BeginPatch` (`EntityService`, the latter before its transaction, which is `WritePatch`),
`OperationCreate` and `OperationUpdate` (`OperationCtx`), `HandlerSets` (`dirty_patch`), `Transition`, `ChildPatch`
(a child row in a PATCH of its document). A value is a number, a string that reads as one, a
blank string, null, or of no type. `Moved` is a body that chooses another state than the initial one, which only a transition may. `Lawful`, `ValueRight` and `Ordered` say what the metadata mean, without
the checks; `Settled` leaves out the rules on computed fields, which are compared with an older
value, and a quoted literal of a decimal in `not_equals`. `Clear`, `Proper` and `Blameless` say when nothing
may be refused, and `RulesAssumption` gives the shapes of what is declared. `by` is what wrote last; `raced` says that the record has changed since a PATCH looked at it,
`unchecked` holds the fields whose value no check of their own has seen.

### Apps and TenantApps

`Apps`: the commands `cmd_app_install`, `install_package`, `cmd_app_update`,
`update_from_package` and `cmd_app_switch` (disable, enable, uninstall) begin in a process of the
command line, `studio_switch` in the server, which looks at reverse dependencies first.
`extract_package` and `RenamePackage` put a package into the store after the old directory has
been removed; then every command does `LoadInstalled`, `Truncate` and `save_installed`,
the three steps of reading `installed.json` and writing it back. `Kill` ends a command anywhere.
`runtime_for` loads what is recorded, `build` registers its entities and takes the active ones;
both may fail. `expected` is the file as commands in turn would leave it, `raced` and `lost`
say what must be excepted.

`TenantApps`: `patch_apps`, `patch_branding`, `patch_tenant` and `cmd_tenant_app` read the row
(requests through the server's copy, `get_config`), `upsert_config` writes all of it
back; `Expire` ends the copy. `Auth` is what a request may use, `JobApps` what a job takes.

### Offers

A state is what offers and answers depend on: the user (administrator or not, with the
reserved role or not), grants per entity, the tenant's list, its flag for agents, whether there
is a workflow, and the record's state. `Offered` is the union of `workspace_payload`,
`meta_ui`, `visible_page`, `list_tools`, `list_operations` and `present` (`attach_actions`,
`workflow_json`, `attach_permissions`, `attach_links`); `Answered` is `list`, `get`, `execute`,
`transition`, `page_allowed`, `run_report`, and `invoke_tool` with its own checks before them.
Guards of transitions are looked at by `EntityService::transition` and by what handlers call
(`apply_transition`), and not when an operation leaves its transition to its definition. A transition may be looked up by its name or by the state it
leads to, and the first that fits is taken: one named like the state that an earlier one leads to
is never found (`Shadowed`). `try_get` finds an operation under the name of its transition, too;
"cancel" may be an operation of the application's own (`CancelsOtherwise`). `LeftToTheCall` lists what an offer does not look at. An offer and its call are compared
in one state: what changes between them is the subject of `Records`.

### Schedules, Slots, Formulas, Permissions

`Schedules`: worker loops call `Scan`, then `Look` per automation: the next run
after a minute ago is put into the queue when it is at most half a minute ahead
(`Slots`), under a key of automation and minute. `gap` is history: an automation that no
worker looked at for more than a minute; an enqueue error ends the scan (`LookFails`).

`Slots`: `SlotStarts` and `Available` are `generate_slots` and the availability of a slot;
`Accepts` is `enforce_in_tx` for the booking of that slot. That a slot shown as taken would be refused
needs a bound, which the proof found: a booking and the buffer after it last up to 24 hours, and
so does the buffer before it, because the check looks no further. `Formulas`: `Visit`, `DetectCycles`,
`Round`, `EvaluationOrder`, against `Closure`. `Permissions`: `Grant`, `Publish`,
`Allows`, `Shown`. In the first two the inputs are chosen by `Configure`, `Book` and
`Define`; the algorithms are operators.

## 4. Runs

Times are with two TLC workers; "bounds" are the constants of the cfg and of the
MC module.

| run | states | bounds | what it shows |
|---|---|---|---|
| `jobs_workers` | 517 361 | 2 rows, 2 workers, 1 stop, 1 lost statement, `max_attempts` requested below and above the clamp, names with and without a worker-safe handler | one runner; the refinement of `JobContract` (budget of attempts, success is earned, settled is final); every job settles |
| `jobs_enqueue` | 108 045 | 3 rows, 2 callers, 1 key, 2 names, 1 worker | unique keys for callers that race, roll back and enqueue again |
| `oper_requests` | 260 958 | 2 runs, 1 record, 1 key, 2 clients, 1 executor, a synchronous operation with a transition and an asynchronous one, neither requiring a key, 2 tries, 1 crash | one effect per key; the refinement of `OperationContract` (every operation is one step for its callers); every queued run ends |
| `outbox_dispatch` | 128 748 | 3 events, 2 handlers, 2 dispatchers, batches of 2, 1 fault | every handler, no duplicate without a fault, every event is published |
| `automation_runs` | 297 493 | 2 versions with a branch, a wait and an end, 2 runs at a time, 2 attempts, 1 restart or redelivery, 1 switch | one holder; steps of one version, in order, none repeated or passed over; waits kept; it ends |
| `records_requests` | 150 298 | 2 records, 2 requests in flight, 5 in all, a workflow with a lock state and a cycle, numbers at creation or submission | gapless numbers, lock states, no circular wait |
| `bookings_requests` | 319 881 | 2 bookings, 2 resources, 2 requests in flight, 4 in all, spans that meet at midnight | no double booking |
| `imports_jobs` | 646 442 | 3 rows (two with one key, one bad), a checkpoint every 2, 4 sets of options, 2 workers, 1 caller, 1 retry, 1 fault, 2 attempts | completed means that every row landed, each once; a cancellation stops it; it ends |
| `platform_services` | 491 653 (3 min) | *delivery*: 2 channels, 3 recipients, 1 user, 2 workers, 2 tries, dead at the 3rd mark of a failure, 1 fault; *reminders*: 2 dates, 4 changes, 2 tries, 2 faults; *attachments*: 2 names, 2 requests, 2 tries, 2 faults; *sales*: 3 requests at a time, 3 invoices, 2 payments of two allocations, 1 order, 1 return, totals of 2; *studio*: 1 field, 3 publishers; *chains*: 1 request, 1 loop, 3 connections, batches of 2, 3 automations with limits 2, 1, 1, 1 failing action, 2 tries | a message is sent once, or ends as dead letter, and the log says so; a reminder for the date that stands; rows keep their blobs and orphans go; invoices, orders and ledger add up; published fields have columns and stay; an automation runs once per event, within its depth, whatever fails below it, and every call returns |
| `tenant_admin` | 1 063 961 (3 min) | *members*: 2 users, 2 requests, 2 sessions, 3 changes; *grants*: 2 roles, 2 entities and the wildcard, 1 action; *fields*: 2 types, 2 processes, 2 requests, 2 versions; *migrations*: 2, one of them destructive, 2 editions, 2 processes; *documents*: 2, 3 requests; *rules*: 7 fields in 2 editions, 2 sets of rules (a third is refused), 25 records to create, 10 patches, 1 transition; *references*: 2 items, 1 target, 2 codes, 2 requests at a time, 3 in all, soft and hard deletion, every on_delete; *schedules*: 2 automations, 2 workers, minutes of 2 units, a horizon of 4 minutes; *apps*: 3 (one compiled in, one from the catalog, one in two packages), 1 shell and Studio, 3 commands, 1 kill; *choices*: 3 applications, 2 plans, 2 requests and 1 shell, 2 changes; *offers*: 2 entities, 2 applications, 6 sets of grants, 6 transitions, 4 operations, 3 pages, 2 reports; *formulas*: every graph over 3 fields; *slots*: a day of 16 units, 3 working hours, buffers of up to 4 units, a booking at 13 times | see the names of its properties: `MembersHold`, `PublishedIsEnforced`, `FieldsHold`, `DocumentsAddUp`, `ScheduleKept`, `AppsHold`, `StartsUnlessLost`, `OffersHold`, `RulesHold`, `FormulasOrdered` |
| `jobs_reclaim` | violation | 1 job, 2 workers, no start discipline | a worker's start takes a job from a worker that is running it |
| `sales_closed_period` | violation | as in *sales* | a posting reaches a period that was closed after it had been looked at |

Every property of a passing run has a mutant: an operator beside the one it
replaces, with a comment saying which mistake it is (a lock that is not awaited,
an off-by-one, a lookup without one of its columns, a step before its time); with
it TLC finds the property violated. A property that is a conjunction over several
parts of a run has a mutant in each.

**Why the bounds are enough.** The hazards are pairwise: two callers of one key,
two workers of one job, two requests on one record, two bookings of one resource,
two administrators, two publishers; a third actor repeats the second. Where the
third matters it is there: `jobs_enqueue` has three ids, so that after a rolled back
insert and a committed one another request can come; the outbox has more events
than a batch, so that a dispatcher skips the rows of the other;
`records_requests` has five requests, enough to create, submit, and race two more
while another record takes a number; `bookings_requests` has two creates and two
changes that race; three publishers are one that overlaps, one that is overlapped
and one that comes later and must not lose anything; three sales requests are a
payment, its rival and the closing or reversing one. The import's file has a row
that fails, and two rows with one key, on both sides of a checkpoint. `AttemptsCap` is 2
for 20, `DeadAt` 3 for 5, `Batch` 2 for 100: what matters is one below the
limit and one at it. The bounds on faults are one or two, since each property about
faults relates one fault to one run; `DuplicatesOnlyFromFaults` counts them. The
proofs below do not have these bounds.

**Symmetry.** In `tenant_admin` two requests are model values that may change places
(`q1`, `q2`): no module names one of them, they begin alike, and the run checks invariants and
an action property, no liveness.

**Deadlock checking** is off in every cfg, because ids, requests or events
are finite and the models stop when they are used up. Circular waits are covered
by `EveryRequestReturns` and, in `Sales` and `Bookings`, by the actions that model
PostgreSQL's deadlock detection.

**Fairness.** *JobQueue*: time passes, a worker that is down is started
again, its loop polls and handlers return. The restart is an assumption about the
deployment, on which `docs/deployment.md:56` relies when it says that running jobs are
reclaimed on worker start; without one a crashed worker's job stays running. `EventuallySettled` excludes lost statements: a
claim or report that is lost leaves the row running until some worker
starts, and nothing makes one start while all are up. *OperationRun*: a
transaction that began ends, workers poll; strong fairness for the lock waits of an
executor only, since PostgreSQL serves the waiters of a row lock in
order. *Outbox*: the worker loop calls `dispatch_outbox` in every turn. *Automation*: time
passes, events are delivered, due jobs are taken, a run goes on. *Records*, *Bookings*:
strong fairness of `Proceed`, for the same reason as above, and weak fairness of
deadlock detection. *Imports*: each worker goes on (`Process`), and so does a request
that has begun. *MCPlatform*: the event handler and each worker (`Handler`, `Process`,
`Worker`), a request that has begun (attachments), and each call of `Chains`, where an acquisition that
finds no connection ends by its time-out (`acquire_timeout`, pool.rs:20). *MCTenant* states safety only.
Requests, roll-backs, crashes, lost statements, Studio and
redeliveries have no fairness anywhere.

## 5. Disagreements between code and documentation

Two are runs that TLC finds violated:

1. **A start reclaims running jobs of live workers** (`jobs_reclaim`,
   jobs.rs:282). `docs/jobs.md:29` speaks of rows "left by a crash"; the UPDATE asks
   for `status = 'running'` only. With a second worker process, or with the embedded
   worker beside `qefro worker`, a job can run twice at a time, and its later report
   overwrites the earlier one.
2. **A closed period receives a posting** (`sales_closed_period`, accounting.rs:320).
   An entry that is placed by its date reads the periods without locking them;
   `docs/accounting.md:107` says that closed periods cannot receive postings.

Others are definitions that no run lists, to keep the number of runs small. Added to
the INVARIANTs or PROPERTYs of the module's cfg, TLC finds each of them violated:

| definition | the code | the documentation |
|---|---|---|
| `Outbox.ClientsHear` | the hub is a channel of the process that dispatches (realtime.rs:24, runtime.rs:1069): events dispatched by the worker never reach SSE clients | `docs/realtime.md:3` |
| `Records.LockedKept` | a PATCH that read the document before it was submitted is applied after it (service.rs:567); `LockedUnlessRaced`, checked and proved, says that this is the only way | `docs/documents.md:23` |
| `Automation.ResumesAfterRestart` | the claim refuses a row that is `running`, and nothing resets it (automation.rs:433) | `docs/automation.md:118` |
| `MCPlatform.ChainsStop` | `_automation_depth` is put into the events of changed records only (service.rs:3131); a chain through a comment, an assignment or an operation begins at 0 again, and need not end; `ChainsHold`, checked and proved, counts from the last such event | `docs/automation.md:130`: "Matching stops at `max_depth`" |
| `Bookings.OneCommits` (under `MCBookings.AcrossMidnight`) | the advisory lock is keyed by the date of the start (scheduling.rs:60); `NoDoubleBooking`, checked and proved, says that bookings that start on one date never overlap | `docs/scheduling.md:97` |
| `MCPlatform.EveryStartReminded` | the start of a booking made of a date and a clock time is read in the tenant's zone by requests and in UTC by the job (jobs.rs:171, context.rs:79, scheduling.rs:558), so the reminder is dropped | `docs/scheduling.md:109` |
| `MCTenant.RestrictRejects` | a soft deletion is an UPDATE, which no foreign key sees: a target that is referred to is deleted all the same | the comment of `Restrict`, qefro-core/src/field.rs:104 |

Seen while modelling, and contained in the models unless they are marked *outside*:

*Jobs, operations, outbox*
* SIGTERM drops the handler at the await it has reached (runtime.rs:1053), although
  `docs/jobs.md:29`, `docs/deployment.md:56` and the log line say that it will finish. Action `Sigterm`.
* When the job of an asynchronous operation gives up, the run stays `queued`:
  `fail_tx` is called by nothing (`docs/business-operations.md:127` lists `failed`).
  `EventuallyDone` therefore ends with the job's failure.
* An asynchronous operation without a key is executed again after a crash between
  its COMMIT and the report (operation.rs:793); `EffectOncePerKey` is about keys,
  `MovesOnce` (proved) holds without.
* The duplicate of an asynchronous request that loses the race of the inserts is
  answered with an empty object.
* A handler's error is swallowed by the bus and the event is published all the same
  (`docs/events.md:39` calls delivery at-least-once). `EveryHandlerCalled` is about calls.
* A dispatcher keeps a pooled connection while its handlers, and the nested
  dispatch of their mutations, take others (outbox.rs:57). Calls that hold all of them wait for
  each other until an acquisition times out. `CallsReturn` says that all return; but a time-out right after the claim
  leaves the run `running` for ever, and one at the enqueue of a retry leaves out the automations that follow:
  `RunsKept` excepts the events of such handlers (`hurt`).

*Automations*
* A redelivered event or a reclaimed job resumes a waiting execution at once
  (`WaitsKept` excludes faults); when its attempts are used up the execution stays
  `retrying`; an `End` in a branch ends the branch only.
* Scheduled automations are scanned in the loop that also runs jobs
  (runtime.rs:1020, 1058): a job of more than a minute makes a scheduled minute pass by;
  an enqueue error of one automation ends the scan for all (automation.rs:187-213).
* *Outside*: a cron expression that matches nothing within 366 days falls back to the
  next day (schedule.rs:92-128).

*Records, documents, bookings*
* Two plain transitions that read one state both succeed: `MovesLegal` excepts them.
* A PATCH of child rows alone takes no row lock (repository.rs:731): two of them each
  compute the total from rows of their own (service.rs:1850-1983). `TotalsAddUp` excepts
  such overlaps. Duplicate and amend never compute the totals of the copy
  (document_ops.rs:38, operation.rs:307). *Outside*: only the first 200 child rows are read by a
  PATCH, and the first 100 copied.
* Child rows of a deleted document are deleted after its COMMIT (service.rs:827); errors are
  ignored. A bulk request reports a record that is committed, and whose later hook fails, as failed.
* *Outside*: foreign keys are dropped and added again at each start, and an ADD that
  fails is logged at debug only (schema.rs:861).
* A PATCH of a booking writes only its own columns on a row that may have changed since it was
  checked; a transition out of an ignored state is not checked; a booking longer than
  a day is not among the candidates of one that starts later (scheduling.rs:245). The history
  variable `vetted` excludes the first two.
* Slots: an offered slot compares an unbuffered candidate with buffered bookings, the
  check of a booking buffers both; availability looks 12 hours back from noon.
* Two requests whose lock waits form a cycle cost one of them a database error
  in place of `scheduling_conflict`.

*Rules of records*
* An overlapping PATCH may break a comparison that each of the two keeps; a transition and a
  handler's `set_field` ask for no rules, and operations never compute formulas (`docs/formulas.md:3`, `docs/business-rules.md`
  say that the server always does, and that nothing skips the rules). A rule over a computed field sees its
  old value. A handler's `set_field` of a custom field is dropped.
* The alias `{custom: {...}}` of a PATCH is unpacked after the checks (service.rs:540), so its values meet
  none of them. A custom field that was never set is not missed by an update (validation.rs:455), and a
  required column of a later edition is added without NOT NULL (schema.rs:652).
* `validate_rules` accepts operators that `eval_named_rule` reports as `unknown_rule`: such an app starts,
  and every write is refused (`Unknown`). A decimal given as a string meets no bounds (`unchecked`);
  `required` accepts a blank string.
* Child rows of a PATCH are checked, and computed, from what was sent of them.

*Messages, reminders, files, imports*
* A message is dead after its third failed try, since every change of state counts as an attempt
  (communication.rs:196), against "max 5 attempts" (`docs/communications.md:90`). The log row
  is committed before its job: a failure in between leaves it `queued` for ever
  (communication.rs:598). After a fault one event may be sent on two channels. Disabled
  members are notified, too.
* The key of a due reminder is the record and the date: a date moved past its time and
  back, or one whose job has given up, is not reminded of again. Operations plan no
  due reminder and a transition no booking reminder (`docs/tasks.md:105`).
* Two replaces of an attachment by a file of the same name may remove the blob they have
  written; `RowKeepsBlob` excepts keys written again while their removal is due.
* A retry of an import whose processing still goes on imports rows twice
  (`RowsLandOnce` excepts it); an import whose job has given up stays `running`.

*Commerce, Studio, identity*
* A payment without an invoice may allocate more than its amount, an invoice settled by
  such a payment stays `Issued`, a refund is not bounded by the quantity returned, lists end
  after 100 rows, unmapped accounts skip the posting.
* A publication whose migration fails stays in the overlay; published again it is "Safe"
  and the column is never added (`docs/studio-publishing.md:14`). Version numbers
  of overlapping publications are equal; a rollback records no version and that of
  a field or view always fails; a restart forgets entities without an app directory.
* Revoking the sessions of a disabled member is a second statement; a login that read the
  membership before issues a session after it; a refresh revives a session that has expired; two
  administrators may disable each other; a removed member cannot be created again with
  its address (`docs/identity.md:107-109`). `update_user` is not a transaction.
* Publishing grants for "*" is shown, and not enforced for entities that nobody published; the overlay is
  memory of one process. *Outside*: `overlay_field_levels` is called by nothing.

*Applications and offers*
* `installed.json` is read, truncated and written without a lock: of two commands one is
  undone, and whoever reads it torn sees nothing installed. `CommandsKept` excepts overlaps.
* The directory of a package is removed before the package that replaces it is looked at: a
  refused one leaves an application that is recorded and has none, and the server does not start.
  `update` records what is not installed and asks for no dependencies. Two applications with one
  entity are found out by the next start only (`StartsUnlessLost` lists all these).
* An empty list of a tenant stands for everything: taking the last application away gives it all of
  them, and so does a plan that has nothing in common with the list. Jobs take the list as it
  is. `patch_tenant` writes plan and list without a check. Changes within five seconds of
  the server's copy undo those of the command line.
* Transitions are offered without a look at update or at guards; links, sections and
  reports without the application of their entity; tools while agents are switched off; the
  role of an entity's action hides it and nothing more. An operation that leaves its
  transition to its definition is not held back by the transition's guard (operation.rs:1357,
  in contrast with the transition of that name on an entity without the operation).

## 6. Proofs

The proofs hold for every value of the constants that satisfies the named ASSUMEs
of the module, so for any number of rows, workers, requests, events and faults.
Each component has an inductive invariant (`IInv`, with a prefix where a module proves about
several), a lemma that `Init` implies it, lemmas that actions preserve it, and one theorem per
property. Every safety property that a passing run checks is stated by a theorem, but for
`FormulasOrdered`.

The modules that are composed state their assumptions as definitions, which `PlatformParts` and `TenantParts`
assume of their constants: that sets are disjoint from the values that stand for "none", that
workers or documents are finitely many, that bounds are numbers, and the shapes of what an app declares
(`AppsAssumption`, `ChoicesAssumption`, `OffersAssumption`, `RulesAssumption`, `SlotsAssumption`,
`ScheduleAssumption`, `SalesAssumption`, `ChainsAssumption`). TLC evaluates all of them in the runs.

* **JobQueueProofs**. *Assumed*: `None` and `NoKey` are no ids and no keys, the bounds
  are numbers. The properties are not inductive: a report writes what was read at the
  claim, so `RetryBudget` needs `WorkerView` (whoever is busy read a number of attempts
  below the limit of a row that exists), and `KeyUnique` needs what open transactions know
  of each other (`PendingKeys`, `DistinctInserts`: an uncommitted key is nobody else's).
  `OneRunner` is kept under `ExclusiveStart` because a row whose worker is busy is
  `running`, so cannot be claimed, and a start finds no busy worker. From the three
  invariants every step is shown to be a step of `JobContract` or a stutter:
  `QueueImplementsContract`.
* **OperationRunProofs**. *Assumed*: operations are sync or async, processes clients or
  executors; `OneRunner` where a property says so. `KeyInv` is the unique index seen
  from an open insert; `EffectInv` says that an executor past the key lookup works on a run without
  effect, which only holds while it is the only one with that job; `MoveInv` is the record
  lock: who has applied a transition still sees the record unmoved. With them every step
  is a step of `OperationContract` or a stutter (`OperationsAreAtomic`): the commit of a
  client is `Perform` because its run and its key are still new (`KeyInv`), that of an
  executor is `PerformQueued` because the run is still without effect (`EffectInv`), and
  both are `Execute` because the record has not moved since it was checked (`MoveInv`).
* **RecordsProofs**. An open transaction is described by what it has locked
  (`LockInv`), by how the row it wrote differs from the committed one (`WrittenInv`) and by
  what remains of its decision (`DecidedInv`: it holds as long as the stamp is the one it
  saw). The holder of the sequence has the next number for a record without one
  (`SequenceInv`), whence no gap and no duplicate. The action properties follow from
  `IInv` and the step.
* **BookingsProofs**. A critical section: from the advisory lock to the COMMIT
  (`LockInv`, `Guarded`) nobody else commits a checked booking under the same key,
  so the candidates found are all there are (`SeenInv`), and an accepted request
  overlaps none of them (`ClearInv`). The lemma `SameDate` is why the candidates
  suffice: two starts on one date are less than a day apart. `NoDoubleBooking` is
  false for different dates (`OneCommits`, section 5).

* **ImportsProofs**. *Assumed*: the workers are finitely many, and the file has rows.
  `CompletedMeansAll` says of the stored row what is true of rows of
  other tables: not inductive by itself. `SavedInv` says that the stored checkpoint lies
  behind rows that have landed or are counted as failed, `GotInv` that what a worker
  has read of the row is such a checkpoint, `RunInv` that the rows between that
  checkpoint and where the worker is have landed or are in its counts; `Finish` then writes
  `completed` only if nothing failed. `CancelStops` counts: whoever may still write a row after the
  cancellation had looked it up before (`LateInv`), and each worker writes one. `RowsLandOnce` holds
  without faults and racing retries because one token goes round (`Tokens`: a submission before its job, a
  job, a worker, or a retry before its job: one of these, `OneAlive`), and counts and checkpoint
  tell what the holder has created (`SavedTells`, `GotTells`, `RunTells`).
* **AutomationProofs**. *Assumed*: `ProgramsAssumption`, a definition maps paths to steps, and its top level has
  no gaps. `OneHolder` is inductive by itself. `OrderInv` follows an execution: what has been
  done lies before the stored cursor (`RowInv`, `CursorInv`) and before the place of its holder
  (`HolderInv`), in the order of the code's paths and by the version of the snapshot. `WaitsKept` is
  about runs without faults: there one token goes round (`OneToken`: the event, a pending job or a
  run), so that nobody comes back before a wait is over (`WaitInv`).

* **PlatformProofs** extends `Outbox` and `PlatformParts`.
  - *Outbox.* An event is followed through a batch: locked rows are pending
    and locked once (`LockInv`), a handler that is done was called (`CalledInv`), and a call
    beyond the number of faults is possible only for a row that is published or
    being finished (`CountInv`), which makes `DuplicatesOnlyFromFaults` inductive.
  - *Chains* (`ChainsAssumption`). The stack of a call is described frame by frame (`ChainFrameInv`,
    `ChainPlaceInv`, `ChainRunInv`), dispatchers have different events (`ChainApartInv`), an event of a
    counted change is one deeper than its cause (`ChainDepthInv`, `ChainLimitInv`), which bounds the
    chain because the depth of an event is the number of counted events that led to it. That no run is
    forgotten or repeated needs `ChainPassedInv` (what lies before the place of a dispatcher is carried
    out or has a job, what follows has not begun), `ChainWaitingInv` (the same of waiting and published
    events), `ChainMadeInv` and `ChainJobInv`.
  - *Studio.* A publisher that met no other works on what it has read (`DraftAloneInv`); whatever has no column
    has a publisher that will migrate it (`DraftCoverInv`). `FieldsStay` is an action property.
  - *Attachments* (`NamesAssumption`). The key of a row has its blob and nobody who is to remove it
    (`FileRowInv`), and the same of a blob that waits for its row (`FilePutInv`).
  - *Reminders.* A job that is going to remind found its record open at its time (`DueFoundInv`), and
    those dates are remembered as wanted (`DueWantedInv`).
  - *Delivery* (`DeliveryAssumption`: finitely many workers). `MailTokenInv`: what a job has sent, plus the
    workers that may still carry it out or give it back, plus one if it is open, is at most one more than
    the faults. `MailLogInv`: whoever is about to record a success has had it.
  - *Sales* (`SalesAssumption`). Records are read under their lock, so what a request has read is so
    until its COMMIT (`SaleHoldInv`); what a payment has allocated fits into invoices that it holds
    (`SaleWayInv`), whence `NeverOverpaid`. `LedgerMatches` is kept step by step with lemmas on sums:
    changing one summand changes the sum by the difference.

* **TenantProofs** extends `TenantParts`; every assumption is that of the part's module.
  - *Permissions.* The overlay of a published entity is the last matrix
    published for it (`GrantsOverlayInv`), whichever other entities were published before or after.
  - *AppMigrations.* `MigrationLockInv` is the advisory lock as mutual exclusion,
    `MigrationAtInv` says where a process is in the list, `MigrationFreshInv` that what it is about
    to execute has not been applied; the effects and the record commit together, hence
    `MigrationsOnce` however many processes die.
  - *Sessions.* A session that an exclusion has ended stays revoked, and those that it has still to
    revoke are the target's (`MemberEndedInv`); unless changes overlapped, whoever was accepted as an
    administrator still is one (`MemberAdminInv`), so that one remains.
  - *CustomFields.* Without overlap, one request at most has looked (`FieldAlone`), what it has looked at is
    so (`FieldCurrent`), and what it will store was checked against it (`FieldChecked`).
  - *References.* The index entries and rows that an open transaction has touched are its own (`RefLockInv`),
    so what the constraints found of them stays so until its COMMIT (`RefFoundInv`).
  - *Schedules, Slots.* The minute of the latest look has its job (`SchSlotInv`). What a slot offers and what a
    booking is granted are compared without a state: the lemmas `GrantedIsFree` and `FreeIsGranted`.
  - *Apps, TenantApps.* Unless commands overlapped, the file is what they leave one after another
    (`AppKeptInv`), what is recorded is in the store (`AppThereInv`) with a version and its needs
    (`AppVersionInv`, `AppNeedsInv`), and what has no directory is not recorded (`AppLostInv`); what is
    missing from the server is then one of the causes that `StartsUnlessLost` names (`AppServerInv`).
    A change of the tenant's row that overlaps none writes back what it has read (`ChoiceAloneInv`).
  - *Documents.* A child row has one id and one document, also in what requests have listed (`DocOwnerInv`);
    a request that overlaps no PATCH of child rows alone is the only one of its document and has read it as it is
    (`DocAloneInv`), so the total it writes is that of the rows. What is left of a deleted document
    is what its sweep has still to delete (`DocSweptInv`).
  - *Offers.* The property compares what is computed from one state: no invariant is needed, but lemmas on
    which transition and operation a name finds, and on what a handler does with it, in each state of
    the record.
  - *Rules.* The heart are two lemmas: what passes the checks and is taken by the columns is `Lawful` once it is
    stored (`RulLaw`), although a decimal is stored as another value than was checked; and a blameless
    request passes them (`RulPass`). `RulTableInv` relates the columns to the two editions,
    `RulRowInv` says that the record is a row of the table, and `RulPatchInv` that a PATCH holds values
    that passed, of a record that nobody has changed since, or it is `outrun`.

**Model-checked only.** Liveness (`EventuallySettled`, `EventuallyDone`,
`EventuallyPublished`, `EventuallyEnds`, `EveryRequestReturns`, and
`ServicesEnd`, which is `EventuallySettled` of `Delivery`, `EventuallyReminded` of `Reminders`, `OrphansPurged` of
`Attachments` and `CallsReturn` of `Chains`): the prover has no support for fairness and ENABLED. `FormulasOrdered`:
`Formulas` is a depth-first search and rounds over the fields, written with RECURSIVE operators as
the code is, and what such a definition computes needs an induction over its argument, which the
prover cannot instantiate (theorems that take an operator are out of its reach). Where a proved module
needs facts of the kind (sums over sets of records, the depth of a chain), they are lemmas
proved from a least counterexample. The two runs that show a violation have nothing to prove.

**Proved, and in no run.** `RetryBudget`, `SucceededRan` and `SettledStable` of `JobQueue` (they
follow from the contract, which a run checks), `RunsMatchJobs`, `MovesOnce`, `AnswersTrue` and
`CompletedIsFinal` of `OperationRun`, `OnlyCommitted` and `PublishedIsOver` of `Outbox`, `TrailMatches`,
`LiveKeepChildren`, `NumberKept`, `DeletedIsFinal` and `MovesLegal` of `Records`, and the
type invariants. All of them can be added to the cfg of their module, and hold.

## 7. Not modelled

The map covers just under a fifth of the implementation's lines. The rest is, in this order:

* declarations and builders: the metadata of entities, fields, views, dashboards and of the
  commerce and accounting modules (`qefro-core/src/ui.rs`, `entity.rs`, `commerce.rs`,
  `accounting.rs`), whose values the models take as constants;
* routing, extraction and serialisation (`qefro-api/src/routes.rs`, `studio.rs`, `platform.rs`,
  `openapi.rs`, `extract.rs`, `qefro-agent`) beyond the decisions in `Offers`, the command line's
  scaffolding, validation and doctor, rendering of templates, print, PDF and CSV: functions of one
  request without state between the calls;
* read-only queries: lists, filters, search, reports, dashboards.

Within the modelled components: formats of strings (e-mail, patterns), row policies and field levels of the
record engine, its list queries; the conditions and kinds of actions of
automations; capacity and several resources of scheduling;
the rendering and periods of numbers (one period); nested operations of a handler, which are
folded into its effect, except in `Sales`, which consists of them; the connection pool, except in `Chains`; the bus's debug log; parsing and coercion of cells in imports; providers
and the window of the rate limiter; several currencies, taxes, discounts and stock moves;
Studio's drafts, views, workflows and packages; passwords and tokens as such.

Some hazards have no property because the code has no answer to them: they are in the list of
`PROJECT.json` with a note, and in section 5.
