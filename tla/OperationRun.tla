---------------------------- MODULE OperationRun ----------------------------
(***************************************************************************)
(* Business operations: execute_operation_with and execute_in_transaction  *)
(* of crates/qefro-db/src/operation.rs, the qefro_operation_runs rows of    *)
(* operation_run.rs, and the qefro.operation.execute job.                  *)
(*                                                                         *)
(* A process is a database transaction at a time.  A client sends a        *)
(* request; an executor is a worker that took the job of an asynchronous   *)
(* run.  Every statement that can wait for a lock, and every COMMIT, is an *)
(* action.  The job queue is the one of module JobQueue, reduced to what   *)
(* its contract promises: a row is ready until a report settles it.        *)
(***************************************************************************)
EXTENDS Integers, FiniteSets

CONSTANTS
  Runs,         \* ids of operation runs; bounds how many are committed
  Recs,         \* records operations are executed on
  SyncOps,      \* operations with execution = sync
  AsyncOps,     \* operations with execution = async
  MoveOps,      \* operations that declare a workflow_transition
  KeyedOps,     \* operations declared idempotent(): they require a key
  Keys,         \* values of the Idempotency-Key header
  NoKey,        \* a request without that header
  Clients,      \* request handlers
  Executors,    \* workers that run qefro.operation.execute
  None,         \* no run
  MaxTries,     \* max_attempts of the job
  MaxCrashes,   \* bound: processes that die, and COMMITs whose answer is lost
  OneRunner     \* the queue never runs one job twice at a time (JobQueue's
                \* OneRunner, which needs its ExclusiveStart)

Ops   == SyncOps \cup AsyncOps
Procs == Clients \cup Executors

ASSUME OpsAssumption == SyncOps \cap AsyncOps = {}
ASSUME SubsetsAssumption == MoveOps \subseteq Ops /\ KeyedOps \subseteq Ops
ASSUME ProcsAssumption == Clients \cap Executors = {}
ASSUME NoneAssumption == None \notin Runs /\ NoKey \notin Keys
ASSUME BoundsAssumption == MaxTries \in Nat \ {0} /\ MaxCrashes \in Nat
ASSUME OneRunnerAssumption == OneRunner \in BOOLEAN

VARIABLES
  status,   \* qefro_operation_runs.status of a committed row, or "absent"
  what,     \* the run's [op, rec, key]: its operation, entity_id and key
  job,      \* its job: "none", "ready", "succeeded", "failed"
  tries,    \* failed attempts of that job
  moved,    \* the record has left the state MoveOps start from
  pc,       \* where a process is
  req,      \* the request it serves
  own,      \* the run it inserted, or whose job it took
  crashes,  \* processes that died and answers lost so far
  effects,  \* history: commits of the run's business effect
  moves,    \* history: commits of a workflow transition of the record
  answers   \* history: what clients were told

tableVars == <<status, what, job, tries, moved>>
procVars  == <<pc, req, own>>
histVars  == <<effects, moves, answers>>
vars == <<tableVars, procVars, crashes, histVars>>

Requests == [op : Ops, rec : Recs, key : Keys \cup {NoKey}]
\* STATUS_RUNNING is only ever written by a transaction that goes on to
\* complete the row or rolls back, and nothing calls fail_tx: no other status
\* is ever committed.
Statuses == {"queued", "completed"}
Kinds    == {"result", "queued", "empty"}

Rows == {r \in Runs : status[r] # "absent"}

Init ==
  /\ status = [r \in Runs |-> "absent"]
  /\ what = [r \in Runs |-> None]
  /\ job = [r \in Runs |-> "none"]
  /\ tries = [r \in Runs |-> 0]
  /\ moved = [x \in Recs |-> FALSE]
  /\ pc = [p \in Procs |-> "idle"]
  /\ req = [p \in Procs |-> None]
  /\ own = [p \in Procs |-> None]
  /\ crashes = 0
  /\ effects = [r \in Runs |-> 0]
  /\ moves = [x \in Recs |-> 0]
  /\ answers = {}

\* The process ends its work; an open transaction is rolled back, and its locks
\* are released.
Rest(p) ==
  /\ pc' = [pc EXCEPT ![p] = "idle"]
  /\ req' = [req EXCEPT ![p] = None]
  /\ own' = [own EXCEPT ![p] = None]

At(p, place) ==
  /\ pc' = [pc EXCEPT ![p] = place]
  /\ req' = req
  /\ own' = own

Tell(kind, q, r) == answers' = answers \cup {[kind |-> kind, req |-> q, run |-> r]}

\* find_idempotent: the tenant's committed run with this key, whatever its
\* operation and record are.
Existing(k) == {r \in Rows : k # NoKey /\ what[r].key = k}

\* Another open transaction inserted a run with this key: the unique index on
\* (tenant_id, idempotency_key) makes an insert wait until it ends.
KeyLocked(p, k) ==
  \E o \in Clients \ {p} : /\ pc[o] \in {"inserted", "applied"}
                           /\ k # NoKey
                           /\ req[o].key = k

\* Mutant of RecLocked: the record is read without FOR UPDATE.
RecLockedNever(p, x) == FALSE

\* Another open transaction read the record FOR UPDATE (get_tx).
RecLocked(p, x) == \E o \in Procs \ {p} : pc[o] = "applied" /\ req[o].rec = x

\* Another open transaction updated the run's row (mark_running_tx).
RunLocked(p, r) ==
  \E o \in Executors \ {p} : pc[o] \in {"marked", "applied"} /\ own[o] = r

-----------------------------------------------------------------------------
(* A client's request. *)

\* Mutant of Reply: any existing run is replayed as if it had completed.
ReplyResult(s) == "result"

\* What a request whose key is known is answered: the stored result, or the
\* envelope of a queued run.
Reply(s) == IF s = "completed" THEN "result" ELSE "queued"

\* Authorisation passed, BEGIN, and the lookup by key.
Ask(c) ==
  /\ pc[c] = "idle"
  /\ \E q \in Requests :
       /\ q.op \in KeyedOps => q.key # NoKey
       /\ \/ \E r \in Existing(q.key) :
               /\ Tell(Reply(status[r]), q, r)
               /\ UNCHANGED procVars
          \/ /\ Existing(q.key) = {}
             /\ pc' = [pc EXCEPT ![c] = "insert"]
             /\ req' = [req EXCEPT ![c] = q]
             /\ UNCHANGED <<own, answers>>
  /\ UNCHANGED <<tableVars, crashes, effects, moves>>

\* insert_tx.  When a run with this key was committed since the lookup the
\* statement fails: the request answers with that run's result column, which is
\* the empty object while the run has none.
Insert(c) ==
  /\ pc[c] = "insert"
  /\ ~KeyLocked(c, req[c].key)
  /\ \/ /\ Existing(req[c].key) = {}
        /\ \E r \in {x \in Runs : x \notin Rows /\ \A o \in Procs : own[o] # x} :
             own' = [own EXCEPT ![c] = r]
        /\ pc' = [pc EXCEPT ![c] = "inserted"]
        /\ UNCHANGED <<req, answers>>
     \/ \E r \in Existing(req[c].key) :
          /\ Tell(IF status[r] = "completed" THEN "result" ELSE "empty", req[c], r)
          /\ Rest(c)
  /\ UNCHANGED <<tableVars, crashes, effects, moves>>

\* Mutant of CommitQueued: the job is left to a later transaction.
CommitWithoutJob(c) ==
  LET r == own[c]
  IN /\ pc[c] = "inserted"
     /\ req[c].op \in AsyncOps
     /\ status' = [status EXCEPT ![r] = "queued"]
     /\ what' = [what EXCEPT ![r] = req[c]]
     /\ Tell("queued", req[c], r)
     /\ Rest(c)
     /\ UNCHANGED <<job, tries, moved, crashes, effects, moves>>

\* An asynchronous operation: enqueue_tx in the same transaction, COMMIT.
CommitQueued(c) ==
  LET r == own[c]
  IN /\ pc[c] = "inserted"
     /\ req[c].op \in AsyncOps
     /\ status' = [status EXCEPT ![r] = "queued"]
     /\ what' = [what EXCEPT ![r] = req[c]]
     /\ job' = [job EXCEPT ![r] = "ready"]
     /\ Tell("queued", req[c], r)
     /\ Rest(c)
     /\ UNCHANGED <<tries, moved, crashes, effects, moves>>

-----------------------------------------------------------------------------
(* An executor's job: execute_operation_with with force_sync.              *)

\* The worker claims the job and decodes its payload.
Take(e) ==
  /\ pc[e] = "idle"
  /\ \E r \in Rows :
       /\ job[r] = "ready"
       /\ OneRunner => \A o \in Executors \ {e} : own[o] # r
       /\ own' = [own EXCEPT ![e] = r]
       /\ req' = [req EXCEPT ![e] = what[r]]
  /\ pc' = [pc EXCEPT ![e] = "taken"]
  /\ UNCHANGED <<tableVars, crashes, histVars>>

\* Mutant of Replays: the job never replays.
ReplaysNever(r) == FALSE

\* The lookup finds the job's own run by its key, completed.  A job without a
\* key looks nothing up.
Replays(r) == what[r].key # NoKey /\ status[r] = "completed"

Find(e) ==
  /\ pc[e] = "taken"
  /\ At(e, IF Replays(own[e]) THEN "ok" ELSE "mark")
  /\ UNCHANGED <<tableVars, crashes, histVars>>

\* mark_running_tx, in the transaction of the operation: it waits for the row and
\* then writes it whatever its status has become.
Mark(e) ==
  /\ pc[e] = "mark"
  /\ ~RunLocked(e, own[e])
  /\ At(e, "marked")
  /\ UNCHANGED <<tableVars, crashes, histVars>>

-----------------------------------------------------------------------------
(* execute_in_transaction, for both. *)

Ready(p) == pc[p] = "marked" \/ (pc[p] = "inserted" /\ req[p].op \in SyncOps)

\* The workflow precheck: the transition starts from the record's state.
MayMove(p) == req[p].op \in MoveOps => ~moved[req[p].rec]

\* get_tx FOR UPDATE, precheck and handler succeed; the record's update, audit,
\* activity, events and jobs are written in the open transaction.
Apply(p) ==
  /\ Ready(p)
  /\ ~RecLocked(p, req[p].rec)
  /\ MayMove(p)
  /\ At(p, "applied")
  /\ UNCHANGED <<tableVars, crashes, histVars>>

\* The transaction fails and is rolled back: the client gets the error, the
\* executor has a failed job to report.
Abort(p) ==
  /\ IF p \in Clients THEN Rest(p) ELSE At(p, "err")
  /\ UNCHANGED <<tableVars, crashes, histVars>>

\* The transition is not possible any more.
Refuse(p) ==
  /\ Ready(p)
  /\ ~RecLocked(p, req[p].rec)
  /\ ~MayMove(p)
  /\ Abort(p)

\* Authorisation, the handler, a hook, a nested step or a statement fails.
Fail(p) ==
  /\ pc[p] \in {"insert", "inserted", "taken", "mark", "marked", "applied"}
  /\ Abort(p)

\* complete_tx and COMMIT: the run, the record and the effect appear together.
Complete(p) ==
  LET r == own[p]
      q == req[p]
      move == q.op \in MoveOps
  IN /\ pc[p] = "applied"
     /\ status' = [status EXCEPT ![r] = "completed"]
     /\ what' = [what EXCEPT ![r] = q]
     /\ moved' = [moved EXCEPT ![q.rec] = @ \/ move]
     /\ effects' = [effects EXCEPT ![r] = @ + 1]
     /\ moves' = [moves EXCEPT ![q.rec] = @ + (IF move THEN 1 ELSE 0)]
     /\ UNCHANGED <<job, tries>>

Commit(p) ==
  /\ Complete(p)
  /\ \/ p \in Clients /\ Tell("result", req[p], own[p]) /\ Rest(p)
     \/ p \in Executors /\ UNCHANGED answers /\ At(p, "ok")
  /\ UNCHANGED crashes

\* The COMMIT takes effect and its answer is lost: an error is returned.
CommitLost(p) ==
  /\ Complete(p)
  /\ crashes < MaxCrashes
  /\ crashes' = crashes + 1
  /\ IF p \in Clients THEN Rest(p) ELSE At(p, "err")
  /\ UNCHANGED answers

-----------------------------------------------------------------------------
(* The worker's report, and crashes. *)

LastTry(n) == n >= MaxTries

\* The counts a report may write: one more than when the job was claimed.  With
\* one runner nothing has changed since; otherwise the count is some older one.
Counts(r) == IF OneRunner THEN {tries[r] + 1} ELSE 1..MaxTries

ReportOk(e) ==
  /\ pc[e] = "ok"
  /\ job' = [job EXCEPT ![own[e]] = "succeeded"]
  /\ Rest(e)
  /\ UNCHANGED <<status, what, tries, moved, crashes, histVars>>

\* The run's row is left as it is, also when the job has failed for good.
ReportErr(e) ==
  /\ pc[e] = "err"
  /\ \E n \in Counts(own[e]) :
       /\ job' = [job EXCEPT ![own[e]] = IF LastTry(n) THEN "failed" ELSE "ready"]
       /\ tries' = [tries EXCEPT ![own[e]] = n]
  /\ Rest(e)
  /\ UNCHANGED <<status, what, moved, crashes, histVars>>

\* A process dies anywhere: its transaction is rolled back.  The job stays (it
\* is reclaimed), a client may ask again.
Crash(p) ==
  /\ pc[p] # "idle"
  /\ crashes < MaxCrashes
  /\ crashes' = crashes + 1
  /\ Rest(p)
  /\ UNCHANGED <<tableVars, histVars>>

-----------------------------------------------------------------------------

ClientStep(c)   == Insert(c) \/ CommitQueued(c)
ExecutorStep(e) == Take(e) \/ Find(e) \/ Mark(e) \/ ReportOk(e) \/ ReportErr(e)
OperationStep(p) == Apply(p) \/ Refuse(p) \/ Fail(p) \/ Commit(p)

Next ==
  \/ \E c \in Clients : Ask(c) \/ ClientStep(c)
  \/ \E e \in Executors : ExecutorStep(e)
  \/ \E p \in Procs : OperationStep(p) \/ CommitLost(p) \/ Crash(p)

Spec == Init /\ [][Next]_vars

\* A transaction that began ends and a worker keeps polling.  The steps of a
\* worker that wait for a lock are strongly fair: the database serves the waiters
\* of a row lock in order.  Requests, failures and crashes get no fairness.
Fairness ==
  /\ \A c \in Clients : WF_vars(ClientStep(c)) /\ WF_vars(Apply(c) \/ Refuse(c))
  /\ \A e \in Executors : WF_vars(ExecutorStep(e)) /\ SF_vars(Apply(e) \/ Refuse(e))
  /\ \A p \in Procs : WF_vars(Commit(p))

FairSpec == Spec /\ Fairness

-----------------------------------------------------------------------------
(* Properties. *)

\* Every variable stays in its type; no attempt is made beyond MaxTries.
TypeOK ==
  /\ status \in [Runs -> Statuses \cup {"absent"}]
  /\ what \in [Runs -> Requests \cup {None}]
  /\ job \in [Runs -> {"none", "ready", "succeeded", "failed"}]
  /\ tries \in [Runs -> 0..MaxTries]
  /\ moved \in [Recs -> BOOLEAN]
  /\ pc \in [Procs -> {"idle", "insert", "inserted", "taken", "mark", "marked",
                       "applied", "ok", "err"}]
  /\ req \in [Procs -> Requests \cup {None}]
  /\ own \in [Procs -> Runs \cup {None}]
  /\ crashes \in 0..MaxCrashes
  /\ effects \in [Runs -> Nat]
  /\ moves \in [Recs -> Nat]
  /\ answers \subseteq [kind : Kinds, req : Requests, run : Runs]

\* One key, one effect: however requests with a key are repeated, race each
\* other, crash or are retried by the queue, the operation of that key commits at
\* most once, as long as the queue runs a job in one worker at a time.
EffectOncePerKey ==
  OneRunner => \A r, s \in Rows :
                 what[r].key # NoKey /\ what[r].key = what[s].key
                   => r = s /\ effects[r] <= 1

\* The bookkeeping is never ahead of or behind the business effect: a run is
\* completed exactly when its effect is committed, a queued run still has the
\* job that will run it (or that gave up), and a job is done only when its run is.
RunsMatchJobs ==
  \A r \in Rows :
    /\ status[r] = "completed" <=> effects[r] > 0
    /\ what[r].op \in AsyncOps <=> job[r] # "none"
    /\ job[r] = "succeeded" => status[r] = "completed"

\* A record takes a transition at most once however many operations that
\* declare it race for the record, keyed or not, overlapping workers included.
MovesOnce == \A x \in Recs : moves[x] <= 1

\* What a client was told stays true: a result is the result of a committed
\* effect, and an operation reported as queued has a run and a job.
AnswersTrue ==
  \A a \in answers :
    /\ a.kind = "result" => effects[a.run] > 0
    /\ a.kind = "queued" => job[a.run] # "none"

\* A completed run stays completed, and keeps its operation, record and key:
\* a second execution of the job never takes the answer back.
CompletedIsFinal ==
  [][\A r \in Runs : status[r] = "completed" =>
       status'[r] = "completed" /\ what'[r] = what[r]]_vars

Atomic == INSTANCE OperationContract

\* Clients that race, repeat, crash and are retried, and workers that overlap,
\* see operations that execute in one step: the record is still in the state the
\* transition starts from when the effect commits, no step works on a key that has
\* become another run's, and an answer is that of the run as it is.
ImplementsContract == Atomic!Spec

\* Every queued run is completed or its job gives up.
EventuallyDone ==
  \A r \in Runs : status[r] = "queued" ~> (status[r] = "completed" \/ job[r] = "failed")
=============================================================================
