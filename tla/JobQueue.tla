------------------------------ MODULE JobQueue ------------------------------
(***************************************************************************)
(* The PostgreSQL-backed job queue of crates/qefro-db/src/jobs.rs, the     *)
(* transactions that enqueue into it, and the worker loops of              *)
(* crates/qefro-api/src/runtime.rs that drain it.                          *)
(*                                                                         *)
(* Every SQL statement that commits on its own is one action, and so is    *)
(* every span between two awaits in which a worker only holds local state. *)
(* An enqueuing caller is a database transaction: it looks its key up,     *)
(* inserts, and then commits or rolls back with the rest of its work.      *)
(*                                                                         *)
(* Time is abstracted to one flag per row: `due' says run_at <= now().     *)
(* Tenants are folded into Names: a name stands for a (tenant, name) pair, *)
(* the scope of the unique index on idempotency keys.                      *)
(***************************************************************************)
EXTENDS Integers, FiniteSets

CONSTANTS
  Jobs,           \* row ids; a finite set bounds how many rows are inserted
  Names,          \* (tenant, job name) pairs
  SafeNames,      \* names whose registered handler is worker_safe
  Keys,           \* idempotency keys
  NoKey,          \* a payload without an idempotency key
  RequestedMax,   \* "max_attempts" values a payload may carry
  AttemptsCap,    \* upper end of the clamp on max_attempts (20 in the code)
  Workers,        \* worker loops: `qefro worker' processes and embedded ones
  Callers,        \* transactions that enqueue
  None,           \* no job
  MaxStops,       \* bound: crashes and SIGTERMs of workers
  MaxDbErrors,    \* bound: statements of a worker whose result is lost
  ExclusiveStart  \* deployment discipline: no worker starts while another is
                  \* in the middle of a job

ASSUME JobsAssumption == None \notin Jobs
ASSUME KeysAssumption == NoKey \notin Keys
ASSUME NamesAssumption == SafeNames \subseteq Names
ASSUME CapAssumption == AttemptsCap \in Nat \ {0}
ASSUME RequestedAssumption == RequestedMax \subseteq Int
ASSUME BoundsAssumption == MaxStops \in Nat /\ MaxDbErrors \in Nat
ASSUME StartAssumption == ExclusiveStart \in BOOLEAN

VARIABLES
  status,    \* jobs.status, or "absent" while no committed row has this id
  attempts,  \* jobs.attempts
  limit,     \* jobs.max_attempts
  name,      \* jobs.name
  key,       \* jobs.idempotency_key
  due,       \* jobs.run_at <= now()
  wpc,       \* where a worker's loop is
  wjob,      \* the JobRecord a worker claimed
  watt,      \* the value of `attempts' in that record, read when it was claimed
  wok,       \* the handler's result
  cpc,       \* where a caller's transaction is
  cjob,      \* the id enqueue_tx gave a caller: a row found, or its own insert
  creq,      \* what a caller asked for: [name, key, limit, due]
  stops,     \* crashes and SIGTERMs so far
  dbErrors,  \* lost statement results so far
  exit,      \* history: why a worker is down
  okRuns     \* history: jobs whose handler returned Ok at least once

rowVars    == <<status, attempts, limit, name, key, due>>
workerVars == <<wpc, wjob, watt, wok>>
callerVars == <<cpc, cjob, creq>>
faultVars  == <<stops, dbErrors, exit>>
vars == <<rowVars, workerVars, callerVars, faultVars, okRuns>>

Statuses == {"pending", "running", "succeeded", "failed"}
Settled  == {"succeeded", "failed"}
Busy     == {"handling", "reporting"}
Requests == [name : Names, key : Keys \cup {NoKey}, limit : 1..AttemptsCap,
             due : BOOLEAN]

\* payload.max_attempts, clamped to 1..AttemptsCap (enqueue_tx).
Clamp(m) == IF m < 1 THEN 1 ELSE IF m > AttemptsCap THEN AttemptsCap ELSE m

\* The committed rows.
Rows == {j \in Jobs : status[j] # "absent"}

\* Ids in use, those of uncommitted inserts included.
Taken == Rows \cup {cjob[c] : c \in Callers}

\* The row lookup of enqueue_tx: a committed row with this name and key.
ExistingRow(n, k) == {j \in Rows : k # NoKey /\ name[j] = n /\ key[j] = k}

\* Mutant of KeyLocked: the index is not unique.
KeyNeverLocked(c, n, k) == FALSE

\* An open transaction has inserted the same (name, key): the unique index
\* makes a second insert wait until that transaction ends.
KeyLocked(c, n, k) ==
  \E d \in Callers \ {c} : /\ cpc[d] = "inserted"
                           /\ k # NoKey
                           /\ creq[d].name = n
                           /\ creq[d].key = k

Init ==
  /\ status = [j \in Jobs |-> "absent"]
  /\ attempts = [j \in Jobs |-> 0]
  /\ limit = [j \in Jobs |-> 1]
  /\ name = [j \in Jobs |-> None]
  /\ key = [j \in Jobs |-> NoKey]
  /\ due = [j \in Jobs |-> FALSE]
  /\ wpc = [w \in Workers |-> "down"]
  /\ wjob = [w \in Workers |-> None]
  /\ watt = [w \in Workers |-> 0]
  /\ wok = [w \in Workers |-> FALSE]
  /\ cpc = [c \in Callers |-> "idle"]
  /\ cjob = [c \in Callers |-> None]
  /\ creq = [c \in Callers |-> None]
  /\ stops = 0
  /\ dbErrors = 0
  /\ exit = [w \in Workers |-> "none"]
  /\ okRuns = {}

-----------------------------------------------------------------------------
(* Callers: enqueue_tx inside a transaction of their own or of a mutation. *)

EndTx(c) ==
  /\ cpc' = [cpc EXCEPT ![c] = "idle"]
  /\ cjob' = [cjob EXCEPT ![c] = None]
  /\ creq' = [creq EXCEPT ![c] = None]

\* SELECT id ... WHERE tenant_id, name, idempotency_key: a hit is returned
\* whatever the row's status; a miss goes on to the insert.
Lookup(c) ==
  /\ cpc[c] = "idle"
  /\ \E n \in Names, k \in Keys \cup {NoKey}, m \in RequestedMax, d \in BOOLEAN :
       /\ creq' = [creq EXCEPT ![c] =
                     [name |-> n, key |-> k, limit |-> Clamp(m), due |-> d]]
       /\ \/ /\ ExistingRow(n, k) = {}
             /\ cpc' = [cpc EXCEPT ![c] = "missed"]
             /\ cjob' = cjob
          \/ \E j \in ExistingRow(n, k) :
               /\ cpc' = [cpc EXCEPT ![c] = "found"]
               /\ cjob' = [cjob EXCEPT ![c] = j]
  /\ UNCHANGED <<rowVars, workerVars, faultVars, okRuns>>

\* INSERT INTO jobs: waits on an uncommitted row of the same key, and is
\* refused by jobs_idemp_uidx, the transaction with it, if a row of that key
\* was committed since the lookup.
Insert(c) ==
  LET n == creq[c].name
      k == creq[c].key
  IN /\ cpc[c] = "missed"
     /\ ~KeyLocked(c, n, k)
     /\ \/ /\ ExistingRow(n, k) = {}
           /\ \E j \in Jobs \ Taken :
                /\ cjob' = [cjob EXCEPT ![c] = j]
                /\ cpc' = [cpc EXCEPT ![c] = "inserted"]
                /\ creq' = creq
        \/ /\ ExistingRow(n, k) # {}
           /\ EndTx(c)
     /\ UNCHANGED <<rowVars, workerVars, faultVars, okRuns>>

\* COMMIT of a transaction that inserted: the row becomes visible, pending and
\* with no attempts.
CommitInsert(c) ==
  LET j == cjob[c]
  IN /\ cpc[c] = "inserted"
     /\ status' = [status EXCEPT ![j] = "pending"]
     /\ attempts' = [attempts EXCEPT ![j] = 0]
     /\ limit' = [limit EXCEPT ![j] = creq[c].limit]
     /\ name' = [name EXCEPT ![j] = creq[c].name]
     /\ key' = [key EXCEPT ![j] = creq[c].key]
     /\ due' = [due EXCEPT ![j] = creq[c].due]
     /\ EndTx(c)
     /\ UNCHANGED <<workerVars, faultVars, okRuns>>

\* The transaction ends without a row of its own: it rolls back at any point,
\* or commits after it was given the id of an existing row.
EndWithoutInsert(c) ==
  /\ cpc[c] # "idle"
  /\ EndTx(c)
  /\ UNCHANGED <<rowVars, workerVars, faultVars, okRuns>>

\* A row's run_at passes.
BecomeDue(j) ==
  /\ status[j] = "pending"
  /\ ~due[j]
  /\ due' = [due EXCEPT ![j] = TRUE]
  /\ UNCHANGED <<status, attempts, limit, name, key, workerVars, callerVars,
                 faultVars, okRuns>>

-----------------------------------------------------------------------------
(* Workers. *)

DbError ==
  /\ dbErrors < MaxDbErrors
  /\ dbErrors' = dbErrors + 1

\* The JobRecord and the result are locals of process_one.
Forget(w) ==
  /\ wjob' = [wjob EXCEPT ![w] = None]
  /\ watt' = [watt EXCEPT ![w] = 0]
  /\ wok' = [wok EXCEPT ![w] = FALSE]

Idle(w) ==
  /\ wpc' = [wpc EXCEPT ![w] = "idle"]
  /\ Forget(w)

MayStart(w) ==
  ExclusiveStart => \A v \in Workers \ {w} : wpc[v] \notin Busy

\* Mutant of Reclaimed: nothing comes back.
ReclaimedNothing == status

\* reclaim_running: every running row goes back to pending, whoever claimed it.
Reclaimed ==
  [j \in Jobs |-> IF status[j] = "running" THEN "pending" ELSE status[j]]

\* A worker starts: it reclaims. Neither attempts nor run_at changes.
Start(w) ==
  /\ wpc[w] = "down"
  /\ MayStart(w)
  /\ status' = Reclaimed
  /\ Idle(w)
  /\ exit' = [exit EXCEPT ![w] = "none"]
  /\ UNCHANGED <<attempts, limit, name, key, due, callerVars, stops, dbErrors, okRuns>>

\* Both loops ignore a failure of reclaim_running and poll anyway.
StartWithoutReclaim(w) ==
  /\ wpc[w] = "down"
  /\ MayStart(w)
  /\ DbError
  /\ Idle(w)
  /\ exit' = [exit EXCEPT ![w] = "none"]
  /\ UNCHANGED <<rowVars, callerVars, stops, okRuns>>

\* Mutant of Claimable: the status is not looked at.
ClaimableRunning(j) == status[j] \in {"pending", "running"} /\ due[j]

Claimable(j) == status[j] = "pending" /\ due[j]

\* UPDATE ... RETURNING of one due pending row. Its order by run_at is
\* abstracted: SKIP LOCKED hands out any due row that no one else is claiming.
Claim(w) ==
  /\ wpc[w] = "idle"
  /\ \E j \in Jobs :
       /\ Claimable(j)
       /\ status' = [status EXCEPT ![j] = "running"]
       /\ wjob' = [wjob EXCEPT ![w] = j]
       /\ watt' = [watt EXCEPT ![w] = attempts[j]]
  /\ wpc' = [wpc EXCEPT ![w] = "handling"]
  /\ UNCHANGED <<attempts, limit, name, key, due, wok, callerVars, faultVars, okRuns>>

\* The claim commits and its answer is lost: process_one returns an error and
\* the loop polls again, while the row stays running.
ClaimLost(w) ==
  /\ wpc[w] = "idle"
  /\ DbError
  /\ \E j \in Jobs :
       /\ Claimable(j)
       /\ status' = [status EXCEPT ![j] = "running"]
  /\ UNCHANGED <<attempts, limit, name, key, due, workerVars, callerVars, stops,
                 exit, okRuns>>

\* A job whose name has no worker-safe handler is an error; the handler's result
\* counts otherwise.
Result(j, ok) == name[j] \in SafeNames /\ ok

\* The handler, when there is one, returns.
HandlerReturns(w, ok) ==
  /\ wpc[w] = "handling"
  /\ wok' = [wok EXCEPT ![w] = Result(wjob[w], ok)]
  /\ wpc' = [wpc EXCEPT ![w] = "reporting"]
  /\ okRuns' = okRuns \cup {j \in Jobs : j = wjob[w] /\ name[j] \in SafeNames /\ ok}
  /\ UNCHANGED <<rowVars, wjob, watt, callerVars, faultVars>>

\* UPDATE jobs SET status = 'succeeded' WHERE id = $1: whatever the row's
\* status is by now.
ReportSuccess(w) ==
  /\ wpc[w] = "reporting"
  /\ wok[w]
  /\ status' = [status EXCEPT ![wjob[w]] = "succeeded"]
  /\ Idle(w)
  /\ UNCHANGED <<attempts, limit, name, key, due, callerVars, faultVars, okRuns>>

\* Mutant of LastAttempt: one attempt too few.
LastAttemptEarly(j, n) == n + 1 >= limit[j]

LastAttempt(j, n) == n >= limit[j]

\* The failure branch: attempts is the claimed value plus one; the last attempt
\* fails the job, an earlier one puts it back with a run_at in the future (the
\* backoff is at least one second).
ReportFailure(w) ==
  LET j == wjob[w]
      n == watt[w] + 1
  IN /\ wpc[w] = "reporting"
     /\ ~wok[w]
     /\ attempts' = [attempts EXCEPT ![j] = n]
     /\ \/ /\ LastAttempt(j, n)
           /\ status' = [status EXCEPT ![j] = "failed"]
           /\ due' = due
        \/ /\ ~LastAttempt(j, n)
           /\ status' = [status EXCEPT ![j] = "pending"]
           /\ due' = [due EXCEPT ![j] = FALSE]
     /\ Idle(w)
     /\ UNCHANGED <<limit, name, key, callerVars, faultVars, okRuns>>

\* The UPDATE itself fails: process_one returns the error, the row stays as it
\* is and the worker goes on polling.
ReportLost(w) ==
  /\ wpc[w] = "reporting"
  /\ DbError
  /\ Idle(w)
  /\ UNCHANGED <<rowVars, callerVars, stops, exit, okRuns>>

\* The process dies (or the handler panics) at any point: local state is lost.
\* SIGTERM: tokio::select! takes the shutdown branch and drops the future of
\* the loop body, whatever statement it had reached.
Stop(w, why) ==
  /\ wpc[w] # "down"
  /\ stops < MaxStops
  /\ stops' = stops + 1
  /\ wpc' = [wpc EXCEPT ![w] = "down"]
  /\ Forget(w)
  /\ exit' = [exit EXCEPT ![w] = why]
  /\ UNCHANGED <<rowVars, callerVars, dbErrors, okRuns>>

Crash(w) == Stop(w, "crash")
Sigterm(w) == Stop(w, "sigterm")

-----------------------------------------------------------------------------

CallerStep(c) == Lookup(c) \/ Insert(c) \/ CommitInsert(c) \/ EndWithoutInsert(c)

Run(w) ==
  \/ Claim(w)
  \/ \E ok \in BOOLEAN : HandlerReturns(w, ok)
  \/ ReportSuccess(w)
  \/ ReportFailure(w)

Fault(w) ==
  \/ StartWithoutReclaim(w)
  \/ ClaimLost(w)
  \/ ReportLost(w)
  \/ Crash(w)
  \/ Sigterm(w)

Next ==
  \/ \E c \in Callers : CallerStep(c)
  \/ \E j \in Jobs : BecomeDue(j)
  \/ \E w \in Workers : Start(w) \/ Run(w) \/ Fault(w)

Spec == Init /\ [][Next]_vars

\* Time passes, every worker process is restarted when it is down, and its loop
\* keeps polling and its handlers return. Callers and faults get no fairness.
Fairness ==
  /\ \A j \in Jobs : WF_vars(BecomeDue(j))
  /\ \A w \in Workers : WF_vars(Start(w)) /\ WF_vars(Run(w))

FairSpec == Spec /\ Fairness

-----------------------------------------------------------------------------
(* Properties. *)

\* Every variable stays in its type; an id is held by at most one transaction.
TypeOK ==
  /\ status \in [Jobs -> Statuses \cup {"absent"}]
  /\ attempts \in [Jobs -> 0..AttemptsCap]
  /\ limit \in [Jobs -> 1..AttemptsCap]
  /\ name \in [Jobs -> Names \cup {None}]
  /\ key \in [Jobs -> Keys \cup {NoKey}]
  /\ due \in [Jobs -> BOOLEAN]
  /\ wpc \in [Workers -> {"down", "idle"} \cup Busy]
  /\ wjob \in [Workers -> Jobs \cup {None}]
  /\ watt \in [Workers -> 0..AttemptsCap]
  /\ wok \in [Workers -> BOOLEAN]
  /\ cpc \in [Callers -> {"idle", "missed", "found", "inserted"}]
  /\ cjob \in [Callers -> Jobs \cup {None}]
  /\ creq \in [Callers -> Requests \cup {None}]
  /\ stops \in 0..MaxStops
  /\ dbErrors \in 0..MaxDbErrors
  /\ exit \in [Workers -> {"none", "crash", "sigterm"}]
  /\ okRuns \subseteq Jobs

\* No two rows of one (tenant, name) share an idempotency key, whatever the
\* interleaving of the lookups, inserts and rollbacks of concurrent callers
\* (docs/jobs.md: "enqueue is unique per (tenant_id, name, idempotency_key)").
KeyUnique ==
  \A i, j \in Rows : key[i] # NoKey /\ key[i] = key[j] /\ name[i] = name[j] => i = j

\* A caller that was told its job exists holds the id of a committed row of the
\* name and key it asked for.
FoundIsRight ==
  \A c \in Callers : cpc[c] = "found" =>
    /\ cjob[c] \in Rows
    /\ name[cjob[c]] = creq[c].name
    /\ key[cjob[c]] = creq[c].key

\* A row that can still run has attempts left, and a failed one has used them
\* all: no crash, restart or late report of another worker makes a job run
\* past its max_attempts failures or give up early.
RetryBudget ==
  \A j \in Rows :
    /\ status[j] \in {"pending", "running"} => attempts[j] < limit[j]
    /\ status[j] = "failed" => attempts[j] = limit[j]

\* A row is marked succeeded only if a worker-safe handler returned Ok for it.
SucceededRan == \A j \in Rows : status[j] = "succeeded" => j \in okRuns

\* Under the start discipline no two workers run one job at the same time, and
\* the row of a job being run is running, with the attempts its worker read.
OneRunner ==
  ExclusiveStart =>
    /\ \A v, w \in Workers :
         wpc[v] \in Busy /\ wpc[w] \in Busy /\ wjob[v] = wjob[w] => v = w
    /\ \A w \in Workers : wpc[w] \in Busy =>
         status[wjob[w]] = "running" /\ attempts[wjob[w]] = watt[w]

\* Under the start discipline a settled job stays settled, and the count of its
\* failed attempts never goes back: no report is applied to a row that has
\* moved on since it was claimed.
SettledStable ==
  [][ExclusiveStart =>
       \A j \in Rows : /\ status[j] \in Settled => status'[j] = status[j]
                       /\ attempts'[j] >= attempts[j]]_vars

\* The phase of a job in the contract: what its caller can rely on.
Phase == [j \in Jobs |-> IF status[j] \in {"pending", "running"} THEN "open" ELSE status[j]]

Contract == INSTANCE JobContract WITH phase <- Phase, failures <- attempts

\* Under the start discipline the queue keeps its contract through crashes,
\* lost statements and restarts: it refines JobContract.
ImplementsContract == Contract!Spec

\* Once committed, a job settles: it is claimed when due, survives crashes and
\* restarts, and its retries run out.  A lost claim or report leaves the row
\* running until a worker starts again, which nothing makes happen: the promise
\* holds as long as no statement is lost.
EventuallySettled ==
  \A j \in Jobs : status[j] = "pending" ~> (status[j] \in Settled \/ dbErrors > 0)

\* docs/jobs.md:29: "On start, workers reclaim `running' rows left by a crash".
\* Read as a promise: a start takes no row from a worker that is running it.
ReclaimsOnlyAbandoned ==
  [][\A w \in Workers, j \in Jobs :
       wpc[w] \in Busy /\ wjob[w] = j /\ status[j] = "running" /\ status'[j] = "pending"
         => wpc'[w] = "idle"]_vars

=============================================================================
