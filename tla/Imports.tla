------------------------------ MODULE Imports ------------------------------
(***************************************************************************)
(* Background imports of crates/qefro-db/src/import.rs: the row of         *)
(* qefro_import_jobs, the jobs of the queue that process it, the requests  *)
(* that submit, cancel and retry it, and the records the rows land in.     *)
(*                                                                         *)
(* One import is modelled.  The job `import:{id}' is number 0, the job     *)
(* `import:{id}:r{n}' of a retry is number n.  The queue is reduced to     *)
(* what JobQueue establishes: a claim gives a pending job to one worker, a *)
(* starting process makes every running job pending again, a report is     *)
(* written whatever the job's status has become.                           *)
(***************************************************************************)
EXTENDS Integers, FiniteSets

CONSTANTS
  Last,         \* rows of the file are 1..Last
  Keys,         \* values of the field that records are matched by
  KeyOf,        \* the key of each row
  Bad,          \* rows that validation refuses when they are written
  Options,      \* mode, duplicate policy, strict, and whether a unique field
                \* of the entity is matched; those that may be submitted
  Stocks,       \* how many records of each key there may be beforehand
  Batch,        \* DEFAULT_BATCH, 100 in the code
  MaxAttempts,  \* attempts of the job, 8 in the code
  Workers,      \* processes that run a worker loop
  Callers,      \* requests that may be under way at the same time
  MaxRetries,   \* bound: retry_count
  MaxFaults     \* bound: processes that die, statements that fail

Rows == 1..Last
Jobs == 0..MaxRetries

OptionSet == [mode : {"create", "update", "upsert"},
              policy : {"fail", "skip", "update"},
              strict : BOOLEAN,
              unique : BOOLEAN]

ASSUME LastAssumption == Last \in Nat \ {0}
ASSUME FileAssumption ==
  /\ KeyOf \in [Rows -> Keys]
  /\ Bad \subseteq Rows
  /\ Stocks \subseteq [Keys -> Nat]
\* resolve_match_field: update and upsert need a unique field.
ASSUME OptionsAssumption ==
  Options \subseteq {o \in OptionSet : o.mode # "create" => o.unique}
\* The worker loops of a deployment are finitely many.
ASSUME WorkersAssumption == IsFiniteSet(Workers)
ASSUME BoundsAssumption ==
  /\ Batch \in Nat \ {0}
  /\ MaxAttempts \in Nat \ {0}
  /\ MaxRetries \in Nat
  /\ MaxFaults \in Nat

VARIABLES
  opts,     \* the options stored with the import
  status,   \* qefro_import_jobs.status, "none" before the row exists
  cancel,   \* cancel_requested
  saved,    \* checkpoint and counts of the row
  retries,  \* retry_count
  queue,    \* status of each job of the import, "absent" before it exists
  tries,    \* attempts of each job
  pc,       \* where a worker is in process_import_job
  job,      \* the job it runs
  got,      \* what it read of the import when it began: cancel, status, progress
  at,       \* the row it is at
  counts,   \* its ImportCounts
  match,    \* whether lookup_existing found a record for the row
  cpc,      \* where a request is
  read,     \* the retry_count it has read
  held,     \* records of the entity with each key
  faults,   \* faults so far
  made,     \* history: how often each row created a record
  fine,     \* history: rows that created, updated or were skipped
  late,     \* history: rows written since the cancellation was stored
  raced     \* history: a retry overlapped the processing of the import

rowVars    == <<opts, status, cancel, saved, retries>>
queueVars  == <<queue, tries>>
workerVars == <<pc, job, got, at, counts, match>>
callerVars == <<cpc, read>>
histVars   == <<made, fine, late, raced>>
vars == <<rowVars, queueVars, workerVars, callerVars, held, faults, histVars>>

Statuses == {"none", "pending", "validating", "running", "completed",
             "completed_with_errors", "failed", "cancelled"}

\* The statuses that process_import_job returns at once for.
Final == {"completed", "completed_with_errors", "cancelled"}

NoCounts == [created |-> 0, updated |-> 0, skipped |-> 0, failed |-> 0]
Progress(c, n) == [counts |-> n, checkpoint |-> c]

Unread == [cancel |-> FALSE, status |-> "none", progress |-> Progress(0, NoCounts)]

Init ==
  /\ opts \in Options
  /\ status = "none"
  /\ cancel = FALSE
  /\ saved = Progress(0, NoCounts)
  /\ retries = 0
  /\ queue = [j \in Jobs |-> "absent"]
  /\ tries = [j \in Jobs |-> 0]
  /\ pc = [w \in Workers |-> "idle"]
  /\ job = [w \in Workers |-> 0]
  /\ got = [w \in Workers |-> Unread]
  /\ at = [w \in Workers |-> 1]
  /\ counts = [w \in Workers |-> NoCounts]
  /\ match = [w \in Workers |-> FALSE]
  /\ cpc = [c \in Callers |-> "idle"]
  /\ read = [c \in Callers |-> 0]
  /\ held \in Stocks
  /\ faults = 0
  /\ made = [r \in Rows |-> 0]
  /\ fine = {}
  /\ late = 0
  /\ raced = FALSE

-----------------------------------------------------------------------------
(* Requests. *)

Step(c, from, to) ==
  /\ cpc[c] = from
  /\ cpc' = [cpc EXCEPT ![c] = to]

\* Mutant of Enqueue: the key does not carry the number of the retry.
EnqueueSameKey(n) == queue' = [queue EXCEPT ![0] = IF @ = "absent" THEN "pending" ELSE @]

\* JobQueue::enqueue with the key of job n: an existing job is left as it is.
Enqueue(n) == queue' = [queue EXCEPT ![n] = IF @ = "absent" THEN "pending" ELSE @]

\* create_import_job stores the file and inserts the row; a submission with the
\* key of an existing import is answered with it.
Submit(c) ==
  /\ status = "none"
  /\ Step(c, "idle", "submitted")
  /\ status' = "pending"
  /\ UNCHANGED <<opts, cancel, saved, retries, queueVars, workerVars, read, held,
                 faults, histVars>>

\* ... and then enqueues the job, in a transaction of its own.
EnqueueFirst(c) ==
  /\ Step(c, "submitted", "idle")
  /\ Enqueue(0)
  /\ UNCHANGED <<rowVars, tries, workerVars, read, held, faults, histVars>>

\* cancel_import_job reads the status.
CancelRead(c) ==
  /\ status \in {"pending", "validating", "running"}
  /\ Step(c, "idle", "cancelling")
  /\ UNCHANGED <<rowVars, queueVars, workerVars, read, held, faults, histVars>>

AfterCancel(s) == IF s = "pending" THEN "cancelled" ELSE s

\* Its UPDATE has no condition on the status.
CancelWrite(c) ==
  /\ Step(c, "cancelling", "idle")
  /\ cancel' = TRUE
  /\ status' = AfterCancel(status)
  /\ UNCHANGED <<opts, saved, retries, queueVars, workerVars, read, held, faults,
                 histVars>>

\* A worker still has something to do for a job of the import.
Alive ==
  \/ \E j \in Jobs : queue[j] = "pending"
  \/ \E w \in Workers : pc[w] \notin {"idle", "ok"}

\* retry_import_job reads the status and retry_count.
RetryRead(c) ==
  /\ status = "failed"
  /\ retries < MaxRetries
  /\ Step(c, "idle", "retrying")
  /\ read' = [read EXCEPT ![c] = retries]
  /\ raced' = (raced \/ Alive)
  /\ UNCHANGED <<rowVars, queueVars, workerVars, held, faults, made, fine, late>>

\* Its UPDATE has no condition on the status either.
RetryWrite(c) ==
  /\ Step(c, "retrying", "queueing")
  /\ status' = "pending"
  /\ cancel' = FALSE
  /\ retries' = retries + 1
  /\ late' = 0
  /\ raced' = (raced \/ status # "failed")
  /\ UNCHANGED <<opts, saved, queueVars, workerVars, read, held, faults, made, fine>>

\* The key is built from the count it has read.
RetryEnqueue(c) ==
  /\ Step(c, "queueing", "idle")
  /\ Enqueue(read[c] + 1)
  /\ read' = [read EXCEPT ![c] = 0]
  /\ UNCHANGED <<rowVars, tries, workerVars, held, faults, histVars>>

Request(c) ==
  \/ Submit(c) \/ EnqueueFirst(c)
  \/ CancelRead(c) \/ CancelWrite(c)
  \/ RetryRead(c) \/ RetryWrite(c) \/ RetryEnqueue(c)

-----------------------------------------------------------------------------
(* process_import_job. *)

Goto(w, from, to) ==
  /\ pc[w] = from
  /\ pc' = [pc EXCEPT ![w] = to]

\* What a worker knows are locals of the handler.
Forget(w) ==
  /\ got' = [got EXCEPT ![w] = Unread]
  /\ at' = [at EXCEPT ![w] = 1]
  /\ counts' = [counts EXCEPT ![w] = NoCounts]
  /\ match' = [match EXCEPT ![w] = FALSE]

\* The handler returns.
Return(w, from, result) ==
  /\ Goto(w, from, result)
  /\ Forget(w)

\* A worker claims a job; the handler first reads the row of the import, once.
Claim(w) ==
  /\ Goto(w, "idle", "loaded")
  /\ \E j \in Jobs :
       /\ queue[j] = "pending"
       /\ queue' = [queue EXCEPT ![j] = "running"]
       /\ job' = [job EXCEPT ![w] = j]
  /\ got' = [got EXCEPT ![w] =
               [cancel |-> cancel, status |-> status, progress |-> saved]]
  /\ UNCHANGED <<rowVars, tries, at, counts, match, callerVars, held, faults, histVars>>

MarkCancelled(w) ==
  /\ got[w].cancel
  /\ Return(w, "loaded", "ok")
  /\ status' = "cancelled"
  /\ UNCHANGED <<opts, cancel, saved, retries, queueVars, job, callerVars, held, faults, histVars>>

Ended(g) == g.status \in Final

\* `failed' is not among the final statuses: the queue's own retries process a
\* strict import again.
SkipEnded(w) ==
  /\ ~got[w].cancel
  /\ Ended(got[w])
  /\ Return(w, "loaded", "ok")
  /\ UNCHANGED <<rowVars, queueVars, job, callerVars, held,
                 faults, histVars>>

Validate(w) ==
  /\ ~got[w].cancel
  /\ ~Ended(got[w])
  /\ Goto(w, "loaded", "validating")
  /\ status' = "validating"
  /\ UNCHANGED <<opts, cancel, saved, retries, queueVars, job, got, at, counts, match,
                 callerVars, held, faults, histVars>>

\* Mutant of FirstRow: every run starts at the top.
FirstRowAgain(c) == 1

FirstRow(c) == c + 1

\* Mutant of StartCounts: the counts of the earlier run are forgotten.
StartCountsZero(n) == NoCounts

StartCounts(n) == n

\* The file is read and the counts start from the stored ones, the rows from the
\* checkpoint.
StartRows(w) ==
  /\ Goto(w, "validating", "row")
  /\ status' = "running"
  /\ counts' = [counts EXCEPT ![w] = StartCounts(got[w].progress.counts)]
  /\ at' = [at EXCEPT ![w] = FirstRow(got[w].progress.checkpoint)]
  /\ got' = [got EXCEPT ![w] = Unread]
  /\ UNCHANGED <<opts, cancel, saved, retries, queueVars, job, match, callerVars,
                 held, faults, histVars>>

\* Mutant of SeesCancel: the flag is looked at before the first row only.
SeesCancelFirst(w) == cancel /\ at[w] = 1

SeesCancel(w) == cancel

\* Before a row: the flag is read, and lookup_existing looks for a record with
\* the row's key.  The record may be gone, or come, before the row is written.
BeginRow(w) ==
  /\ at[w] \in Rows
  /\ Goto(w, "row", IF SeesCancel(w) THEN "stopping" ELSE "matched")
  /\ match' = [match EXCEPT ![w] =
                 ~SeesCancel(w) /\ opts.unique /\ held[KeyOf[at[w]]] > 0]
  /\ UNCHANGED <<rowVars, queueVars, job, got, at, counts, callerVars, held, faults,
                 histVars>>

\* persist_progress: checkpoint, counts and status in one UPDATE.
Persist(w, c, s) ==
  /\ saved' = Progress(c, counts[w])
  /\ status' = s
  /\ UNCHANGED <<opts, cancel, retries>>

Stop(w) ==
  /\ Return(w, "stopping", "ok")
  /\ Persist(w, at[w] - 1, "cancelled")
  /\ UNCHANGED <<queueVars, job, callerVars, held, faults,
                 histVars>>

\* The table of import_one_row.
Intent(found) ==
  CASE opts.mode = "create" /\ found ->
         (CASE opts.policy = "fail" -> "failed"
            [] opts.policy = "skip" -> "skipped"
            [] opts.policy = "update" -> "updated")
    [] opts.mode = "create" /\ ~found -> "created"
    [] opts.mode = "update" /\ found -> "updated"
    [] opts.mode = "update" /\ ~found -> "failed"
    [] opts.mode = "upsert" /\ found -> "updated"
    [] opts.mode = "upsert" /\ ~found -> "created"

\* A write is refused by validation, a create by the unique field as well.
Outcome(r, found) ==
  LET i == Intent(found)
  IN IF \/ i \in {"created", "updated"} /\ r \in Bad
        \/ i = "created" /\ opts.unique /\ held[KeyOf[r]] > 0
     THEN "failed" ELSE i

\* After a row: a failure of a strict import stops it, every Batch rows the
\* progress is stored.
NextStop(w, o) ==
  IF o = "failed" /\ opts.strict THEN "aborting"
  ELSE IF at[w] % Batch = 0 THEN "saving" ELSE "row"

\* The create or update of the row, a transaction of EntityService.
WriteRow(w) ==
  LET r == at[w]
      o == Outcome(r, match[w])
      next == NextStop(w, o)
  IN /\ Goto(w, "matched", next)
     /\ counts' = [counts EXCEPT ![w][o] = @ + 1]
     /\ at' = [at EXCEPT ![w] = IF next = "row" THEN @ + 1 ELSE @]
     /\ held' = [held EXCEPT ![KeyOf[r]] = IF o = "created" THEN @ + 1 ELSE @]
     /\ made' = [made EXCEPT ![r] = IF o = "created" THEN @ + 1 ELSE @]
     /\ fine' = IF o = "failed" THEN fine ELSE fine \cup {r}
     /\ late' = IF cancel /\ o \in {"created", "updated"} THEN late + 1 ELSE late
     /\ match' = [match EXCEPT ![w] = FALSE]
     /\ UNCHANGED <<rowVars, queueVars, job, got, callerVars, faults, raced>>

Save(w) ==
  /\ Goto(w, "saving", "row")
  /\ Persist(w, at[w], "running")
  /\ at' = [at EXCEPT ![w] = @ + 1]
  /\ UNCHANGED <<queueVars, job, got, counts, match, callerVars, held, faults, histVars>>

\* The progress of a strict import is stored with the failing row still to do,
\* and the handler returns the error.
Abort(w) ==
  /\ Return(w, "aborting", "err")
  /\ Persist(w, at[w] - 1, "failed")
  /\ UNCHANGED <<queueVars, job, callerVars, held, faults,
                 histVars>>

EndStatus(n) ==
  CASE n.failed > 0 /\ n.created + n.updated = 0 -> "failed"
    [] n.failed > 0 /\ n.created + n.updated > 0 -> "completed_with_errors"
    [] n.failed = 0 -> "completed"

\* The last UPDATE, whatever has become of the row.  The code prefers
\* `cancelled' when the row it read was cancelled: it has returned by then.
Finish(w) ==
  /\ at[w] \notin Rows
  /\ Return(w, "row", "ok")
  /\ Persist(w, Last, EndStatus(counts[w]))
  /\ UNCHANGED <<queueVars, job, callerVars, held, faults,
                 histVars>>

\* The worker reports: an error puts the job back until its attempts are used up.
Report(w) ==
  LET j == job[w]
      n == tries[j] + 1
  IN /\ pc[w] \in {"ok", "err"}
     /\ pc' = [pc EXCEPT ![w] = "idle"]
     /\ tries' = [tries EXCEPT ![j] = IF pc[w] = "err" THEN n ELSE @]
     /\ queue' = [queue EXCEPT ![j] =
                    CASE pc[w] = "ok" -> "succeeded"
                      [] pc[w] = "err" /\ n < MaxAttempts -> "pending"
                      [] pc[w] = "err" /\ n >= MaxAttempts -> "failed"]
     /\ job' = [job EXCEPT ![w] = 0]
     /\ UNCHANGED <<rowVars, got, at, counts, match, callerVars, held, faults, histVars>>

Process(w) ==
  \/ Claim(w) \/ MarkCancelled(w) \/ SkipEnded(w) \/ Validate(w) \/ StartRows(w)
  \/ BeginRow(w) \/ Stop(w) \/ WriteRow(w) \/ Save(w) \/ Abort(w) \/ Finish(w) \/ Report(w)

-----------------------------------------------------------------------------
(* Faults. *)

Fault ==
  /\ faults < MaxFaults
  /\ faults' = faults + 1

\* A worker process starts, after a crash or beside the others: what it had
\* under way is gone and every running job becomes pending.
Restart(w) ==
  /\ Fault
  /\ pc' = [pc EXCEPT ![w] = "idle"]
  /\ queue' = [j \in Jobs |-> IF queue[j] = "running" THEN "pending" ELSE queue[j]]
  /\ job' = [job EXCEPT ![w] = 0]
  /\ Forget(w)
  /\ UNCHANGED <<rowVars, tries, callerVars, held, histVars>>

\* A statement other than a row's, or the blob store, fails.
StatementFails(w) ==
  /\ Fault
  /\ pc[w] \in {"loaded", "validating", "row", "stopping", "saving"}
  /\ pc' = [pc EXCEPT ![w] = "err"]
  /\ Forget(w)
  /\ UNCHANGED <<rowVars, queueVars, job, callerVars, held, histVars>>

\* The process that serves a request dies, or its next statement fails.
RequestDies(c) ==
  /\ Fault
  /\ cpc[c] # "idle"
  /\ cpc' = [cpc EXCEPT ![c] = "idle"]
  /\ read' = [read EXCEPT ![c] = 0]
  /\ UNCHANGED <<rowVars, queueVars, workerVars, held, histVars>>

Next ==
  \/ \E c \in Callers : Request(c) \/ RequestDies(c)
  \/ \E w \in Workers : Process(w) \/ Restart(w) \/ StatementFails(w)

Spec == Init /\ [][Next]_vars

\* Worker loops go on; a request that has begun goes on unless it dies.
Fairness ==
  /\ \A w \in Workers : WF_vars(Process(w))
  /\ \A c \in Callers :
       WF_vars(EnqueueFirst(c) \/ CancelWrite(c) \/ RetryWrite(c) \/ RetryEnqueue(c))

FairSpec == Spec /\ Fairness

-----------------------------------------------------------------------------
(* Properties. *)

CountsType == [created : Nat, updated : Nat, skipped : Nat, failed : Nat]
ProgressType == [counts : CountsType, checkpoint : 0..Last]
WorkerPoints == {"idle", "loaded", "validating", "row", "stopping", "matched", "saving",
                 "aborting", "ok", "err"}

\* Every variable keeps its type; a worker's row never leaves the file.
TypeOK ==
  /\ opts \in Options
  /\ status \in Statuses
  /\ cancel \in BOOLEAN
  /\ saved \in ProgressType
  /\ retries \in Nat
  /\ queue \in [Jobs -> {"absent", "pending", "running", "succeeded", "failed"}]
  /\ tries \in [Jobs -> Nat]
  /\ pc \in [Workers -> WorkerPoints]
  /\ job \in [Workers -> Jobs]
  /\ got \in [Workers -> [cancel : BOOLEAN, status : Statuses, progress : ProgressType]]
  /\ at \in [Workers -> 1..(Last + 1)]
  /\ counts \in [Workers -> CountsType]
  /\ match \in [Workers -> BOOLEAN]
  /\ cpc \in [Callers -> {"idle", "submitted", "cancelling", "retrying", "queueing"}]
  /\ read \in [Callers -> Nat]
  /\ held \in [Keys -> Nat]
  /\ faults \in Nat
  /\ made \in [Rows -> Nat]
  /\ fine \subseteq Rows
  /\ late \in Nat
  /\ raced \in BOOLEAN

\* "completed" means that every row of the file has created or updated a record
\* or was skipped by its policy, whatever crashed, was retried or ran twice: the
\* checkpoint never runs ahead of what has landed and a failure is never lost
\* between a run and the next.
CompletedMeansAll == status = "completed" => fine = Rows

\* With no fault, and no retry while a job of the import is still at work, a row
\* creates at most one record, and the counts of an import that has ended are
\* those of what landed.
RowsLandOnce ==
  faults = 0 /\ ~raced =>
    /\ \A r \in Rows : made[r] <= 1
    /\ status \in Final => saved.counts.created = Cardinality({r \in Rows : made[r] = 1})

\* Once a cancellation is stored, a worker finishes at most the row it is at,
\* however many workers process the import.
CancelStops == late <= Cardinality(Workers)

\* No job is left that could process the import.
NoJobLeft == \A j \in Jobs : queue[j] \in {"absent", "succeeded", "failed"}

\* An import whose job was enqueued ends, unless a retry overlapped its
\* processing, or faults used up the attempts of its job or hit a retry between
\* its UPDATE and its enqueue: the import then stays as it is for good.
EventuallyEnds ==
  queue[0] # "absent" ~>
    \/ status \in Final \cup {"failed"}
    \/ raced
    \/ faults > 0 /\ NoJobLeft
=============================================================================
