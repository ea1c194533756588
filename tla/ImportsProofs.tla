--------------------------- MODULE ImportsProofs ----------------------------
(***************************************************************************)
(* Proofs about Imports for any file, options, batch, workers and requests. *)
(* Whoever stores a checkpoint has brought every row before it in, as long  *)
(* as its counts tell of no failed row; after a cancellation every worker   *)
(* writes one row at most; and without a fault and an overlapping retry the *)
(* counts are those of the records created.                                 *)
(***************************************************************************)
EXTENDS Imports, FiniteSetTheorems, TLAPS

\* Counts without a failure: every row up to c has landed.
Landed(n, c) == n.failed = 0 => 1..c \subseteq fine

SavedInv == Landed(saved.counts, saved.checkpoint)

\* What a worker has read of the import.
GotInv ==
  \A w \in Workers :
    pc[w] \in {"loaded", "validating"} =>
      Landed(got[w].progress.counts, got[w].progress.checkpoint)

\* What a worker has done since.
RunInv ==
  \A w \in Workers :
    /\ pc[w] \in {"stopping", "matched", "saving", "aborting"} => at[w] \in Rows
    /\ pc[w] \in {"row", "stopping", "matched", "saving", "aborting"} =>
         Landed(counts[w], at[w] - 1)
    /\ pc[w] = "saving" => Landed(counts[w], at[w])

\* What a worker reads of the import.
GotType == [cancel : BOOLEAN, status : Statuses, progress : ProgressType]

IInv == TypeOK /\ SavedInv /\ GotInv /\ RunInv /\ CompletedMeansAll

USE LastAssumption, FileAssumption, OptionsAssumption, BoundsAssumption DEF GotType

-----------------------------------------------------------------------------
(* The tables of the code. *)

Outcomes == {"created", "updated", "skipped", "failed"}

\* What is meant for a row is one of the outcomes.
LEMMA IntentType ==
  ASSUME opts \in Options, NEW found \in BOOLEAN
  PROVE  Intent(found) \in Outcomes
  <1>1. /\ opts.mode \in {"create", "update", "upsert"}
        /\ opts.policy \in {"fail", "skip", "update"}
    BY DEF OptionSet
  <1>2. CASE opts.mode = "create" /\ found
    BY <1>1, <1>2 DEF Intent, Outcomes
  <1>3. CASE opts.mode = "create" /\ ~found
    BY <1>3 DEF Intent, Outcomes
  <1>4. CASE opts.mode = "update" /\ found
    BY <1>4 DEF Intent, Outcomes
  <1>5. CASE opts.mode = "update" /\ ~found
    BY <1>5 DEF Intent, Outcomes
  <1>6. CASE opts.mode = "upsert" /\ found
    BY <1>6 DEF Intent, Outcomes
  <1>7. CASE opts.mode = "upsert" /\ ~found
    BY <1>7 DEF Intent, Outcomes
  <1> QED
    BY <1>1, <1>2, <1>3, <1>4, <1>5, <1>6, <1>7

\* So is what comes of it.
LEMMA OutcomeType ==
  ASSUME opts \in Options, NEW r \in Rows, NEW found \in BOOLEAN
  PROVE  Outcome(r, found) \in Outcomes
  BY IntentType DEF Outcome, Outcomes

\* "completed" is for an import without a failure.
LEMMA EndStatusType ==
  ASSUME NEW n \in CountsType
  PROVE  /\ EndStatus(n) \in {"completed", "completed_with_errors", "failed"}
         /\ EndStatus(n) = "completed" => n.failed = 0
  <1>1. n.failed \in Nat /\ n.created + n.updated \in Nat
    BY DEF CountsType
  <1>2. CASE n.failed > 0 /\ n.created + n.updated = 0
    BY <1>2 DEF EndStatus
  <1>3. CASE n.failed > 0 /\ n.created + n.updated > 0
    BY <1>1, <1>3 DEF EndStatus
  <1>4. CASE n.failed = 0
    BY <1>1, <1>4 DEF EndStatus
  <1> QED
    BY <1>1, <1>2, <1>3, <1>4

\* Counting one more outcome: failures are never forgotten.
LEMMA CountOne ==
  ASSUME NEW n \in CountsType, NEW o \in Outcomes, NEW m, m = [n EXCEPT ![o] = @ + 1]
  PROVE  /\ m \in CountsType
         /\ m.failed = 0 => n.failed = 0 /\ o # "failed"
  <1>1. CASE o = "created"
    BY <1>1 DEF CountsType
  <1>2. CASE o = "updated"
    BY <1>2 DEF CountsType
  <1>3. CASE o = "skipped"
    BY <1>3 DEF CountsType
  <1>4. CASE o = "failed"
    BY <1>4 DEF CountsType
  <1> QED
    BY <1>1, <1>2, <1>3, <1>4 DEF Outcomes

-----------------------------------------------------------------------------
(* Steps. *)

\* The invariant holds at first.
LEMMA InitStep == Init => IInv
  <1> SUFFICES ASSUME Init PROVE IInv
    OBVIOUS
  <1>1. NoCounts \in CountsType /\ saved \in ProgressType
    BY DEF Init, NoCounts, CountsType, ProgressType, Progress
  <1>2. Unread \in GotType
    BY <1>1 DEF Init, Unread, Statuses, Progress
  <1>3. TypeOK
    <2>1. /\ opts \in Options /\ status \in Statuses /\ cancel \in BOOLEAN
          /\ raced \in BOOLEAN /\ match \in [Workers -> BOOLEAN]
      BY DEF Init, Statuses
    <2>2. saved \in ProgressType /\ counts \in [Workers -> CountsType]
          /\ got \in [Workers -> GotType]
      BY <1>1, <1>2 DEF Init
    <2>3. held \in [Keys -> Nat]
      BY DEF Init
    <2>4. /\ at \in [Workers -> 1..(Last + 1)] /\ job \in [Workers -> Jobs]
          /\ made \in [Rows -> Nat] /\ fine \subseteq Rows
      BY DEF Init, Jobs
    <2>5. /\ pc \in [Workers -> WorkerPoints]
          /\ queue \in [Jobs -> {"absent", "pending", "running", "succeeded", "failed"}]
          /\ cpc \in [Callers -> {"idle", "submitted", "cancelling", "retrying", "queueing"}]
      BY DEF Init, WorkerPoints
    <2>6. /\ retries \in Nat /\ tries \in [Jobs -> Nat] /\ read \in [Callers -> Nat]
          /\ faults \in Nat /\ late \in Nat
      BY DEF Init
    <2> QED
      BY <2>1, <2>2, <2>3, <2>4, <2>5, <2>6 DEF TypeOK
  <1>4. SavedInv /\ GotInv /\ RunInv /\ CompletedMeansAll
    BY DEF Init, SavedInv, GotInv, RunInv, CompletedMeansAll, Landed, Progress, NoCounts
  <1> QED
    BY <1>3, <1>4 DEF IInv

\* A request touches neither the progress nor a worker, and completes nothing.
LEMMA RequestStep ==
  ASSUME IInv, NEW c \in Callers, Request(c) \/ RequestDies(c)
  PROVE  IInv'
  <1>1. /\ saved' = saved /\ pc' = pc /\ got' = got /\ at' = at /\ counts' = counts
        /\ fine' = fine /\ job' = job /\ match' = match /\ opts' = opts
    BY DEF Request, Submit, EnqueueFirst, CancelRead, CancelWrite, RetryRead, RetryWrite,
      RetryEnqueue, RequestDies, rowVars, queueVars, workerVars, callerVars, histVars
  <1>2. status' \in Statuses /\ (status' = "completed" => status = "completed")
    BY DEF IInv, TypeOK, Statuses, AfterCancel, Request, Submit, EnqueueFirst, CancelRead,
      CancelWrite, RetryRead, RetryWrite, RetryEnqueue, RequestDies, rowVars, queueVars,
      workerVars, callerVars, histVars
  <1>3. TypeOK'
    <2>1. queue' \in [Jobs -> {"absent", "pending", "running", "succeeded", "failed"}]
          /\ tries' \in [Jobs -> Nat]
      BY DEF IInv, TypeOK, Enqueue, Request, Submit, EnqueueFirst, CancelRead, CancelWrite,
        RetryRead, RetryWrite, RetryEnqueue, RequestDies, rowVars, queueVars
    <2>2. cpc' \in [Callers -> {"idle", "submitted", "cancelling", "retrying", "queueing"}]
          /\ read' \in [Callers -> Nat]
      BY DEF IInv, TypeOK, Step, Request, Submit, EnqueueFirst, CancelRead, CancelWrite,
        RetryRead, RetryWrite, RetryEnqueue, RequestDies
    <2>3. retries' \in Nat /\ held' \in [Keys -> Nat] /\ made' \in [Rows -> Nat]
      BY DEF IInv, TypeOK, Request, Submit, EnqueueFirst, CancelRead, CancelWrite,
        RetryRead, RetryWrite, RetryEnqueue, RequestDies, rowVars, histVars
    <2>5. faults' \in Nat /\ late' \in Nat
      BY DEF IInv, TypeOK, Fault, Request, Submit, EnqueueFirst, CancelRead, CancelWrite,
        RetryRead, RetryWrite, RetryEnqueue, RequestDies, rowVars, histVars
    <2>6. cancel' \in BOOLEAN
      BY DEF IInv, TypeOK, Request, Submit, EnqueueFirst, CancelRead, CancelWrite,
        RetryRead, RetryWrite, RetryEnqueue, RequestDies, rowVars, histVars
    <2>4. raced' \in BOOLEAN
      BY DEF IInv, TypeOK, Request, Submit, EnqueueFirst, CancelRead, CancelWrite,
        RetryRead, RetryWrite, RetryEnqueue, RequestDies, histVars
    <2> QED
      BY <1>1, <1>2, <2>1, <2>2, <2>3, <2>4, <2>5, <2>6 DEF IInv, TypeOK
  <1>4. SavedInv' /\ GotInv' /\ RunInv' /\ CompletedMeansAll'
    BY <1>1, <1>2 DEF IInv, SavedInv, GotInv, RunInv, CompletedMeansAll, Landed
  <1> QED
    BY <1>3, <1>4 DEF IInv

\* What it reads of the progress is the stored progress.
LEMMA ClaimStep ==
  ASSUME IInv, NEW w \in Workers, Claim(w)
  PROVE  IInv'
  <1>1. saved \in ProgressType /\ got \in [Workers -> GotType]
    BY DEF IInv, TypeOK
  <1>2. TypeOK'
    <2>1. /\ opts' \in Options
          /\ status' \in Statuses
          /\ cancel' \in BOOLEAN
          /\ retries' \in Nat
          /\ tries' \in [Jobs -> Nat]
          /\ faults' \in Nat
      BY <1>1 DEF IInv, TypeOK, Claim, rowVars, Statuses
    <2>2. saved' \in ProgressType
      BY <1>1 DEF IInv, TypeOK, Claim, rowVars, ProgressType, Progress
    <2>3. /\ cpc' \in [Callers -> {"idle", "submitted", "cancelling", "retrying", "queueing"}]
          /\ read' \in [Callers -> Nat]
          /\ held' \in [Keys -> Nat]
          /\ made' \in [Rows -> Nat]
          /\ fine' \subseteq Rows
          /\ late' \in Nat
          /\ raced' \in BOOLEAN
      BY <1>1 DEF IInv, TypeOK, Rows, Claim, callerVars, histVars
    <2>4. /\ queue' \in [Jobs -> {"absent", "pending", "running", "succeeded", "failed"}]
          /\ job' \in [Workers -> Jobs]
          /\ match' \in [Workers -> BOOLEAN]
      BY <1>1 DEF IInv, TypeOK, Claim, Jobs
    <2>5. pc' \in [Workers -> WorkerPoints]
      BY <1>1 DEF IInv, TypeOK, WorkerPoints, Claim, Goto
    <2>6. got' \in [Workers -> GotType]
      BY <1>1 DEF IInv, TypeOK, Claim
    <2>7. /\ at' \in [Workers -> 1..(Last + 1)]
          /\ counts' \in [Workers -> CountsType]
      BY <1>1 DEF IInv, TypeOK, Rows, Claim, Goto, RunInv, ProgressType
    <2> QED
      BY <2>1, <2>2, <2>3, <2>4, <2>5, <2>6, <2>7 DEF TypeOK
  <1>3. SavedInv'
    BY <1>1 DEF IInv, TypeOK, SavedInv, RunInv, Landed, Rows, Progress, ProgressType, Claim,
      rowVars, histVars
  <1>4. GotInv'
    BY <1>1 DEF IInv, TypeOK, SavedInv, GotInv, Landed, ProgressType, Claim, Goto, rowVars,
      histVars
  <1>5. RunInv'
    BY <1>1 DEF IInv, TypeOK, GotInv, RunInv, Landed, Rows, ProgressType, Claim, Goto, histVars
  <1>6. CompletedMeansAll'
    BY <1>1 DEF IInv, TypeOK, RunInv, CompletedMeansAll, Landed, Rows, Claim, rowVars, histVars
  <1> QED
    BY <1>2, <1>3, <1>4, <1>5, <1>6 DEF IInv

\* The import was cancelled before the worker began.
LEMMA MarkCancelledStep ==
  ASSUME IInv, NEW w \in Workers, MarkCancelled(w)
  PROVE  IInv'
  <1>1. /\ NoCounts \in CountsType
        /\ Unread \in GotType
    BY DEF NoCounts, Unread, CountsType, ProgressType, Progress, Statuses
  <1>2. TypeOK'
    <2>1. /\ opts' \in Options
          /\ status' \in Statuses
          /\ cancel' \in BOOLEAN
          /\ retries' \in Nat
          /\ tries' \in [Jobs -> Nat]
          /\ faults' \in Nat
      BY <1>1 DEF IInv, TypeOK, MarkCancelled, queueVars, Statuses
    <2>2. saved' \in ProgressType
      BY <1>1 DEF IInv, TypeOK, MarkCancelled, ProgressType, Progress
    <2>3. /\ cpc' \in [Callers -> {"idle", "submitted", "cancelling", "retrying", "queueing"}]
          /\ read' \in [Callers -> Nat]
          /\ held' \in [Keys -> Nat]
          /\ made' \in [Rows -> Nat]
          /\ fine' \subseteq Rows
          /\ late' \in Nat
          /\ raced' \in BOOLEAN
      BY <1>1 DEF IInv, TypeOK, Rows, MarkCancelled, callerVars, histVars
    <2>4. /\ queue' \in [Jobs -> {"absent", "pending", "running", "succeeded", "failed"}]
          /\ job' \in [Workers -> Jobs]
          /\ match' \in [Workers -> BOOLEAN]
      BY <1>1 DEF IInv, TypeOK, MarkCancelled, Return, Forget, queueVars, Jobs
    <2>5. pc' \in [Workers -> WorkerPoints]
      BY <1>1 DEF IInv, TypeOK, WorkerPoints, MarkCancelled, Return, Goto
    <2>6. got' \in [Workers -> GotType]
      BY <1>1 DEF IInv, TypeOK, MarkCancelled, Return, Forget
    <2>7. /\ at' \in [Workers -> 1..(Last + 1)]
          /\ counts' \in [Workers -> CountsType]
      BY <1>1 DEF IInv, TypeOK, Rows, MarkCancelled, Return, Goto, Forget, RunInv, ProgressType
    <2> QED
      BY <2>1, <2>2, <2>3, <2>4, <2>5, <2>6, <2>7 DEF TypeOK
  <1>3. SavedInv'
    BY <1>1 DEF IInv, TypeOK, SavedInv, RunInv, Landed, Rows, Progress, ProgressType,
      MarkCancelled, histVars
  <1>4. GotInv'
    BY <1>1 DEF IInv, TypeOK, SavedInv, GotInv, Landed, ProgressType, MarkCancelled, Return,
      Goto, Forget, histVars
  <1>5. RunInv'
    BY <1>1 DEF IInv, TypeOK, GotInv, RunInv, Landed, Rows, ProgressType, MarkCancelled,
      Return, Goto, Forget, histVars
  <1>6. CompletedMeansAll'
    BY <1>1 DEF IInv, TypeOK, RunInv, CompletedMeansAll, Landed, Rows, MarkCancelled, histVars
  <1> QED
    BY <1>2, <1>3, <1>4, <1>5, <1>6 DEF IInv

\* The import has ended.
LEMMA SkipEndedStep ==
  ASSUME IInv, NEW w \in Workers, SkipEnded(w)
  PROVE  IInv'
  <1>1. /\ NoCounts \in CountsType
        /\ Unread \in GotType
    BY DEF NoCounts, Unread, CountsType, ProgressType, Progress, Statuses
  <1>2. TypeOK'
    <2>1. /\ opts' \in Options
          /\ status' \in Statuses
          /\ cancel' \in BOOLEAN
          /\ retries' \in Nat
          /\ tries' \in [Jobs -> Nat]
          /\ faults' \in Nat
      BY <1>1 DEF IInv, TypeOK, SkipEnded, rowVars, queueVars, Statuses
    <2>2. saved' \in ProgressType
      BY <1>1 DEF IInv, TypeOK, SkipEnded, rowVars, ProgressType, Progress
    <2>3. /\ cpc' \in [Callers -> {"idle", "submitted", "cancelling", "retrying", "queueing"}]
          /\ read' \in [Callers -> Nat]
          /\ held' \in [Keys -> Nat]
          /\ made' \in [Rows -> Nat]
          /\ fine' \subseteq Rows
          /\ late' \in Nat
          /\ raced' \in BOOLEAN
      BY <1>1 DEF IInv, TypeOK, Rows, SkipEnded, callerVars, histVars
    <2>4. /\ queue' \in [Jobs -> {"absent", "pending", "running", "succeeded", "failed"}]
          /\ job' \in [Workers -> Jobs]
          /\ match' \in [Workers -> BOOLEAN]
      BY <1>1 DEF IInv, TypeOK, SkipEnded, Return, Forget, queueVars, Jobs
    <2>5. pc' \in [Workers -> WorkerPoints]
      BY <1>1 DEF IInv, TypeOK, WorkerPoints, SkipEnded, Return, Goto
    <2>6. got' \in [Workers -> GotType]
      BY <1>1 DEF IInv, TypeOK, SkipEnded, Return, Forget
    <2>7. /\ at' \in [Workers -> 1..(Last + 1)]
          /\ counts' \in [Workers -> CountsType]
      BY <1>1 DEF IInv, TypeOK, Rows, SkipEnded, Return, Goto, Forget, RunInv, ProgressType
    <2> QED
      BY <2>1, <2>2, <2>3, <2>4, <2>5, <2>6, <2>7 DEF TypeOK
  <1>3. SavedInv'
    BY <1>1 DEF IInv, TypeOK, SavedInv, RunInv, Landed, Rows, Progress, ProgressType,
      SkipEnded, rowVars, histVars
  <1>4. GotInv'
    BY <1>1 DEF IInv, TypeOK, SavedInv, GotInv, Landed, ProgressType, SkipEnded, Return,
      Goto, Forget, rowVars, histVars
  <1>5. RunInv'
    BY <1>1 DEF IInv, TypeOK, GotInv, RunInv, Landed, Rows, ProgressType, SkipEnded, Return,
      Goto, Forget, histVars
  <1>6. CompletedMeansAll'
    BY <1>1 DEF IInv, TypeOK, RunInv, CompletedMeansAll, Landed, Rows, SkipEnded, rowVars,
      histVars
  <1> QED
    BY <1>2, <1>3, <1>4, <1>5, <1>6 DEF IInv

\* The worker goes on with what it has read.
LEMMA ValidateStep ==
  ASSUME IInv, NEW w \in Workers, Validate(w)
  PROVE  IInv'
  <1>1. saved \in ProgressType /\ got \in [Workers -> GotType]
    BY DEF IInv, TypeOK
  <1>2. TypeOK'
    <2>1. /\ opts' \in Options
          /\ status' \in Statuses
          /\ cancel' \in BOOLEAN
          /\ retries' \in Nat
          /\ tries' \in [Jobs -> Nat]
          /\ faults' \in Nat
      BY <1>1 DEF IInv, TypeOK, Validate, queueVars, Statuses
    <2>2. saved' \in ProgressType
      BY <1>1 DEF IInv, TypeOK, Validate, ProgressType, Progress
    <2>3. /\ cpc' \in [Callers -> {"idle", "submitted", "cancelling", "retrying", "queueing"}]
          /\ read' \in [Callers -> Nat]
          /\ held' \in [Keys -> Nat]
          /\ made' \in [Rows -> Nat]
          /\ fine' \subseteq Rows
          /\ late' \in Nat
          /\ raced' \in BOOLEAN
      BY <1>1 DEF IInv, TypeOK, Rows, Validate, callerVars, histVars
    <2>4. /\ queue' \in [Jobs -> {"absent", "pending", "running", "succeeded", "failed"}]
          /\ job' \in [Workers -> Jobs]
          /\ match' \in [Workers -> BOOLEAN]
      BY <1>1 DEF IInv, TypeOK, Validate, queueVars, Jobs
    <2>5. pc' \in [Workers -> WorkerPoints]
      BY <1>1 DEF IInv, TypeOK, WorkerPoints, Validate, Goto
    <2>6. got' \in [Workers -> GotType]
      BY <1>1 DEF IInv, TypeOK, Validate
    <2>7. /\ at' \in [Workers -> 1..(Last + 1)]
          /\ counts' \in [Workers -> CountsType]
      BY <1>1 DEF IInv, TypeOK, Rows, Validate, Goto, RunInv, ProgressType
    <2> QED
      BY <2>1, <2>2, <2>3, <2>4, <2>5, <2>6, <2>7 DEF TypeOK
  <1>3. SavedInv'
    BY <1>1 DEF IInv, TypeOK, SavedInv, RunInv, Landed, Rows, Progress, ProgressType,
      Validate, histVars
  <1>4. GotInv'
    BY <1>1 DEF IInv, TypeOK, SavedInv, GotInv, Landed, ProgressType, Validate, Goto, histVars
  <1>5. RunInv'
    BY <1>1 DEF IInv, TypeOK, GotInv, RunInv, Landed, Rows, ProgressType, Validate, Goto,
      histVars
  <1>6. CompletedMeansAll'
    BY <1>1 DEF IInv, TypeOK, RunInv, CompletedMeansAll, Landed, Rows, Validate, histVars
  <1> QED
    BY <1>2, <1>3, <1>4, <1>5, <1>6 DEF IInv

\* The counts and the row it starts from are those it has read.
LEMMA StartRowsStep ==
  ASSUME IInv, NEW w \in Workers, StartRows(w)
  PROVE  IInv'
  <1>1. saved \in ProgressType /\ got \in [Workers -> GotType]
    BY DEF IInv, TypeOK
  <1>7. Unread \in GotType
    BY DEF NoCounts, Unread, CountsType, ProgressType, Progress, Statuses
  <1>2. TypeOK'
    <2>1. /\ opts' \in Options
          /\ status' \in Statuses
          /\ cancel' \in BOOLEAN
          /\ retries' \in Nat
          /\ tries' \in [Jobs -> Nat]
          /\ faults' \in Nat
      BY <1>1 DEF IInv, TypeOK, StartRows, FirstRow, StartCounts, queueVars, Statuses
    <2>2. saved' \in ProgressType
      BY <1>1 DEF IInv, TypeOK, StartRows, FirstRow, StartCounts, ProgressType, Progress
    <2>3. /\ cpc' \in [Callers -> {"idle", "submitted", "cancelling", "retrying", "queueing"}]
          /\ read' \in [Callers -> Nat]
          /\ held' \in [Keys -> Nat]
          /\ made' \in [Rows -> Nat]
          /\ fine' \subseteq Rows
          /\ late' \in Nat
          /\ raced' \in BOOLEAN
      BY <1>1 DEF IInv, TypeOK, Rows, StartRows, FirstRow, StartCounts, callerVars, histVars
    <2>4. /\ queue' \in [Jobs -> {"absent", "pending", "running", "succeeded", "failed"}]
          /\ job' \in [Workers -> Jobs]
          /\ match' \in [Workers -> BOOLEAN]
      BY <1>1 DEF IInv, TypeOK, StartRows, FirstRow, StartCounts, queueVars, Jobs
    <2>5. pc' \in [Workers -> WorkerPoints]
      BY <1>1 DEF IInv, TypeOK, WorkerPoints, StartRows, Goto, FirstRow, StartCounts
    <2>6. got' \in [Workers -> GotType]
      BY <1>1, <1>7 DEF IInv, TypeOK, StartRows, FirstRow, StartCounts
    <2>7. /\ at' \in [Workers -> 1..(Last + 1)]
          /\ counts' \in [Workers -> CountsType]
      BY <1>1 DEF IInv, TypeOK, Rows, StartRows, Goto, FirstRow, StartCounts, RunInv,
        ProgressType
    <2> QED
      BY <2>1, <2>2, <2>3, <2>4, <2>5, <2>6, <2>7 DEF TypeOK
  <1>3. SavedInv'
    BY <1>1 DEF IInv, TypeOK, SavedInv, RunInv, Landed, Rows, Progress, ProgressType,
      StartRows, FirstRow, StartCounts, histVars
  <1>4. GotInv'
    BY <1>1 DEF IInv, TypeOK, SavedInv, GotInv, Landed, ProgressType, StartRows, Goto,
      FirstRow, StartCounts, histVars
  <1>5. RunInv'
    BY <1>1 DEF IInv, TypeOK, GotInv, RunInv, Landed, Rows, ProgressType, StartRows, Goto,
      FirstRow, StartCounts, histVars
  <1>6. CompletedMeansAll'
    BY <1>1 DEF IInv, TypeOK, RunInv, CompletedMeansAll, Landed, Rows, StartRows, FirstRow,
      StartCounts, histVars
  <1> QED
    BY <1>2, <1>3, <1>4, <1>5, <1>6 DEF IInv

\* A row of the file is looked up.
LEMMA BeginRowStep ==
  ASSUME IInv, NEW w \in Workers, BeginRow(w)
  PROVE  IInv'
  <1>1. saved \in ProgressType /\ got \in [Workers -> GotType]
    BY DEF IInv, TypeOK
  <1>2. TypeOK'
    <2>1. /\ opts' \in Options
          /\ status' \in Statuses
          /\ cancel' \in BOOLEAN
          /\ retries' \in Nat
          /\ tries' \in [Jobs -> Nat]
          /\ faults' \in Nat
      BY <1>1 DEF IInv, TypeOK, BeginRow, SeesCancel, rowVars, queueVars, Statuses
    <2>2. saved' \in ProgressType
      BY <1>1 DEF IInv, TypeOK, BeginRow, SeesCancel, rowVars, ProgressType, Progress
    <2>3. /\ cpc' \in [Callers -> {"idle", "submitted", "cancelling", "retrying", "queueing"}]
          /\ read' \in [Callers -> Nat]
          /\ held' \in [Keys -> Nat]
          /\ made' \in [Rows -> Nat]
          /\ fine' \subseteq Rows
          /\ late' \in Nat
          /\ raced' \in BOOLEAN
      BY <1>1 DEF IInv, TypeOK, Rows, BeginRow, SeesCancel, callerVars, histVars
    <2>4. /\ queue' \in [Jobs -> {"absent", "pending", "running", "succeeded", "failed"}]
          /\ job' \in [Workers -> Jobs]
          /\ match' \in [Workers -> BOOLEAN]
      BY <1>1 DEF IInv, TypeOK, BeginRow, SeesCancel, queueVars, Jobs
    <2>5. pc' \in [Workers -> WorkerPoints]
      BY <1>1 DEF IInv, TypeOK, WorkerPoints, BeginRow, SeesCancel, Goto
    <2>6. got' \in [Workers -> GotType]
      BY <1>1 DEF IInv, TypeOK, BeginRow, SeesCancel
    <2>7. /\ at' \in [Workers -> 1..(Last + 1)]
          /\ counts' \in [Workers -> CountsType]
      BY <1>1 DEF IInv, TypeOK, Rows, BeginRow, SeesCancel, Goto, RunInv, ProgressType
    <2> QED
      BY <2>1, <2>2, <2>3, <2>4, <2>5, <2>6, <2>7 DEF TypeOK
  <1>3. SavedInv'
    BY <1>1 DEF IInv, TypeOK, SavedInv, RunInv, Landed, Rows, Progress, ProgressType,
      BeginRow, SeesCancel, rowVars, histVars
  <1>4. GotInv'
    BY <1>1 DEF IInv, TypeOK, SavedInv, GotInv, Landed, ProgressType, BeginRow, SeesCancel,
      Goto, rowVars, histVars
  <1>5. RunInv'
    BY <1>1 DEF IInv, TypeOK, GotInv, RunInv, Landed, Rows, ProgressType, BeginRow,
      SeesCancel, Goto, histVars
  <1>6. CompletedMeansAll'
    BY <1>1 DEF IInv, TypeOK, RunInv, CompletedMeansAll, Landed, Rows, BeginRow, SeesCancel,
      rowVars, histVars
  <1> QED
    BY <1>2, <1>3, <1>4, <1>5, <1>6 DEF IInv

\* The progress up to the row before is stored.
LEMMA StopStep ==
  ASSUME IInv, NEW w \in Workers, Stop(w)
  PROVE  IInv'
  <1>1. /\ NoCounts \in CountsType
        /\ Unread \in GotType
    BY DEF NoCounts, Unread, CountsType, ProgressType, Progress, Statuses
  <1>2. TypeOK'
    <2>1. /\ opts' \in Options
          /\ status' \in Statuses
          /\ cancel' \in BOOLEAN
          /\ retries' \in Nat
          /\ tries' \in [Jobs -> Nat]
          /\ faults' \in Nat
      BY <1>1 DEF IInv, TypeOK, Stop, Persist, queueVars, Statuses
    <2>2. saved' \in ProgressType
      BY <1>1 DEF IInv, TypeOK, Stop, Persist, ProgressType, Progress
    <2>3. /\ cpc' \in [Callers -> {"idle", "submitted", "cancelling", "retrying", "queueing"}]
          /\ read' \in [Callers -> Nat]
          /\ held' \in [Keys -> Nat]
          /\ made' \in [Rows -> Nat]
          /\ fine' \subseteq Rows
          /\ late' \in Nat
          /\ raced' \in BOOLEAN
      BY <1>1 DEF IInv, TypeOK, Rows, Stop, callerVars, histVars
    <2>4. /\ queue' \in [Jobs -> {"absent", "pending", "running", "succeeded", "failed"}]
          /\ job' \in [Workers -> Jobs]
          /\ match' \in [Workers -> BOOLEAN]
      BY <1>1 DEF IInv, TypeOK, Stop, Return, Forget, queueVars, Jobs
    <2>5. pc' \in [Workers -> WorkerPoints]
      BY <1>1 DEF IInv, TypeOK, WorkerPoints, Stop, Return, Goto
    <2>6. got' \in [Workers -> GotType]
      BY <1>1 DEF IInv, TypeOK, Stop, Return, Forget
    <2>7. /\ at' \in [Workers -> 1..(Last + 1)]
          /\ counts' \in [Workers -> CountsType]
      BY <1>1 DEF IInv, TypeOK, Rows, Stop, Return, Goto, Forget, RunInv, ProgressType
    <2> QED
      BY <2>1, <2>2, <2>3, <2>4, <2>5, <2>6, <2>7 DEF TypeOK
  <1>3. SavedInv'
    BY <1>1 DEF IInv, TypeOK, SavedInv, RunInv, Landed, Rows, Progress, ProgressType, Stop,
      Return, Goto, Persist, histVars
  <1>4. GotInv'
    BY <1>1 DEF IInv, TypeOK, SavedInv, GotInv, Landed, ProgressType, Stop, Return, Goto,
      Forget, Persist, histVars
  <1>5. RunInv'
    BY <1>1 DEF IInv, TypeOK, GotInv, RunInv, Landed, Rows, ProgressType, Stop, Return, Goto,
      Forget, histVars
  <1>6. CompletedMeansAll'
    BY <1>1 DEF IInv, TypeOK, RunInv, CompletedMeansAll, Landed, Rows, Stop, Persist, histVars
  <1> QED
    BY <1>2, <1>3, <1>4, <1>5, <1>6 DEF IInv

\* The progress up to this row is stored.
LEMMA SaveStep ==
  ASSUME IInv, NEW w \in Workers, Save(w)
  PROVE  IInv'
  <1>1. saved \in ProgressType /\ got \in [Workers -> GotType]
    BY DEF IInv, TypeOK
  <1>2. TypeOK'
    <2>1. /\ opts' \in Options
          /\ status' \in Statuses
          /\ cancel' \in BOOLEAN
          /\ retries' \in Nat
          /\ tries' \in [Jobs -> Nat]
          /\ faults' \in Nat
      BY <1>1 DEF IInv, TypeOK, Save, Persist, queueVars, Statuses
    <2>2. saved' \in ProgressType
      BY <1>1 DEF IInv, TypeOK, RunInv, Rows, Save, Goto, Persist, ProgressType, Progress
    <2>3. /\ cpc' \in [Callers -> {"idle", "submitted", "cancelling", "retrying", "queueing"}]
          /\ read' \in [Callers -> Nat]
          /\ held' \in [Keys -> Nat]
          /\ made' \in [Rows -> Nat]
          /\ fine' \subseteq Rows
          /\ late' \in Nat
          /\ raced' \in BOOLEAN
      BY <1>1 DEF IInv, TypeOK, Rows, Save, callerVars, histVars
    <2>4. /\ queue' \in [Jobs -> {"absent", "pending", "running", "succeeded", "failed"}]
          /\ job' \in [Workers -> Jobs]
          /\ match' \in [Workers -> BOOLEAN]
      BY <1>1 DEF IInv, TypeOK, Save, queueVars, Jobs
    <2>5. pc' \in [Workers -> WorkerPoints]
      BY <1>1 DEF IInv, TypeOK, WorkerPoints, Save, Goto
    <2>6. got' \in [Workers -> GotType]
      BY <1>1 DEF IInv, TypeOK, Save
    <2>7. /\ at' \in [Workers -> 1..(Last + 1)]
          /\ counts' \in [Workers -> CountsType]
      BY <1>1 DEF IInv, TypeOK, Rows, Save, Goto, RunInv, ProgressType
    <2> QED
      BY <2>1, <2>2, <2>3, <2>4, <2>5, <2>6, <2>7 DEF TypeOK
  <1>3. SavedInv'
    BY <1>1 DEF IInv, TypeOK, SavedInv, RunInv, Landed, Rows, Progress, ProgressType, Save,
      Goto, Persist, histVars
  <1>4. GotInv'
    BY <1>1 DEF IInv, TypeOK, SavedInv, GotInv, Landed, ProgressType, Save, Goto, Persist,
      histVars
  <1>5. RunInv'
    BY <1>1 DEF IInv, TypeOK, GotInv, RunInv, Landed, Rows, ProgressType, Save, Goto, histVars
  <1>6. CompletedMeansAll'
    BY <1>1 DEF IInv, TypeOK, RunInv, CompletedMeansAll, Landed, Rows, Save, Persist, histVars
  <1> QED
    BY <1>2, <1>3, <1>4, <1>5, <1>6 DEF IInv

\* The failing row is still to do.
LEMMA AbortStep ==
  ASSUME IInv, NEW w \in Workers, Abort(w)
  PROVE  IInv'
  <1>1. /\ NoCounts \in CountsType
        /\ Unread \in GotType
    BY DEF NoCounts, Unread, CountsType, ProgressType, Progress, Statuses
  <1>2. TypeOK'
    <2>1. /\ opts' \in Options
          /\ status' \in Statuses
          /\ cancel' \in BOOLEAN
          /\ retries' \in Nat
          /\ tries' \in [Jobs -> Nat]
          /\ faults' \in Nat
      BY <1>1 DEF IInv, TypeOK, Abort, Persist, queueVars, Statuses
    <2>2. saved' \in ProgressType
      BY <1>1 DEF IInv, TypeOK, Abort, Persist, ProgressType, Progress
    <2>3. /\ cpc' \in [Callers -> {"idle", "submitted", "cancelling", "retrying", "queueing"}]
          /\ read' \in [Callers -> Nat]
          /\ held' \in [Keys -> Nat]
          /\ made' \in [Rows -> Nat]
          /\ fine' \subseteq Rows
          /\ late' \in Nat
          /\ raced' \in BOOLEAN
      BY <1>1 DEF IInv, TypeOK, Rows, Abort, callerVars, histVars
    <2>4. /\ queue' \in [Jobs -> {"absent", "pending", "running", "succeeded", "failed"}]
          /\ job' \in [Workers -> Jobs]
          /\ match' \in [Workers -> BOOLEAN]
      BY <1>1 DEF IInv, TypeOK, Abort, Return, Forget, queueVars, Jobs
    <2>5. pc' \in [Workers -> WorkerPoints]
      BY <1>1 DEF IInv, TypeOK, WorkerPoints, Abort, Return, Goto
    <2>6. got' \in [Workers -> GotType]
      BY <1>1 DEF IInv, TypeOK, Abort, Return, Forget
    <2>7. /\ at' \in [Workers -> 1..(Last + 1)]
          /\ counts' \in [Workers -> CountsType]
      BY <1>1 DEF IInv, TypeOK, Rows, Abort, Return, Goto, Forget, RunInv, ProgressType
    <2> QED
      BY <2>1, <2>2, <2>3, <2>4, <2>5, <2>6, <2>7 DEF TypeOK
  <1>3. SavedInv'
    BY <1>1 DEF IInv, TypeOK, SavedInv, RunInv, Landed, Rows, Progress, ProgressType, Abort,
      Return, Goto, Persist, histVars
  <1>4. GotInv'
    BY <1>1 DEF IInv, TypeOK, SavedInv, GotInv, Landed, ProgressType, Abort, Return, Goto,
      Forget, Persist, histVars
  <1>5. RunInv'
    BY <1>1 DEF IInv, TypeOK, GotInv, RunInv, Landed, Rows, ProgressType, Abort, Return,
      Goto, Forget, histVars
  <1>6. CompletedMeansAll'
    BY <1>1 DEF IInv, TypeOK, RunInv, CompletedMeansAll, Landed, Rows, Abort, Persist, histVars
  <1> QED
    BY <1>2, <1>3, <1>4, <1>5, <1>6 DEF IInv

\* Every row has been processed: without a failure, every row has landed.
LEMMA FinishStep ==
  ASSUME IInv, NEW w \in Workers, Finish(w)
  PROVE  IInv'
  <1>1. /\ NoCounts \in CountsType
        /\ Unread \in GotType
    BY DEF NoCounts, Unread, CountsType, ProgressType, Progress, Statuses
  <1>7. at[w] - 1 = Last /\ Rows = 1..Last /\ counts[w] \in CountsType
    BY DEF IInv, TypeOK, Rows, Finish
  <1>8. saved' = Progress(Last, counts[w]) /\ fine' = fine /\ status' = EndStatus(counts[w])
    BY DEF Finish, Persist, histVars
  <1>9. Landed(counts[w], Last)
    BY <1>7 DEF IInv, RunInv, Finish, Return, Goto
  <1>2. TypeOK'
    <2>1. /\ opts' \in Options
          /\ status' \in Statuses
          /\ cancel' \in BOOLEAN
          /\ retries' \in Nat
          /\ tries' \in [Jobs -> Nat]
          /\ faults' \in Nat
      BY <1>1, EndStatusType DEF IInv, TypeOK, Finish, Persist, queueVars, Statuses
    <2>2. saved' \in ProgressType
      BY <1>1 DEF IInv, TypeOK, Finish, Persist, ProgressType, Progress
    <2>3. /\ cpc' \in [Callers -> {"idle", "submitted", "cancelling", "retrying", "queueing"}]
          /\ read' \in [Callers -> Nat]
          /\ held' \in [Keys -> Nat]
          /\ made' \in [Rows -> Nat]
          /\ fine' \subseteq Rows
          /\ late' \in Nat
          /\ raced' \in BOOLEAN
      BY <1>1 DEF IInv, TypeOK, Rows, Finish, callerVars, histVars
    <2>4. /\ queue' \in [Jobs -> {"absent", "pending", "running", "succeeded", "failed"}]
          /\ job' \in [Workers -> Jobs]
          /\ match' \in [Workers -> BOOLEAN]
      BY <1>1 DEF IInv, TypeOK, Finish, Return, Forget, queueVars, Jobs
    <2>5. pc' \in [Workers -> WorkerPoints]
      BY <1>1 DEF IInv, TypeOK, WorkerPoints, Finish, Return, Goto
    <2>6. got' \in [Workers -> GotType]
      BY <1>1 DEF IInv, TypeOK, Finish, Return, Forget
    <2>7. /\ at' \in [Workers -> 1..(Last + 1)]
          /\ counts' \in [Workers -> CountsType]
      BY <1>1 DEF IInv, TypeOK, Rows, Finish, Return, Goto, Forget, RunInv, ProgressType
    <2> QED
      BY <2>1, <2>2, <2>3, <2>4, <2>5, <2>6, <2>7 DEF TypeOK
  <1>3. SavedInv'
    BY <1>8, <1>9 DEF SavedInv, Landed, Progress
  <1>4. GotInv'
    BY <1>1 DEF IInv, TypeOK, SavedInv, GotInv, Landed, ProgressType, Finish, Return, Goto,
      Forget, Persist, histVars
  <1>5. RunInv'
    BY <1>1 DEF IInv, TypeOK, GotInv, RunInv, Landed, Rows, ProgressType, Finish, Return,
      Goto, Forget, histVars
  <1>6. CompletedMeansAll'
    BY <1>7, <1>8, <1>9, EndStatusType DEF IInv, TypeOK, CompletedMeansAll, Landed
  <1> QED
    BY <1>2, <1>3, <1>4, <1>5, <1>6 DEF IInv

\* The worker is idle again.
LEMMA ReportStep ==
  ASSUME IInv, NEW w \in Workers, Report(w)
  PROVE  IInv'
  <1>1. saved \in ProgressType /\ got \in [Workers -> GotType]
    BY DEF IInv, TypeOK
  <1>2. TypeOK'
    <2>1. /\ opts' \in Options
          /\ status' \in Statuses
          /\ cancel' \in BOOLEAN
          /\ retries' \in Nat
          /\ tries' \in [Jobs -> Nat]
          /\ faults' \in Nat
      BY <1>1 DEF IInv, TypeOK, Report, rowVars, Statuses
    <2>2. saved' \in ProgressType
      BY <1>1 DEF IInv, TypeOK, Report, rowVars, ProgressType, Progress
    <2>3. /\ cpc' \in [Callers -> {"idle", "submitted", "cancelling", "retrying", "queueing"}]
          /\ read' \in [Callers -> Nat]
          /\ held' \in [Keys -> Nat]
          /\ made' \in [Rows -> Nat]
          /\ fine' \subseteq Rows
          /\ late' \in Nat
          /\ raced' \in BOOLEAN
      BY <1>1 DEF IInv, TypeOK, Rows, Report, callerVars, histVars
    <2>4. /\ queue' \in [Jobs -> {"absent", "pending", "running", "succeeded", "failed"}]
          /\ job' \in [Workers -> Jobs]
          /\ match' \in [Workers -> BOOLEAN]
      BY <1>1 DEF IInv, TypeOK, Report, Jobs
    <2>5. pc' \in [Workers -> WorkerPoints]
      BY <1>1 DEF IInv, TypeOK, WorkerPoints, Report
    <2>6. got' \in [Workers -> GotType]
      BY <1>1 DEF IInv, TypeOK, Report
    <2>7. /\ at' \in [Workers -> 1..(Last + 1)]
          /\ counts' \in [Workers -> CountsType]
      BY <1>1 DEF IInv, TypeOK, Rows, Report, RunInv, ProgressType
    <2> QED
      BY <2>1, <2>2, <2>3, <2>4, <2>5, <2>6, <2>7 DEF TypeOK
  <1>3. SavedInv'
    BY <1>1 DEF IInv, TypeOK, SavedInv, RunInv, Landed, Rows, Progress, ProgressType, Report,
      rowVars, histVars
  <1>4. GotInv'
    BY <1>1 DEF IInv, TypeOK, SavedInv, GotInv, Landed, ProgressType, Report, rowVars, histVars
  <1>5. RunInv'
    BY <1>1 DEF IInv, TypeOK, GotInv, RunInv, Landed, Rows, ProgressType, Report, histVars
  <1>6. CompletedMeansAll'
    BY <1>1 DEF IInv, TypeOK, RunInv, CompletedMeansAll, Landed, Rows, Report, rowVars, histVars
  <1> QED
    BY <1>2, <1>3, <1>4, <1>5, <1>6 DEF IInv

\* A process has started.
LEMMA RestartStep ==
  ASSUME IInv, NEW w \in Workers, Restart(w)
  PROVE  IInv'
  <1>1. /\ NoCounts \in CountsType
        /\ Unread \in GotType
    BY DEF NoCounts, Unread, CountsType, ProgressType, Progress, Statuses
  <1>2. TypeOK'
    <2>1. /\ opts' \in Options
          /\ status' \in Statuses
          /\ cancel' \in BOOLEAN
          /\ retries' \in Nat
          /\ tries' \in [Jobs -> Nat]
          /\ faults' \in Nat
      BY <1>1 DEF IInv, TypeOK, Restart, Fault, rowVars, Statuses
    <2>2. saved' \in ProgressType
      BY <1>1 DEF IInv, TypeOK, Restart, rowVars, ProgressType, Progress
    <2>3. /\ cpc' \in [Callers -> {"idle", "submitted", "cancelling", "retrying", "queueing"}]
          /\ read' \in [Callers -> Nat]
          /\ held' \in [Keys -> Nat]
          /\ made' \in [Rows -> Nat]
          /\ fine' \subseteq Rows
          /\ late' \in Nat
          /\ raced' \in BOOLEAN
      BY <1>1 DEF IInv, TypeOK, Rows, Restart, callerVars, histVars
    <2>4. /\ queue' \in [Jobs -> {"absent", "pending", "running", "succeeded", "failed"}]
          /\ job' \in [Workers -> Jobs]
          /\ match' \in [Workers -> BOOLEAN]
      BY <1>1 DEF IInv, TypeOK, Restart, Forget, Jobs
    <2>5. pc' \in [Workers -> WorkerPoints]
      BY <1>1 DEF IInv, TypeOK, WorkerPoints, Restart
    <2>6. got' \in [Workers -> GotType]
      BY <1>1 DEF IInv, TypeOK, Restart, Forget
    <2>7. /\ at' \in [Workers -> 1..(Last + 1)]
          /\ counts' \in [Workers -> CountsType]
      BY <1>1 DEF IInv, TypeOK, Rows, Restart, Forget, RunInv, ProgressType
    <2> QED
      BY <2>1, <2>2, <2>3, <2>4, <2>5, <2>6, <2>7 DEF TypeOK
  <1>3. SavedInv'
    BY <1>1 DEF IInv, TypeOK, SavedInv, RunInv, Landed, Rows, Progress, ProgressType,
      Restart, rowVars, histVars
  <1>4. GotInv'
    BY <1>1 DEF IInv, TypeOK, SavedInv, GotInv, Landed, ProgressType, Restart, Forget,
      rowVars, histVars
  <1>5. RunInv'
    BY <1>1 DEF IInv, TypeOK, GotInv, RunInv, Landed, Rows, ProgressType, Restart, Forget,
      histVars
  <1>6. CompletedMeansAll'
    BY <1>1 DEF IInv, TypeOK, RunInv, CompletedMeansAll, Landed, Rows, Restart, rowVars,
      histVars
  <1> QED
    BY <1>2, <1>3, <1>4, <1>5, <1>6 DEF IInv

\* The handler returns an error.
LEMMA StatementFailsStep ==
  ASSUME IInv, NEW w \in Workers, StatementFails(w)
  PROVE  IInv'
  <1>1. /\ NoCounts \in CountsType
        /\ Unread \in GotType
    BY DEF NoCounts, Unread, CountsType, ProgressType, Progress, Statuses
  <1>2. TypeOK'
    <2>1. /\ opts' \in Options
          /\ status' \in Statuses
          /\ cancel' \in BOOLEAN
          /\ retries' \in Nat
          /\ tries' \in [Jobs -> Nat]
          /\ faults' \in Nat
      BY <1>1 DEF IInv, TypeOK, StatementFails, Fault, rowVars, queueVars, Statuses
    <2>2. saved' \in ProgressType
      BY <1>1 DEF IInv, TypeOK, StatementFails, rowVars, ProgressType, Progress
    <2>3. /\ cpc' \in [Callers -> {"idle", "submitted", "cancelling", "retrying", "queueing"}]
          /\ read' \in [Callers -> Nat]
          /\ held' \in [Keys -> Nat]
          /\ made' \in [Rows -> Nat]
          /\ fine' \subseteq Rows
          /\ late' \in Nat
          /\ raced' \in BOOLEAN
      BY <1>1 DEF IInv, TypeOK, Rows, StatementFails, callerVars, histVars
    <2>4. /\ queue' \in [Jobs -> {"absent", "pending", "running", "succeeded", "failed"}]
          /\ job' \in [Workers -> Jobs]
          /\ match' \in [Workers -> BOOLEAN]
      BY <1>1 DEF IInv, TypeOK, StatementFails, Forget, queueVars, Jobs
    <2>5. pc' \in [Workers -> WorkerPoints]
      BY <1>1 DEF IInv, TypeOK, WorkerPoints, StatementFails
    <2>6. got' \in [Workers -> GotType]
      BY <1>1 DEF IInv, TypeOK, StatementFails, Forget
    <2>7. /\ at' \in [Workers -> 1..(Last + 1)]
          /\ counts' \in [Workers -> CountsType]
      BY <1>1 DEF IInv, TypeOK, Rows, StatementFails, Forget, RunInv, ProgressType
    <2> QED
      BY <2>1, <2>2, <2>3, <2>4, <2>5, <2>6, <2>7 DEF TypeOK
  <1>3. SavedInv'
    BY <1>1 DEF IInv, TypeOK, SavedInv, RunInv, Landed, Rows, Progress, ProgressType,
      StatementFails, rowVars, histVars
  <1>4. GotInv'
    BY <1>1 DEF IInv, TypeOK, SavedInv, GotInv, Landed, ProgressType, StatementFails, Forget,
      rowVars, histVars
  <1>5. RunInv'
    BY <1>1 DEF IInv, TypeOK, GotInv, RunInv, Landed, Rows, ProgressType, StatementFails,
      Forget, histVars
  <1>6. CompletedMeansAll'
    BY <1>1 DEF IInv, TypeOK, RunInv, CompletedMeansAll, Landed, Rows, StatementFails,
      rowVars, histVars
  <1> QED
    BY <1>2, <1>3, <1>4, <1>5, <1>6 DEF IInv

\* A row is written: it has landed, or its counts say that it failed.
LEMMA WriteRowStep ==
  ASSUME IInv, NEW w \in Workers, WriteRow(w)
  PROVE  IInv'
  <1> DEFINE r == at[w]
             o == Outcome(r, match[w])
             next == NextStop(w, o)
             m == [counts[w] EXCEPT ![o] = @ + 1]
  <1>1. r \in Rows /\ o \in Outcomes /\ match[w] \in BOOLEAN
    BY OutcomeType DEF IInv, TypeOK, RunInv, WriteRow, Goto
  <1>2. next \in {"aborting", "saving", "row"} /\ (next = "aborting" => o = "failed")
    BY DEF NextStop
  <1>3. m \in CountsType /\ (m.failed = 0 => counts[w].failed = 0 /\ o # "failed")
    BY <1>1, CountOne DEF IInv, TypeOK
  <1>4. /\ pc[w] = "matched" /\ pc' = [pc EXCEPT ![w] = next]
        /\ at' = [at EXCEPT ![w] = IF next = "row" THEN @ + 1 ELSE @]
        /\ held' = [held EXCEPT ![KeyOf[r]] = IF o = "created" THEN @ + 1 ELSE @]
        /\ made' = [made EXCEPT ![r] = IF o = "created" THEN @ + 1 ELSE @]
        /\ fine' = (IF o = "failed" THEN fine ELSE fine \cup {r})
        /\ late' = (IF cancel /\ o \in {"created", "updated"} THEN late + 1 ELSE late)
        /\ match' = [match EXCEPT ![w] = FALSE]
        /\ UNCHANGED <<rowVars, queueVars, job, got, callerVars, faults, raced>>
    BY DEF WriteRow, Goto
  <1>5. counts' = [counts EXCEPT ![w] = m]
    BY <1>1 DEF WriteRow, IInv, TypeOK
  <1>6. r = at[w] /\ r \in Nat \ {0} /\ Rows = 1..Last
    BY <1>1 DEF Rows
  <1>7. counts[w].failed = 0 => 1..(r - 1) \subseteq fine
    BY <1>4, <1>6 DEF IInv, RunInv, Landed
  <1> HIDE DEF r, o, next, m
  <1>8. fine \subseteq fine' /\ (o # "failed" => r \in fine')
    BY <1>4
  <1>9. m.failed = 0 => 1..r \subseteq fine'
    BY <1>3, <1>6, <1>7, <1>8
  <1>10. TypeOK'
    <2>1. /\ opts' \in Options /\ status' \in Statuses /\ cancel' \in BOOLEAN
          /\ saved' \in ProgressType /\ retries' \in Nat
      BY <1>4 DEF IInv, TypeOK, rowVars
    <2>2. /\ queue' \in [Jobs -> {"absent", "pending", "running", "succeeded", "failed"}]
          /\ tries' \in [Jobs -> Nat] /\ job' \in [Workers -> Jobs] /\ faults' \in Nat
          /\ got' \in [Workers -> GotType]
      BY <1>4 DEF IInv, TypeOK, queueVars
    <2>3. /\ cpc' \in [Callers -> {"idle", "submitted", "cancelling", "retrying", "queueing"}]
          /\ read' \in [Callers -> Nat] /\ raced' \in BOOLEAN
      BY <1>4 DEF IInv, TypeOK, callerVars
    <2>4. pc' \in [Workers -> WorkerPoints] /\ match' \in [Workers -> BOOLEAN]
      BY <1>2, <1>4 DEF IInv, TypeOK, WorkerPoints
    <2>5. at' \in [Workers -> 1..(Last + 1)]
      BY <1>1, <1>4, <1>6 DEF IInv, TypeOK
    <2>6. counts' \in [Workers -> CountsType]
      BY <1>3, <1>5 DEF IInv, TypeOK
    <2>7. held' \in [Keys -> Nat] /\ made' \in [Rows -> Nat]
      BY <1>1, <1>4 DEF IInv, TypeOK
    <2>8. fine' \subseteq Rows /\ late' \in Nat
      BY <1>1, <1>4 DEF IInv, TypeOK
    <2> QED
      BY <2>1, <2>2, <2>3, <2>4, <2>5, <2>6, <2>7, <2>8 DEF TypeOK
  <1>11. SavedInv'
    BY <1>4, <1>8 DEF IInv, SavedInv, Landed, rowVars
  <1>12. GotInv'
    BY <1>2, <1>4, <1>8 DEF IInv, TypeOK, GotInv, Landed
  <1>13. RunInv'
    <2> SUFFICES ASSUME NEW v \in Workers
                 PROVE
                   /\ pc'[v] \in {"stopping", "matched", "saving", "aborting"} => at'[v] \in Rows
                   /\ pc'[v] \in {"row", "stopping", "matched", "saving", "aborting"} =>
                        (counts'[v].failed = 0 => 1..(at'[v] - 1) \subseteq fine')
                   /\ pc'[v] = "saving" => (counts'[v].failed = 0 => 1..at'[v] \subseteq fine')
      BY DEF RunInv, Landed
    <2>1. CASE v # w
      <3>1. pc'[v] = pc[v] /\ at'[v] = at[v] /\ counts'[v] = counts[v]
        BY <1>4, <1>5, <2>1 DEF IInv, TypeOK
      <3> QED
        BY <3>1, <1>8 DEF IInv, RunInv, Landed
    <2>2. CASE v = w
      <3>1. /\ pc'[v] = next /\ counts'[v] = m
            /\ at'[v] = IF next = "row" THEN r + 1 ELSE r
        BY <1>4, <1>5, <1>6, <2>2 DEF IInv, TypeOK
      <3>2. 1..(r - 1) \subseteq 1..r /\ (r + 1) - 1 = r
        BY <1>6
      <3> QED
        BY <3>1, <3>2, <1>1, <1>2, <1>9
    <2> QED
      BY <2>1, <2>2
  <1>14. CompletedMeansAll'
    BY <1>4, <1>8, <1>10 DEF IInv, TypeOK, CompletedMeansAll, rowVars
  <1> QED
    BY <1>10, <1>11, <1>12, <1>13, <1>14 DEF IInv

\* Every step preserves the invariant.
LEMMA NextStep == IInv /\ [Next]_vars => IInv'
  <1> SUFFICES ASSUME IInv, [Next]_vars PROVE IInv'
    OBVIOUS
  <1>1. ASSUME NEW c \in Callers, Request(c) \/ RequestDies(c) PROVE IInv'
    BY <1>1, RequestStep
  <1>2. ASSUME NEW w \in Workers, Process(w) PROVE IInv'
    BY <1>2, ClaimStep, MarkCancelledStep, SkipEndedStep, ValidateStep, StartRowsStep,
      BeginRowStep, StopStep, WriteRowStep, SaveStep, AbortStep, FinishStep, ReportStep
      DEF Process
  <1>3. ASSUME NEW w \in Workers, Restart(w) \/ StatementFails(w) PROVE IInv'
    BY <1>3, RestartStep, StatementFailsStep
  <1>4. CASE UNCHANGED vars
    BY <1>4 DEF vars, rowVars, queueVars, workerVars, callerVars, histVars, IInv, TypeOK,
      SavedInv, GotInv, RunInv, CompletedMeansAll, Landed
  <1> QED
    BY <1>1, <1>2, <1>3, <1>4 DEF Next

\* Every variable keeps its type, whatever the file, the options and the workers:
\* a worker's row never leaves the file.
THEOREM TypeCorrect == Spec => []TypeOK
  <1>1. Init => IInv
    BY InitStep
  <1>2. IInv /\ [Next]_vars => IInv'
    BY NextStep
  <1>3. IInv => TypeOK
    BY DEF IInv
  <1> QED
    BY <1>1, <1>2, <1>3, PTL DEF Spec

\* An import that says "completed" has brought in every row of its file, for any
\* number of workers on the same import, of crashes, retries and failing statements.
THEOREM CompleteImportsLanded == Spec => []CompletedMeansAll
  <1>1. Init => IInv
    BY InitStep
  <1>2. IInv /\ [Next]_vars => IInv'
    BY NextStep
  <1>3. IInv => CompletedMeansAll
    BY DEF IInv
  <1> QED
    BY <1>1, <1>2, <1>3, PTL DEF Spec

-----------------------------------------------------------------------------
(* Cancelling. *)

\* The workers that may still write a row after a cancellation.
Matched == {w \in Workers : pc[w] = "matched"}

LateInv ==
  /\ cancel => late + Cardinality(Matched) <= Cardinality(Workers)
  /\ ~cancel => late = 0

\* Workers are finitely many.
LEMMA MatchedFinite ==
  /\ IsFiniteSet(Matched) /\ IsFiniteSet(Matched')
  /\ Cardinality(Matched) \in Nat /\ Cardinality(Matched') \in Nat
  /\ Cardinality(Workers) \in Nat
  /\ Cardinality(Matched) <= Cardinality(Workers)
  /\ Cardinality(Matched') <= Cardinality(Workers)
  <1>1. Matched \subseteq Workers /\ Matched' \subseteq Workers
    BY DEF Matched
  <1> QED
    BY <1>1, WorkersAssumption, FS_Subset, FS_CardinalityType

\* A step that brings no worker to the point before a row's write.
LEMMA LateKept ==
  ASSUME LateInv, TypeOK, Matched' \subseteq Matched, late' = late, cancel' = cancel
  PROVE  LateInv'
  <1>1. Cardinality(Matched') <= Cardinality(Matched)
    BY MatchedFinite, FS_Subset
  <1> QED
    BY <1>1, MatchedFinite DEF LateInv, TypeOK

\* A cancellation may be stored while every worker is about to write its row; a retry
\* takes it back.
LEMMA LateRequest ==
  ASSUME LateInv, TypeOK, NEW c \in Callers, Request(c) \/ RequestDies(c)
  PROVE  LateInv'
  <1>1. Matched' = Matched
    BY DEF Matched, Request, Submit, EnqueueFirst, CancelRead, CancelWrite, RetryRead,
      RetryWrite, RetryEnqueue, RequestDies, workerVars
  <1>2. CASE CancelWrite(c)
    BY <1>1, <1>2, MatchedFinite DEF CancelWrite, LateInv, TypeOK, histVars
  <1>3. CASE RetryWrite(c)
    BY <1>3 DEF RetryWrite, LateInv
  <1>4. CASE ~CancelWrite(c) /\ ~RetryWrite(c)
    <2>1. late' = late /\ cancel' = cancel
      BY <1>4 DEF Request, Submit, EnqueueFirst, CancelRead, RetryRead, RetryEnqueue,
        RequestDies, rowVars, histVars
    <2> QED
      BY <1>1, <2>1, LateKept
  <1> QED
    BY <1>2, <1>3, <1>4

\* Only BeginRow brings a worker there, and it looks at the flag first.
LEMMA LateWorker ==
  ASSUME LateInv, TypeOK, NEW w \in Workers, Process(w) \/ Restart(w) \/ StatementFails(w)
  PROVE  LateInv'
  <1>1. CASE BeginRow(w)
    <2>1. late' = late /\ cancel' = cancel
      BY <1>1 DEF BeginRow, rowVars, histVars
    <2>2. CASE cancel
      <3>1. Matched' \subseteq Matched
        BY <1>1, <2>2 DEF BeginRow, Goto, SeesCancel, Matched, TypeOK
      <3> QED
        BY <2>1, <3>1, LateKept
    <2>3. CASE ~cancel
      BY <2>1, <2>3 DEF LateInv
    <2> QED
      BY <2>2, <2>3
  <1>2. CASE WriteRow(w)
    <2>1. w \in Matched /\ Matched' = Matched \ {w} /\ cancel' = cancel
      BY <1>2 DEF WriteRow, Goto, NextStop, Matched, TypeOK, rowVars
    <2>2. Cardinality(Matched') = Cardinality(Matched) - 1
      BY <2>1, MatchedFinite, FS_RemoveElement
    <2>3. late' \in {late, late + 1} /\ (~cancel => late' = late)
      BY <1>2 DEF WriteRow
    <2> QED
      BY <2>1, <2>2, <2>3, MatchedFinite DEF LateInv, TypeOK
  <1>3. CASE ~BeginRow(w) /\ ~WriteRow(w)
    <2>1. late' = late /\ cancel' = cancel
      BY <1>3 DEF Process, Claim, MarkCancelled, SkipEnded, Validate, StartRows, Stop, Save, Abort,
        Finish, Persist, Report, Restart, StatementFails, rowVars, histVars
    <2>2. Matched' \subseteq Matched
      BY <1>3 DEF Matched, TypeOK, Process, Claim, MarkCancelled, SkipEnded, Validate, StartRows,
        Stop, Save, Abort, Finish, Report, Restart, StatementFails, Return, Goto
    <2> QED
      BY <2>1, <2>2, LateKept
  <1> QED
    BY <1>1, <1>2, <1>3

\* Every step keeps the bound.
LEMMA LateStep == TypeOK /\ LateInv /\ [Next]_vars => LateInv'
  <1> SUFFICES ASSUME TypeOK, LateInv, [Next]_vars PROVE LateInv'
    OBVIOUS
  <1>1. CASE UNCHANGED vars
    BY <1>1, LateKept DEF vars, rowVars, workerVars, histVars, Matched
  <1> QED
    BY <1>1, LateRequest, LateWorker DEF Next

\* Once a cancellation is stored each worker finishes at most the row it is at: for any
\* number of workers, of rows and of requests that cancel and retry.
THEOREM CancelsInTime == Spec => []CancelStops
  <1>1. Init => LateInv
    BY DEF Init, LateInv
  <1>2. TypeOK /\ LateInv /\ [Next]_vars => LateInv'
    BY LateStep
  <1>3. TypeOK /\ LateInv => CancelStops
    BY MatchedFinite DEF LateInv, CancelStops, TypeOK
  <1> QED
    BY <1>1, <1>2, <1>3, TypeCorrect, PTL DEF Spec

-----------------------------------------------------------------------------
(* Without a fault, and without a retry that overlaps the processing, one    *)
(* job of the import at most is pending or at work.                          *)

Clean == faults = 0 /\ ~raced

Busy(w) == pc[w] \notin {"idle", "ok"}

\* The job that a retry will enqueue does not exist yet.
Missing(c) == queue[read[c] + 1] = "absent"

\* Before its row exists nothing happens to the import.
NoneYet ==
  status = "none" =>
    /\ \A j \in Jobs : queue[j] = "absent"
    /\ \A w \in Workers : pc[w] = "idle"
    /\ \A c \in Callers : cpc[c] = "idle"

\* The jobs of the queue have the keys of the retries.
Reads == \A c \in Callers : cpc[c] \in {"retrying", "queueing"} => read[c] + 1 \in Jobs

OneAlive ==
  /\ \A i, j \in Jobs : queue[i] = "pending" /\ queue[j] = "pending" => i = j
  /\ \A j \in Jobs, w \in Workers : queue[j] = "pending" => ~Busy(w)
  /\ \A w, v \in Workers : Busy(w) /\ Busy(v) => w = v

\* A submission that has not enqueued its job is alone.
Submitting ==
  \A c \in Callers : cpc[c] = "submitted" =>
    /\ \A j \in Jobs : queue[j] = "absent"
    /\ \A w \in Workers : pc[w] = "idle"
    /\ \A d \in Callers : cpc[d] \notin {"retrying", "queueing"}
    /\ \A d \in Callers : cpc[d] = "submitted" => d = c
    /\ status \in {"pending", "cancelled"}

\* While a retry that will enqueue a job is under way nothing else is alive; others
\* that will enqueue one have read the same retry_count.
Retrying ==
  \A c \in Callers : cpc[c] = "retrying" /\ Missing(c) =>
    /\ ~Alive
    /\ status = "failed" => read[c] = retries
    /\ \A d \in Callers : cpc[d] = "queueing" /\ Missing(d) => read[d] = read[c]

Queueing ==
  \A c \in Callers : cpc[c] = "queueing" /\ Missing(c) =>
    /\ ~Alive
    /\ status \in {"pending", "cancelled"}
    /\ \A d \in Callers : cpc[d] = "queueing" /\ Missing(d) => d = c

Tokens == NoneYet /\ Reads /\ (Clean => OneAlive /\ Submitting /\ Retrying /\ Queueing)

\* A submission stores the import.
LEMMA SubmitTokens ==
  ASSUME TypeOK, Tokens, NEW c \in Callers, Submit(c)
  PROVE  Tokens'
  BY DEF TypeOK, Tokens, NoneYet, Reads, Clean, OneAlive, Submitting, Retrying, Queueing, Missing,
    Alive, Busy, Submit, Step, queueVars, workerVars, histVars

\* ... and enqueues its job, alone so far.
LEMMA EnqueueFirstTokens ==
  ASSUME TypeOK, Tokens, NEW c \in Callers, EnqueueFirst(c)
  PROVE  Tokens'
  <1>1. 0 \in Jobs
    BY DEF Jobs
  <1>2. /\ cpc[c] = "submitted" /\ cpc' = [cpc EXCEPT ![c] = "idle"]
        /\ queue' = [queue EXCEPT ![0] = IF @ = "absent" THEN "pending" ELSE @]
        /\ pc' = pc /\ read' = read /\ retries' = retries /\ status' = status
        /\ faults' = faults /\ raced' = raced
    BY DEF EnqueueFirst, Step, Enqueue, rowVars, workerVars, histVars
  <1> QED
    BY <1>1, <1>2 DEF TypeOK, Tokens, NoneYet, Reads, Clean, OneAlive, Submitting, Retrying,
      Queueing,
      Missing, Alive, Busy

\* A cancellation moves no job.
LEMMA CancelTokens ==
  ASSUME TypeOK, Tokens, NEW c \in Callers, CancelRead(c) \/ CancelWrite(c)
  PROVE  Tokens'
  <1>1. /\ cpc[c] \in {"idle", "cancelling"} /\ cpc'[c] \in {"idle", "cancelling"}
        /\ \A d \in Callers : d # c => cpc'[d] = cpc[d]
    BY DEF CancelRead, CancelWrite, Step, TypeOK
  <1>3. status # "none"
    BY DEF CancelRead, CancelWrite, Step, Tokens, NoneYet
  <1>4. \/ status' = status
        \/ status = "pending" /\ status' = "cancelled"
    BY DEF CancelRead, CancelWrite, AfterCancel, rowVars
  <1>2. /\ queue' = queue /\ pc' = pc /\ read' = read /\ retries' = retries
        /\ faults' = faults /\ raced' = raced
    BY DEF CancelRead, CancelWrite, rowVars, queueVars, workerVars, histVars
  <1>5. NoneYet' /\ Reads'
    BY <1>1, <1>2, <1>3, <1>4 DEF Tokens, NoneYet, Reads
  <1>6. ASSUME Clean'
        PROVE  OneAlive' /\ Submitting' /\ Retrying' /\ Queueing'
    <2>1. OneAlive /\ Submitting /\ Retrying /\ Queueing
      BY <1>2, <1>6 DEF Tokens, Clean
    <2>2. \A d \in Callers : Missing(d)' <=> Missing(d)
      BY <1>2 DEF Missing
    <2>3. Alive' <=> Alive
      BY <1>2 DEF Alive
    <2>4. OneAlive'
      BY <1>2, <2>1 DEF OneAlive, Busy
    <2>5. Submitting'
      BY <1>1, <1>2, <1>4, <2>1 DEF Submitting
    <2>6. Retrying'
      BY <1>1, <1>2, <1>4, <2>1, <2>2, <2>3 DEF Retrying
    <2>7. Queueing'
      BY <1>1, <1>2, <1>4, <2>1, <2>2, <2>3 DEF Queueing
    <2> QED
      BY <2>4, <2>5, <2>6, <2>7
  <1> QED
    BY <1>5, <1>6 DEF Tokens

\* A retry that reads "failed" while a job is alive is raced; others then find none alive.
LEMMA RetryReadTokens ==
  ASSUME TypeOK, Tokens, NEW c \in Callers, RetryRead(c)
  PROVE  Tokens'
  <1>1. /\ cpc[c] = "idle" /\ cpc' = [cpc EXCEPT ![c] = "retrying"]
        /\ read' = [read EXCEPT ![c] = retries]
        /\ status = "failed" /\ status' = status
        /\ retries + 1 \in Jobs
        /\ queue' = queue /\ pc' = pc /\ retries' = retries
        /\ faults' = faults /\ (raced' = (raced \/ Alive))
    BY DEF RetryRead, Step, TypeOK, Jobs, rowVars, queueVars, workerVars
  <1>2. NoneYet' /\ Reads'
    BY <1>1 DEF TypeOK, Tokens, NoneYet, Reads
  <1> SUFFICES ASSUME Clean' PROVE OneAlive' /\ Submitting' /\ Retrying' /\ Queueing'
    BY <1>2 DEF Tokens
  <1>3. Clean /\ ~Alive /\ ~Alive'
    BY <1>1 DEF Clean, TypeOK, Alive
  <1>4. OneAlive' /\ Submitting'
    BY <1>1, <1>3 DEF TypeOK, Tokens, OneAlive, Submitting, Busy
  <1>5. Retrying'
    BY <1>1, <1>3 DEF TypeOK, Tokens, Retrying, Queueing, Missing
  <1>6. Queueing'
    BY <1>1, <1>3 DEF TypeOK, Tokens, Queueing, Missing
  <1> QED
    BY <1>4, <1>5, <1>6

\* It is not raced only if the status still says "failed": nobody else is about to enqueue.
LEMMA RetryWriteTokens ==
  ASSUME TypeOK, Tokens, NEW c \in Callers, RetryWrite(c)
  PROVE  Tokens'
  <1>1. /\ cpc[c] = "retrying" /\ cpc' = [cpc EXCEPT ![c] = "queueing"]
        /\ status' = "pending" /\ read' = read
        /\ queue' = queue /\ pc' = pc
        /\ faults' = faults /\ (raced' = (raced \/ status # "failed"))
    BY DEF RetryWrite, Step, queueVars, workerVars
  <1>2. NoneYet' /\ Reads'
    BY <1>1 DEF TypeOK, Tokens, NoneYet, Reads
  <1> SUFFICES ASSUME Clean' PROVE OneAlive' /\ Submitting' /\ Retrying' /\ Queueing'
    BY <1>2 DEF Tokens
  <1>3. Clean /\ status = "failed" /\ Alive' = Alive
    BY <1>1 DEF Clean, TypeOK, Alive
  <1>4. OneAlive' /\ Submitting'
    BY <1>1, <1>3 DEF TypeOK, Tokens, OneAlive, Submitting, Busy
  <1>5. Retrying'
    BY <1>1, <1>3 DEF TypeOK, Tokens, Retrying, Missing
  <1>6. Queueing'
    BY <1>1, <1>3 DEF TypeOK, Tokens, Retrying, Queueing, Missing
  <1> QED
    BY <1>4, <1>5, <1>6

\* An enqueue that adds a job finds none alive.
LEMMA RetryEnqueueTokens ==
  ASSUME TypeOK, Tokens, NEW c \in Callers, RetryEnqueue(c)
  PROVE  Tokens'
  <1> DEFINE n == read[c] + 1
  <1>1. /\ cpc[c] = "queueing" /\ cpc' = [cpc EXCEPT ![c] = "idle"]
        /\ queue' = [queue EXCEPT ![n] = IF @ = "absent" THEN "pending" ELSE @]
        /\ pc' = pc /\ read' = [read EXCEPT ![c] = 0] /\ retries' = retries /\ status' = status
        /\ faults' = faults /\ raced' = raced
    BY DEF RetryEnqueue, Step, Enqueue, rowVars, workerVars, histVars
  <1>2. n \in Jobs
    BY <1>1 DEF Tokens, Reads
  <1>3. status # "none"
    BY <1>1 DEF Tokens, NoneYet
  <1>4. NoneYet' /\ Reads'
    BY <1>1, <1>3 DEF TypeOK, Tokens, NoneYet, Reads
  <1>5. CASE queue[n] # "absent"
    BY <1>1, <1>2, <1>4, <1>5 DEF TypeOK, Tokens, Clean, OneAlive, Submitting, Retrying, Queueing,
      Missing, Alive, Busy
  <1>6. CASE queue[n] = "absent"
    <2> SUFFICES ASSUME Clean' PROVE OneAlive' /\ Submitting' /\ Retrying' /\ Queueing'
      BY <1>4 DEF Tokens
    <2>1. Clean /\ Missing(c) /\ ~Alive
      BY <1>1, <1>6 DEF Clean, Missing, Tokens, Queueing
    <2>2. OneAlive' /\ Submitting'
      BY <1>1, <1>2, <1>6, <2>1 DEF TypeOK, Tokens, OneAlive, Submitting, Alive, Busy
    <2>3. Retrying' /\ Queueing'
      BY <1>1, <1>2, <1>6, <2>1 DEF TypeOK, Tokens, Retrying, Queueing, Missing
    <2> QED
      BY <2>2, <2>3
  <1> QED
    BY <1>5, <1>6

\* A worker that is at work goes on.
LEMMA WorkingTokens ==
  ASSUME TypeOK, Tokens, NEW w \in Workers, Busy(w), NEW l, pc' = [pc EXCEPT ![w] = l],
         status' # "none", UNCHANGED <<queueVars, callerVars, retries>>,
         Clean' => Clean
  PROVE  Tokens'
  <1>1. /\ queue' = queue /\ cpc' = cpc /\ read' = read /\ retries' = retries
    BY DEF queueVars, callerVars
  <1> QED
    BY <1>1 DEF TypeOK, Tokens, NoneYet, Reads, OneAlive, Submitting, Retrying, Queueing,
      Missing, Alive, Busy

\* The pending job becomes the one at work.
LEMMA ClaimTokens ==
  ASSUME TypeOK, Tokens, NEW w \in Workers, Claim(w)
  PROVE  Tokens'
  <1>1. PICK j \in Jobs : /\ queue[j] = "pending"
                          /\ queue' = [queue EXCEPT ![j] = "running"]
    BY DEF Claim
  <1>2. /\ pc[w] = "idle" /\ pc' = [pc EXCEPT ![w] = "loaded"]
        /\ cpc' = cpc /\ read' = read /\ retries' = retries /\ status' = status
        /\ faults' = faults /\ raced' = raced
    BY DEF Claim, Goto, rowVars, callerVars, histVars
  <1> QED
    BY <1>1, <1>2 DEF TypeOK, Tokens, NoneYet, Reads, Clean, OneAlive, Submitting, Retrying,
      Queueing,
      Missing, Alive, Busy

\* The job at work becomes the pending one, or ends.
LEMMA ReportTokens ==
  ASSUME TypeOK, Tokens, NEW w \in Workers, Report(w)
  PROVE  Tokens'
  <1>1. /\ pc[w] \in {"ok", "err"} /\ pc' = [pc EXCEPT ![w] = "idle"]
        /\ cpc' = cpc /\ read' = read /\ retries' = retries /\ status' = status
        /\ faults' = faults /\ raced' = raced
    BY DEF Report, rowVars, callerVars, histVars
  <1>2. PICK s \in {"succeeded", "pending", "failed"} :
          /\ queue' = [queue EXCEPT ![job[w]] = s]
          /\ pc[w] = "ok" => s = "succeeded"
    <2> DEFINE n == tries[job[w]] + 1
               s == CASE pc[w] = "ok" -> "succeeded"
                      [] pc[w] = "err" /\ n < MaxAttempts -> "pending"
                      [] pc[w] = "err" /\ n >= MaxAttempts -> "failed"
    <2>1. queue' = [queue EXCEPT ![job[w]] = s]
      BY DEF Report
    <2>2. n < MaxAttempts \/ n >= MaxAttempts
      BY DEF TypeOK
    <2>3. s \in {"succeeded", "pending", "failed"} /\ (pc[w] = "ok" => s = "succeeded")
      BY <1>1, <2>2
    <2> QED
      BY <2>1, <2>3
  <1>3. job[w] \in Jobs /\ status # "none"
    BY <1>1 DEF TypeOK, Tokens, NoneYet
  <1>4. CASE pc[w] = "ok"
    BY <1>1, <1>2, <1>3, <1>4 DEF TypeOK, Tokens, NoneYet, Reads, Clean, OneAlive, Submitting,
      Retrying, Queueing, Missing, Alive, Busy
  <1>5. CASE pc[w] = "err"
    BY <1>1, <1>2, <1>3, <1>5 DEF TypeOK, Tokens, NoneYet, Reads, Clean, OneAlive, Submitting,
      Retrying, Queueing, Missing, Alive, Busy
  <1> QED
    BY <1>1, <1>4, <1>5

\* After a fault nothing is claimed but that the jobs are there.
LEMMA FaultTokens ==
  ASSUME TypeOK, Tokens,
         (\E w \in Workers : Restart(w) \/ StatementFails(w)) \/ (\E c \in Callers : RequestDies(c))
  PROVE  Tokens'
  <1>1. ~Clean' /\ status' = status
    BY DEF Restart, StatementFails, RequestDies, Fault, Clean, TypeOK, rowVars
  <1>2. NoneYet'
    BY <1>1 DEF Restart, StatementFails, RequestDies, TypeOK, Tokens, NoneYet, queueVars,
      workerVars,
      callerVars
  <1>3. Reads'
    BY DEF Restart, StatementFails, RequestDies, TypeOK, Tokens, Reads, callerVars
  <1> QED
    BY <1>1, <1>2, <1>3 DEF Tokens

\* Every step keeps it.
LEMMA TokensStep == TypeOK /\ TypeOK' /\ Tokens /\ [Next]_vars => Tokens'
  <1> SUFFICES ASSUME TypeOK, Tokens, [Next]_vars, TypeOK' PROVE Tokens'
    OBVIOUS
  <1>1. ASSUME NEW c \in Callers, Request(c) PROVE Tokens'
    BY <1>1, SubmitTokens, EnqueueFirstTokens, CancelTokens, RetryReadTokens, RetryWriteTokens,
      RetryEnqueueTokens DEF Request
  <1>2. ASSUME NEW w \in Workers,
               \/ MarkCancelled(w) \/ SkipEnded(w) \/ Validate(w) \/ StartRows(w) \/ BeginRow(w)
               \/ Stop(w) \/ WriteRow(w) \/ Save(w) \/ Abort(w) \/ Finish(w)
        PROVE  Tokens'
    <2>1. Busy(w) /\ \E l : pc' = [pc EXCEPT ![w] = l]
      BY <1>2 DEF Busy, MarkCancelled, SkipEnded, Validate, StartRows, BeginRow, Stop, WriteRow,
        Save,
        Abort, Finish, Return, Goto
    <2>2. UNCHANGED <<queueVars, callerVars, retries>> /\ (Clean' => Clean)
      BY <1>2 DEF MarkCancelled, SkipEnded, Validate, StartRows, BeginRow, Stop, WriteRow, Save,
        Abort, Finish, Persist, Clean, rowVars, histVars
    <2>3. status # "none"
      BY <2>1 DEF Busy, Tokens, NoneYet
    <2>4. status' # "none"
      BY <1>2, <2>3, EndStatusType DEF MarkCancelled, SkipEnded, Validate, StartRows, BeginRow,
        Stop,
        WriteRow, Save, Abort, Finish, Persist, TypeOK, rowVars
    <2> QED
      BY <2>1, <2>2, <2>4, WorkingTokens
  <1>3. ASSUME NEW w \in Workers, Claim(w) \/ Report(w) PROVE Tokens'
    BY <1>3, ClaimTokens, ReportTokens
  <1>4. ASSUME NEW w \in Workers, Restart(w) \/ StatementFails(w) PROVE Tokens'
    BY <1>4, FaultTokens
  <1>5. ASSUME NEW c \in Callers, RequestDies(c) PROVE Tokens'
    BY <1>5, FaultTokens
  <1>6. CASE UNCHANGED vars
    BY <1>6 DEF vars, rowVars, queueVars, workerVars, callerVars, histVars, Tokens, NoneYet, Reads,
      Clean, OneAlive, Submitting, Retrying, Queueing, Missing, Alive, Busy
  <1> QED
    BY <1>1, <1>2, <1>3, <1>4, <1>5, <1>6 DEF Next, Process

-----------------------------------------------------------------------------
(* Without a fault and an overlapping retry the counts are those of what has *)
(* landed: as stored while no worker is among the rows, as the worker has    *)
(* them otherwise.                                                           *)

\* The rows that created a record.
Created == {r \in Rows : made[r] = 1}

\* Counts and a checkpoint tell what the rows have created.
Tells(n, c) ==
  /\ \A r \in Rows : made[r] <= 1
  /\ \A r \in Rows : r > c => made[r] = 0
  /\ n.created = Cardinality(Created)

AmongRows == {"row", "matched", "saving", "stopping", "aborting"}

SavedTells ==
  (\A w \in Workers : pc[w] \notin AmongRows) => Tells(saved.counts, saved.checkpoint)

GotTells == \A w \in Workers : pc[w] \in {"loaded", "validating"} => got[w].progress = saved

RunTells ==
  \A w \in Workers :
    /\ pc[w] \in AmongRows => status = "running"
    /\ pc[w] \in AmongRows \ {"saving"} => Tells(counts[w], at[w] - 1)
    /\ pc[w] = "saving" => Tells(counts[w], at[w])

Told == Clean => SavedTells /\ GotTells /\ RunTells

\* Rows are finitely many.
LEMMA CreatedFinite ==
  /\ IsFiniteSet(Created) /\ Cardinality(Created) \in Nat
  <1>1. IsFiniteSet(Rows)
    BY FS_Interval DEF Rows
  <1>2. Created \subseteq Rows
    BY DEF Created
  <1> QED
    BY <1>1, <1>2, FS_Subset, FS_CardinalityType

\* While a worker is at work no other is.
LEMMA OnlyOneWorks ==
  ASSUME Tokens, Clean, NEW w \in Workers, Busy(w), NEW v \in Workers, v # w
  PROVE  pc[v] \in {"idle", "ok"}
  BY DEF Tokens, OneAlive, Busy

\* A request does not change the status of an import whose rows are processed.
LEMMA RequestTold ==
  ASSUME TypeOK, Tokens, Told, NEW c \in Callers, Request(c)
  PROVE  Told'
  <1>1. /\ saved' = saved /\ pc' = pc /\ got' = got /\ at' = at /\ counts' = counts
        /\ made' = made
    BY DEF Request, Submit, EnqueueFirst, CancelRead, CancelWrite, RetryRead, RetryWrite,
      RetryEnqueue, rowVars, workerVars, histVars
  <1>3. Clean' => Clean
    BY DEF Request, Submit, EnqueueFirst, CancelRead, CancelWrite, RetryRead, RetryWrite,
      RetryEnqueue, histVars, Clean
  <1>2. Clean' /\ status = "running" => status' = "running"
    BY DEF Request, Submit, EnqueueFirst, CancelRead, CancelWrite, RetryRead, RetryWrite,
      RetryEnqueue, rowVars, histVars, Clean, AfterCancel
  <1> QED
    BY <1>1, <1>2, <1>3 DEF Told, SavedTells, GotTells, RunTells, Tells, Created

\* After a fault nothing is claimed.
LEMMA FaultTold ==
  ASSUME TypeOK,
         (\E w \in Workers : Restart(w) \/ StatementFails(w)) \/ (\E c \in Callers : RequestDies(c))
  PROVE  Told'
  BY DEF Restart, StatementFails, RequestDies, Fault, Clean, TypeOK, Told

\* Steps of a worker that is not among the rows.
LEMMA OutsideTold ==
  ASSUME TypeOK, Tokens, Told, NEW w \in Workers,
         Claim(w) \/ MarkCancelled(w) \/ SkipEnded(w) \/ Validate(w) \/ Report(w)
  PROVE  Told'
  <1> SUFFICES ASSUME Clean' PROVE SavedTells' /\ GotTells' /\ RunTells'
    BY DEF Told
  <1>1. /\ Clean /\ made' = made /\ saved' = saved
    BY DEF Claim, MarkCancelled, SkipEnded, Validate, Report, Clean, rowVars, histVars
  <1>2. Created' = Created
    BY <1>1 DEF Created
  <1>3. \E l \in {"idle", "loaded", "validating", "ok"} : pc' = [pc EXCEPT ![w] = l]
    BY DEF Claim, MarkCancelled, SkipEnded, Validate, Report, Return, Goto
  <1>4. pc[w] \notin AmongRows
    BY DEF Claim, MarkCancelled, SkipEnded, Validate, Report, Return, Goto, AmongRows
  <1>5. \A v \in Workers : pc'[v] \in AmongRows =>
          v # w /\ pc[v] = pc'[v] /\ status' = status /\ counts'[v] = counts[v] /\ at'[v] = at[v]
    <2> SUFFICES ASSUME NEW v \in Workers, pc'[v] \in AmongRows
                 PROVE  /\ v # w /\ pc[v] = pc'[v]
                        /\ status' = status /\ counts'[v] = counts[v] /\ at'[v] = at[v]
      OBVIOUS
    <2>1. v # w /\ pc[v] = pc'[v]
      BY <1>3 DEF TypeOK, AmongRows
    <2>2. ~Busy(w)
      BY <1>1, <2>1 DEF Tokens, OneAlive, Busy, AmongRows
    <2>3. Claim(w) \/ Report(w)
      BY <2>2 DEF MarkCancelled, SkipEnded, Validate, Return, Goto, Busy
    <2> QED
      BY <2>1, <2>3 DEF Claim, Report, rowVars
  <1>6. SavedTells'
    <2>1. (\A v \in Workers : pc'[v] \notin AmongRows) =>
         (\A v \in Workers : pc[v] \notin AmongRows)
      BY <1>3, <1>4 DEF TypeOK
    <2> QED
      BY <1>1, <1>2, <2>1 DEF Told, SavedTells, Tells
  <1>7. GotTells'
    <2>1. CASE Claim(w)
      BY <1>1, <2>1 DEF Claim, Goto, Told, GotTells, TypeOK
    <2>2. CASE Report(w)
      BY <1>1, <2>2 DEF Report, Told, GotTells, TypeOK
    <2>3. CASE Validate(w)
      BY <1>1, <2>3 DEF Validate, Goto, Told, GotTells, TypeOK
    <2>4. CASE MarkCancelled(w) \/ SkipEnded(w)
      BY <1>1, <2>4 DEF MarkCancelled, SkipEnded, Return, Goto, Forget, Told, GotTells, TypeOK
    <2> QED
      BY <2>1, <2>2, <2>3, <2>4
  <1>8. RunTells'
    BY <1>1, <1>2, <1>5 DEF Told, RunTells, Tells, AmongRows
  <1> QED
    BY <1>6, <1>7, <1>8

\* A worker that stays among the rows: what it knows afterwards is true.
LEMMA InsideTold ==
  ASSUME TypeOK, Tokens, Told, Clean, NEW w \in Workers, Busy(w), NEW l \in AmongRows,
         pc' = [pc EXCEPT ![w] = l], status' = "running",
         l # "saving" => Tells(counts[w], at[w] - 1)',
         l = "saving" => Tells(counts[w], at[w])'
  PROVE  Told'
  <1>1. pc'[w] = l /\ \A v \in Workers : v # w => pc'[v] \in {"idle", "ok"}
    BY OnlyOneWorks DEF TypeOK
  <1> QED
    BY <1>1 DEF Told, SavedTells, GotTells, RunTells, AmongRows

\* A worker that leaves them: what it has stored is true.
LEMMA LeaveTold ==
  ASSUME TypeOK, Tokens, Told, Clean, NEW w \in Workers, Busy(w), NEW l \in {"ok", "err"},
         pc' = [pc EXCEPT ![w] = l], Tells(saved.counts, saved.checkpoint)'
  PROVE  Told'
  <1>1. pc'[w] = l /\ \A v \in Workers : v # w => pc'[v] \in {"idle", "ok"}
    BY OnlyOneWorks DEF TypeOK
  <1> QED
    BY <1>1 DEF Told, SavedTells, GotTells, RunTells, AmongRows

\* The rows go on from the stored progress.
LEMMA StartRowsTold ==
  ASSUME TypeOK, Tokens, Told, NEW w \in Workers, StartRows(w)
  PROVE  Told'
  <1>1. Clean' => Clean
    BY DEF StartRows, Clean, histVars
  <1> SUFFICES ASSUME Clean PROVE Told'
    BY <1>1 DEF Told
  <1>2. pc[w] = "validating" /\ Busy(w) /\ pc' = [pc EXCEPT ![w] = "row"] /\ status' = "running"
    BY DEF StartRows, Goto, Busy
  <1>3. \A v \in Workers : pc[v] \notin AmongRows
    BY <1>2, OnlyOneWorks DEF AmongRows
  <1>4. Tells(saved.counts, saved.checkpoint) /\ got[w].progress = saved
    BY <1>2, <1>3 DEF Told, SavedTells, GotTells
  <1>5. /\ counts'[w] = saved.counts /\ at'[w] = saved.checkpoint + 1 /\ made' = made
    BY <1>4 DEF StartRows, StartCounts, FirstRow, TypeOK, histVars
  <1>6. at'[w] - 1 = saved.checkpoint
    BY <1>5 DEF TypeOK, ProgressType
  <1>7. Tells(counts[w], at[w] - 1)'
    BY <1>4, <1>5, <1>6 DEF Tells, Created
  <1> QED
    BY <1>2, <1>7, InsideTold DEF AmongRows

\* Looking for a record changes none.
LEMMA BeginRowTold ==
  ASSUME TypeOK, Tokens, Told, NEW w \in Workers, BeginRow(w)
  PROVE  Told'
  <1>1. Clean' => Clean
    BY DEF BeginRow, Clean, histVars
  <1> SUFFICES ASSUME Clean PROVE Told'
    BY <1>1 DEF Told
  <1>2. PICK l \in {"stopping", "matched"} : pc' = [pc EXCEPT ![w] = l]
    BY DEF BeginRow, Goto
  <1>3. /\ pc[w] = "row" /\ Busy(w) /\ status' = status /\ counts' = counts /\ at' = at
        /\ made' = made
    BY DEF BeginRow, Goto, Busy, rowVars, histVars
  <1>4. status = "running" /\ Tells(counts[w], at[w] - 1)
    BY <1>3 DEF Told, RunTells, AmongRows
  <1>5. Tells(counts[w], at[w] - 1)'
    BY <1>3, <1>4 DEF Tells, Created
  <1> QED
    BY <1>2, <1>3, <1>4, <1>5, InsideTold DEF AmongRows

\* The row was not written before: if it creates a record now it is the only one.
LEMMA WriteRowTold ==
  ASSUME TypeOK, TypeOK', Tokens, Told, NEW w \in Workers, at[w] \in Rows, WriteRow(w)
  PROVE  Told'
  <1> DEFINE r == at[w]
             o == Outcome(r, match[w])
             next == NextStop(w, o)
  <1>1. Clean' => Clean
    BY DEF WriteRow, Clean
  <1> SUFFICES ASSUME Clean PROVE Told'
    BY <1>1 DEF Told
  <1>2. /\ pc[w] = "matched" /\ Busy(w) /\ pc' = [pc EXCEPT ![w] = next] /\ status' = status
        /\ at' = [at EXCEPT ![w] = IF next = "row" THEN @ + 1 ELSE @]
        /\ made' = [made EXCEPT ![r] = IF o = "created" THEN @ + 1 ELSE @]
        /\ counts' = [counts EXCEPT ![w][o] = @ + 1]
    BY DEF WriteRow, Goto, Busy, rowVars
  <1>3. o \in Outcomes /\ next \in {"aborting", "saving",
  "row"} /\ (next = "aborting" => o = "failed")
    BY OutcomeType DEF TypeOK, NextStop
  <1>4. status = "running" /\ Tells(counts[w], r - 1)
    BY <1>2 DEF Told, RunTells, AmongRows
  <1>9. r \in Rows /\ r \in Nat /\ r > r - 1 /\ made[r] = 0
    BY <1>4 DEF Tells, Rows
  <1>5. counts'[w].created = counts[w].created + (IF o = "created" THEN 1 ELSE 0)
    <2>1. counts[w] \in CountsType /\ counts'[w] = [counts[w] EXCEPT ![o] = @ + 1]
      BY <1>2 DEF TypeOK
    <2> QED
      BY <1>3, <2>1 DEF CountsType, Outcomes
  <1>6. made' \in [Rows -> Nat] /\ made \in [Rows -> Nat]
    BY DEF TypeOK
  <1> HIDE DEF next, o
  <1> HIDE DEF r
  <1>7. /\ \A x \in Rows : made'[x] <= 1
        /\ \A x \in Rows : x > r => made'[x] = 0
        /\ counts'[w].created = Cardinality(Created')
    <2>1. CASE o = "created"
      <3>1. made'[r] = 1 /\ \A x \in Rows : x # r => made'[x] = made[x]
        BY <1>2, <1>6, <1>9, <2>1
      <3>2. Created' = Created \cup {r} /\ r \notin Created
        <4>1. \A x : x \in Created' <=> x \in Created \/ x = r
          BY <1>9, <3>1 DEF Created
        <4>2. r \notin Created
          BY <1>9 DEF Created
        <4> QED
          BY <4>1, <4>2
      <3>3. Cardinality(Created') = Cardinality(Created) + 1
        BY <3>2, CreatedFinite, FS_AddElement
      <3>4. /\ \A x \in Rows : made[x] <= 1
            /\ \A x \in Rows : x > r - 1 => made[x] = 0
            /\ counts[w].created = Cardinality(Created)
        BY <1>4 DEF Tells
      <3>5. \A x \in Rows : x > r => x > r - 1 /\ x # r
        BY <1>9 DEF Rows
      <3>6. \A x \in Rows : x > r => made'[x] = 0
        BY <3>1, <3>4, <3>5
      <3>7. \A x \in Rows : made'[x] <= 1
        BY <3>1, <3>4
      <3> QED
        BY <1>5, <2>1, <3>3, <3>4, <3>6, <3>7
    <2>2. CASE o # "created"
      <3>1. made' = made
        BY <1>2, <1>6, <2>2
      <3>2. counts'[w].created = counts[w].created
        BY <1>5, <2>2, CreatedFinite, <1>4 DEF Tells
      <3> QED
        BY <1>4, <1>9, <3>1, <3>2 DEF Tells, Created, Rows
    <2> QED
      BY <2>1, <2>2
  <1>8. CASE next = "aborting"
    <2>1. made' = made /\ counts'[w].created = counts[w].created
      BY <1>2, <1>3, <1>4, <1>5, <1>6, <1>8, CreatedFinite DEF Tells
    <2>2. at'[w] = r
      BY <1>2, <1>8 DEF TypeOK, r
    <2>3. Tells(counts[w], at[w] - 1)'
      BY <1>4, <2>1, <2>2 DEF Tells, Created
    <2> QED
      BY <1>2, <1>4, <1>8, <2>3, InsideTold DEF AmongRows
  <1>10. CASE next = "saving"
    <2>1. at'[w] = r
      BY <1>2, <1>10 DEF TypeOK, r
    <2>2. Tells(counts[w], at[w])'
      BY <1>7, <2>1 DEF Tells
    <2> QED
      BY <1>2, <1>4, <1>10, <2>2, InsideTold DEF AmongRows
  <1>11. CASE next = "row"
    <2>1. at'[w] = r + 1 /\ (r + 1) - 1 = r
      BY <1>2, <1>9, <1>11 DEF TypeOK, r
    <2>2. Tells(counts[w], at[w] - 1)'
      BY <1>7, <2>1 DEF Tells
    <2> QED
      BY <1>2, <1>4, <1>11, <2>2, InsideTold DEF AmongRows
  <1> QED
    BY <1>3, <1>8, <1>10, <1>11

\* The progress of a full batch.
LEMMA SaveTold ==
  ASSUME TypeOK, Tokens, Told, NEW w \in Workers, Save(w)
  PROVE  Told'
  <1>1. Clean' => Clean
    BY DEF Save, Clean, histVars
  <1> SUFFICES ASSUME Clean PROVE Told'
    BY <1>1 DEF Told
  <1>2. /\ pc[w] = "saving" /\ Busy(w) /\ pc' = [pc EXCEPT ![w] = "row"] /\ status' = "running"
        /\ counts' = counts /\ made' = made
    BY DEF Save, Goto, Busy, Persist, histVars
  <1>3. at'[w] - 1 = at[w]
    BY DEF Save, TypeOK
  <1>4. Tells(counts[w], at[w])
    BY <1>2 DEF Told, RunTells
  <1>5. Tells(counts[w], at[w] - 1)'
    BY <1>2, <1>3, <1>4 DEF Tells, Created
  <1> QED
    BY <1>2, <1>5, InsideTold DEF AmongRows

\* The progress that is stored last.
LEMMA EndingTold ==
  ASSUME TypeOK, Tokens, Told, NEW w \in Workers, Stop(w) \/ Abort(w) \/ Finish(w)
  PROVE  Told'
  <1>1. Clean' => Clean
    BY DEF Stop, Abort, Finish, Clean, histVars
  <1> SUFFICES ASSUME Clean PROVE Told'
    BY <1>1 DEF Told
  <1>2. PICK l \in {"ok", "err"} : pc' = [pc EXCEPT ![w] = l]
    BY DEF Stop, Abort, Finish, Return, Goto
  <1>3. /\ pc[w] \in {"stopping", "aborting", "row"} /\ Busy(w)
        /\ saved'.counts = counts[w] /\ made' = made
    BY DEF Stop, Abort, Finish, Return, Goto, Persist, Progress, Busy, histVars
  <1>4. saved'.checkpoint = at[w] - 1
    <2>1. CASE Stop(w) \/ Abort(w)
      BY <2>1 DEF Stop, Abort, Persist, Progress
    <2>2. CASE Finish(w)
      <3>1. at[w] = Last + 1
        BY <2>2 DEF Finish, TypeOK, Rows
      <3> QED
        BY <2>2, <3>1 DEF Finish, Persist, Progress
    <2> QED
      BY <2>1, <2>2
  <1>5. Tells(counts[w], at[w] - 1)
    BY <1>3 DEF Told, RunTells, AmongRows
  <1>6. Tells(saved.counts, saved.checkpoint)'
    BY <1>3, <1>4, <1>5 DEF Tells, Created
  <1> QED
    BY <1>2, <1>3, <1>6, LeaveTold

\* Every step keeps it.
LEMMA ToldStep ==
  TypeOK /\ TypeOK' /\ RunInv /\ Tokens /\ Told /\ [Next]_vars => Told'
  <1> SUFFICES ASSUME TypeOK, TypeOK', RunInv, Tokens, Told, [Next]_vars PROVE Told'
    OBVIOUS
  <1>1. ASSUME NEW w \in Workers, Process(w) PROVE Told'
    <2>1. WriteRow(w) => at[w] \in Rows
      BY DEF WriteRow, Goto, RunInv
    <2> QED
      BY <1>1, <2>1, OutsideTold, StartRowsTold, BeginRowTold, WriteRowTold, SaveTold, EndingTold
        DEF Process
  <1>2. ASSUME NEW c \in Callers, Request(c) PROVE Told'
    BY <1>2, RequestTold
  <1>3. CASE \/ \E w \in Workers : Restart(w) \/ StatementFails(w)
             \/ \E c \in Callers : RequestDies(c)
    BY <1>3, FaultTold
  <1>4. CASE UNCHANGED vars
    BY <1>4 DEF vars, rowVars, workerVars, histVars, Told, Clean, SavedTells, GotTells, RunTells,
      Tells, Created
  <1> QED
    BY <1>1, <1>2, <1>3, <1>4 DEF Next

\* Without a fault, and without a retry that overlaps the processing, a row creates at
\* most one record and the counts of an import that has ended are those of what has
\* landed: for any number of workers, and of requests that submit, cancel and retry.
THEOREM RowsOnce == Spec => []RowsLandOnce
  <1>1. Init => Tokens /\ Told
    <2> SUFFICES ASSUME Init PROVE Tokens /\ Told
      OBVIOUS
    <2>1. Tokens
      BY DEF Init, Tokens, NoneYet, Reads, OneAlive, Submitting, Retrying, Queueing, Busy
    <2>2. Created = {}
      BY DEF Init, Created
    <2>3. Tells(saved.counts, saved.checkpoint)
      BY <2>2, FS_EmptySet DEF Init, Tells, Progress, NoCounts
    <2>4. Told
      BY <2>3 DEF Init, Told, SavedTells, GotTells, RunTells, AmongRows
    <2> QED
      BY <2>1, <2>4
  <1>2. IInv /\ IInv' /\ Tokens /\ Told /\ [Next]_vars => Tokens' /\ Told'
    BY TokensStep, ToldStep DEF IInv
  <1>3. IInv /\ Tokens /\ Told => RowsLandOnce
    <2> SUFFICES ASSUME TypeOK, Told, faults = 0, ~raced
                 PROVE  /\ \A r \in Rows : made[r] <= 1
                        /\ status \in Final => saved.counts.created = Cardinality(Created)
      BY DEF IInv, RowsLandOnce, Created
    <2>1. SavedTells /\ RunTells
      BY DEF Told, Clean
    <2>2. CASE \A w \in Workers : pc[w] \notin AmongRows
      BY <2>1, <2>2 DEF SavedTells, Tells
    <2>3. CASE \E w \in Workers : pc[w] \in AmongRows
      BY <2>1, <2>3 DEF RunTells, Tells, AmongRows, Final
    <2> QED
      BY <2>2, <2>3
  <1>4. Init => IInv
    BY InitStep
  <1>5. IInv /\ [Next]_vars => IInv'
    BY NextStep
  <1> QED
    BY <1>1, <1>2, <1>3, <1>4, <1>5, PTL DEF Spec
=============================================================================
