--------------------------- MODULE JobQueueProofs ---------------------------
(***************************************************************************)
(* Proofs about JobQueue for every set of jobs, names, keys, workers and   *)
(* callers and every bound.  The inductive invariant IInv adds to the      *)
(* properties what a caller's open transaction and a worker's claimed      *)
(* record know about the committed rows.                                   *)
(***************************************************************************)
EXTENDS JobQueue, TLAPS

-----------------------------------------------------------------------------
(* The inductive invariant. *)

\* A worker in the middle of a job holds the id of a row, read it when it had
\* attempts left, and reports Ok only after its handler returned Ok.
WorkerView ==
  \A w \in Workers :
    /\ wpc[w] \in Busy => wjob[w] \in Rows /\ watt[w] < limit[wjob[w]]
    /\ wok[w] => wpc[w] = "reporting" /\ wjob[w] \in okRuns

\* An open transaction has a request; it holds no id before it found or
\* inserted one, and an inserted id is not the id of a committed row.
CallerView ==
  \A c \in Callers :
    /\ cpc[c] # "idle" => creq[c] \in Requests
    /\ cpc[c] = "inserted" => cjob[c] \in Jobs \ Rows

\* An id one open transaction inserted is not the id another one holds.
DistinctInserts ==
  \A c, d \in Callers : cpc[c] = "inserted" /\ cjob[c] = cjob[d] => c = d

\* Neither two open inserts nor an open insert and a committed row share a
\* (name, key).
PendingKeys ==
  \A c \in Callers : cpc[c] = "inserted" /\ creq[c].key # NoKey =>
    /\ \A d \in Callers :
         cpc[d] = "inserted" /\ creq[c].key = creq[d].key /\ creq[c].name = creq[d].name
           => c = d
    /\ \A j \in Rows : ~(key[j] = creq[c].key /\ name[j] = creq[c].name)

IInv ==
  /\ TypeOK
  /\ WorkerView
  /\ CallerView
  /\ DistinctInserts
  /\ RetryBudget
  /\ SucceededRan

\* Kept by every step from IInv.
KeyInv == PendingKeys /\ KeyUnique /\ FoundIsRight

-----------------------------------------------------------------------------
(* The clamp and the helpers. *)

\* enqueue_tx never stores a max_attempts outside 1..AttemptsCap.
LEMMA ClampRange == \A m \in RequestedMax : Clamp(m) \in 1..AttemptsCap
  BY CapAssumption, RequestedAssumption DEF Clamp

\* The invariant holds at first.
LEMMA InitIInv == Init => IInv
  <1> SUFFICES ASSUME Init PROVE IInv
    OBVIOUS
  <1> USE JobsAssumption, CapAssumption, BoundsAssumption DEF Init
  <1>1. TypeOK
    BY DEF TypeOK, Statuses
  <1>2. Rows = {}
    BY DEF Rows
  <1> QED
    BY <1>1, <1>2 DEF IInv, WorkerView, CallerView, DistinctInserts, RetryBudget,
                      SucceededRan, Busy

\* Every step keeps the inductive invariant.
LEMMA StepIInv == IInv /\ [Next]_vars => IInv'
  <1> SUFFICES ASSUME IInv, [Next]_vars PROVE IInv'
    OBVIOUS
  <1> USE CapAssumption, BoundsAssumption, JobsAssumption
  <1>0. ASSUME UNCHANGED <<rowVars, workerVars, faultVars, okRuns>>,
               TypeOK', CallerView', DistinctInserts'
        PROVE IInv'
    BY <1>0 DEF IInv, WorkerView, RetryBudget, SucceededRan, Rows, rowVars, workerVars
  <1>1. ASSUME NEW c \in Callers, Lookup(c) PROVE IInv'
    <2>1. PICK n \in Names, k \in Keys \cup {NoKey}, m \in RequestedMax, d \in BOOLEAN :
            /\ creq' = [creq EXCEPT ![c] =
                     [name |-> n, key |-> k, limit |-> Clamp(m), due |-> d]]
            /\ \/ /\ ExistingRow(n, k) = {}
                  /\ cpc' = [cpc EXCEPT ![c] = "missed"]
                  /\ cjob' = cjob
               \/ \E j \in ExistingRow(n, k) :
                    /\ cpc' = [cpc EXCEPT ![c] = "found"]
                    /\ cjob' = [cjob EXCEPT ![c] = j]
      BY <1>1 DEF Lookup
    <2>2. [name |-> n, key |-> k, limit |-> Clamp(m), due |-> d] \in Requests
      BY <2>1, ClampRange DEF Requests
    <2>3. UNCHANGED <<rowVars, workerVars, faultVars, okRuns>> /\ cpc[c] = "idle"
      BY <1>1 DEF Lookup
    <2>4. CASE cpc' = [cpc EXCEPT ![c] = "missed"] /\ cjob' = cjob
      <3>1. TypeOK' /\ CallerView' /\ DistinctInserts'
        BY <2>1, <2>2, <2>3, <2>4 DEF IInv, TypeOK, CallerView, DistinctInserts, Rows,
           rowVars, workerVars, faultVars
      <3> QED
        BY <1>0, <2>3, <3>1
    <2>5. ASSUME NEW j \in ExistingRow(n, k), cpc' = [cpc EXCEPT ![c] = "found"],
                 cjob' = [cjob EXCEPT ![c] = j]
          PROVE IInv'
      <3>1. j \in Rows
        BY <2>5 DEF ExistingRow
      <3>2. TypeOK' /\ CallerView' /\ DistinctInserts'
        BY <2>1, <2>2, <2>3, <2>5, <3>1 DEF IInv, TypeOK, CallerView, DistinctInserts, Rows,
           rowVars, workerVars, faultVars
      <3> QED
        BY <1>0, <2>3, <3>2
    <2> QED
      BY <2>1, <2>4, <2>5
  <1>2. ASSUME NEW c \in Callers, Insert(c) PROVE IInv'
    <2>1. UNCHANGED <<rowVars, workerVars, faultVars, okRuns>> /\ cpc[c] = "missed"
      BY <1>2 DEF Insert
    <2>2. CASE EndTx(c)
      <3>1. TypeOK' /\ CallerView' /\ DistinctInserts'
        BY <2>1, <2>2 DEF EndTx, IInv, TypeOK, CallerView, DistinctInserts, Rows,
                          rowVars, workerVars, faultVars
      <3> QED
        BY <1>0, <2>1, <3>1
    <2>3. ASSUME NEW j \in Jobs \ Taken, cjob' = [cjob EXCEPT ![c] = j],
                 cpc' = [cpc EXCEPT ![c] = "inserted"], creq' = creq
          PROVE IInv'
      <3>1. TypeOK' /\ CallerView' /\ DistinctInserts'
        BY <2>1, <2>3 DEF Taken, IInv, TypeOK, CallerView, DistinctInserts, Rows,
                          rowVars, workerVars, faultVars
      <3> QED
        BY <1>0, <2>1, <3>1
    <2> QED
      BY <1>2, <2>2, <2>3 DEF Insert
  <1>4. ASSUME NEW c \in Callers, EndWithoutInsert(c) PROVE IInv'
    <2>1. UNCHANGED <<rowVars, workerVars, faultVars, okRuns>>
      BY <1>4 DEF EndWithoutInsert
    <2>2. TypeOK' /\ CallerView' /\ DistinctInserts'
      BY <1>4 DEF EndWithoutInsert, EndTx, IInv, TypeOK, CallerView, DistinctInserts, Rows,
                  rowVars, workerVars, faultVars
    <2> QED
      BY <1>0, <2>1, <2>2
  <1>3. ASSUME NEW c \in Callers, CommitInsert(c) PROVE IInv'
    <2>1. cjob[c] \in Jobs /\ cjob[c] \notin Rows /\ creq[c] \in Requests
      BY <1>3 DEF CommitInsert, IInv, CallerView
    <2>2. TypeOK'
      BY <1>3, <2>1 DEF CommitInsert, EndTx, IInv, TypeOK, Requests, Statuses,
                        workerVars, faultVars
    <2>3. WorkerView' /\ RetryBudget' /\ SucceededRan'
      BY <1>3, <2>1 DEF CommitInsert, IInv, TypeOK, WorkerView, RetryBudget, SucceededRan,
                        Requests, Rows, workerVars
    <2>4. CallerView'
      <3>1. ASSUME NEW d \in Callers, cpc[d] = "inserted", d # c PROVE cjob[d] # cjob[c]
        BY <1>3, <3>1 DEF CommitInsert, IInv, DistinctInserts
      <3> QED
        BY <1>3, <2>1, <3>1 DEF CommitInsert, EndTx, IInv, TypeOK, CallerView, Rows
    <2>5. DistinctInserts'
      BY <1>3, <2>1 DEF CommitInsert, EndTx, IInv, TypeOK, CallerView, DistinctInserts
    <2> QED
      BY <2>2, <2>3, <2>4, <2>5 DEF IInv
  <1>5. ASSUME NEW j \in Jobs, BecomeDue(j) PROVE IInv'
    BY <1>5 DEF BecomeDue, IInv, TypeOK, WorkerView, CallerView, DistinctInserts,
                RetryBudget, SucceededRan, Rows, workerVars, callerVars, faultVars
  <1>6. ASSUME NEW w \in Workers, Start(w) PROVE IInv'
    <2>1. TypeOK'
      BY <1>6 DEF Start, Reclaimed, Idle, Forget, IInv, TypeOK, Statuses, Busy, callerVars
    <2>2. Rows' = Rows
      BY <1>6 DEF Start, Reclaimed, IInv, TypeOK, Rows
    <2> QED
      BY <1>6, <2>1, <2>2 DEF Start, Reclaimed, Idle, Forget, IInv, TypeOK, WorkerView, CallerView,
                DistinctInserts, RetryBudget, SucceededRan, Busy, callerVars, Rows
  <1>7. ASSUME NEW w \in Workers,
               \/ StartWithoutReclaim(w) \/ ReportLost(w) \/ Crash(w) \/ Sigterm(w)
        PROVE IInv'
    <2>1. UNCHANGED <<rowVars, callerVars, okRuns>>
      BY <1>7 DEF StartWithoutReclaim, ReportLost, Crash, Sigterm, Stop
    <2>2. /\ \/ wpc' = [wpc EXCEPT ![w] = "idle"]
             \/ wpc' = [wpc EXCEPT ![w] = "down"]
          /\ Forget(w)
          /\ stops' \in 0..MaxStops /\ dbErrors' \in 0..MaxDbErrors
          /\ exit' \in [Workers -> {"none", "crash", "sigterm"}]
      BY <1>7 DEF StartWithoutReclaim, ReportLost, Crash, Sigterm, Stop, DbError, Idle,
                  IInv, TypeOK, rowVars, callerVars
    <2>3. TypeOK'
      BY <2>1, <2>2 DEF IInv, TypeOK, Forget, rowVars, callerVars
    <2>4. WorkerView'
      BY <2>1, <2>2 DEF IInv, TypeOK, Forget, WorkerView, Busy, Rows, rowVars
    <2> QED
      BY <2>1, <2>3, <2>4 DEF IInv, CallerView, DistinctInserts, RetryBudget, SucceededRan,
                              Rows, rowVars, callerVars
  <1>8. ASSUME NEW w \in Workers, Claim(w) PROVE IInv'
    <2>1. PICK j \in Jobs :
            /\ Claimable(j)
            /\ status' = [status EXCEPT ![j] = "running"]
            /\ wjob' = [wjob EXCEPT ![w] = j]
            /\ watt' = [watt EXCEPT ![w] = attempts[j]]
      BY <1>8 DEF Claim
    <2>2. /\ wpc' = [wpc EXCEPT ![w] = "handling"]
          /\ UNCHANGED <<attempts, limit, name, key, due, wok, callerVars, faultVars, okRuns>>
      BY <1>8 DEF Claim
    <2>3. j \in Rows /\ Rows' = Rows /\ attempts[j] < limit[j] /\ wok[w] = FALSE
      BY <1>8, <2>1 DEF Claim, IInv, TypeOK, Rows, Claimable, RetryBudget, WorkerView
    <2>4. TypeOK'
      BY <2>1, <2>2 DEF IInv, TypeOK, Statuses, Busy, callerVars, faultVars
    <2>5. WorkerView'
      BY <2>1, <2>2, <2>3 DEF IInv, TypeOK, WorkerView
    <2> QED
      BY <2>1, <2>2, <2>3, <2>4, <2>5
      DEF IInv, TypeOK, CallerView, DistinctInserts, RetryBudget, SucceededRan, callerVars
  <1>9. ASSUME NEW w \in Workers, ClaimLost(w) PROVE IInv'
    <2>1. Rows' = Rows
      BY <1>9 DEF ClaimLost, IInv, TypeOK, Rows, Claimable
    <2> QED
      BY <1>9, <2>1 DEF ClaimLost, DbError, Claimable, IInv, TypeOK, Statuses, WorkerView,
                CallerView, DistinctInserts, RetryBudget, SucceededRan, workerVars, callerVars,
                Rows
  <1>10. ASSUME NEW w \in Workers, NEW ok \in BOOLEAN, HandlerReturns(w, ok) PROVE IInv'
    BY <1>10 DEF HandlerReturns, Result, IInv, TypeOK, WorkerView, CallerView, DistinctInserts,
                 RetryBudget, SucceededRan, Rows, Busy, rowVars, callerVars, faultVars
  <1>11. ASSUME NEW w \in Workers, ReportSuccess(w) PROVE IInv'
    <2>1. wjob[w] \in Rows /\ wjob[w] \in okRuns /\ Rows' = Rows
      BY <1>11 DEF ReportSuccess, IInv, TypeOK, WorkerView, Rows, Busy
    <2>2. TypeOK'
      <3>1. status' \in [Jobs -> Statuses \cup {"absent"}]
        BY <1>11 DEF ReportSuccess, IInv, TypeOK, Statuses
      <3> QED
        BY <1>11, <3>1 DEF ReportSuccess, Idle, Forget, IInv, TypeOK, callerVars, faultVars
    <2>3. WorkerView'
      BY <1>11, <2>1 DEF ReportSuccess, Idle, Forget, IInv, TypeOK, WorkerView, Busy
    <2> QED
      BY <1>11, <2>1, <2>2, <2>3 DEF ReportSuccess, IInv, TypeOK, CallerView,
         DistinctInserts, RetryBudget, SucceededRan, callerVars, Rows
  <1>12. ASSUME NEW w \in Workers, ReportFailure(w) PROVE IInv'
    <2> DEFINE j == wjob[w]
    <2>1. j \in Rows /\ watt[w] < limit[j] /\ Rows' = Rows
      BY <1>12 DEF ReportFailure, LastAttempt, IInv, TypeOK, WorkerView, Rows, Busy
    <2>2. watt[w] + 1 \in 0..AttemptsCap /\ watt[w] + 1 <= limit[j]
      BY <2>1 DEF IInv, TypeOK, Rows
    <2>3. TypeOK'
      <3>1. /\ status' \in [Jobs -> Statuses \cup {"absent"}]
            /\ attempts' \in [Jobs -> 0..AttemptsCap]
            /\ due' \in [Jobs -> BOOLEAN]
        BY <1>12, <2>2 DEF ReportFailure, IInv, TypeOK, Statuses
      <3> QED
        BY <1>12, <3>1 DEF ReportFailure, LastAttempt, Idle, Forget, IInv, TypeOK, callerVars, faultVars
    <2>4. WorkerView'
      BY <1>12, <2>1 DEF ReportFailure, LastAttempt, Idle, Forget, IInv, TypeOK, WorkerView, Busy
    <2>5. RetryBudget'
      BY <1>12, <2>1, <2>2 DEF ReportFailure, LastAttempt, IInv, TypeOK, RetryBudget, Rows
    <2> QED
      BY <1>12, <2>1, <2>3, <2>4, <2>5 DEF ReportFailure, LastAttempt, IInv, TypeOK, CallerView,
         DistinctInserts, SucceededRan, callerVars, Rows
  <1>13. CASE UNCHANGED vars
    BY <1>13 DEF vars, rowVars, workerVars, callerVars, faultVars, IInv, TypeOK, WorkerView,
                 CallerView, DistinctInserts, RetryBudget, SucceededRan, Rows
  <1> QED
    BY <1>1, <1>2, <1>3, <1>4, <1>5, <1>6, <1>7, <1>8, <1>9, <1>10, <1>11, <1>12, <1>13
    DEF Next, CallerStep, Run, Fault

-----------------------------------------------------------------------------
(* Idempotency keys. *)

\* Only a commit adds a row, and no step changes the name or key of one.
LEMMA RowsStep ==
  ASSUME IInv, [Next]_vars
  PROVE  /\ Rows \subseteq Rows'
         /\ \A j \in Rows : name'[j] = name[j] /\ key'[j] = key[j] /\ limit'[j] = limit[j]
         /\ (\A c \in Callers : ~CommitInsert(c)) => Rows' = Rows
  <1>1. ASSUME NEW c \in Callers, CommitInsert(c)
        PROVE  Rows \subseteq Rows' /\ \A j \in Rows : name'[j] = name[j] /\ key'[j] = key[j]
                                                       /\ limit'[j] = limit[j]
    BY <1>1 DEF CommitInsert, IInv, TypeOK, CallerView, Rows
  <1>2. ASSUME ~(\E c \in Callers : CommitInsert(c))
        PROVE  Rows' = Rows /\ UNCHANGED <<name, key, limit>>
    <2>1. ASSUME NEW c \in Callers, Lookup(c) \/ Insert(c) \/ EndWithoutInsert(c)
          PROVE  Rows' = Rows /\ UNCHANGED <<name, key, limit>>
      BY <2>1 DEF Lookup, Insert, EndWithoutInsert, rowVars, Rows
    <2>2. ASSUME NEW j \in Jobs, BecomeDue(j)
          PROVE  Rows' = Rows /\ UNCHANGED <<name, key, limit>>
      BY <2>2 DEF BecomeDue, Rows
    <2>3. ASSUME NEW w \in Workers, Start(w) \/ Fault(w)
          PROVE  Rows' = Rows /\ UNCHANGED <<name, key, limit>>
      BY <2>3 DEF Start, Reclaimed, Fault, StartWithoutReclaim, ClaimLost, ReportLost, Crash, Sigterm,
                  Stop, Claimable, IInv, TypeOK, rowVars, Rows
    <2>4. ASSUME NEW w \in Workers, Claim(w) \/ ReportSuccess(w) \/ ReportFailure(w)
          PROVE  Rows' = Rows /\ UNCHANGED <<name, key, limit>>
      BY <2>4 DEF Claim, ReportSuccess, ReportFailure, Claimable, IInv, TypeOK, WorkerView,
                  Busy, Rows
    <2>5. ASSUME NEW w \in Workers, NEW ok \in BOOLEAN, HandlerReturns(w, ok)
          PROVE  Rows' = Rows /\ UNCHANGED <<name, key, limit>>
      BY <2>5 DEF HandlerReturns, Result, rowVars, Rows
    <2>6. CASE UNCHANGED vars
      BY <2>6 DEF vars, rowVars, Rows
    <2> QED
      BY <1>2, <2>1, <2>2, <2>3, <2>4, <2>5, <2>6 DEF Next, CallerStep, Run
  <1> QED
    BY <1>1, <1>2

\* The steps of callers leave the other callers alone.
LEMMA InitKeyInv == Init => KeyInv
  BY DEF Init, KeyInv, PendingKeys, KeyUnique, FoundIsRight, Rows

\* Every step preserves the invariant about keys.
LEMMA StepKeyInv == IInv /\ KeyInv /\ [Next]_vars => KeyInv'
  <1> SUFFICES ASSUME IInv, KeyInv, [Next]_vars PROVE KeyInv'
    OBVIOUS
  <1> USE JobsAssumption
  <1>1. ASSUME NEW c \in Callers, CommitInsert(c) PROVE KeyInv'
    <2> DEFINE r == cjob[c]
    <2>1. /\ r \in Jobs \ Rows
          /\ Rows' = Rows \cup {r}
          /\ name' = [name EXCEPT ![r] = creq[c].name]
          /\ key' = [key EXCEPT ![r] = creq[c].key]
          /\ cpc' = [cpc EXCEPT ![c] = "idle"]
          /\ creq' = [creq EXCEPT ![c] = None]
          /\ cjob' = [cjob EXCEPT ![c] = None]
          /\ cpc[c] = "inserted"
      BY <1>1 DEF CommitInsert, EndTx, IInv, TypeOK, CallerView, Rows
    <2>2. /\ name'[r] = creq[c].name /\ key'[r] = creq[c].key
          /\ \A j \in Rows : name'[j] = name[j] /\ key'[j] = key[j]
      BY <2>1 DEF IInv, TypeOK, Rows
    <2>3. \A d \in Callers : cpc'[d] # "idle" =>
            d # c /\ cpc'[d] = cpc[d] /\ creq'[d] = creq[d] /\ cjob'[d] = cjob[d]
      BY <2>1 DEF IInv, TypeOK
    <2>4. PendingKeys'
      BY <2>1, <2>2, <2>3 DEF KeyInv, PendingKeys
    <2>5. KeyUnique'
      BY <2>1, <2>2 DEF KeyInv, PendingKeys, KeyUnique
    <2>6. FoundIsRight'
      BY <2>1, <2>2, <2>3 DEF KeyInv, FoundIsRight
    <2> QED
      BY <2>4, <2>5, <2>6 DEF KeyInv
  <1>2. ASSUME ~(\E c \in Callers : CommitInsert(c)) PROVE KeyInv'
    <2>1. Rows' = Rows /\ \A j \in Rows : name'[j] = name[j] /\ key'[j] = key[j]
      BY <1>2, RowsStep
    <2>2. KeyUnique'
      BY <2>1 DEF KeyInv, KeyUnique
    <2>3. CASE UNCHANGED callerVars
      BY <2>1, <2>2, <2>3 DEF KeyInv, PendingKeys, FoundIsRight, callerVars
    <2>4. ASSUME NEW c \in Callers, Lookup(c) PROVE KeyInv'
      <3>1. PICK n \in Names, k \in Keys \cup {NoKey}, m \in RequestedMax, d \in BOOLEAN :
              /\ creq' = [creq EXCEPT ![c] =
                     [name |-> n, key |-> k, limit |-> Clamp(m), due |-> d]]
              /\ \/ /\ ExistingRow(n, k) = {}
                    /\ cpc' = [cpc EXCEPT ![c] = "missed"]
                    /\ cjob' = cjob
                 \/ \E j \in ExistingRow(n, k) :
                      /\ cpc' = [cpc EXCEPT ![c] = "found"]
                      /\ cjob' = [cjob EXCEPT ![c] = j]
        BY <2>4 DEF Lookup
      <3>2. \A d2 \in Callers : cpc'[d2] = "inserted" =>
              cpc[d2] = "inserted" /\ creq'[d2] = creq[d2]
        BY <3>1 DEF IInv, TypeOK
      <3>3. PendingKeys'
        BY <2>1, <3>2 DEF KeyInv, PendingKeys
      <3>4. \A d2 \in Callers \ {c} :
              cpc'[d2] = cpc[d2] /\ creq'[d2] = creq[d2] /\ cjob'[d2] = cjob[d2]
        BY <3>1 DEF IInv, TypeOK
      <3>5. cpc'[c] = "found" => /\ cjob'[c] \in Rows
                                 /\ name[cjob'[c]] = creq'[c].name
                                 /\ key[cjob'[c]] = creq'[c].key
        BY <3>1 DEF IInv, TypeOK, ExistingRow
      <3>6. FoundIsRight'
        BY <2>1, <3>4, <3>5 DEF KeyInv, FoundIsRight
      <3> QED
        BY <2>2, <3>3, <3>6 DEF KeyInv
    <2>5. ASSUME NEW c \in Callers, Insert(c) PROVE KeyInv'
      <3>1. FoundIsRight'
        BY <2>1, <2>5 DEF Insert, EndTx, IInv, TypeOK, KeyInv, FoundIsRight
      <3>2. CASE EndTx(c)
        <4>1. \A d \in Callers : cpc'[d] = "inserted" =>
                cpc[d] = "inserted" /\ creq'[d] = creq[d]
          BY <3>2 DEF EndTx, IInv, TypeOK
        <4> QED
          BY <2>1, <2>2, <3>1, <4>1 DEF KeyInv, PendingKeys
      <3>3. CASE ~EndTx(c)
        <4>1. /\ cpc' = [cpc EXCEPT ![c] = "inserted"] /\ creq' = creq
              /\ ExistingRow(creq[c].name, creq[c].key) = {}
              /\ ~KeyLocked(c, creq[c].name, creq[c].key)
          BY <2>5, <3>3 DEF Insert
        <4>2. \A d \in Callers : cpc'[d] = "inserted" => d = c \/ cpc[d] = "inserted"
          BY <4>1 DEF IInv, TypeOK
        <4>3. creq[c].key # NoKey => \A j \in Rows : ~(/\ key[j] = creq[c].key
                                                       /\ name[j] = creq[c].name)
          BY <4>1 DEF ExistingRow
        <4>4. creq[c].key # NoKey => \A d \in Callers \ {c} :
                ~(/\ cpc[d] = "inserted" /\ creq[d].name = creq[c].name
                  /\ creq[d].key = creq[c].key)
          BY <4>1 DEF KeyLocked
        <4>5. PendingKeys'
          BY <2>1, <4>1, <4>2, <4>3, <4>4 DEF KeyInv, PendingKeys
        <4> QED
          BY <2>2, <3>1, <4>5 DEF KeyInv
      <3> QED
        BY <3>2, <3>3
    <2>6. ASSUME NEW c \in Callers, EndWithoutInsert(c) PROVE KeyInv'
      <3>1. \A d \in Callers : cpc'[d] # "idle" =>
              cpc[d] = cpc'[d] /\ creq'[d] = creq[d] /\ cjob'[d] = cjob[d]
        BY <2>6 DEF EndWithoutInsert, EndTx, IInv, TypeOK
      <3> QED
        BY <2>1, <2>2, <3>1 DEF KeyInv, PendingKeys, FoundIsRight
    <2> QED
      <3>1. ASSUME NEW w \in Workers, Start(w) \/ Run(w) \/ Fault(w) PROVE UNCHANGED callerVars
        BY <3>1 DEF Start, Run, Fault, Claim, HandlerReturns, ReportSuccess, ReportFailure,
           StartWithoutReclaim, ClaimLost, ReportLost, Crash, Sigterm, Stop, callerVars
      <3>2. ASSUME NEW j \in Jobs, BecomeDue(j) PROVE UNCHANGED callerVars
        BY <3>2 DEF BecomeDue
      <3> QED
        BY <1>2, <2>3, <2>4, <2>5, <2>6, <3>1, <3>2 DEF Next, CallerStep, vars
  <1> QED
    BY <1>1, <1>2

-----------------------------------------------------------------------------
(* One runner per job, under the start discipline. *)

\* At first nobody runs anything.
LEMMA InitOneRunner == Init => OneRunner
  BY DEF Init, OneRunner, Busy

\* Every step preserves it.
LEMMA StepOneRunner == IInv /\ OneRunner /\ [Next]_vars => OneRunner'
  <1> SUFFICES ASSUME IInv, OneRunner, [Next]_vars, ExclusiveStart PROVE OneRunner'
    BY DEF OneRunner
  <1> USE JobsAssumption
  <1>1. ASSUME NEW c \in Callers, CommitInsert(c) PROVE OneRunner'
    <2>1. \A w \in Workers : wpc[w] \in Busy => wjob[w] # cjob[c]
      BY <1>1 DEF CommitInsert, IInv, CallerView, WorkerView
    <2> QED
      BY <1>1, <2>1 DEF CommitInsert, IInv, TypeOK, WorkerView, OneRunner, workerVars, Rows
  <1>2. ASSUME NEW c \in Callers, Lookup(c) \/ Insert(c) \/ EndWithoutInsert(c)
        PROVE OneRunner'
    BY <1>2 DEF Lookup, Insert, EndWithoutInsert, OneRunner, rowVars, workerVars
  <1>3. ASSUME NEW j \in Jobs, BecomeDue(j) PROVE OneRunner'
    BY <1>3 DEF BecomeDue, OneRunner, workerVars
  <1>4. ASSUME NEW w \in Workers, Start(w) \/ StartWithoutReclaim(w) PROVE OneRunner'
    <2>1. \A v \in Workers : wpc'[v] \notin Busy
      BY <1>4 DEF Start, StartWithoutReclaim, MayStart, Idle, IInv, TypeOK, Busy
    <2> QED
      BY <2>1 DEF OneRunner
  <1>5. ASSUME NEW w \in Workers, Claim(w) PROVE OneRunner'
    <2>1. PICK j \in Jobs :
            /\ Claimable(j)
            /\ status' = [status EXCEPT ![j] = "running"]
            /\ wjob' = [wjob EXCEPT ![w] = j]
            /\ watt' = [watt EXCEPT ![w] = attempts[j]]
      BY <1>5 DEF Claim
    <2>2. wpc' = [wpc EXCEPT ![w] = "handling"] /\ attempts' = attempts /\ wpc[w] = "idle"
      BY <1>5 DEF Claim
    <2>3. \A v \in Workers : wpc[v] \in Busy => wjob[v] # j
      BY <2>1 DEF OneRunner, Claimable
    <2> QED
      BY <2>1, <2>2, <2>3 DEF IInv, TypeOK, OneRunner, Busy, WorkerView, Rows
  <1>6. ASSUME NEW w \in Workers, ClaimLost(w) PROVE OneRunner'
    BY <1>6 DEF ClaimLost, Claimable, IInv, TypeOK, OneRunner, workerVars, WorkerView, Rows
  <1>7. ASSUME NEW w \in Workers, NEW ok \in BOOLEAN, HandlerReturns(w, ok) PROVE OneRunner'
    BY <1>7 DEF HandlerReturns, Result, IInv, TypeOK, OneRunner, Busy, rowVars
  <1>8. ASSUME NEW w \in Workers,
               \/ ReportSuccess(w) \/ ReportFailure(w) \/ ReportLost(w)
               \/ Crash(w) \/ Sigterm(w)
        PROVE OneRunner'
    <2>1. /\ wpc'[w] \notin Busy
          /\ \A v \in Workers \ {w} :
               wpc'[v] = wpc[v] /\ wjob'[v] = wjob[v] /\ watt'[v] = watt[v]
      BY <1>8 DEF ReportSuccess, ReportFailure, ReportLost, Crash, Sigterm, Stop, Idle,
                  Forget, IInv, TypeOK, Busy
    <2>2. ASSUME NEW v \in Workers \ {w}, wpc[v] \in Busy
          PROVE  status'[wjob[v]] = status[wjob[v]] /\ attempts'[wjob[v]] = attempts[wjob[v]]
      <3>1. CASE ReportLost(w) \/ Crash(w) \/ Sigterm(w)
        BY <3>1 DEF ReportLost, Crash, Sigterm, Stop, rowVars
      <3>2. CASE ReportSuccess(w) \/ ReportFailure(w)
        <4>1. wpc[w] \in Busy /\ wjob[w] # wjob[v]
          BY <2>2, <3>2 DEF ReportSuccess, ReportFailure, Busy, OneRunner
        <4>2. wjob[v] \in Jobs
          BY <2>2 DEF IInv, WorkerView, Rows
        <4> QED
          BY <3>2, <4>1, <4>2 DEF ReportSuccess, ReportFailure, IInv, TypeOK
      <3> QED
        BY <1>8, <3>1, <3>2
    <2> QED
      BY <2>1, <2>2 DEF OneRunner
  <1>9. CASE UNCHANGED vars
    BY <1>9 DEF vars, rowVars, workerVars, OneRunner
  <1> QED
    BY <1>1, <1>2, <1>3, <1>4, <1>5, <1>6, <1>7, <1>8, <1>9
    DEF Next, CallerStep, Run, Fault

\* Under the start discipline a report is applied to the row as it was claimed.
LEMMA SettledStep ==
  ASSUME IInv, OneRunner, [Next]_vars, ExclusiveStart
  PROVE  \A j \in Rows : /\ status[j] \in Settled => status'[j] = status[j]
                         /\ attempts'[j] >= attempts[j]
  <1> SUFFICES ASSUME NEW j \in Rows
               PROVE  /\ status[j] \in Settled => status'[j] = status[j]
                      /\ attempts'[j] >= attempts[j]
    OBVIOUS
  <1>0. j \in Jobs /\ attempts[j] \in Int
    BY DEF Rows, IInv, TypeOK
  <1>1. ASSUME NEW c \in Callers, CallerStep(c)
        PROVE  status'[j] = status[j] /\ attempts'[j] = attempts[j]
    BY <1>0, <1>1 DEF CallerStep, Lookup, Insert, CommitInsert, EndWithoutInsert, rowVars,
                      IInv, TypeOK, CallerView
  <1>2. ASSUME NEW w \in Workers, Start(w) \/ Claim(w) \/ Fault(w)
        PROVE  attempts' = attempts /\ (status[j] \in Settled => status'[j] = status[j])
    BY <1>0, <1>2 DEF Start, Reclaimed, Claim, Fault, StartWithoutReclaim, ClaimLost, ReportLost, Crash,
       Sigterm, Stop, Claimable, Settled, rowVars, IInv, TypeOK
  <1>3. ASSUME NEW w \in Workers, ReportSuccess(w) \/ ReportFailure(w)
        PROVE  /\ status[j] \in Settled => status'[j] = status[j]
               /\ attempts'[j] >= attempts[j]
    <2>1. wpc[w] = "reporting" /\ status[wjob[w]] = "running" /\ attempts[wjob[w]] = watt[w]
      BY <1>3 DEF ReportSuccess, ReportFailure, OneRunner, Busy
    <2> QED
      BY <1>0, <1>3, <2>1 DEF ReportSuccess, ReportFailure, LastAttempt, Settled, IInv, TypeOK
  <1>4. ASSUME UNCHANGED <<status, attempts>>
        PROVE  status'[j] = status[j] /\ attempts'[j] >= attempts[j]
    BY <1>0, <1>4
  <1>5. ASSUME NEW i \in Jobs, BecomeDue(i) PROVE UNCHANGED <<status, attempts>>
    BY <1>5 DEF BecomeDue
  <1>6. ASSUME NEW w \in Workers, NEW ok \in BOOLEAN, HandlerReturns(w, ok)
        PROVE  UNCHANGED <<status, attempts>>
    BY <1>6 DEF HandlerReturns, Result, rowVars
  <1> QED
    BY <1>0, <1>1, <1>2, <1>3, <1>4, <1>5, <1>6 DEF Next, Run, vars, rowVars

-----------------------------------------------------------------------------
(* Theorems. *)

\* The inductive invariant holds in every reachable state.
THEOREM Invariance == Spec => [](IInv /\ KeyInv /\ OneRunner)
  <1>1. Init => IInv /\ KeyInv /\ OneRunner
    BY InitIInv, InitKeyInv, InitOneRunner
  <1>2. IInv /\ KeyInv /\ OneRunner /\ [Next]_vars => (IInv /\ KeyInv /\ OneRunner)'
    BY StepIInv, StepKeyInv, StepOneRunner
  <1> QED
    BY <1>1, <1>2, PTL DEF Spec

\* The variables keep their types.
THEOREM TypeCorrect == Spec => []TypeOK
  BY Invariance, PTL DEF IInv

\* A job is retried until it has used exactly its limit of failures, whatever
\* workers crash, restart or report late.
THEOREM RetriesWithinBudget == Spec => []RetryBudget
  BY Invariance, PTL DEF IInv

\* A succeeded row was handled with success at least once.
THEOREM SuccessIsEarned == Spec => []SucceededRan
  BY Invariance, PTL DEF IInv

\* Idempotency keys are unique among the rows of a (tenant, name).
THEOREM KeysAreUnique == Spec => []KeyUnique
  BY Invariance, PTL DEF KeyInv

\* Under the start discipline a job has at most one runner.
THEOREM OneRunnerHolds == Spec => []OneRunner
  BY Invariance, PTL

\* Under the start discipline a settled job stays settled and no failure is
\* uncounted.
THEOREM SettledJobsStay == Spec => SettledStable
  <1>1. IInv /\ OneRunner /\ [Next]_vars =>
          [ExclusiveStart => \A j \in Rows : /\ status[j] \in Settled => status'[j] = status[j]
                                             /\ attempts'[j] >= attempts[j]]_vars
    BY SettledStep
  <1> QED
    BY <1>1, Invariance, PTL DEF Spec, SettledStable

-----------------------------------------------------------------------------
(* Refinement. *)

\* Under the start discipline every step of the queue is a step of its contract
\* or leaves the contract's state alone.
LEMMA StepContract ==
  ASSUME IInv, OneRunner, [Next]_vars, ExclusiveStart
  PROVE  [Contract!Next]_(Contract!vars)
  <1>0. /\ \A j \in Jobs : Phase[j] = IF status[j] \in {"pending", "running"}
                                      THEN "open" ELSE status[j]
        /\ \A j \in Jobs : Phase'[j] = IF status'[j] \in {"pending", "running"}
                                       THEN "open" ELSE status'[j]
    BY DEF Phase
  <1>1. ASSUME NEW c \in Callers, CommitInsert(c) PROVE Contract!Next
    <2> DEFINE j == cjob[c]
    <2>1. j \in Jobs /\ status[j] = "absent" /\ creq[c].limit \in 1..AttemptsCap
      BY <1>1 DEF CommitInsert, IInv, CallerView, Rows, Requests
    <2>2. Phase' = [Phase EXCEPT ![j] = "open"]
      BY <1>1, <2>1 DEF CommitInsert, IInv, TypeOK, Phase
    <2>3. Contract!Submit(j)
      BY <1>0, <1>1, <2>1, <2>2 DEF CommitInsert, Contract!Submit
    <2> QED
      BY <2>1, <2>3 DEF Contract!Next
  <1>2. ASSUME UNCHANGED <<status, attempts, limit, okRuns>>
        PROVE  UNCHANGED Contract!vars
    BY <1>2 DEF Contract!vars, Phase
  <1>3. ASSUME NEW w \in Workers, Start(w) \/ Claim(w) \/ ClaimLost(w)
        PROVE  UNCHANGED Contract!vars
    <2>1. Phase' = Phase
      BY <1>3 DEF Start, Reclaimed, Claim, ClaimLost, Claimable, IInv, TypeOK, Phase
    <2> QED
      BY <1>3, <2>1 DEF Start, Reclaimed, Claim, ClaimLost, Contract!vars
  <1>4. ASSUME NEW w \in Workers, NEW ok \in BOOLEAN, HandlerReturns(w, ok)
        PROVE  [Contract!Next]_(Contract!vars)
    <2>1. wjob[w] \in Jobs /\ status[wjob[w]] = "running"
      BY <1>4 DEF HandlerReturns, Result, OneRunner, Busy, IInv, WorkerView, Rows
    <2>2. Phase' = Phase /\ UNCHANGED <<attempts, limit>>
      BY <1>4 DEF HandlerReturns, Result, rowVars, Phase
    <2>3. CASE ok /\ name[wjob[w]] \in SafeNames
      <3>1. okRuns' = okRuns \cup {wjob[w]}
        BY <1>4, <2>1, <2>3 DEF HandlerReturns
      <3>2. Contract!HandlerOk(wjob[w])
        BY <1>0, <1>4, <2>1, <2>2, <3>1 DEF HandlerReturns, Contract!HandlerOk
      <3> QED
        BY <2>1, <3>2 DEF Contract!Next
    <2>4. CASE ~(ok /\ name[wjob[w]] \in SafeNames)
      <3>1. okRuns' = okRuns
        BY <1>4, <2>4 DEF HandlerReturns
      <3> QED
        BY <2>2, <3>1 DEF Contract!vars
    <2> QED
      BY <2>3, <2>4
  <1>5. ASSUME NEW w \in Workers, ReportSuccess(w) PROVE Contract!Next
    <2> DEFINE j == wjob[w]
    <2>1. j \in Jobs /\ status[j] = "running" /\ j \in okRuns
      BY <1>5 DEF ReportSuccess, OneRunner, Busy, IInv, WorkerView, Rows
    <2>2. Phase' = [Phase EXCEPT ![j] = "succeeded"]
      BY <1>5, <2>1 DEF ReportSuccess, IInv, TypeOK, Phase
    <2>3. Contract!Succeed(j)
      BY <1>0, <1>5, <2>1, <2>2 DEF ReportSuccess, Contract!Succeed
    <2> QED
      BY <2>1, <2>3 DEF Contract!Next
  <1>6. ASSUME NEW w \in Workers, ReportFailure(w) PROVE Contract!Next
    <2> DEFINE j == wjob[w]
    <2>1. /\ j \in Jobs /\ status[j] = "running"
          /\ attempts[j] = watt[w] /\ attempts[j] \in Int
          /\ limit[j] \in Int /\ attempts[j] < limit[j]
      BY <1>6 DEF ReportFailure, LastAttempt, OneRunner, Busy, IInv, TypeOK, WorkerView, Rows
    <2>2. /\ attempts' = [attempts EXCEPT ![j] = @ + 1]
          /\ UNCHANGED <<limit, okRuns>>
      BY <1>6, <2>1 DEF ReportFailure, LastAttempt
    <2>3. Phase' = [Phase EXCEPT ![j] = IF attempts[j] + 1 = limit[j] THEN "failed" ELSE "open"]
      <3>1. status' = [status EXCEPT ![j] = IF attempts[j] + 1 = limit[j] THEN "failed" ELSE "pending"]
        BY <1>6, <2>1 DEF ReportFailure, LastAttempt
      <3> QED
        BY <2>1, <3>1 DEF IInv, TypeOK, Phase
    <2>4. Contract!Fail(j)
      BY <1>0, <2>1, <2>2, <2>3 DEF Contract!Fail
    <2> QED
      BY <2>1, <2>4 DEF Contract!Next
  <1>7. ASSUME NEW c \in Callers, Lookup(c) \/ Insert(c) \/ EndWithoutInsert(c)
        PROVE  UNCHANGED <<status, attempts, limit, okRuns>>
    BY <1>7 DEF Lookup, Insert, EndWithoutInsert, rowVars
  <1>8. ASSUME NEW w \in Workers,
               StartWithoutReclaim(w) \/ ReportLost(w) \/ Crash(w) \/ Sigterm(w)
        PROVE  UNCHANGED <<status, attempts, limit, okRuns>>
    BY <1>8 DEF StartWithoutReclaim, ReportLost, Crash, Sigterm, Stop, rowVars
  <1>9. ASSUME NEW j \in Jobs, BecomeDue(j)
        PROVE  UNCHANGED <<status, attempts, limit, okRuns>>
    BY <1>9 DEF BecomeDue
  <1> QED
    BY <1>1, <1>2, <1>3, <1>4, <1>5, <1>6, <1>7, <1>8, <1>9
    DEF Next, CallerStep, Run, Fault, vars, rowVars

\* Under the start discipline the queue implements its contract: at-least-once
\* handling, exactly `limit' counted failures before giving up, and settled
\* means settled.
THEOREM QueueImplementsContract ==
  ASSUME ExclusiveStart PROVE Spec => ImplementsContract
  <1>1. Init => Contract!Init
    BY DEF Init, Contract!Init, Phase
  <1>2. IInv /\ OneRunner /\ [Next]_vars => [Contract!Next]_(Contract!vars)
    BY StepContract
  <1> QED
    BY <1>1, <1>2, Invariance, PTL DEF Spec, ImplementsContract, Contract!Spec

=============================================================================
