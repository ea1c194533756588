------------------------- MODULE OperationRunProofs -------------------------
(***************************************************************************)
(* Proofs about OperationRun, for any sets of runs, records, operations,   *)
(* keys, clients and executors and any bounds.                             *)
(*                                                                         *)
(* IInv strengthens the properties with what an open transaction knows:    *)
(* nobody else holds the run it inserted, no committed run has its key,    *)
(* and the record it locked is still in the state it checked.              *)
(***************************************************************************)
EXTENDS OperationRun, TLAPS

\* Uncommitted inserts: clients between insert_tx and COMMIT.
Inserting(c) == c \in Clients /\ pc[c] \in {"inserted", "applied"}

ClientInv ==
  \A c \in Clients :
    /\ pc[c] \in {"idle", "insert", "inserted", "applied"}
    /\ pc[c] = "idle" => req[c] = None /\ own[c] = None
    /\ pc[c] = "insert" => req[c] \in Requests /\ own[c] = None
    /\ Inserting(c) => /\ req[c] \in Requests
                       /\ own[c] \in Runs
                       /\ own[c] \notin Rows
                       /\ \A o \in Procs : o # c => own[o] # own[c]
    /\ pc[c] = "applied" => req[c].op \in SyncOps
    /\ pc[c] # "idle" /\ req[c].op \in KeyedOps => req[c].key # NoKey

ExecutorInv ==
  \A e \in Executors :
    /\ pc[e] \in {"idle", "taken", "mark", "marked", "applied", "ok", "err"}
    /\ pc[e] = "idle" => req[e] = None /\ own[e] = None
    /\ pc[e] # "idle" => own[e] \in Rows /\ req[e] = what[own[e]] /\ job[own[e]] # "none"
    /\ pc[e] = "ok" => status[own[e]] = "completed"

RowInv ==
  /\ \A r \in Runs \ Rows : what[r] = None /\ job[r] = "none" /\ effects[r] = 0
  /\ \A r \in Rows : what[r] \in Requests
  /\ \A r \in Runs : status[r] = "queued" => job[r] # "none"
  /\ RunsMatchJobs

\* With one runner a time, a job that is being run, or is ready, has attempts left.
JobInv ==
  OneRunner =>
    /\ \A r \in Runs : job[r] \in {"none", "ready"} => tries[r] < MaxTries
    /\ \A e \in Executors : own[e] # None => job[own[e]] = "ready"

\* The unique index: no committed row, and no other open insert, has the key of
\* an open insert.
KeyInv ==
  /\ \A r, s \in Rows : what[r].key # NoKey /\ what[r].key = what[s].key => r = s
  /\ \A c \in Clients : Inserting(c) =>
       /\ Existing(req[c].key) = {}
       /\ \A d \in Clients : Inserting(d) /\ req[c].key # NoKey
                               /\ req[c].key = req[d].key => c = d

\* With one runner a time, an executor past the lookup works on a run without
\* effect, when the run has a key.
EffectInv ==
  OneRunner =>
    /\ \A d, e \in Executors : own[d] # None /\ own[d] = own[e] => d = e
    /\ \A r \in Rows : what[r].key # NoKey => effects[r] <= 1
    /\ \A e \in Executors : pc[e] \in {"mark", "marked", "applied"}
                              /\ what[own[e]].key # NoKey => effects[own[e]] = 0

\* The record lock: who applied a transition still sees the record unmoved.
MoveInv ==
  /\ \A x \in Recs : moves[x] <= 1 /\ (moves[x] = 1 => moved[x])
  /\ \A p, o \in Procs : pc[p] = "applied" /\ pc[o] = "applied"
                           /\ req[p].rec = req[o].rec => p = o
  /\ \A p \in Procs : pc[p] = "applied" => MayMove(p)

IInv ==
  TypeOK /\ ClientInv /\ ExecutorInv /\ RowInv /\ JobInv /\ KeyInv /\ EffectInv /\ MoveInv
    /\ AnswersTrue
-----------------------------------------------------------------------------
(* The initial states and the steps. *)

USE OpsAssumption, SubsetsAssumption, ProcsAssumption, NoneAssumption, BoundsAssumption

\* No process is busy and no row is committed at first.
LEMMA InitIInv == Init => IInv
  BY DEF Init, IInv, TypeOK, Kinds, ClientInv, ExecutorInv, RowInv, RunsMatchJobs, JobInv,
         KeyInv, EffectInv, MoveInv, AnswersTrue, Inserting, Existing, Rows, MayMove, Procs

\* A lookup answers only what the rows say.
LEMMA AskStep == ASSUME IInv, NEW c \in Clients, Ask(c) PROVE IInv'
  <1>1. TypeOK'
    BY DEF Ask, Tell, Reply, Existing, tableVars, procVars, IInv, TypeOK, Statuses, Kinds,
           Procs, Requests, Ops, ClientInv, ExecutorInv, Inserting, Rows, RowInv,
           RunsMatchJobs
  <1>2. ClientInv'
    BY DEF Ask, Tell, Reply, Existing, tableVars, procVars, IInv, TypeOK, ClientInv,
           Inserting, Procs, ExecutorInv, Rows, RowInv, RunsMatchJobs
  <1>3. ExecutorInv'
    BY DEF Ask, Tell, Reply, Existing, tableVars, procVars, IInv, TypeOK, ExecutorInv,
           Procs, ClientInv, Inserting, Rows, RowInv, RunsMatchJobs
  <1>4. RowInv'
    BY DEF Ask, Tell, Reply, Existing, tableVars, procVars, IInv, TypeOK, RowInv,
           RunsMatchJobs, Procs, ClientInv, ExecutorInv, Inserting, Rows
  <1>5. JobInv'
    BY DEF Ask, Tell, Reply, Existing, tableVars, procVars, IInv, TypeOK, JobInv, Procs
  <1>6. KeyInv'
    BY DEF Ask, Tell, Reply, Existing, tableVars, procVars, IInv, TypeOK, KeyInv, Inserting,
           Procs, ClientInv, ExecutorInv, Rows, RowInv, RunsMatchJobs
  <1>7. EffectInv'
    BY DEF Ask, Tell, Reply, Existing, tableVars, procVars, IInv, TypeOK, EffectInv, Rows,
           ClientInv, Inserting, Procs
  <1>8. MoveInv'
    BY DEF Ask, Tell, Reply, Existing, tableVars, procVars, IInv, TypeOK, MoveInv, MayMove,
           Procs
  <1>9. AnswersTrue'
    <2>1. CASE UNCHANGED answers
      BY <2>1 DEF Ask, IInv, AnswersTrue, tableVars
    <2>2. ASSUME NEW q \in Requests, NEW r \in Existing(q.key), Tell(Reply(status[r]), q, r)
          PROVE AnswersTrue'
      <3>1. status[r] \in {"queued", "completed"} /\ r \in Runs
        BY DEF Existing, Rows, IInv, TypeOK, Statuses
      <3>2. /\ Reply(status[r]) = "result" => effects[r] > 0
            /\ Reply(status[r]) = "queued" => job[r] # "none"
        BY <3>1 DEF Reply, IInv, RowInv, RunsMatchJobs, Rows
      <3>3. UNCHANGED <<effects, job>>
        BY DEF Ask, tableVars
      <3> QED
        BY <2>2, <3>2, <3>3 DEF Tell, AnswersTrue, IInv
    <2> QED
      BY <2>1, <2>2 DEF Ask
  <1> QED
    BY <1>1, <1>2, <1>3, <1>4, <1>5, <1>6, <1>7, <1>8, <1>9 DEF IInv

\* An insert passes the unique index only when its key is free.
LEMMA InsertStep == ASSUME IInv, NEW c \in Clients, Insert(c) PROVE IInv'
  <1>1. TypeOK'
    BY DEF Insert, Tell, Rest, KeyLocked, Existing, tableVars, IInv, TypeOK, Statuses,
           Kinds, Procs, Requests, Ops, ClientInv, ExecutorInv, Inserting, Rows, RowInv,
           RunsMatchJobs
  <1>2. ClientInv'
    BY DEF Insert, Tell, Rest, KeyLocked, Existing, tableVars, IInv, TypeOK, ClientInv,
           Inserting, Procs, ExecutorInv, Rows, RowInv, RunsMatchJobs
  <1>3. ExecutorInv'
    BY DEF Insert, Tell, Rest, KeyLocked, Existing, tableVars, IInv, TypeOK, ExecutorInv,
           Procs, ClientInv, Inserting, Rows, RowInv, RunsMatchJobs
  <1>4. RowInv'
    BY DEF Insert, Tell, Rest, KeyLocked, Existing, tableVars, IInv, TypeOK, RowInv,
           RunsMatchJobs, Procs, ClientInv, ExecutorInv, Inserting, Rows
  <1>5. JobInv'
    BY DEF Insert, Tell, Rest, KeyLocked, Existing, tableVars, IInv, TypeOK, JobInv, Procs
  <1>6. KeyInv'
    BY DEF Insert, Tell, Rest, KeyLocked, Existing, tableVars, IInv, TypeOK, KeyInv,
           Inserting, Procs, ClientInv, ExecutorInv, Rows, RowInv, RunsMatchJobs
  <1>7. EffectInv'
    BY DEF Insert, Tell, Rest, KeyLocked, Existing, tableVars, IInv, TypeOK, EffectInv,
           Rows, ClientInv, Inserting, Procs
  <1>8. MoveInv'
    BY DEF Insert, Tell, Rest, KeyLocked, Existing, tableVars, IInv, TypeOK, MoveInv,
           MayMove, Procs
  <1>9. AnswersTrue'
    BY DEF Insert, Tell, Rest, KeyLocked, Existing, tableVars, IInv, TypeOK, AnswersTrue,
           Procs, ClientInv, ExecutorInv, Inserting, Rows, RowInv, RunsMatchJobs
  <1> QED
    BY <1>1, <1>2, <1>3, <1>4, <1>5, <1>6, <1>7, <1>8, <1>9 DEF IInv

\* The run and its job appear together.
LEMMA CommitQueuedStep == ASSUME IInv, NEW c \in Clients, CommitQueued(c) PROVE IInv'
  <1>1. TypeOK'
    BY DEF CommitQueued, Tell, Rest, IInv, TypeOK, Statuses, Kinds, Procs, Requests, Ops,
           ClientInv, ExecutorInv, Inserting
  <1>2. ClientInv'
    BY DEF CommitQueued, Tell, Rest, IInv, TypeOK, ClientInv, Inserting, Procs, ExecutorInv,
           Rows, RowInv, RunsMatchJobs
  <1>3. ExecutorInv'
    BY DEF CommitQueued, Tell, Rest, IInv, TypeOK, ExecutorInv, Procs, ClientInv, Inserting,
           Rows, RowInv, RunsMatchJobs
  <1>4. RowInv'
    BY DEF CommitQueued, Tell, Rest, IInv, TypeOK, RowInv, RunsMatchJobs, Procs, ClientInv,
           ExecutorInv, Inserting, Rows
  <1>5. JobInv'
    BY DEF CommitQueued, Tell, Rest, IInv, TypeOK, JobInv, Procs, ClientInv, ExecutorInv,
           Inserting, Rows, RowInv, RunsMatchJobs
  <1>6. KeyInv'
    BY DEF CommitQueued, Tell, Rest, IInv, TypeOK, KeyInv, Inserting, Existing, Procs,
           ClientInv, ExecutorInv, Rows, RowInv, RunsMatchJobs
  <1>7. EffectInv'
    BY DEF CommitQueued, Tell, Rest, IInv, TypeOK, EffectInv, Rows, ClientInv, Inserting,
           Procs, ExecutorInv, RowInv, RunsMatchJobs
  <1>8. MoveInv'
    BY DEF CommitQueued, Tell, Rest, IInv, TypeOK, MoveInv, MayMove, Procs
  <1>9. AnswersTrue'
    BY DEF CommitQueued, Tell, Rest, IInv, TypeOK, AnswersTrue, Procs, ClientInv,
           ExecutorInv, Inserting
  <1> QED
    BY <1>1, <1>2, <1>3, <1>4, <1>5, <1>6, <1>7, <1>8, <1>9 DEF IInv

\* An executor takes a ready job.
LEMMA TakeStep == ASSUME IInv, NEW e \in Executors, Take(e) PROVE IInv'
  <1>1. TypeOK'
    BY DEF Take, tableVars, histVars, IInv, TypeOK, Statuses, Kinds, Procs, Requests, Ops,
           ClientInv, ExecutorInv, Inserting, Rows, RowInv, RunsMatchJobs
  <1>2. ClientInv'
    BY DEF Take, tableVars, histVars, IInv, TypeOK, ClientInv, Inserting, Procs,
           ExecutorInv, Rows, RowInv, RunsMatchJobs
  <1>3. ExecutorInv'
    BY DEF Take, tableVars, histVars, IInv, TypeOK, ExecutorInv, Procs, ClientInv,
           Inserting, Rows, RowInv, RunsMatchJobs
  <1>4. RowInv'
    BY DEF Take, tableVars, histVars, IInv, TypeOK, RowInv, RunsMatchJobs, Procs, ClientInv,
           ExecutorInv, Inserting, Rows
  <1>5. JobInv'
    BY DEF Take, tableVars, histVars, IInv, TypeOK, JobInv, Procs
  <1>6. KeyInv'
    BY DEF Take, tableVars, histVars, IInv, TypeOK, KeyInv, Inserting, Existing, Procs,
           ClientInv, ExecutorInv, Rows, RowInv, RunsMatchJobs
  <1>7. EffectInv'
    BY DEF Take, tableVars, histVars, IInv, TypeOK, EffectInv, Rows, ClientInv, Inserting,
           Procs
  <1>8. MoveInv'
    BY DEF Take, tableVars, histVars, IInv, TypeOK, MoveInv, MayMove, Procs
  <1>9. AnswersTrue'
    BY DEF Take, tableVars, histVars, IInv, TypeOK, AnswersTrue, Procs
  <1> QED
    BY <1>1, <1>2, <1>3, <1>4, <1>5, <1>6, <1>7, <1>8, <1>9 DEF IInv

\* A completed run of a key is replayed.
LEMMA FindStep == ASSUME IInv, NEW e \in Executors, Find(e) PROVE IInv'
  <1>1. TypeOK'
    BY DEF Find, At, Replays, tableVars, histVars, IInv, TypeOK, Statuses, Kinds, Procs,
           Requests, Ops
  <1>2. ClientInv'
    BY DEF Find, At, Replays, tableVars, histVars, IInv, TypeOK, ClientInv, Inserting,
           Procs, ExecutorInv, Rows, RowInv, RunsMatchJobs
  <1>3. ExecutorInv'
    BY DEF Find, At, Replays, tableVars, histVars, IInv, TypeOK, ExecutorInv, Procs,
           ClientInv, Inserting, Rows, RowInv, RunsMatchJobs
  <1>4. RowInv'
    BY DEF Find, At, Replays, tableVars, histVars, IInv, TypeOK, RowInv, RunsMatchJobs,
           Procs, ClientInv, ExecutorInv, Inserting, Rows
  <1>5. JobInv'
    BY DEF Find, At, Replays, tableVars, histVars, IInv, TypeOK, JobInv, Procs
  <1>6. KeyInv'
    BY DEF Find, At, Replays, tableVars, histVars, IInv, TypeOK, KeyInv, Inserting,
           Existing, Procs, ClientInv, ExecutorInv, Rows, RowInv, RunsMatchJobs
  <1>7. EffectInv'
    BY DEF Find, At, Replays, tableVars, histVars, IInv, TypeOK, EffectInv, Rows, ClientInv,
           Inserting, Procs, ExecutorInv, RowInv, RunsMatchJobs
  <1>8. MoveInv'
    BY DEF Find, At, Replays, tableVars, histVars, IInv, TypeOK, MoveInv, MayMove, Procs
  <1>9. AnswersTrue'
    BY DEF Find, At, Replays, tableVars, histVars, IInv, TypeOK, AnswersTrue, Procs
  <1> QED
    BY <1>1, <1>2, <1>3, <1>4, <1>5, <1>6, <1>7, <1>8, <1>9 DEF IInv

\* The mark changes nothing that is committed.
LEMMA MarkStep == ASSUME IInv, NEW e \in Executors, Mark(e) PROVE IInv'
  <1>1. TypeOK'
    BY DEF Mark, At, RunLocked, tableVars, histVars, IInv, TypeOK, Statuses, Kinds, Procs,
           Requests, Ops
  <1>2. ClientInv'
    BY DEF Mark, At, RunLocked, tableVars, histVars, IInv, TypeOK, ClientInv, Inserting,
           Procs, ExecutorInv, Rows, RowInv, RunsMatchJobs
  <1>3. ExecutorInv'
    BY DEF Mark, At, RunLocked, tableVars, histVars, IInv, TypeOK, ExecutorInv, Procs,
           ClientInv, Inserting, Rows, RowInv, RunsMatchJobs
  <1>4. RowInv'
    BY DEF Mark, At, RunLocked, tableVars, histVars, IInv, TypeOK, RowInv, RunsMatchJobs,
           Procs, ClientInv, ExecutorInv, Inserting, Rows
  <1>5. JobInv'
    BY DEF Mark, At, RunLocked, tableVars, histVars, IInv, TypeOK, JobInv, Procs
  <1>6. KeyInv'
    BY DEF Mark, At, RunLocked, tableVars, histVars, IInv, TypeOK, KeyInv, Inserting,
           Existing, Procs, ClientInv, ExecutorInv, Rows, RowInv, RunsMatchJobs
  <1>7. EffectInv'
    BY DEF Mark, At, RunLocked, tableVars, histVars, IInv, TypeOK, EffectInv, Rows,
           ClientInv, Inserting, Procs
  <1>8. MoveInv'
    BY DEF Mark, At, RunLocked, tableVars, histVars, IInv, TypeOK, MoveInv, MayMove, Procs
  <1>9. AnswersTrue'
    BY DEF Mark, At, RunLocked, tableVars, histVars, IInv, TypeOK, AnswersTrue, Procs
  <1> QED
    BY <1>1, <1>2, <1>3, <1>4, <1>5, <1>6, <1>7, <1>8, <1>9 DEF IInv

\* Whoever applies holds the record's lock.
LEMMA ApplyStep == ASSUME IInv, NEW p \in Procs, Apply(p) PROVE IInv'
  <1>1. TypeOK'
    BY DEF Apply, At, Ready, RecLocked, MayMove, tableVars, histVars, IInv, TypeOK,
           Statuses, Kinds, Procs, Requests, Ops
  <1>2. ClientInv'
    BY DEF Apply, At, Ready, RecLocked, MayMove, tableVars, histVars, IInv, TypeOK,
           ClientInv, Inserting, Procs, ExecutorInv, Rows, RowInv, RunsMatchJobs
  <1>3. ExecutorInv'
    BY DEF Apply, At, Ready, RecLocked, MayMove, tableVars, histVars, IInv, TypeOK,
           ExecutorInv, Procs, ClientInv, Inserting, Rows, RowInv, RunsMatchJobs
  <1>4. RowInv'
    BY DEF Apply, At, Ready, RecLocked, MayMove, tableVars, histVars, IInv, TypeOK, RowInv,
           RunsMatchJobs, Procs, ClientInv, ExecutorInv, Inserting, Rows
  <1>5. JobInv'
    BY DEF Apply, At, Ready, RecLocked, MayMove, tableVars, histVars, IInv, TypeOK, JobInv,
           Procs
  <1>6. KeyInv'
    BY DEF Apply, At, Ready, RecLocked, MayMove, tableVars, histVars, IInv, TypeOK, KeyInv,
           Inserting, Existing, Procs, ClientInv, ExecutorInv, Rows, RowInv, RunsMatchJobs
  <1>7. EffectInv'
    BY DEF Apply, At, Ready, RecLocked, MayMove, tableVars, histVars, IInv, TypeOK,
           EffectInv, Rows, ClientInv, Inserting, Procs, ExecutorInv
  <1>8. MoveInv'
    BY DEF Apply, At, Ready, RecLocked, MayMove, tableVars, histVars, IInv, TypeOK, MoveInv,
           Procs
  <1>9. AnswersTrue'
    BY DEF Apply, At, Ready, RecLocked, MayMove, tableVars, histVars, IInv, TypeOK,
           AnswersTrue, Procs
  <1> QED
    BY <1>1, <1>2, <1>3, <1>4, <1>5, <1>6, <1>7, <1>8, <1>9 DEF IInv

\* A refused transition leaves the tables alone.
LEMMA RefuseStep == ASSUME IInv, NEW p \in Procs, Refuse(p) PROVE IInv'
  <1>1. TypeOK'
    BY DEF Refuse, Abort, Rest, At, Ready, tableVars, histVars, IInv, TypeOK, Statuses,
           Kinds, Procs, Requests, Ops
  <1>2. ClientInv'
    BY DEF Refuse, Abort, Rest, At, Ready, tableVars, histVars, IInv, TypeOK, ClientInv,
           Inserting, Procs, ExecutorInv, Rows, RowInv, RunsMatchJobs
  <1>3. ExecutorInv'
    BY DEF Refuse, Abort, Rest, At, Ready, tableVars, histVars, IInv, TypeOK, ExecutorInv,
           Procs, ClientInv, Inserting, Rows, RowInv, RunsMatchJobs
  <1>4. RowInv'
    BY DEF Refuse, Abort, Rest, At, Ready, tableVars, histVars, IInv, TypeOK, RowInv,
           RunsMatchJobs, Procs, ClientInv, ExecutorInv, Inserting, Rows
  <1>5. JobInv'
    BY DEF Refuse, Abort, Rest, At, Ready, tableVars, histVars, IInv, TypeOK, JobInv, Procs
  <1>6. KeyInv'
    BY DEF Refuse, Abort, Rest, At, Ready, tableVars, histVars, IInv, TypeOK, KeyInv,
           Inserting, Existing, Procs, ClientInv, ExecutorInv, Rows, RowInv, RunsMatchJobs
  <1>7. EffectInv'
    BY DEF Refuse, Abort, Rest, At, Ready, tableVars, histVars, IInv, TypeOK, EffectInv,
           Rows, ClientInv, Inserting, Procs
  <1>8. MoveInv'
    BY DEF Refuse, Abort, Rest, At, Ready, tableVars, histVars, IInv, TypeOK, MoveInv,
           MayMove, Procs
  <1>9. AnswersTrue'
    BY DEF Refuse, Abort, Rest, At, Ready, tableVars, histVars, IInv, TypeOK, AnswersTrue,
           Procs
  <1> QED
    BY <1>1, <1>2, <1>3, <1>4, <1>5, <1>6, <1>7, <1>8, <1>9 DEF IInv

\* A failure leaves the tables alone.
LEMMA FailStep == ASSUME IInv, NEW p \in Procs, Fail(p) PROVE IInv'
  <1>1. TypeOK'
    BY DEF Fail, Abort, Rest, At, tableVars, histVars, IInv, TypeOK, Statuses, Kinds, Procs,
           Requests, Ops
  <1>2. ClientInv'
    BY DEF Fail, Abort, Rest, At, tableVars, histVars, IInv, TypeOK, ClientInv, Inserting,
           Procs, ExecutorInv, Rows, RowInv, RunsMatchJobs
  <1>3. ExecutorInv'
    BY DEF Fail, Abort, Rest, At, tableVars, histVars, IInv, TypeOK, ExecutorInv, Procs,
           ClientInv, Inserting, Rows, RowInv, RunsMatchJobs
  <1>4. RowInv'
    BY DEF Fail, Abort, Rest, At, tableVars, histVars, IInv, TypeOK, RowInv, RunsMatchJobs,
           Procs, ClientInv, ExecutorInv, Inserting, Rows
  <1>5. JobInv'
    BY DEF Fail, Abort, Rest, At, tableVars, histVars, IInv, TypeOK, JobInv, Procs
  <1>6. KeyInv'
    BY DEF Fail, Abort, Rest, At, tableVars, histVars, IInv, TypeOK, KeyInv, Inserting,
           Existing, Procs, ClientInv, ExecutorInv, Rows, RowInv, RunsMatchJobs
  <1>7. EffectInv'
    BY DEF Fail, Abort, Rest, At, tableVars, histVars, IInv, TypeOK, EffectInv, Rows,
           ClientInv, Inserting, Procs
  <1>8. MoveInv'
    BY DEF Fail, Abort, Rest, At, tableVars, histVars, IInv, TypeOK, MoveInv, MayMove, Procs
  <1>9. AnswersTrue'
    BY DEF Fail, Abort, Rest, At, tableVars, histVars, IInv, TypeOK, AnswersTrue, Procs
  <1> QED
    BY <1>1, <1>2, <1>3, <1>4, <1>5, <1>6, <1>7, <1>8, <1>9 DEF IInv

\* A commit gives a run its only effect and a record its only move.
LEMMA CommitStep == ASSUME IInv, NEW p \in Procs, Commit(p) PROVE IInv'
  <1>1. TypeOK'
    BY DEF Commit, Complete, Tell, Rest, At, MayMove, IInv, TypeOK, Statuses, Kinds, Procs,
           Requests, Ops, ClientInv, ExecutorInv, Inserting, Rows, RowInv, RunsMatchJobs
  <1>2. ClientInv'
    BY DEF Commit, Complete, Tell, Rest, At, MayMove, IInv, TypeOK, ClientInv, Inserting,
           Procs, ExecutorInv, Rows, RowInv, RunsMatchJobs
  <1>3. ExecutorInv'
    BY DEF Commit, Complete, Tell, Rest, At, MayMove, IInv, TypeOK, ExecutorInv, Procs,
           ClientInv, Inserting, Rows, RowInv, RunsMatchJobs
  <1>4. RowInv'
    BY DEF Commit, Complete, Tell, Rest, At, MayMove, IInv, TypeOK, RowInv, RunsMatchJobs,
           Procs, ClientInv, ExecutorInv, Inserting, Rows
  <1>5. JobInv'
    BY DEF Commit, Complete, Tell, Rest, At, MayMove, IInv, TypeOK, JobInv, Procs
  <1>6. KeyInv'
    BY DEF Commit, Complete, Tell, Rest, At, MayMove, IInv, TypeOK, KeyInv, Inserting,
           Existing, Procs, ClientInv, ExecutorInv, Rows, RowInv, RunsMatchJobs
  <1>7. EffectInv'
    BY DEF Commit, Complete, Tell, Rest, At, MayMove, IInv, TypeOK, EffectInv, Rows,
           ClientInv, Inserting, Procs, ExecutorInv, RowInv, RunsMatchJobs
  <1>8. MoveInv'
    <2> DEFINE x == req[p].rec
    <2>1. /\ pc[p] = "applied" /\ x \in Recs /\ own[p] \in Runs
          /\ moved' = [moved EXCEPT ![x] = @ \/ req[p].op \in MoveOps]
          /\ moves' = [moves EXCEPT ![x] = @ + (IF req[p].op \in MoveOps THEN 1 ELSE 0)]
      BY DEF Commit, Complete, IInv, ClientInv, ExecutorInv, RowInv, Inserting, Procs, Requests, Rows
    <2>2. \A o \in Procs : pc'[o] = "applied" => o # p /\ pc[o] = "applied" /\ req'[o] = req[o]
      BY <2>1 DEF Commit, Rest, At, IInv, TypeOK, Procs
    <2>3. \A y \in Recs : moves'[y] <= 1 /\ (moves'[y] = 1 => moved'[y])
      <3>1. CASE req[p].op \in MoveOps
        <4>1. MayMove(p)
          BY <2>1 DEF IInv, MoveInv
        <4>2. ~moved[x]
          BY <3>1, <4>1 DEF MayMove
        <4>3. moves[x] # 1 /\ moves[x] <= 1 /\ moves[x] \in Nat
          BY <2>1, <4>2 DEF IInv, TypeOK, MoveInv
        <4>4. moves'[x] = 1
          BY <2>1, <3>1, <4>3 DEF IInv, TypeOK
        <4>6. moved'[x] = TRUE
          BY <2>1, <3>1 DEF IInv, TypeOK
        <4>5. \A y \in Recs \ {x} : moves'[y] = moves[y] /\ moved'[y] = moved[y]
          BY <2>1 DEF IInv, TypeOK
        <4> QED
          BY <4>4, <4>5, <4>6 DEF IInv, MoveInv
      <3>2. CASE req[p].op \notin MoveOps
        BY <2>1, <3>2 DEF IInv, TypeOK, MoveInv
      <3> QED
        BY <3>1, <3>2
    <2>4. \A o \in Procs : pc'[o] = "applied" => MayMove(o)'
      <3> SUFFICES ASSUME NEW o \in Procs, pc'[o] = "applied" PROVE MayMove(o)'
        OBVIOUS
      <3>1. req[o].rec # x /\ MayMove(o) /\ req'[o] = req[o]
        BY <2>1, <2>2 DEF IInv, MoveInv
      <3>2. moved'[req[o].rec] = moved[req[o].rec]
        BY <2>1, <3>1 DEF IInv, TypeOK
      <3> QED
        BY <3>1, <3>2 DEF MayMove
    <2> QED
      BY <2>2, <2>3, <2>4 DEF IInv, MoveInv
  <1>9. AnswersTrue'
    BY DEF Commit, Complete, Tell, Rest, At, MayMove, IInv, TypeOK, AnswersTrue, Procs,
           ClientInv, ExecutorInv, Inserting
  <1> QED
    BY <1>1, <1>2, <1>3, <1>4, <1>5, <1>6, <1>7, <1>8, <1>9 DEF IInv

\* So does a commit whose answer is lost.
LEMMA CommitLostStep == ASSUME IInv, NEW p \in Procs, CommitLost(p) PROVE IInv'
  <1>1. TypeOK'
    BY DEF CommitLost, Complete, Rest, At, MayMove, IInv, TypeOK, Statuses, Kinds, Procs,
           Requests, Ops, ClientInv, ExecutorInv, Inserting, Rows, RowInv, RunsMatchJobs
  <1>2. ClientInv'
    BY DEF CommitLost, Complete, Rest, At, MayMove, IInv, TypeOK, ClientInv, Inserting,
           Procs, ExecutorInv, Rows, RowInv, RunsMatchJobs
  <1>3. ExecutorInv'
    BY DEF CommitLost, Complete, Rest, At, MayMove, IInv, TypeOK, ExecutorInv, Procs,
           ClientInv, Inserting, Rows, RowInv, RunsMatchJobs
  <1>4. RowInv'
    BY DEF CommitLost, Complete, Rest, At, MayMove, IInv, TypeOK, RowInv, RunsMatchJobs,
           Procs, ClientInv, ExecutorInv, Inserting, Rows
  <1>5. JobInv'
    BY DEF CommitLost, Complete, Rest, At, MayMove, IInv, TypeOK, JobInv, Procs
  <1>6. KeyInv'
    BY DEF CommitLost, Complete, Rest, At, MayMove, IInv, TypeOK, KeyInv, Inserting,
           Existing, Procs, ClientInv, ExecutorInv, Rows, RowInv, RunsMatchJobs
  <1>7. EffectInv'
    BY DEF CommitLost, Complete, Rest, At, MayMove, IInv, TypeOK, EffectInv, Rows,
           ClientInv, Inserting, Procs, ExecutorInv, RowInv, RunsMatchJobs
  <1>8. MoveInv'
    <2> DEFINE x == req[p].rec
    <2>1. /\ pc[p] = "applied" /\ x \in Recs /\ own[p] \in Runs
          /\ moved' = [moved EXCEPT ![x] = @ \/ req[p].op \in MoveOps]
          /\ moves' = [moves EXCEPT ![x] = @ + (IF req[p].op \in MoveOps THEN 1 ELSE 0)]
      BY DEF CommitLost, Complete, IInv, ClientInv, ExecutorInv, RowInv, Inserting, Procs, Requests, Rows
    <2>2. \A o \in Procs : pc'[o] = "applied" => o # p /\ pc[o] = "applied" /\ req'[o] = req[o]
      BY <2>1 DEF CommitLost, Rest, At, IInv, TypeOK, Procs
    <2>3. \A y \in Recs : moves'[y] <= 1 /\ (moves'[y] = 1 => moved'[y])
      <3>1. CASE req[p].op \in MoveOps
        <4>1. MayMove(p)
          BY <2>1 DEF IInv, MoveInv
        <4>2. ~moved[x]
          BY <3>1, <4>1 DEF MayMove
        <4>3. moves[x] # 1 /\ moves[x] <= 1 /\ moves[x] \in Nat
          BY <2>1, <4>2 DEF IInv, TypeOK, MoveInv
        <4>4. moves'[x] = 1
          BY <2>1, <3>1, <4>3 DEF IInv, TypeOK
        <4>6. moved'[x] = TRUE
          BY <2>1, <3>1 DEF IInv, TypeOK
        <4>5. \A y \in Recs \ {x} : moves'[y] = moves[y] /\ moved'[y] = moved[y]
          BY <2>1 DEF IInv, TypeOK
        <4> QED
          BY <4>4, <4>5, <4>6 DEF IInv, MoveInv
      <3>2. CASE req[p].op \notin MoveOps
        BY <2>1, <3>2 DEF IInv, TypeOK, MoveInv
      <3> QED
        BY <3>1, <3>2
    <2>4. \A o \in Procs : pc'[o] = "applied" => MayMove(o)'
      <3> SUFFICES ASSUME NEW o \in Procs, pc'[o] = "applied" PROVE MayMove(o)'
        OBVIOUS
      <3>1. req[o].rec # x /\ MayMove(o) /\ req'[o] = req[o]
        BY <2>1, <2>2 DEF IInv, MoveInv
      <3>2. moved'[req[o].rec] = moved[req[o].rec]
        BY <2>1, <3>1 DEF IInv, TypeOK
      <3> QED
        BY <3>1, <3>2 DEF MayMove
    <2> QED
      BY <2>2, <2>3, <2>4 DEF IInv, MoveInv
  <1>9. AnswersTrue'
    BY DEF CommitLost, Complete, Rest, At, MayMove, IInv, TypeOK, AnswersTrue, Procs
  <1> QED
    BY <1>1, <1>2, <1>3, <1>4, <1>5, <1>6, <1>7, <1>8, <1>9 DEF IInv

\* Only the job of a completed run is reported done.
LEMMA ReportOkStep == ASSUME IInv, NEW e \in Executors, ReportOk(e) PROVE IInv'
  <1>1. TypeOK'
    BY DEF ReportOk, Rest, histVars, IInv, TypeOK, Statuses, Kinds, Procs, Requests, Ops
  <1>2. ClientInv'
    BY DEF ReportOk, Rest, histVars, IInv, TypeOK, ClientInv, Inserting, Procs, ExecutorInv,
           Rows, RowInv, RunsMatchJobs
  <1>3. ExecutorInv'
    BY DEF ReportOk, Rest, histVars, IInv, TypeOK, ExecutorInv, Procs, ClientInv, Inserting,
           Rows, RowInv, RunsMatchJobs
  <1>4. RowInv'
    BY DEF ReportOk, Rest, histVars, IInv, TypeOK, RowInv, RunsMatchJobs, Procs, ClientInv,
           ExecutorInv, Inserting, Rows
  <1>5. JobInv'
    BY DEF ReportOk, Rest, histVars, IInv, TypeOK, JobInv, Procs, ClientInv, ExecutorInv,
           Inserting, Rows, RowInv, RunsMatchJobs, KeyInv, EffectInv, MoveInv, AnswersTrue,
           Ops, tableVars, procVars, Requests
  <1>6. KeyInv'
    BY DEF ReportOk, Rest, histVars, IInv, TypeOK, KeyInv, Inserting, Existing, Procs,
           ClientInv, ExecutorInv, Rows, RowInv, RunsMatchJobs
  <1>7. EffectInv'
    BY DEF ReportOk, Rest, histVars, IInv, TypeOK, EffectInv, Rows, ClientInv, Inserting,
           Procs
  <1>8. MoveInv'
    BY DEF ReportOk, Rest, histVars, IInv, TypeOK, MoveInv, MayMove, Procs
  <1>9. AnswersTrue'
    BY DEF ReportOk, Rest, histVars, IInv, TypeOK, AnswersTrue, Procs
  <1> QED
    BY <1>1, <1>2, <1>3, <1>4, <1>5, <1>6, <1>7, <1>8, <1>9 DEF IInv

\* A failed attempt is counted.
LEMMA ReportErrStep == ASSUME IInv, NEW e \in Executors, ReportErr(e) PROVE IInv'
  <1>1. TypeOK'
    BY DEF ReportErr, Rest, Counts, LastTry, histVars, IInv, TypeOK, Statuses, Kinds, Procs,
           Requests, Ops, ClientInv, ExecutorInv, Inserting, Rows, RowInv, RunsMatchJobs,
           JobInv, KeyInv, EffectInv, MoveInv, AnswersTrue, tableVars, procVars
  <1>2. ClientInv'
    BY DEF ReportErr, Rest, Counts, LastTry, histVars, IInv, TypeOK, ClientInv, Inserting,
           Procs, ExecutorInv, Rows, RowInv, RunsMatchJobs
  <1>3. ExecutorInv'
    BY DEF ReportErr, Rest, Counts, LastTry, histVars, IInv, TypeOK, ExecutorInv, Procs,
           ClientInv, Inserting, Rows, RowInv, RunsMatchJobs
  <1>4. RowInv'
    BY DEF ReportErr, Rest, Counts, LastTry, histVars, IInv, TypeOK, RowInv, RunsMatchJobs,
           Procs, ClientInv, ExecutorInv, Inserting, Rows
  <1>5. JobInv'
    BY DEF ReportErr, Rest, Counts, LastTry, histVars, IInv, TypeOK, JobInv, Procs,
           ClientInv, ExecutorInv, Inserting, Rows, RowInv, RunsMatchJobs, KeyInv,
           EffectInv, MoveInv, AnswersTrue, Ops, tableVars, procVars, Requests
  <1>6. KeyInv'
    BY DEF ReportErr, Rest, Counts, LastTry, histVars, IInv, TypeOK, KeyInv, Inserting,
           Existing, Procs, ClientInv, ExecutorInv, Rows, RowInv, RunsMatchJobs
  <1>7. EffectInv'
    BY DEF ReportErr, Rest, Counts, LastTry, histVars, IInv, TypeOK, EffectInv, Rows,
           ClientInv, Inserting, Procs
  <1>8. MoveInv'
    BY DEF ReportErr, Rest, Counts, LastTry, histVars, IInv, TypeOK, MoveInv, MayMove, Procs
  <1>9. AnswersTrue'
    BY DEF ReportErr, Rest, Counts, LastTry, histVars, IInv, TypeOK, AnswersTrue, Procs
  <1> QED
    BY <1>1, <1>2, <1>3, <1>4, <1>5, <1>6, <1>7, <1>8, <1>9 DEF IInv

\* A crash gives everything uncommitted up.
LEMMA CrashStep == ASSUME IInv, NEW p \in Procs, Crash(p) PROVE IInv'
  <1>1. TypeOK'
    BY DEF Crash, Rest, tableVars, histVars, IInv, TypeOK, Statuses, Kinds, Procs, Requests,
           Ops
  <1>2. ClientInv'
    BY DEF Crash, Rest, tableVars, histVars, IInv, TypeOK, ClientInv, Inserting, Procs,
           ExecutorInv, Rows, RowInv, RunsMatchJobs
  <1>3. ExecutorInv'
    BY DEF Crash, Rest, tableVars, histVars, IInv, TypeOK, ExecutorInv, Procs, ClientInv,
           Inserting, Rows, RowInv, RunsMatchJobs
  <1>4. RowInv'
    BY DEF Crash, Rest, tableVars, histVars, IInv, TypeOK, RowInv, RunsMatchJobs, Procs,
           ClientInv, ExecutorInv, Inserting, Rows
  <1>5. JobInv'
    BY DEF Crash, Rest, tableVars, histVars, IInv, TypeOK, JobInv, Procs
  <1>6. KeyInv'
    BY DEF Crash, Rest, tableVars, histVars, IInv, TypeOK, KeyInv, Inserting, Existing,
           Procs, ClientInv, ExecutorInv, Rows, RowInv, RunsMatchJobs
  <1>7. EffectInv'
    BY DEF Crash, Rest, tableVars, histVars, IInv, TypeOK, EffectInv, Rows, ClientInv,
           Inserting, Procs
  <1>8. MoveInv'
    BY DEF Crash, Rest, tableVars, histVars, IInv, TypeOK, MoveInv, MayMove, Procs
  <1>9. AnswersTrue'
    BY DEF Crash, Rest, tableVars, histVars, IInv, TypeOK, AnswersTrue, Procs
  <1> QED
    BY <1>1, <1>2, <1>3, <1>4, <1>5, <1>6, <1>7, <1>8, <1>9 DEF IInv

-----------------------------------------------------------------------------
(* The theorems. *)

\* IInv holds in every reachable state.
LEMMA Inductive == Spec => []IInv
  <1>1. IInv /\ [Next]_vars => IInv'
    <2> SUFFICES ASSUME IInv, [Next]_vars PROVE IInv'
      OBVIOUS
    <2>1. CASE UNCHANGED vars
      BY <2>1 DEF vars, tableVars, procVars, histVars, IInv, TypeOK, ClientInv, ExecutorInv,
                  RowInv, RunsMatchJobs, JobInv, KeyInv, EffectInv, MoveInv, MayMove,
                  AnswersTrue, Inserting, Existing, Rows
    <2>2. CASE \E c \in Clients : Ask(c) \/ ClientStep(c)
      BY <2>2, AskStep, InsertStep, CommitQueuedStep DEF ClientStep
    <2>3. CASE \E e \in Executors : ExecutorStep(e)
      BY <2>3, TakeStep, FindStep, MarkStep, ReportOkStep, ReportErrStep DEF ExecutorStep
    <2>4. CASE \E p \in Procs : OperationStep(p) \/ CommitLost(p) \/ Crash(p)
      BY <2>4, ApplyStep, RefuseStep, FailStep, CommitStep, CommitLostStep, CrashStep
      DEF OperationStep
    <2> QED
      BY <2>1, <2>2, <2>3, <2>4 DEF Next
  <1> QED
    BY InitIInv, <1>1, PTL DEF Spec

\* Every variable keeps its type, and no job is tried more often than MaxTries.
THEOREM TypeCorrect == Spec => []TypeOK
  <1>1. IInv => TypeOK
    BY DEF IInv
  <1> QED
    BY <1>1, Inductive, PTL

\* Replays, races, crashes and retries under one Idempotency-Key commit the
\* operation's effect at most once, provided a job has one runner at a time.
THEOREM OneEffectPerKey == Spec => []EffectOncePerKey
  <1>1. IInv => EffectOncePerKey
    BY DEF IInv, KeyInv, EffectInv, RowInv, EffectOncePerKey, Rows, Requests
  <1> QED
    BY <1>1, Inductive, PTL

\* Run rows, business effects and jobs agree.
THEOREM RunsAndJobsAgree == Spec => []RunsMatchJobs
  <1>1. IInv => RunsMatchJobs
    BY DEF IInv, RowInv
  <1> QED
    BY <1>1, Inductive, PTL

\* The record lock of get_tx lets one transition of a record through, whoever
\* races for it and however many workers run one job.
THEOREM OneMovePerRecord == Spec => []MovesOnce
  <1>1. IInv => MovesOnce
    BY DEF IInv, MoveInv, MovesOnce
  <1> QED
    BY <1>1, Inductive, PTL

\* What clients were told stays true.
THEOREM AnswersStayTrue == Spec => []AnswersTrue
  <1>1. IInv => AnswersTrue
    BY DEF IInv
  <1> QED
    BY <1>1, Inductive, PTL

\* A completed run is never reopened, by overlapping workers either.
THEOREM CompletedStays == Spec => CompletedIsFinal
  <1> DEFINE Final == \A r \in Runs : status[r] = "completed" =>
                         status'[r] = "completed" /\ what'[r] = what[r]
  <1>1. IInv /\ [Next]_vars => [Final]_vars
    <2> SUFFICES ASSUME IInv, Next PROVE Final
      BY DEF vars
    <2>1. CASE UNCHANGED <<status, what>>
      BY <2>1
    <2>2. ASSUME NEW c \in Clients, CommitQueued(c) PROVE Final
      BY <2>2 DEF CommitQueued, IInv, TypeOK, ClientInv, Inserting, Rows
    <2>3. ASSUME NEW p \in Procs, Complete(p) PROVE Final
      BY <2>3 DEF Complete, IInv, TypeOK, ClientInv, ExecutorInv, Inserting, Rows, Procs
    <2>4. CASE \E c \in Clients : Ask(c) \/ ClientStep(c)
      BY <2>1, <2>2, <2>4 DEF Ask, ClientStep, Insert, tableVars
    <2>5. CASE \E e \in Executors : ExecutorStep(e)
      BY <2>1, <2>5 DEF ExecutorStep, Take, Find, Mark, ReportOk, ReportErr, tableVars
    <2>6. CASE \E p \in Procs : OperationStep(p) \/ CommitLost(p) \/ Crash(p)
      BY <2>1, <2>3, <2>6 DEF OperationStep, Apply, Refuse, Fail, Abort, Commit, CommitLost,
                              Crash, tableVars
    <2> QED
      BY <2>4, <2>5, <2>6 DEF Next
  <1> QED
    BY Inductive, <1>1, PTL DEF Spec, CompletedIsFinal

-----------------------------------------------------------------------------
(* Operations execute in one step: OperationRun implements OperationContract. *)

\* The run of a client's open insert is still new when it commits, and so is its
\* key.
LEMMA InsertIsFresh ==
  ASSUME IInv, NEW c \in Clients, Inserting(c)
  PROVE  own[c] \in Runs /\ req[c] \in Atomic!Requests /\ Atomic!Fresh(req[c], own[c])
  <1>1. /\ req[c] \in Requests /\ own[c] \in Runs /\ own[c] \notin Rows
        /\ req[c].op \in KeyedOps => req[c].key # NoKey
    BY DEF IInv, ClientInv, Inserting
  <1>2. Existing(req[c].key) = {}
    BY DEF IInv, KeyInv
  <1> QED
    BY <1>1, <1>2 DEF Requests, Ops, Rows, Existing, Atomic!Requests, Atomic!Fresh,
                      Atomic!HasKey

\* A commit has the whole effect at once, on a record that still allows it.
LEMMA CompleteExecutes ==
  ASSUME IInv, NEW p \in Procs, Complete(p)
  PROVE  Atomic!Execute(req[p], own[p])
  <1>1. MayMove(p)
    BY DEF Complete, IInv, MoveInv
  <1> QED
    BY <1>1 DEF Complete, MayMove, Atomic!Execute

\* The commit of a client performs its operation, whether the client hears of it
\* or not.
LEMMA ClientPerforms ==
  ASSUME IInv, NEW c \in Clients, Complete(c),
         UNCHANGED answers \/ Tell("result", req[c], own[c])
  PROVE  Atomic!Next
  <1>1. Inserting(c) /\ req[c].op \in SyncOps
    BY DEF Complete, IInv, ClientInv, Inserting
  <1>2. own[c] \in Runs /\ req[c] \in Atomic!Requests /\ Atomic!Fresh(req[c], own[c])
    BY <1>1, InsertIsFresh
  <1>3. Atomic!Execute(req[c], own[c])
    BY CompleteExecutes DEF Procs
  <1>4. Atomic!Perform(req[c], own[c])
    BY <1>1, <1>2, <1>3 DEF Tell, Atomic!Perform, Atomic!Answer
  <1> QED
    BY <1>2, <1>4 DEF Atomic!Next

\* The commit of an executor performs the queued run whose job it took; with one
\* runner and a key, a run without effect so far.
LEMMA ExecutorPerforms ==
  ASSUME IInv, NEW e \in Executors, Complete(e), UNCHANGED answers
  PROVE  Atomic!Next
  <1> DEFINE r == own[e]
  <1>1. pc[e] = "applied" /\ r \in Rows /\ r \in Runs /\ req[e] = what[r] /\ job[r] # "none"
    BY DEF Complete, IInv, ExecutorInv, Rows
  <1>2. what[r].op \in AsyncOps
    BY <1>1 DEF IInv, RowInv, RunsMatchJobs
  <1>3. ASSUME OneRunner, what[r].key # NoKey PROVE status[r] = "queued"
    <2>1. effects[r] = 0
      BY <1>1, <1>3 DEF IInv, EffectInv
    <2>2. status[r] # "completed"
      BY <1>1, <2>1 DEF IInv, RowInv, RunsMatchJobs
    <2> QED
      BY <1>1, <2>2 DEF IInv, TypeOK, Statuses, Rows
  <1>4. Atomic!Execute(what[r], r)
    BY <1>1, CompleteExecutes DEF Procs
  <1>5. Atomic!PerformQueued(r)
    BY <1>1, <1>2, <1>3, <1>4 DEF Rows, Atomic!PerformQueued
  <1> QED
    BY <1>1, <1>5 DEF Atomic!Next

\* A request whose key is known repeats the run as it is.
LEMMA AnswerRepeats ==
  ASSUME IInv, NEW q \in Requests, q.op \in KeyedOps => q.key # NoKey,
         NEW r \in Existing(q.key), NEW kind,
         kind \in IF status[r] = "completed" THEN {"result"} ELSE {"queued", "empty"},
         Tell(kind, q, r), UNCHANGED <<status, what, moved, effects>>
  PROVE  Atomic!Next
  <1>1. r \in Runs /\ q \in Atomic!Requests /\ Atomic!HasKey(r, q.key)
    BY DEF Requests, Ops, Existing, Rows, Atomic!Requests, Atomic!HasKey
  <1>2. Atomic!Repeat(q, r)
    BY <1>1 DEF Tell, Atomic!Repeat, Atomic!Answer
  <1> QED
    BY <1>1, <1>2 DEF Atomic!Next

\* Every step is a step of the contract or leaves what callers see alone.
LEMMA StepContract == IInv /\ [Next]_vars => [Atomic!Next]_(Atomic!vars)
  <1> SUFFICES ASSUME IInv, [Next]_vars PROVE Atomic!Next \/ UNCHANGED Atomic!vars
    OBVIOUS
  <1>1. ASSUME UNCHANGED <<tableVars, histVars>> PROVE UNCHANGED Atomic!vars
    BY <1>1 DEF tableVars, histVars, Atomic!vars
  <1>2. ASSUME NEW c \in Clients, Ask(c) PROVE Atomic!Next \/ UNCHANGED Atomic!vars
    <2>1. UNCHANGED <<status, what, moved, effects>>
      BY <1>2 DEF Ask, tableVars
    <2>2. CASE UNCHANGED answers
      BY <2>1, <2>2 DEF Atomic!vars
    <2>3. ASSUME NEW q \in Requests, q.op \in KeyedOps => q.key # NoKey,
                 NEW r \in Existing(q.key), Tell(Reply(status[r]), q, r)
          PROVE  Atomic!Next
      <3>1. Reply(status[r]) \in IF status[r] = "completed" THEN {"result"}
                                                           ELSE {"queued", "empty"}
        BY DEF Reply
      <3> QED
        BY <2>1, <2>3, <3>1, AnswerRepeats
    <2> QED
      BY <1>2, <2>2, <2>3 DEF Ask
  <1>3. ASSUME NEW c \in Clients, Insert(c) PROVE Atomic!Next \/ UNCHANGED Atomic!vars
    <2>1. UNCHANGED <<status, what, moved, effects>> /\ pc[c] = "insert"
      BY <1>3 DEF Insert, tableVars
    <2>2. CASE UNCHANGED answers
      BY <2>1, <2>2 DEF Atomic!vars
    <2>3. ASSUME NEW r \in Existing(req[c].key),
                 Tell(IF status[r] = "completed" THEN "result" ELSE "empty", req[c], r)
          PROVE  Atomic!Next
      <3>1. req[c] \in Requests /\ (req[c].op \in KeyedOps => req[c].key # NoKey)
        BY <2>1 DEF IInv, ClientInv
      <3>2. (IF status[r] = "completed" THEN "result" ELSE "empty")
              \in IF status[r] = "completed" THEN {"result"} ELSE {"queued", "empty"}
        OBVIOUS
      <3> QED
        BY <2>1, <2>3, <3>1, <3>2, AnswerRepeats
    <2> QED
      BY <1>3, <2>2, <2>3 DEF Insert
  <1>4. ASSUME NEW c \in Clients, CommitQueued(c) PROVE Atomic!Next
    <2>1. Inserting(c)
      BY <1>4 DEF CommitQueued, Inserting
    <2>2. own[c] \in Runs /\ req[c] \in Atomic!Requests /\ Atomic!Fresh(req[c], own[c])
      BY <2>1, InsertIsFresh
    <2>3. Atomic!Accept(req[c], own[c])
      BY <1>4, <2>2 DEF CommitQueued, Tell, Atomic!Accept, Atomic!Answer
    <2> QED
      BY <2>2, <2>3 DEF Atomic!Next
  <1>5. ASSUME NEW p \in Procs, Commit(p) \/ CommitLost(p) PROVE Atomic!Next
    <2>1. Complete(p)
      BY <1>5 DEF Commit, CommitLost
    <2>2. CASE p \in Clients
      BY <1>5, <2>1, <2>2, ClientPerforms DEF Commit, CommitLost
    <2>3. CASE p \in Executors
      BY <1>5, <2>1, <2>3, ExecutorPerforms DEF Commit, CommitLost
    <2> QED
      BY <2>2, <2>3 DEF Procs
  <1>6. ASSUME NEW e \in Executors, Take(e) \/ Find(e) \/ Mark(e)
        PROVE  UNCHANGED Atomic!vars
    BY <1>1, <1>6 DEF Take, Find, Mark
  <1>7. ASSUME NEW e \in Executors, ReportOk(e) \/ ReportErr(e)
        PROVE  UNCHANGED Atomic!vars
    BY <1>7 DEF ReportOk, ReportErr, histVars, Atomic!vars
  <1>8. ASSUME NEW p \in Procs, Apply(p) \/ Refuse(p) \/ Fail(p) \/ Crash(p)
        PROVE  UNCHANGED Atomic!vars
    BY <1>1, <1>8 DEF Apply, Refuse, Fail, Abort, Crash
  <1>9. CASE UNCHANGED vars
    BY <1>1, <1>9 DEF vars
  <1> QED
    BY <1>2, <1>3, <1>4, <1>5, <1>6, <1>7, <1>8, <1>9
    DEF Next, ClientStep, ExecutorStep, OperationStep

\* A business operation is atomic for its callers, however its transactions,
\* locks, jobs, crashes and retries interleave: OperationRun implements
\* OperationContract.
THEOREM OperationsAreAtomic == Spec => ImplementsContract
  <1>1. Init => Atomic!Init
    BY DEF Init, Atomic!Init
  <1>2. IInv /\ [Next]_vars => [Atomic!Next]_(Atomic!vars)
    BY StepContract
  <1> QED
    BY <1>1, <1>2, Inductive, PTL DEF Spec, ImplementsContract, Atomic!Spec
=============================================================================
