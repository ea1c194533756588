------------------------- MODULE OperationContract --------------------------
(***************************************************************************)
(* What a business operation promises, without transactions, locks, jobs   *)
(* and retries: every request and every execution is one step.  A key      *)
(* names one run; a run that is executed moves its record, completes and   *)
(* has its effect in that step or not at all; and an answer is true when   *)
(* it is given (docs/business-operations.md, Idempotency and Synchronous   *)
(* vs asynchronous).  A queued run is executed once if it has a key and a  *)
(* job has one runner, and else any number of times.                       *)
(***************************************************************************)
EXTENDS Integers

CONSTANTS Runs, Recs, SyncOps, AsyncOps, MoveOps, KeyedOps, Keys, NoKey, None, OneRunner

VARIABLES status, what, moved, effects, answers

vars == <<status, what, moved, effects, answers>>

Requests == {q \in [op : SyncOps \cup AsyncOps, rec : Recs, key : Keys \cup {NoKey}] :
               q.op \in KeyedOps => q.key # NoKey}

Init ==
  /\ status = [r \in Runs |-> "absent"]
  /\ what = [r \in Runs |-> None]
  /\ moved = [x \in Recs |-> FALSE]
  /\ effects = [r \in Runs |-> 0]
  /\ answers = {}

HasKey(r, k) == status[r] # "absent" /\ k # NoKey /\ what[r].key = k

\* The run is new, and its key as well.
Fresh(q, r) == status[r] = "absent" /\ \A s \in Runs : ~HasKey(s, q.key)

Answer(kind, q, r) == [kind |-> kind, req |-> q, run |-> r]

\* A request whose key is known changes nothing; it is answered with the result
\* once there is one.
Repeat(q, r) ==
  /\ HasKey(r, q.key)
  /\ \E kind \in IF status[r] = "completed" THEN {"result"} ELSE {"queued", "empty"} :
       answers' = answers \cup {Answer(kind, q, r)}
  /\ UNCHANGED <<status, what, moved, effects>>

Accept(q, r) ==
  /\ q.op \in AsyncOps
  /\ Fresh(q, r)
  /\ status' = [status EXCEPT ![r] = "queued"]
  /\ what' = [what EXCEPT ![r] = q]
  /\ answers' = answers \cup {Answer("queued", q, r)}
  /\ UNCHANGED <<moved, effects>>

\* The transition, the run and the effect, from a record that allows it.
Execute(q, r) ==
  /\ q.op \in MoveOps => ~moved[q.rec]
  /\ status' = [status EXCEPT ![r] = "completed"]
  /\ what' = [what EXCEPT ![r] = q]
  /\ moved' = [moved EXCEPT ![q.rec] = @ \/ q.op \in MoveOps]
  /\ effects' = [effects EXCEPT ![r] = @ + 1]

\* The client may lose the answer, and nothing else.
Perform(q, r) ==
  /\ q.op \in SyncOps
  /\ Fresh(q, r)
  /\ Execute(q, r)
  /\ answers' \in {answers, answers \cup {Answer("result", q, r)}}

PerformQueued(r) ==
  /\ status[r] # "absent"
  /\ what[r].op \in AsyncOps
  /\ OneRunner /\ what[r].key # NoKey => status[r] = "queued"
  /\ Execute(what[r], r)
  /\ UNCHANGED answers

Next ==
  \E r \in Runs : \/ PerformQueued(r)
                  \/ \E q \in Requests : Repeat(q, r) \/ Accept(q, r) \/ Perform(q, r)

Spec == Init /\ [][Next]_vars
=============================================================================
