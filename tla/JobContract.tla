---------------------------- MODULE JobContract -----------------------------
(***************************************************************************)
(* What the job queue promises its callers, without workers: a submitted   *)
(* job stays open until its handler has returned Ok at least once and that *)
(* success is recorded, or until its limit of failures is recorded.  Once  *)
(* settled it never reopens (docs/jobs.md: pending -> running ->           *)
(* succeeded | failed; failed attempts with remaining retries return to    *)
(* pending).                                                               *)
(***************************************************************************)
EXTENDS Integers

CONSTANTS Jobs, AttemptsCap

VARIABLES phase, failures, limit, okRuns

vars == <<phase, failures, limit, okRuns>>

Init ==
  /\ phase = [j \in Jobs |-> "absent"]
  /\ failures = [j \in Jobs |-> 0]
  /\ limit = [j \in Jobs |-> 1]
  /\ okRuns = {}

Submit(j) ==
  /\ phase[j] = "absent"
  /\ phase' = [phase EXCEPT ![j] = "open"]
  /\ failures' = [failures EXCEPT ![j] = 0]
  /\ \E m \in 1..AttemptsCap : limit' = [limit EXCEPT ![j] = m]
  /\ UNCHANGED okRuns

\* The handler of an open job returns Ok. The queue may not get to record it,
\* and then the handler runs again.
HandlerOk(j) ==
  /\ phase[j] = "open"
  /\ okRuns' = okRuns \cup {j}
  /\ UNCHANGED <<phase, failures, limit>>

Succeed(j) ==
  /\ phase[j] = "open"
  /\ j \in okRuns
  /\ phase' = [phase EXCEPT ![j] = "succeeded"]
  /\ UNCHANGED <<failures, limit, okRuns>>

\* One more failure; the last one the limit allows settles the job.
Fail(j) ==
  /\ phase[j] = "open"
  /\ failures[j] < limit[j]
  /\ failures' = [failures EXCEPT ![j] = @ + 1]
  /\ phase' = [phase EXCEPT ![j] = IF failures[j] + 1 = limit[j] THEN "failed" ELSE "open"]
  /\ UNCHANGED <<limit, okRuns>>

Next == \E j \in Jobs : Submit(j) \/ HandlerOk(j) \/ Succeed(j) \/ Fail(j)

Spec == Init /\ [][Next]_vars

=============================================================================
