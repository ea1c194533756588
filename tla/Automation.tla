----------------------------- MODULE Automation -----------------------------
(***************************************************************************)
(* One execution of an automation, crates/qefro-db/src/automation.rs: the  *)
(* row of qefro_automation_executions that the UNIQUE (tenant, automation, *)
(* event) allows, the jobs that retry and resume it, and the runs of       *)
(* run_payload that compete for it.  Executions share nothing else, so the *)
(* module describes one.                                                   *)
(*                                                                         *)
(* A definition is a tree of steps.  Each version of it is a function from *)
(* cursors to kinds: <<i>> is step i of the top level, <<i, w, j>> step j  *)
(* of the then (w = 0) or else (w = 1) block of the branch at <<i>>.       *)
(***************************************************************************)
EXTENDS Integers, Sequences

CONSTANTS
  Programs,       \* versions of the definition: Programs[v][cursor] is a kind
  Runners,        \* event handlers and job workers that call run_payload
  MaxAttempts,    \* attempt_limit of the definition
  MaxFaults,      \* bound: restarts and redelivered events
  MaxSwitches     \* bound: how often Studio enables or disables it

Versions == DOMAIN Programs
Cursors == UNION {DOMAIN Programs[v] : v \in Versions}
Waits == {p \in Cursors : \E v \in Versions : p \in DOMAIN Programs[v] /\ Programs[v][p] = "wait"}

\* The steps of the top level are a list.
ASSUME ProgramsAssumption ==
  /\ 1 \in Versions /\ Versions \subseteq Nat \ {0}
  /\ Cursors \subseteq Seq(Nat) \ {<< >>}
  /\ \A v \in Versions : \A p \in DOMAIN Programs[v] :
       /\ Programs[v][p] \in {"action", "wait", "branch", "end"}
       /\ Len(p) = 1 => \A i \in 0..p[1] : <<i>> \in DOMAIN Programs[v]
ASSUME BoundsAssumption ==
  MaxAttempts \in Nat \ {0} /\ MaxFaults \in Nat /\ MaxSwitches \in Nat

\* A run is called by a job automation.run, whose idempotency key is that of the
\* event, followed by the cursor of a wait if it resumes one, or inline by the
\* event handler: no cursor begins with -1.
Retry == << >>
Inline == <<-1>>
Keys == {Retry} \cup Waits

VARIABLES
  status,    \* of the row: "absent", "running", "waiting", "retrying", "completed"
  cursor,    \* persisted cursor
  snapshot,  \* def_snapshot: the version, 0 for NULL
  job,       \* state of the jobs row of a key
  attempts,  \* and its failed attempts
  begun,     \* waits whose run_at was computed
  over,      \* waits whose run_at has passed
  version,   \* the version Studio has published
  enabled,   \* whether it is enabled
  event,     \* the outbox row: "pending", "handling", "handled"
  pc,        \* a run: its next statement
  at,        \* ... its cursor
  ver,       \* ... the version it executes
  on,        \* ... the enabled flag it has read (TRUE once it is used)
  via,       \* ... the key of its job
  had,       \* ... the attempts its job had when it was taken
  faults, switches,
  acts       \* history: the actions that returned Ok, as <<version, cursor>>

rowVars  == <<status, cursor, snapshot>>
jobVars  == <<job, attempts>>
timeVars == <<begun, over>>
envVars  == <<version, enabled, switches>>
runVars  == <<pc, at, ver, on, via, had>>
vars == <<rowVars, jobVars, timeVars, envVars, event, runVars, faults, acts>>

Init ==
  /\ status = "absent" /\ cursor = <<0>> /\ snapshot = 0
  /\ job = [k \in Keys |-> "none"]
  /\ attempts = [k \in Keys |-> 0]
  /\ begun = {} /\ over = {}
  /\ version = 1 /\ enabled = TRUE /\ switches = 0
  /\ event = "pending"
  /\ pc = [r \in Runners |-> "idle"]
  /\ at = [r \in Runners |-> <<0>>]
  /\ ver = [r \in Runners |-> 1]
  /\ on = [r \in Runners |-> TRUE]
  /\ via = [r \in Runners |-> Inline]
  /\ had = [r \in Runners |-> 0]
  /\ faults = 0
  /\ acts = << >>

-----------------------------------------------------------------------------
(* Studio publishes and switches; time passes. *)

Publish ==
  /\ version + 1 \in Versions
  /\ version' = version + 1
  /\ UNCHANGED <<rowVars, jobVars, timeVars, enabled, switches, event, runVars, faults, acts>>

Switch ==
  /\ switches < MaxSwitches
  /\ switches' = switches + 1
  /\ enabled' = ~enabled
  /\ UNCHANGED <<rowVars, jobVars, timeVars, version, event, runVars, faults, acts>>

Elapse(p) ==
  /\ p \in begun \ over
  /\ over' = over \cup {p}
  /\ UNCHANGED <<rowVars, jobVars, begun, envVars, event, runVars, faults, acts>>

-----------------------------------------------------------------------------
(* A run begins and ends. *)

Goto(r, l) == pc' = [pc EXCEPT ![r] = l]

\* run_payload reads the live definition: def_by_id.
Begin(r, k) ==
  /\ pc[r] = "idle"
  /\ Goto(r, "peek")
  /\ ver' = [ver EXCEPT ![r] = version]
  /\ on' = [on EXCEPT ![r] = enabled]
  /\ via' = [via EXCEPT ![r] = k]
  /\ had' = [had EXCEPT ![r] = IF k = Inline THEN 0 ELSE attempts[k]]
  /\ UNCHANGED at

\* Runs in R are over; their variables carry no information any more.
Return(R) ==
  /\ pc' = [r \in Runners |-> IF r \in R THEN "idle" ELSE pc[r]]
  /\ at' = [r \in Runners |-> IF r \in R THEN <<0>> ELSE at[r]]
  /\ ver' = [r \in Runners |-> IF r \in R THEN 1 ELSE ver[r]]
  /\ on' = [r \in Runners |-> IF r \in R THEN TRUE ELSE on[r]]
  /\ via' = [r \in Runners |-> IF r \in R THEN Inline ELSE via[r]]
  /\ had' = [r \in Runners |-> IF r \in R THEN 0 ELSE had[r]]

\* A dispatcher, which has locked the outbox row, hands the event to the engine.
Deliver(r) ==
  /\ event = "pending"
  /\ event' = "handling"
  /\ Begin(r, Inline)
  /\ UNCHANGED <<rowVars, jobVars, timeVars, envVars, faults, acts>>

\* The handler has returned: the row is published with the rest of its batch.
Handled(r) == IF via[r] = Inline THEN "handled" ELSE event

\* Mutant of Due: run_at is not looked at.
DueAtOnce(k) == job[k] = "pending"

\* claim_one of the queue: status = 'pending' AND run_at <= now().
Due(k) == job[k] = "pending" /\ (k \in Waits => k \in over)

TakeJob(r, k) ==
  /\ Due(k)
  /\ job' = [job EXCEPT ![k] = "running"]
  /\ Begin(r, k)
  /\ UNCHANGED <<rowVars, attempts, timeVars, envVars, event, faults, acts>>

\* jobs.enqueue: a key that exists is left as it is.
Enqueued(k) == IF job[k] = "none" THEN [job EXCEPT ![k] = "pending"] ELSE job

\* run_payload returned Ok: the queue settles the job, the handler has no more to do.
ReturnOk(r) ==
  /\ pc[r] = "ok"
  /\ job' = IF via[r] = Inline THEN job ELSE [job EXCEPT ![via[r]] = "succeeded"]
  /\ event' = Handled(r)
  /\ Return({r})
  /\ UNCHANGED <<rowVars, attempts, timeVars, envVars, faults, acts>>

\* Mutant of Failed: the failed inline run is not enqueued for a retry.
FailedDropped(k, n) ==
  IF k = Inline THEN job ELSE [job EXCEPT ![k] = IF n >= MaxAttempts THEN "failed" ELSE "pending"]

\* The event handler enqueues the retry; the queue settles the job or retries it.
Failed(k, n) ==
  IF k = Inline THEN Enqueued(Retry)
  ELSE [job EXCEPT ![k] = IF n >= MaxAttempts THEN "failed" ELSE "pending"]

\* It returned Err: the queue counts one more than the attempts the job had.
ReturnErr(r) ==
  /\ pc[r] = "err"
  /\ job' = Failed(via[r], had[r] + 1)
  /\ attempts' = IF via[r] = Inline THEN attempts ELSE [attempts EXCEPT ![via[r]] = had[r] + 1]
  /\ event' = Handled(r)
  /\ Return({r})
  /\ UNCHANGED <<rowVars, timeVars, envVars, faults, acts>>

-----------------------------------------------------------------------------
(* Claiming the execution: peek_status, claim_execution, remember_execution. *)

Resumes == status \in {"waiting", "retrying"}

Peek(r) ==
  /\ pc[r] = "peek"
  /\ Goto(r, IF on[r] \/ Resumes THEN "insert" ELSE "ok")
  /\ on' = [on EXCEPT ![r] = TRUE]
  /\ UNCHANGED <<rowVars, jobVars, timeVars, envVars, event, at, ver, via, had, faults, acts>>

\* INSERT ... ON CONFLICT DO NOTHING.
Insert(r) ==
  /\ pc[r] = "insert"
  /\ status' = IF status = "absent" THEN "running" ELSE status
  /\ Goto(r, IF status = "absent" THEN "remember" ELSE "check")
  /\ UNCHANGED <<cursor, snapshot, jobVars, timeVars, envVars, event,
                 at, ver, on, via, had, faults, acts>>

Check(r) ==
  /\ pc[r] = "check"
  /\ Goto(r, IF status \in {"completed", "running"} THEN "ok" ELSE "update")
  /\ UNCHANGED <<rowVars, jobVars, timeVars, envVars, event, at, ver, on, via, had, faults, acts>>

\* Mutant of Claimable: the UPDATE trusts the status that was read before.
ClaimableAny == TRUE

\* UPDATE ... SET status = 'running' WHERE status IN (...).
Claimable == status \in {"waiting", "retrying"}

Update(r) ==
  /\ pc[r] = "update"
  /\ status' = IF Claimable THEN "running" ELSE status
  /\ Goto(r, IF Claimable THEN "remember" ELSE "ok")
  /\ UNCHANGED <<cursor, snapshot, jobVars, timeVars, envVars, event,
                 at, ver, on, via, had, faults, acts>>

\* Mutant of Kept: the newest definition wins.
KeptNewest(v) == v

\* COALESCE(def_snapshot, $4).
Kept(v) == IF snapshot = 0 THEN v ELSE snapshot

\* The holder alone writes these columns, so remembering and loading are one step.
Remember(r) ==
  /\ pc[r] = "remember"
  /\ snapshot' = Kept(ver[r])
  /\ ver' = [ver EXCEPT ![r] = Kept(ver[r])]
  /\ at' = [at EXCEPT ![r] = cursor]
  /\ Goto(r, "walk")
  /\ UNCHANGED <<status, cursor, jobVars, timeVars, envVars, event, on, via, had, faults, acts>>

-----------------------------------------------------------------------------
(* walk_steps. *)

Program(r) == Programs[ver[r]]
Kind(r) == IF at[r] \in DOMAIN Program(r) THEN Program(r)[at[r]] ELSE "past"

\* The next step of the same block, and the step after the branch of a block.
Bump(p) == [p EXCEPT ![Len(p)] = @ + 1]
Outer(p) == Bump(SubSeq(p, 1, Len(p) - 2))

Walking(r, kinds) == pc[r] = "walk" /\ Kind(r) \in kinds

MoveTo(r, p) ==
  /\ at' = [at EXCEPT ![r] = p]
  /\ UNCHANGED <<rowVars, jobVars, envVars, event, ver, on, via, had, faults>>

Act(r) ==
  /\ Walking(r, {"action"})
  /\ acts' = Append(acts, <<ver[r], at[r]>>)
  /\ MoveTo(r, Bump(at[r]))
  /\ UNCHANGED <<pc, timeVars>>

ActFails(r) ==
  /\ Walking(r, {"action"})
  /\ Goto(r, "persist_error")
  /\ MoveTo(r, at[r])
  /\ UNCHANGED <<timeVars, acts>>

\* A date that is here, or less than a second away.
WaitIsOver(r) ==
  /\ Walking(r, {"wait"})
  /\ MoveTo(r, Bump(at[r]))
  /\ begun' = begun \cup {at[r]}
  /\ over' = over \cup {at[r]}
  /\ UNCHANGED <<pc, acts>>

WaitBegins(r) ==
  /\ Walking(r, {"wait"})
  /\ Goto(r, "persist_wait")
  /\ MoveTo(r, at[r])
  /\ begun' = begun \cup {at[r]}
  /\ UNCHANGED <<over, acts>>

Branch(r) ==
  /\ Walking(r, {"branch"})
  /\ \E w \in {0, 1} : MoveTo(r, at[r] \o <<w, 0>>)
  /\ UNCHANGED <<pc, timeVars, acts>>

\* The end of a block, or an End step in it, returns Done to the enclosing block.
Leave(r) ==
  /\ Walking(r, {"end", "past"})
  /\ IF Len(at[r]) = 1
     THEN Goto(r, "persist_done") /\ MoveTo(r, at[r])
     ELSE UNCHANGED pc /\ MoveTo(r, Outer(at[r]))
  /\ UNCHANGED <<timeVars, acts>>

Walk(r) ==
  \/ Act(r) \/ ActFails(r)
  \/ WaitIsOver(r) \/ WaitBegins(r)
  \/ Branch(r) \/ Leave(r)

-----------------------------------------------------------------------------
(* persist_execution, and the resumption of a wait. *)

Store(r, s, p, l) ==
  /\ status' = s
  /\ cursor' = p
  /\ Goto(r, l)
  /\ UNCHANGED <<snapshot, jobVars, timeVars, envVars, event, at, ver, on, via, had, faults, acts>>

PersistDone(r) ==
  /\ pc[r] = "persist_done"
  /\ Store(r, "completed", <<0>>, "ok")

\* Mutants of RetryCursor: the failed step is skipped; the retry starts over.
RetryCursorNext(p) == Bump(p)
RetryCursorStart(p) == <<0>>

\* The failing step itself.
RetryCursor(p) == p

PersistError(r) ==
  /\ pc[r] = "persist_error"
  /\ Store(r, "retrying", RetryCursor(at[r]), "err")

\* The step after the wait.
PersistWait(r) ==
  /\ pc[r] = "persist_wait"
  /\ Store(r, "waiting", Bump(at[r]), "resume")

\* In a transaction of its own the resumption is enqueued with run_at.
Resume(r) ==
  /\ pc[r] = "resume"
  /\ job' = Enqueued(at[r])
  /\ Goto(r, "ok")
  /\ UNCHANGED <<rowVars, attempts, timeVars, envVars, event, at, ver, on, via, had, faults, acts>>

-----------------------------------------------------------------------------
(* Faults. *)

\* A process dies with its runs, which unlocks the outbox row, and a process that
\* starts calls reclaim_running, which returns every running job to the queue.
Restart(R) ==
  /\ faults < MaxFaults
  /\ faults' = faults + 1
  /\ event' = IF \E r \in R : via[r] = Inline THEN "pending" ELSE event
  /\ Return(R)
  /\ job' = [k \in Keys |-> IF job[k] = "running" THEN "pending" ELSE job[k]]
  /\ UNCHANGED <<rowVars, attempts, timeVars, envVars, acts>>

\* The dispatcher dies before it commits the batch of the row.
Redeliver ==
  /\ event = "handled"
  /\ faults < MaxFaults
  /\ faults' = faults + 1
  /\ event' = "pending"
  /\ UNCHANGED <<rowVars, jobVars, timeVars, envVars, runVars, acts>>

Run(r) ==
  \/ Peek(r) \/ Insert(r) \/ Check(r) \/ Update(r) \/ Remember(r)
  \/ Walk(r)
  \/ PersistDone(r) \/ PersistError(r) \/ PersistWait(r) \/ Resume(r)
  \/ ReturnOk(r) \/ ReturnErr(r)

Take(r) == \E k \in Keys : TakeJob(r, k)

Next ==
  \/ Publish \/ Switch \/ Redeliver
  \/ \E p \in Waits : Elapse(p)
  \/ \E r \in Runners : Deliver(r) \/ Take(r) \/ Run(r)
  \/ \E R \in SUBSET {r \in Runners : pc[r] # "idle"} : R # {} /\ Restart(R)

Spec == Init /\ [][Next]_vars

\* Time passes, the worker loop dispatches events and takes due jobs, and a run
\* goes on to its end.
FairSpec ==
  /\ Spec
  /\ \A p \in Waits : WF_vars(Elapse(p))
  /\ WF_vars(\E r \in Runners : Deliver(r))
  /\ WF_vars(\E r \in Runners : Take(r))
  /\ \A r \in Runners : WF_vars(Run(r))

-----------------------------------------------------------------------------
(* Properties. *)

Labels == {"idle", "peek", "insert", "check", "update", "remember", "walk", "persist_done",
           "persist_error", "persist_wait", "resume", "ok", "err"}

\* The runs between the claim and the statement that gives it up.
Holders == {r \in Runners : pc[r] \in {"remember", "walk", "persist_done", "persist_error",
                                        "persist_wait"}}

Action(a) == Programs[a[1]][a[2]] = "action"

\* Document order of cursors.
Before(p, q) ==
  \E n \in 1..Len(q) :
    /\ \A i \in 1..(n - 1) : i <= Len(p) /\ p[i] = q[i]
    /\ n > Len(p) \/ p[n] < q[n]

\* Every variable keeps its type; a running row has been claimed.
TypeOK ==
  /\ status \in {"absent", "running", "waiting", "retrying", "completed"}
  /\ cursor \in Seq(Nat) \ {<< >>}
  /\ snapshot \in Versions \cup {0}
  /\ job \in [Keys -> {"none", "pending", "running", "succeeded", "failed"}]
  /\ attempts \in [Keys -> 0..MaxAttempts]
  /\ over \subseteq begun /\ begun \subseteq Waits
  /\ version \in Versions /\ enabled \in BOOLEAN
  /\ event \in {"pending", "handling", "handled"}
  /\ pc \in [Runners -> Labels]
  /\ at \in [Runners -> Seq(Nat) \ {<< >>}]
  /\ ver \in [Runners -> Versions] /\ on \in [Runners -> BOOLEAN]
  /\ via \in [Runners -> Keys \cup {Inline}] /\ had \in [Runners -> 0..MaxAttempts]
  /\ faults \in 0..MaxFaults /\ switches \in 0..MaxSwitches
  /\ acts \in Seq(Versions \X Cursors)

\* Deliveries, retries and resumptions of one event compete, and at most one of
\* them holds the execution at a time.
OneHolder ==
  /\ \A r, s \in Holders : r = s
  /\ Holders # {} => status = "running"

\* An action that succeeded is never executed again, and actions are executed in
\* the order of the definition, over any number of retries, waits and restarts;
\* docs/automation.md: publishing v2 does not rewrite in-flight runs: each is an
\* action of the version the execution started with. A completed execution has
\* executed every action of the top level that precedes its End: no failed step is
\* passed over.
StepsInOrder ==
  /\ \A i, j \in 1..Len(acts) : i < j => Before(acts[i][2], acts[j][2])
  /\ \A i \in 1..Len(acts) : acts[i][1] = snapshot
  /\ status = "completed" =>
       \A p \in DOMAIN Programs[snapshot] :
         \/ ~ (Len(p) = 1 /\ Action(<<snapshot, p>>))
         \/ \E q \in DOMAIN Programs[snapshot] :
              Len(q) = 1 /\ Before(q, p) /\ Programs[snapshot][q] = "end"
         \/ \E i \in 1..Len(acts) : acts[i] = <<snapshot, p>>

\* Without a redelivery or a restart no action runs before the waits that precede
\* it are over. (A redelivered event resumes a waiting execution at once.)
WaitsKept ==
  faults = 0 =>
    \A p \in begun \ over : \A i \in 1..Len(acts) : ~ Before(p, acts[i][2])

\* Without faults an execution that has started comes to its end, whether or not
\* its definition is disabled meanwhile, or its retries are used up.
EventuallyEnds ==
  status # "absent" ~>
    (status = "completed" \/ (\E k \in Keys : job[k] = "failed") \/ faults > 0)

\* docs/automation.md:118: a process restart resumes from the snapshot: an
\* execution that has started comes to its end whatever restarts.  The code does
\* not keep this: a row left running is taken for executed ever after.
ResumesAfterRestart ==
  status # "absent" ~> (status = "completed" \/ \E k \in Keys : job[k] = "failed")
=============================================================================
