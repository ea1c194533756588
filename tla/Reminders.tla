------------------------------ MODULE Reminders ------------------------------
(***************************************************************************)
(* The reminders of one record: that its due date has come                  *)
(* (crates/qefro-db/src/due.rs), or that a booking starts shortly           *)
(* (ScheduleReminderJob, scheduling.rs).  Whoever writes the record puts a  *)
(* job into the queue, in the transaction of the write, under a key made of *)
(* the record and the date; at its time the job reads the record again and  *)
(* puts an event into the outbox, under an id made of both, too.            *)
(*                                                                         *)
(* A due date is a time stamp.  The start of a booking may be a date and a  *)
(* clock time, which requests read in the time zone of the tenant and jobs  *)
(* in UTC: sameZone says whether the two agree.                             *)
(***************************************************************************)
EXTENDS Naturals

CONSTANTS
  Dates,       \* dates the record may have
  Lead,        \* reminder_minutes
  Horizon,     \* bound: the last instant
  MaxChanges,  \* bound: requests that write the record
  MaxTries,    \* max_attempts of a job
  MaxFaults    \* bound: failed calls and processes that die

VARIABLES
  kind,        \* which of the two: "due" or "start"
  sameZone,
  now,
  rec,         \* state and date of the record
  job,         \* status of the job of each date
  tries,       \* its failed attempts
  found,       \* whether the job under way wants to remind
  event,       \* outbox rows of each date
  changes, faults,
  wanted,      \* history: dates the record was open with when their time had come
  elsewhere,   \* history: dates with a job the record was not open with then
  skipped      \* history: dates without a job after a request that plans none

recordVars == <<rec, changes>>
jobVars == <<job, tries, found>>
histVars == <<wanted, elsewhere, skipped>>
reminderVars == <<kind, sameZone, now, recordVars, jobVars, event, faults, histVars>>

NoDate == 0

Init ==
  /\ kind \in {"due", "start"}
  /\ sameZone \in BOOLEAN /\ (kind = "due" => sameZone)
  /\ now = 0
  /\ rec = [state |-> "none", date |-> NoDate]
  /\ job = [d \in Dates |-> "absent"]
  /\ tries = [d \in Dates |-> 0]
  /\ found = [d \in Dates |-> FALSE]
  /\ event = [d \in Dates |-> 0]
  /\ changes = 0 /\ faults = 0
  /\ wanted = {} /\ elsewhere = {} /\ skipped = {}

RunAt(d) == IF kind = "due" THEN d ELSE d - Lead

Open(r, d) == r.state = "open" /\ r.date = d

\* What the histories say of record r at time t, with the jobs js.
Remember(r, t, js) ==
  /\ wanted' = wanted \cup {d \in Dates : Open(r, d) /\ RunAt(d) <= t}
  /\ elsewhere' = elsewhere \cup
       {d \in Dates : js[d] # "absent" /\ ~ Open(r, d) /\ RunAt(d) <= t}

-----------------------------------------------------------------------------
(* Requests. *)

\* Mutant of Plans: a transition plans no reminder of a due date.
PlansCreateUpdate(o) == o \in {"create", "update"}

\* Which requests enqueue: for a due date not what operations create and update, for
\* a booking not the transitions; for neither, operations that apply a transition.
Plans(o) ==
  o \in {"create", "update"} \cup (IF kind = "due" THEN {"transition"} ELSE {"operation"})

\* A booking's reminder whose time has come is not enqueued any more.
InTime(d) == kind = "due" \/ RunAt(d) > now

\* The jobs after request o that leaves record r: enqueue_tx finds a job of the
\* same date, whatever has become of it.
JobsAfter(o, r) ==
  [d \in Dates |->
     IF job[d] = "absent" /\ Plans(o) /\ InTime(d) /\ Open(r, d) THEN "pending" ELSE job[d]]

\* The requests that leave a date without a reminder, by what the code is written
\* to do.
Leaves(o, d) ==
  \/ o = "apply"
  \/ kind = "due" /\ o = "operation"
  \/ kind = "start" /\ (o = "transition" \/ ~ InTime(d))

Write(o, r) ==
  /\ changes < MaxChanges
  /\ changes' = changes + 1
  /\ rec' = r
  /\ job' = JobsAfter(o, r)
  /\ skipped' = {d \in Dates : IF Open(r, d) THEN job'[d] = "absent" /\ Leaves(o, d)
                               ELSE d \in skipped}
  /\ Remember(r, now, job')
  /\ UNCHANGED <<kind, sameZone, now, tries, found, event, faults>>

Live == rec.state \in {"open", "closed"}

\* EntityService::create and OperationCtx::create.
Create(o, d) ==
  rec.state = "none" /\ Write(o, [state |-> "open", date |-> d])

\* update and OperationCtx::update: another date, or the same one again.
ChangeDate(o, d) ==
  Live /\ Write(o, [rec EXCEPT !.date = d])

\* transition, and apply_transition of an operation: completed or cancelled, or open
\* again.
ChangeState(o) ==
  Live /\ Write(o, [rec EXCEPT !.state = IF @ = "open" THEN "closed" ELSE "open"])

Delete == Live /\ Write("delete", [rec EXCEPT !.state = "deleted"])

Request ==
  \/ \E d \in Dates :
       \/ \E o \in {"create", "operation"} : Create(o, d)
       \/ \E o \in {"update", "operation"} : ChangeDate(o, d)
  \/ \E o \in {"transition", "apply"} : ChangeState(o)
  \/ Delete

-----------------------------------------------------------------------------
(* The job of a date, by any worker. *)

\* Mutant of Reminds: whatever date the record has.
RemindsAny(d) == rec.state = "open" /\ sameZone

\* The record is there, open, and has the date of the job; the start of a booking
\* is read in UTC.
Reminds(d) == Open(rec, d) /\ sameZone

\* claim_one at run_at; the handler reads the record.
Claim(d) ==
  /\ job[d] = "pending" /\ RunAt(d) <= now
  /\ job' = [job EXCEPT ![d] = "running"]
  /\ found' = [found EXCEPT ![d] = Reminds(d)]
  /\ UNCHANGED <<kind, sameZone, now, recordVars, tries, event, faults, histVars>>

\* Mutant of Insert: event ids of their own.
InsertAlways(d) == event' = [event EXCEPT ![d] = @ + 1]

\* The outbox keeps one row per id.
Insert(d) == event' = [event EXCEPT ![d] = 1]

\* The transaction of the events.
Emit(d) ==
  /\ job[d] = "running" /\ found[d]
  /\ Insert(d)
  /\ found' = [found EXCEPT ![d] = FALSE]
  /\ UNCHANGED <<kind, sameZone, now, recordVars, job, tries, faults, histVars>>

\* process_one reports the success of a handler that is through.
Complete(d) ==
  /\ job[d] = "running" /\ ~ found[d]
  /\ job' = [job EXCEPT ![d] = "succeeded"]
  /\ UNCHANGED <<kind, sameZone, now, recordVars, tries, found, event, faults, histVars>>

\* The handler fails, before or after its COMMIT: again, until max_attempts.
Fail(d) ==
  /\ job[d] = "running" /\ faults < MaxFaults
  /\ faults' = faults + 1
  /\ tries' = [tries EXCEPT ![d] = @ + 1]
  /\ job' = [job EXCEPT ![d] = IF tries[d] + 1 >= MaxTries THEN "failed" ELSE "pending"]
  /\ found' = [found EXCEPT ![d] = FALSE]
  /\ UNCHANGED <<kind, sameZone, now, recordVars, event, histVars>>

\* A worker dies, or only its last statement is lost; the next start puts the job
\* back.
Restart(d) ==
  /\ job[d] = "running" /\ faults < MaxFaults
  /\ faults' = faults + 1
  /\ job' = [job EXCEPT ![d] = "pending"]
  /\ found' = [found EXCEPT ![d] = FALSE]
  /\ UNCHANGED <<kind, sameZone, now, recordVars, tries, event, histVars>>

Worker(d) == Claim(d) \/ Emit(d) \/ Complete(d)

Tick ==
  /\ now < Horizon
  /\ now' = now + 1
  /\ Remember(rec, now', job)
  /\ UNCHANGED <<kind, sameZone, recordVars, jobVars, event, faults, skipped>>

Next ==
  \/ Request
  \/ \E d \in Dates : Worker(d) \/ Fail(d) \/ Restart(d)
  \/ Tick

Spec == Init /\ [][Next]_reminderVars /\ \A d \in Dates : WF_reminderVars(Worker(d))

-----------------------------------------------------------------------------
(* Properties. *)

\* One reminder of a date, whatever is retried; and none of a date that the record
\* was never open with when its time had come.
RemindedRightly ==
  \A d \in Dates : event[d] <= 1 /\ (event[d] > 0 => d \in wanted)

\* The record is to be reminded of and has not been; its job has not given up, nor
\* run while the record was closed or had another date, and no request that plans
\* none has left the date without a job.
Waiting ==
  /\ rec.state = "open" /\ RunAt(rec.date) <= now
  /\ event[rec.date] = 0
  /\ job[rec.date] # "failed"
  /\ rec.date \notin elsewhere \cup skipped

\* docs/tasks.md, docs/scheduling.md: an open record is reminded of when the time
\* of its date has come, through retries and restarts: none waits for ever. (Where
\* the time zones agree: EveryStartReminded.)
EventuallyReminded == sameZone => []<>(~ Waiting)

\* docs/scheduling.md: the job emits {entity}.reminder on the outbox. Not so when
\* the start is a date and a clock time and the tenant is not in UTC: the job reads
\* another start than the one it was enqueued for.
EveryStartReminded == []<>(~ Waiting)
=============================================================================
