----------------------------- MODULE Schedules ------------------------------
(***************************************************************************)
(* Scheduled automations of one tenant: every worker process scans them in  *)
(* the loop that also runs jobs and dispatches events (runtime.rs,          *)
(* enqueue_scheduled of automation.rs), and puts a job into the queue for   *)
(* a time that the cron expression names (next_run_after of schedule.rs).   *)
(* The key of the job is the automation and the minute, so that several     *)
(* workers and scans agree on one.                                          *)
(*                                                                         *)
(* A cron expression is the set of the minutes it matches, in one time zone *)
(* without changes of its offset.  Time passes in units; what a worker does *)
(* beside the scan may take any time.                                       *)
(***************************************************************************)
EXTENDS Integers, Sequences, FiniteSetsExt

CONSTANTS Automations,  \* a sequence: AutomationEngine::defs
          CronOf,       \* the minutes each automation's schedule matches, from 1
          Minute,       \* units in a minute
          Ahead,        \* how far ahead a scan enqueues: 30 seconds
          Workers,
          Horizon       \* bound: the time the model ends

VARIABLES now,
          pc,      \* "scan", at the next automation, or at work on something else
          at,      \* which automation the scan has come to
          read,    \* the time the scan has read
          jobs,    \* automation.schedule jobs by automation: the minutes in their keys
          looked,  \* history: the latest time an automation was looked at for
          gap      \* history: more than a minute between two looks at an automation

scheduleVars == <<now, pc, at, read, jobs, looked, gap>>

Names == {Automations[n] : n \in 1..Len(Automations)}

ScheduleAssumption ==
  /\ Minute \in Nat \ {0} /\ Ahead \in Nat
  /\ CronOf \in [Names -> SUBSET (Nat \ {0})]

Init ==
  /\ now = 0
  /\ pc = [w \in Workers |-> "scan"]
  /\ at = [w \in Workers |-> 1] /\ read = [w \in Workers |-> 0]
  /\ jobs = [a \in Names |-> {}]
  /\ looked = [a \in Names |-> 0] /\ gap = [a \in Names |-> FALSE]

-----------------------------------------------------------------------------
\* next_run_after: the first minute of the schedule from the one after `from', if any.
NextRun(a, from) ==
  LET later == {m \in CronOf[a] : m >= (from + Minute) \div Minute}
  IN IF later = {} THEN {} ELSE {Min(later)}

\* Mutant of Slots: what is next is computed from now on, not from a minute ago.
SlotsFromNow(a, t) == {m \in NextRun(a, t) : m * Minute <= t + Ahead}
\* What a scan at t enqueues: the next run after t less a minute, unless it is more
\* than half a minute away.
Slots(a, t) ==
  {m \in NextRun(a, t - Minute) : m * Minute <= t + Ahead}

\* Utc::now at the beginning of enqueue_scheduled.
Scan(w) ==
  /\ pc[w] = "scan"
  /\ pc' = [pc EXCEPT ![w] = "look"] /\ read' = [read EXCEPT ![w] = now]
  /\ UNCHANGED <<now, at, jobs, looked, gap>>

Leave(w) ==
  /\ pc' = [pc EXCEPT ![w] = "scan"]
  /\ at' = [at EXCEPT ![w] = 1] /\ read' = [read EXCEPT ![w] = 0]

\* On to the next automation, or out of the scan.
Advance(w) ==
  IF at[w] = Len(Automations) THEN Leave(w)
  ELSE at' = [at EXCEPT ![w] = @ + 1] /\ UNCHANGED <<pc, read>>

\* One automation: its job is enqueued unless there is one with its key.
Look(w) ==
  LET a == Automations[at[w]] IN
  /\ pc[w] = "look"
  /\ jobs' = [jobs EXCEPT ![a] = @ \cup Slots(a, read[w])]
  /\ gap' = [gap EXCEPT ![a] = @ \/ read[w] > looked[a] + Minute]
  /\ looked' = [looked EXCEPT ![a] = Max({@, read[w]})]
  /\ Advance(w) /\ UNCHANGED now

\* enqueue fails, as it does when another worker inserts the same key at the same
\* time: the error ends the scan, and the automations that follow are not looked at.
LookFails(w) ==
  /\ pc[w] = "look" /\ Slots(Automations[at[w]], read[w]) # {}
  /\ Leave(w) /\ UNCHANGED <<now, jobs, looked, gap>>

\* The process dies in its scan and is started again.
Restart(w) == pc[w] = "look" /\ Leave(w) /\ UNCHANGED <<now, jobs, looked, gap>>

Tick == now < Horizon /\ now' = now + 1 /\ UNCHANGED <<pc, at, read, jobs, looked, gap>>

Next == Tick \/ \E w \in Workers : Scan(w) \/ Look(w) \/ LookFails(w) \/ Restart(w)

Spec == Init /\ [][Next]_scheduleVars

-----------------------------------------------------------------------------
\* An automation that is looked at every minute, by whichever worker, has a job for
\* every minute of its schedule that has gone by, whatever the automations before it
\* and the other workers do; no job is for another minute, or comes more than half a
\* minute early (automation.rs:178-187, schedule.rs:75-106).
ScheduleKept ==
  \A a \in Names :
    /\ ~gap[a] => \A m \in CronOf[a] : (m + 1) * Minute <= looked[a] => m \in jobs[a]
    /\ \A m \in jobs[a] : m \in CronOf[a] /\ m * Minute <= now + Ahead
=============================================================================
