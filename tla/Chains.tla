------------------------------- MODULE Chains --------------------------------
(***************************************************************************)
(* Automations that set each other off, and the connections they hold.      *)
(*                                                                         *)
(* Whoever changes a record dispatches the outbox before it returns. The    *)
(* dispatcher keeps its connection, and the rows it has locked, while the   *)
(* engine runs the automations of each event (outbox.rs, enqueue_for_event  *)
(* of automation.rs); their actions change records, and dispatch again.  So *)
(* one call may hold as many connections as the chain is long.  The pool    *)
(* has a limit, and an acquisition that waits too long fails (pool.rs).     *)
(*                                                                         *)
(* A chain ends because the events that an automation makes by changing a   *)
(* record carry _automation_depth.  Other events do not: comment.created,   *)
(* *.assigned and those of operations.                                      *)
(*                                                                         *)
(* A statement, and a transaction other than a dispatcher's, takes a        *)
(* connection and returns it in one step.  An automation has one action and *)
(* no waits, conditions are part of the name it is triggered by, and there  *)
(* are no crashes: Automation and Outbox have those.                        *)
(***************************************************************************)
EXTENDS Integers, Sequences, FiniteSets, SequencesExt

CONSTANTS
  Defs,      \* a sequence: AutomationEngine::defs, by name
  On,        \* On[d]: the event that triggers it
  Makes,     \* Makes[d]: the events its action makes, as [name, counted]
  Limit,     \* Limit[d]: depth_limit
  Root,      \* the event of a change by a user
  Requests, Loops,
  Pool,      \* max_connections
  Batch,     \* rows a dispatcher takes: 100
  MaxTries,  \* max_attempts of automation.run
  MaxFails   \* bound: actions that fail by themselves

Names == {Defs[n] : n \in DOMAIN Defs}

\* The engine keeps its automations by name (AutomationEngine::defs).
ChainsAssumption ==
  /\ Defs \in Seq(STRING) /\ \A m, n \in DOMAIN Defs : Defs[m] = Defs[n] => m = n
  /\ On \in [Names -> STRING] /\ Limit \in [Names -> Nat] /\ Root \in STRING
  /\ Makes \in [Names -> Seq([name : STRING, counted : BOOLEAN])]
  /\ Requests \cap Loops = {}
  /\ Batch \in Nat \ {0} /\ {Pool, MaxTries, MaxFails} \subseteq Nat

VARIABLES
  outbox,    \* rows by creation: [name, depth, counted, parent, done]
  runs,      \* qefro_automation_executions by <<automation, event>>: its status
  jobs,      \* automation.run jobs by <<automation, event>>: their attempts
  stack,     \* stack[c]: dispatchers, and the job of a loop, innermost last
  pc,
  fails,
  made,      \* history: how often the action of a run was carried out
  hurt       \* history: events with a handler that waited too long for a connection

vars == <<outbox, runs, jobs, stack, pc, fails, made, hurt>>

Callers == Requests \cup Loops
Events == DOMAIN outbox
Init ==
  /\ outbox = << >> /\ runs = << >> /\ jobs = << >>
  /\ stack = [c \in Callers |-> << >>]
  /\ pc = [c \in Callers |-> IF c \in Requests THEN "change" ELSE "idle"]
  /\ fails = 0 /\ made = << >> /\ hurt = {}

-----------------------------------------------------------------------------
(* Connections.  A frame is [rows, at, held]: the locked events to be       *)
(* handled, in the order of their creation, the number of the automation    *)
(* that is next, and whether it is a dispatcher, which holds one.           *)

Frames == UNION {{c} \X DOMAIN stack[c] : c \in Callers}
Held == {f \in Frames : stack[f[1]][f[2]].held}
Free == Cardinality(Held) < Pool

Locked == UNION {stack[f[1]][f[2]].rows : f \in Held}

RunOf(frame) == <<Defs[frame.at], Min(frame.rows)>>

Top(c) == Last(stack[c])
Event(c) == Min(Top(c).rows)
Run(c) == RunOf(Top(c))

Goto(c, l) == pc' = [pc EXCEPT ![c] = l]
SetTop(c, frame) == stack' = [stack EXCEPT ![c][Len(stack[c])] = frame]
Push(c, frame) == stack' = [stack EXCEPT ![c] = Append(@, frame)]
Pop(c) == stack' = [stack EXCEPT ![c] = Front(@)]

\* Where a mutation continues that has dispatched: the run it belongs to, if any.
After(frames) == IF frames = << >> THEN "idle" ELSE "settle"

-----------------------------------------------------------------------------
(* dispatch_pending                                                        *)

Row(name, depth, counted, parent) ==
  [name |-> name, depth |-> depth, counted |-> counted, parent |-> parent, done |-> FALSE]

\* A user's request changes a record.
Change(r) ==
  /\ pc[r] = "change" /\ Free
  /\ outbox' = Append(outbox, Row(Root, 0, FALSE, 0))
  /\ Goto(r, "dispatch")
  /\ UNCHANGED <<runs, jobs, stack, fails, made, hurt>>

Pending == {e \in Events : ~outbox[e].done} \ Locked

\* The loop of a process.
Tick(l) ==
  /\ l \in Loops /\ pc[l] = "idle" /\ Pending # {}
  /\ Goto(l, "dispatch")
  /\ UNCHANGED <<outbox, runs, jobs, stack, fails, made, hurt>>

Dispatch(c) ==
  LET batch == {e \in Pending : Cardinality({x \in Pending : x < e}) < Batch} IN
  /\ pc[c] = "dispatch" /\ Free
  /\ IF batch = {}
       THEN Goto(c, After(stack[c])) /\ UNCHANGED stack
       ELSE Goto(c, "next") /\ Push(c, [rows |-> batch, at |-> 1, held |-> TRUE])
  /\ UNCHANGED <<outbox, runs, jobs, fails, made, hurt>>

\* Mutant of matches_event: one more.
MatchesOneMore(d, event) == On[d] = event.name /\ event.depth <= Limit[d]

\* The name, and a depth below the limit.
matches_event(d, event) == On[d] = event.name /\ event.depth < Limit[d]

Triggered(c) ==
  {n \in DOMAIN Defs : n >= Top(c).at /\ matches_event(Defs[n], outbox[Event(c)])}

\* enqueue_for_event comes to the next automation, if there is another.
Trigger(c) ==
  /\ pc[c] = "next" /\ Top(c).rows # {} /\ Triggered(c) # {}
  /\ SetTop(c, [Top(c) EXCEPT !.at = Min(Triggered(c))])
  /\ Goto(c, "claim")
  /\ UNCHANGED <<outbox, runs, jobs, fails, made, hurt>>

\* The event is published; nobody else sees the row before the COMMIT.
Published(c) ==
  /\ pc[c] = "next" /\ Top(c).rows # {} /\ Triggered(c) = {}
  /\ outbox' = [outbox EXCEPT ![Event(c)].done = TRUE]
  /\ SetTop(c, [Top(c) EXCEPT !.rows = @ \ {Event(c)}, !.at = 1])
  /\ UNCHANGED <<runs, jobs, pc, fails, made, hurt>>

Commit(c) ==
  /\ pc[c] = "next" /\ Top(c).rows = {}
  /\ Pop(c) /\ Goto(c, After(Front(stack[c])))
  /\ UNCHANGED <<outbox, runs, jobs, fails, made, hurt>>

-----------------------------------------------------------------------------
(* run_payload                                                             *)

\* The table f with v at x.
With(f, x, v) == [y \in DOMAIN f \cup {x} |-> IF y = x THEN v ELSE f[y]]

Status(run) == IF run \in DOMAIN runs THEN runs[run] ELSE "absent"
SetStatus(run, s) == runs' = With(runs, run, s)

\* The end of a run: a dispatcher goes on to the next automation, the job of a loop is
\* over.
Return(c) ==
  IF Top(c).held
    THEN SetTop(c, [Top(c) EXCEPT !.at = @ + 1]) /\ Goto(c, "next")
    ELSE Pop(c) /\ Goto(c, "idle")

ReturnOk(c) ==
  /\ Return(c)
  /\ jobs' = IF Top(c).held THEN jobs
             ELSE [run \in DOMAIN jobs \ {Run(c)} |-> jobs[run]]

\* claim_execution: not one that runs or is over.
Claim(c) ==
  /\ pc[c] = "claim" /\ Free
  /\ IF Status(Run(c)) \in {"absent", "retrying"}
       THEN /\ SetStatus(Run(c), "running") /\ Goto(c, "remember")
            /\ UNCHANGED <<stack, jobs>>
       ELSE ReturnOk(c) /\ UNCHANGED runs
  /\ UNCHANGED <<outbox, fails, made, hurt>>

\* remember_execution and load_execution.
Remember(c) ==
  /\ pc[c] = "remember" /\ Free
  /\ Goto(c, "act")
  /\ UNCHANGED <<outbox, runs, jobs, stack, fails, made, hurt>>

\* Mutant of depth_after: the depth of the event is not added to.
SameDepth(event, counted) == IF counted THEN event.depth ELSE 0

\* mutation_events adds one to the depth of the event the automation runs on; the other
\* events have none.
depth_after(event, counted) == IF counted THEN event.depth + 1 ELSE 0

\* The action commits its change and its events, and dispatches.
Act(c) ==
  LET e == Event(c)
      New(m) == Row(m.name, depth_after(outbox[e], m.counted), m.counted, e)
      events == Makes[Run(c)[1]]
  IN
  /\ pc[c] = "act" /\ Free
  /\ outbox' = outbox \o [n \in DOMAIN events |-> New(events[n])]
  /\ made' = With(made, Run(c), IF Run(c) \in DOMAIN made THEN made[Run(c)] + 1 ELSE 1)
  /\ Goto(c, "dispatch")
  /\ UNCHANGED <<runs, jobs, stack, fails, hurt>>

\* It is refused, for a rule, a permission or a field that is not there.
ActFails(c) ==
  /\ pc[c] = "act" /\ fails < MaxFails
  /\ fails' = fails + 1
  /\ Goto(c, "persist")
  /\ UNCHANGED <<outbox, runs, jobs, stack, made, hurt>>

Settle(c) ==
  /\ pc[c] = "settle" /\ Free
  /\ SetStatus(Run(c), "completed")
  /\ ReturnOk(c)
  /\ UNCHANGED <<outbox, fails, made, hurt>>

Persist(c) ==
  /\ pc[c] = "persist" /\ Free
  /\ SetStatus(Run(c), "retrying")
  /\ Goto(c, "failed")
  /\ UNCHANGED <<outbox, jobs, stack, fails, made, hurt>>

\* Mutant of ReturnErr: after a failure the other automations are not looked at.
ReturnErrAtOnce(c) ==
  /\ SetTop(c, [Top(c) EXCEPT !.at = Len(Defs) + 1]) /\ Goto(c, "next")

\* A failed run does not stop those that follow it.
ReturnErr(c) == Return(c)

\* A failed run gets a job that retries it; a failed job counts its attempts.
Failed(c) ==
  /\ pc[c] = "failed" /\ (Top(c).held => Free)
  /\ jobs' = With(jobs, Run(c), IF Top(c).held THEN 0 ELSE jobs[Run(c)] + 1)
  /\ ReturnErr(c)
  /\ UNCHANGED <<outbox, runs, fails, made, hurt>>

\* A loop takes a job that nobody has.
TakeJob(l) ==
  /\ l \in Loops /\ pc[l] = "idle"
  /\ \E run \in DOMAIN jobs :
       /\ jobs[run] < MaxTries
       /\ \A k \in Loops : stack[k] # << >> /\ ~stack[k][1].held => RunOf(stack[k][1]) # run
       /\ Push(l, [rows |-> {run[2]}, held |-> FALSE,
                   at |-> CHOOSE n \in DOMAIN Defs : Defs[n] = run[1]])
  /\ Goto(l, "claim")
  /\ UNCHANGED <<outbox, runs, jobs, fails, made, hurt>>

-----------------------------------------------------------------------------
(* An acquisition that waits too long                                      *)

\* Mutant of TimeOut: a dispatch that fails fails the change it follows.
TimeOutFails(l) ==
  CASE l = "dispatch" -> "persist" [] l = "act" -> "persist" [] OTHER -> "failed"

\* Where a run continues.  That the dispatch failed is ignored: the events of the change
\* stay for another.
TimeOut(l) ==
  CASE l = "dispatch" -> "settle" [] l = "act" -> "persist" [] OTHER -> "failed"

\* Mutant of Waiting: whoever waits for a connection waits until there is one.
Patient == {}

Waiting == {"dispatch", "claim", "remember", "act", "settle", "persist"}

WaitedTooLong(c) ==
  /\ pc[c] \in Waiting /\ ~Free
  /\ Goto(c, IF stack[c] = << >> THEN "idle" ELSE TimeOut(pc[c]))
  /\ hurt' = IF pc[c] = "dispatch" THEN hurt ELSE hurt \cup {Event(c)}
  /\ UNCHANGED <<outbox, runs, jobs, stack, fails, made>>

\* The retry cannot be enqueued: the handler logs it, and the automations that follow
\* are left out.
NotEnqueued(c) ==
  /\ pc[c] = "failed" /\ Top(c).held /\ ~Free
  /\ SetTop(c, [Top(c) EXCEPT !.at = Len(Defs) + 1]) /\ Goto(c, "next")
  /\ hurt' = hurt \cup {Event(c)}
  /\ UNCHANGED <<outbox, runs, jobs, fails, made>>

-----------------------------------------------------------------------------
Call(c) ==
  \/ Dispatch(c) \/ Trigger(c) \/ Published(c) \/ Commit(c)
  \/ Claim(c) \/ Remember(c) \/ Act(c) \/ ActFails(c) \/ Settle(c) \/ Persist(c) \/ Failed(c)
  \/ WaitedTooLong(c) \/ NotEnqueued(c)

Next ==
  \/ \E r \in Requests : Change(r)
  \/ \E l \in Loops : Tick(l) \/ TakeJob(l)
  \/ \E c \in Callers : Call(c)

Spec == Init /\ [][Next]_vars /\ \A c \in Callers : WF_vars(Call(c))

-----------------------------------------------------------------------------
\* How many automations in a row have led to an event, and how many since the last
\* event that did not count.
Behind[e \in Events] == IF outbox[e].parent = 0 THEN 0 ELSE 1 + Behind[outbox[e].parent]
Counted[e \in Events] ==
  IF outbox[e].counted THEN 1 + Counted[outbox[e].parent] ELSE 0

\* An automation is part of a chain only at the places below its limit, as far as the
\* chain is of changes of records, retried or not (automation.rs:118, service.rs:3143).
ChainsBounded == \A run \in DOMAIN runs : Counted[run[2]] < Limit[run[1]]

\* docs/automation.md:130: "Matching stops at `max_depth`".  A chain that goes through
\* a comment, an assignment or an operation begins at 0 again; kept without a run.
ChainsStop == \A run \in DOMAIN runs : Behind[run[2]] < Limit[run[1]]

Retried(run) == run \in DOMAIN jobs

\* Unless a handler waited too long for a connection, every automation that an event
\* triggers has run, or has a job that retries it or has given up, and its action was
\* carried out once, whatever failed in the calls below it (automation.rs:146-149).
RunsKept ==
  \A e \in Events \ hurt :
    \A d \in {x \in Names : On[x] = outbox[e].name /\ Counted[e] < Limit[x]} :
      /\ outbox[e].done => Status(<<d, e>>) = "completed" \/ Retried(<<d, e>>)
      /\ <<d, e>> \in DOMAIN made => made[<<d, e>>] = 1

\* However the calls wait for each other's connections, again and again all of them
\* have returned: none waits for ever, and the chains end.
CallsReturn == []<>(\A c \in Callers : pc[c] \in {"idle", "change"})
=============================================================================
