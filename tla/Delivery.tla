------------------------------ MODULE Delivery ------------------------------
(***************************************************************************)
(* What one domain event sets off outside the database: the message of a   *)
(* communication template (crates/qefro-db/src/communication.rs), the      *)
(* in-app notifications (notifications.rs) and the call of a webhook       *)
(* (WebhookDeliverJob of crates/qefro-api/src/platform.rs).                *)
(*                                                                         *)
(* The outbox gives the event to both handlers, again after a fault.  A    *)
(* message is one row of qefro_communications per channel and one job per  *)
(* row; the webhook is one job.  Jobs follow JobQueue: claimed by one      *)
(* worker, pending again when a worker process starts, retried MaxTries    *)
(* times.                                                                  *)
(***************************************************************************)
EXTENDS Integers, Sequences, FiniteSets

CONSTANTS
  Allowed,     \* the channels of the template, in order
  Marketing,   \* its purpose is marketing, with a field to opt out
  InApp,       \* the in-app channel
  Recipients,  \* who the message may be for: [addresses, login, optOut, prefers],
               \* prefers a channel, NoPreference or NoMessages
  NoPreference, NoMessages,
  Users,       \* recipients of the notification
  Hook,        \* the webhook's job
  Workers,
  MaxTries,    \* max_attempts of a job, 5 by default
  DeadAt,      \* 5 in CommunicationDeliverJob::run
  MaxFaults    \* bound: processes that die, statements that fail

\* The worker loops of a deployment are finitely many; a job has a limit of attempts.
DeliveryAssumption == IsFiniteSet(Workers) /\ MaxTries \in Nat

Offered == {Allowed[i] : i \in 1..Len(Allowed)}
Jobs == Offered \cup {Hook}

VARIABLES
  recipient,  \* who the message is for
  published,  \* the outbox row is marked: the event is not handled again
  hpc,        \* where the handlers are: "idle", "notify", "hook", "comm",
              \* "enqueue", "done"
  next,       \* the channel a handler is at; users it has still to notify
  log,        \* status of the qefro_communications row of each channel
  attempts,   \* its attempts
  queue,      \* status of each job
  tries,      \* attempts of each job
  hookLog,    \* qefro_webhook_deliveries: "none", "ok", "failed"
  pc, job,    \* where a worker is, and with which job
  seen,       \* the attempts it has read of the row
  faults,
  calls,      \* history: calls of a provider, or of the webhook's target
  sends,      \* history: calls that succeeded; in-app rows that were stored
  notes       \* history: notifications of each user

handlerVars == <<recipient, published, hpc, next>>
rowVars     == <<log, attempts, queue, tries, hookLog>>
workerVars  == <<pc, job, seen>>
histVars    == <<calls, sends, notes>>
deliveryVars == <<handlerVars, rowVars, workerVars, faults, histVars>>

NoJob == "no job"

\* select_channels: nobody who opted out of marketing or wants no message; the
\* preferred channel first.
Channels ==
  LET pref == recipient.prefers
  IN CASE (Marketing /\ recipient.optOut) \/ pref = NoMessages -> << >>
       [] ~(Marketing /\ recipient.optOut) /\ pref \in Offered ->
            <<pref>> \o SelectSeq(Allowed, LAMBDA c : c # pref)
       [] OTHER -> Allowed

\* RecipientAddress::address_for.
Reachable == recipient.addresses

Init ==
  /\ recipient \in Recipients
  /\ published = FALSE
  /\ hpc = "idle"
  /\ next = [channel |-> 1, users |-> {}]
  /\ log = [c \in Offered |-> "none"]
  /\ attempts = [c \in Offered |-> 0]
  /\ queue = [j \in Jobs |-> "absent"]
  /\ tries = [j \in Jobs |-> 0]
  /\ hookLog = "none"
  /\ pc = [w \in Workers |-> "idle"]
  /\ job = [w \in Workers |-> NoJob]
  /\ seen = [w \in Workers |-> 0]
  /\ faults = 0
  /\ calls = [j \in Jobs |-> 0]
  /\ sends = [j \in Jobs |-> 0]
  /\ notes = [u \in Users |-> 0]

Fault ==
  /\ faults < MaxFaults
  /\ faults' = faults + 1

-----------------------------------------------------------------------------
(* The handlers of the event. *)

\* PlatformDispatcher::handle: recipient_users, then a row for each of them.
Start ==
  /\ ~published
  /\ hpc = "idle"
  /\ hpc' = "notify"
  /\ next' = [channel |-> 1, users |-> Users]
  /\ UNCHANGED <<recipient, published, rowVars, workerVars, faults, histVars>>

\* The query for the recipients fails: this handler gives up, webhooks included.
RecipientsFail ==
  /\ hpc = "notify"
  /\ next.users = Users
  /\ Fault
  /\ hpc' = "comm"
  /\ UNCHANGED <<recipient, published, next, rowVars, workerVars, histVars>>

\* insert of one notification; an error is ignored.
Notify(stored) ==
  /\ hpc = "notify"
  /\ \E u \in next.users :
       /\ next' = [next EXCEPT !.users = @ \ {u}]
       /\ notes' = [notes EXCEPT ![u] = IF stored THEN @ + 1 ELSE @]
  /\ \/ stored /\ faults' = faults
     \/ ~stored /\ Fault
  /\ UNCHANGED <<recipient, published, hpc, rowVars, workerVars, calls, sends>>

NotifiedAll ==
  /\ hpc = "notify"
  /\ next.users = {}
  /\ hpc' = "hook"
  /\ UNCHANGED <<recipient, published, next, rowVars, workerVars, faults, histVars>>

\* JobQueue::enqueue with an idempotency key.
EnqueueJob(j) == queue' = [queue EXCEPT ![j] = IF @ = "absent" THEN "pending" ELSE @]

\* The webhook's job, keyed by webhook and event; an error is ignored.
EnqueueHook(stored) ==
  /\ hpc = "hook"
  /\ hpc' = "comm"
  /\ \/ stored /\ EnqueueJob(Hook) /\ faults' = faults
     \/ ~stored /\ Fault /\ queue' = queue
  /\ UNCHANGED <<recipient, published, next, log, attempts, tries, hookLog, workerVars, histVars>>

\* enqueue_communication skips a channel without an address, in-app excepted,
\* and one whose row exists.
Skipped(c) == (c \notin Reachable /\ c # InApp) \/ log[c] # "none"

NextChannel ==
  /\ hpc = "comm"
  /\ next.channel <= Len(Channels)
  /\ Skipped(Channels[next.channel])
  /\ next' = [next EXCEPT !.channel = @ + 1]
  /\ UNCHANGED <<recipient, published, hpc, rowVars, workerVars, faults, histVars>>

\* insert_queued: ON CONFLICT DO NOTHING.
InsertQueued ==
  LET c == Channels[next.channel]
  IN /\ hpc = "comm"
     /\ next.channel <= Len(Channels)
     /\ ~Skipped(c)
     /\ log' = [log EXCEPT ![c] = "queued"]
     /\ hpc' = "enqueue"
     /\ UNCHANGED <<recipient, published, next, attempts, queue, tries, hookLog, workerVars, faults,
                    histVars>>

\* Its job, in a transaction of its own; only the first channel is used.
EnqueueDeliver ==
  /\ hpc = "enqueue"
  /\ hpc' = "done"
  /\ EnqueueJob(Channels[next.channel])
  /\ UNCHANGED <<recipient, published, next, log, attempts, tries, hookLog, workerVars, faults,
                 histVars>>

\* A statement of enqueue_communication fails: dispatch_event_communications
\* goes on to the next template.
CommFails ==
  /\ hpc \in {"comm", "enqueue"}
  /\ Fault
  /\ hpc' = "done"
  /\ UNCHANGED <<recipient, published, next, rowVars, workerVars, histVars>>

NoChannelLeft ==
  /\ hpc = "comm"
  /\ next.channel > Len(Channels)
  /\ hpc' = "done"
  /\ UNCHANGED <<recipient, published, next, rowVars, workerVars, faults, histVars>>

\* The outbox marks the event.
Publish ==
  /\ hpc = "done"
  /\ hpc' = "idle"
  /\ published' = TRUE
  /\ next' = [channel |-> 1, users |-> {}]
  /\ UNCHANGED <<recipient, rowVars, workerVars, faults, histVars>>

\* The dispatching process dies, or its transaction fails: the event stays.
HandlerDies ==
  /\ hpc # "idle"
  /\ Fault
  /\ hpc' = "idle"
  /\ next' = [channel |-> 1, users |-> {}]
  /\ UNCHANGED <<recipient, published, rowVars, workerVars, histVars>>

Handler ==
  \/ Start \/ Notify(TRUE) \/ NotifiedAll \/ EnqueueHook(TRUE)
  \/ NextChannel \/ InsertQueued \/ EnqueueDeliver \/ NoChannelLeft \/ Publish

-----------------------------------------------------------------------------
(* The jobs. *)

Goto(w, from, to) ==
  /\ pc[w] = from
  /\ pc' = [pc EXCEPT ![w] = to]

\* The statuses CommunicationDeliverJob::run returns at once for.
Settled == {"sent", "skipped", "dead_letter"}

\* Mutant of Taken: the claim does not mark the job.
TakenNot(j) == queue

\* The claim of JobQueue.
Taken(j) == [queue EXCEPT ![j] = "running"]

\* A worker claims a job; the handler of a message reads its row.
Claim(w) ==
  /\ pc[w] = "idle"
  /\ \E j \in Jobs :
       /\ queue[j] = "pending"
       /\ queue' = Taken(j)
       /\ job' = [job EXCEPT ![w] = j]
       /\ \/ /\ j = Hook
             /\ pc' = [pc EXCEPT ![w] = "post"]
             /\ seen' = seen
          \/ /\ j # Hook
             /\ pc' = [pc EXCEPT ![w] = IF log[j] \in Settled THEN "ok" ELSE "read"]
             /\ seen' = [seen EXCEPT ![w] = attempts[j]]
  /\ UNCHANGED <<handlerVars, log, attempts, tries, hookLog, faults, histVars>>

\* mark: every change of status counts as an attempt.
Mark(c, s) ==
  /\ log' = [log EXCEPT ![c] = s]
  /\ attempts' = [attempts EXCEPT ![c] = @ + 1]

MarkSending(w) ==
  /\ Goto(w, "read", "sending")
  /\ Mark(job[w], "sending")
  /\ UNCHANGED <<handlerVars, queue, tries, hookLog, job, seen, faults, histVars>>

\* In-app: a row for the recipient's user, whose error is ignored, or nothing.
SendInApp(w, stored) ==
  LET c == job[w]
  IN /\ c = InApp
     /\ Goto(w, "sending", IF recipient.login THEN "sent" ELSE "skip")
     /\ calls' = calls
     /\ sends' = [sends EXCEPT ![c] = IF recipient.login /\ stored THEN @ + 1 ELSE @]
     /\ \/ stored /\ faults' = faults
        \/ ~stored /\ recipient.login /\ Fault
     /\ UNCHANGED <<handlerVars, rowVars, job, seen, notes>>

\* Mutant of Delivered: a refusal of the limiter is no error.
DeliveredLimited(answer) == answer # "failed"

\* The answers of hub.send that are no error.
Delivered(answer) == answer = "ok"

\* hub.send: the limiter refuses, or the provider is called and answers.
Send(w, answer) ==
  LET c == job[w]
      called == answer # "limited"
  IN /\ c # InApp
     /\ Goto(w, "sending", IF Delivered(answer) THEN "sent" ELSE "failed")
     /\ calls' = [calls EXCEPT ![c] = IF called THEN @ + 1 ELSE @]
     /\ sends' = [sends EXCEPT ![c] = IF answer = "ok" THEN @ + 1 ELSE @]
     /\ UNCHANGED <<handlerVars, rowVars, job, seen, faults, notes>>

MarkSent(w) ==
  /\ Goto(w, "sent", "ok")
  /\ Mark(job[w], "sent")
  /\ UNCHANGED <<handlerVars, queue, tries, hookLog, job, seen, faults, histVars>>

MarkSkipped(w) ==
  /\ Goto(w, "skip", "ok")
  /\ Mark(job[w], "skipped")
  /\ UNCHANGED <<handlerVars, queue, tries, hookLog, job, seen, faults, histVars>>

\* Mutant of FailedStatus: a message is never given up on.
FailedStatusOpen(n) == "failed"

\* The fifth attempt is the last: attempts counts every mark.
FailedStatus(n) == IF n + 1 >= DeadAt THEN "dead_letter" ELSE "failed"

MarkFailed(w) ==
  /\ Goto(w, "failed", "err")
  /\ Mark(job[w], FailedStatus(seen[w]))
  /\ UNCHANGED <<handlerVars, queue, tries, hookLog, job, seen, faults, histVars>>

\* WebhookDeliverJob::run posts ...
Post(w, good) ==
  /\ Goto(w, "post", IF good THEN "posted" ELSE "refused")
  /\ calls' = [calls EXCEPT ![Hook] = @ + 1]
  /\ sends' = [sends EXCEPT ![Hook] = IF good THEN @ + 1 ELSE @]
  /\ UNCHANGED <<handlerVars, rowVars, job, seen, faults, notes>>

\* ... and records the last answer over an earlier one.
Record(w) ==
  /\ pc[w] \in {"posted", "refused"}
  /\ pc' = [pc EXCEPT ![w] = IF pc[w] = "posted" THEN "ok" ELSE "err"]
  /\ hookLog' = IF pc[w] = "posted" THEN "ok" ELSE "failed"
  /\ UNCHANGED <<handlerVars, log, attempts, queue, tries, job, seen, faults, histVars>>

Report(w) ==
  LET j == job[w]
      n == tries[j] + 1
  IN /\ pc[w] \in {"ok", "err"}
     /\ pc' = [pc EXCEPT ![w] = "idle"]
     /\ tries' = [tries EXCEPT ![j] = IF pc[w] = "err" THEN n ELSE @]
     /\ queue' = [queue EXCEPT ![j] =
                    CASE pc[w] = "ok" -> "succeeded"
                      [] pc[w] = "err" /\ n < MaxTries -> "pending"
                      [] pc[w] = "err" /\ n >= MaxTries -> "failed"]
     /\ job' = [job EXCEPT ![w] = NoJob]
     /\ seen' = [seen EXCEPT ![w] = 0]
     /\ UNCHANGED <<handlerVars, log, attempts, hookLog, faults, histVars>>

Process(w) ==
  \/ Claim(w) \/ MarkSending(w) \/ SendInApp(w, TRUE)
  \/ \E a \in {"ok", "failed", "limited"} : Send(w, a)
  \/ MarkSent(w) \/ MarkSkipped(w) \/ MarkFailed(w)
  \/ \E good \in BOOLEAN : Post(w, good)
  \/ Record(w) \/ Report(w)

\* A mark fails after the message has left: the job fails.
MarkLost(w) ==
  /\ Fault
  /\ pc[w] \in {"read", "sent", "skip", "failed", "posted", "refused"}
  /\ pc' = [pc EXCEPT ![w] = "err"]
  /\ UNCHANGED <<handlerVars, rowVars, job, seen, histVars>>

\* A worker process starts: what it did is gone, running jobs are pending again.
Restart(w) ==
  /\ Fault
  /\ pc' = [pc EXCEPT ![w] = "idle"]
  /\ job' = [job EXCEPT ![w] = NoJob]
  /\ seen' = [seen EXCEPT ![w] = 0]
  /\ queue' = [j \in Jobs |-> IF queue[j] = "running" THEN "pending" ELSE queue[j]]
  /\ UNCHANGED <<handlerVars, log, attempts, tries, hookLog, histVars>>

Next ==
  \/ Handler
  \/ RecipientsFail \/ Notify(FALSE) \/ EnqueueHook(FALSE) \/ CommFails \/ HandlerDies
  \/ \E w \in Workers : Process(w) \/ SendInApp(w, FALSE) \/ MarkLost(w) \/ Restart(w)

Spec == Init /\ [][Next]_deliveryVars

\* The dispatch loop and the worker loops go on.
Fairness ==
  /\ WF_deliveryVars(Handler)
  /\ \A w \in Workers : WF_deliveryVars(Process(w))

FairSpec == Spec /\ Fairness

-----------------------------------------------------------------------------
(* Properties. *)

\* A message leaves twice on one channel, and a notification or a webhook call
\* is repeated, only when a fault came in between.
RepeatsNeedFaults ==
  /\ \A j \in Jobs : sends[j] <= 1 + faults
  /\ \A u \in Users : notes[u] <= 1 + faults

\* What the logs call sent has been sent; only the in-app row, whose error is
\* ignored, may be missing, and only after a fault.
LogsTellTheTruth ==
  /\ \A c \in Offered : log[c] = "sent" => sends[c] > 0 \/ (c = InApp /\ faults > 0)
  /\ hookLog = "ok" => sends[Hook] > 0

\* With no fault, every published event ends up sent, skipped or given up on
\* (dead_letter) if the recipient can be reached, and everyone is notified.
EventuallySettled ==
  [](faults = 0) =>
    <>(/\ published
       /\ LET usable == {Channels[i] : i \in 1..Len(Channels)} \cap (Reachable \cup {InApp})
          IN usable = {} \/ \E c \in usable : log[c] \in Settled
       /\ queue[Hook] \in {"succeeded", "failed"}
       /\ \A u \in Users : notes[u] = 1)
=============================================================================
