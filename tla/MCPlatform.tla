----------------------------- MODULE MCPlatform -----------------------------
(***************************************************************************)
(* Small instances of the services of PlatformParts, one of them per        *)
(* behaviour.  They share no state: service says which one a behaviour is   *)
(* about, the variables of the others stay as they are initially.           *)
(***************************************************************************)
EXTENDS PlatformParts, TLC

Channel == <<"in_app", "email">>
To(a, l, o, p) == [addresses |-> a, login |-> l, optOut |-> o, prefers |-> p]
\* Somebody who prefers e-mail, somebody without any address, and somebody who
\* has opted out of marketing.
People == {To({"email"}, TRUE, FALSE, "email"), To({}, FALSE, FALSE, ""),
           To({"email"}, TRUE, TRUE, "")}
Nobody == To({}, FALSE, FALSE, "")

For(i, n) == [invoice |-> i, amount |-> n]
\* One payment of two invoices, one that pays an invoice twice.
Paying == "p1" :> <<For("i1", 1), For("i2", 1)>> @@ "p2" :> <<For("i1", 1), For("i1", 1)>>

Made(e, c) == [name |-> e, counted |-> c]
\* a changes what set it off, b comments on it, and c acts on the comment.
ByName == <<"a", "b", "c">>
ByEvent == "a" :> "changed" @@ "b" :> "changed" @@ "c" :> "commented"
Following == "a" :> <<Made("changed", TRUE)>> @@ "b" :> <<Made("commented", FALSE)>>
             @@ "c" :> <<Made("created", TRUE)>>
Deepest == "a" :> 2 @@ "b" :> 1 @@ "c" :> 1

Init ==
  /\ service \in {"delivery", "reminders", "attachments", "sales", "studio", "chains"}
  /\ Mail!Init /\ (service # "delivery" => recipient = Nobody)
  /\ Due!Init /\ (service # "reminders" => kind = "due")
  /\ File!Init
  /\ Trade!Init
  /\ Draft!Init /\ (service # "studio" => sourced)
  /\ Chain!Init

deliveryVars == <<recipient, dpublished, hpc, next, log, attempts, queue, dtries, hookLog,
                  dpc, job, dseen, dfaults, calls, sends, notes>>
reminderVars == <<kind, sameZone, clock, rrec, reminder, rtries, found, event, rchanges,
                  rfaults, rwanted, elsewhere, skipped>>
attachmentVars == <<arow, blobs, purge, atries, apc, aop, name, cur,
                    afaults, araced, reused, leaked>>
salesVars == <<inv, pay, order, ret, period, journal, slock, tpc, top, tread, tat, shipped>>
studioVars == <<registry, file, sourced, columns, versions, spc, sop, sbase, number, met,
                unsure>>
chainVars == <<outbox, runs, retries, stack, cpc, fails, cmade, hurt>>
vars == <<service, deliveryVars, reminderVars, attachmentVars, salesVars, studioVars,
          chainVars>>

Next ==
  \/ /\ service = "delivery" /\ Mail!Next
     /\ UNCHANGED <<service, chainVars, reminderVars, attachmentVars, salesVars, studioVars>>
  \/ /\ service = "reminders" /\ Due!Next
     /\ UNCHANGED <<service, chainVars, deliveryVars, attachmentVars, salesVars, studioVars>>
  \/ /\ service = "attachments" /\ File!Next
     /\ UNCHANGED <<service, chainVars, deliveryVars, reminderVars, salesVars, studioVars>>
  \/ /\ service = "sales" /\ Trade!Next
     /\ UNCHANGED <<service, chainVars, deliveryVars, reminderVars, attachmentVars, studioVars>>
  \/ /\ service = "studio" /\ Draft!Next
     /\ UNCHANGED <<service, chainVars, deliveryVars, reminderVars, attachmentVars, salesVars>>
  \/ /\ service = "chains" /\ Chain!Next
     /\ UNCHANGED <<service, deliveryVars, reminderVars, attachmentVars, salesVars, studioVars>>

\* The fairness of the service that the behaviour is about.
Fairness ==
  /\ WF_deliveryVars(service = "delivery" /\ Mail!Handler)
  /\ \A w \in {"w1", "w2"} : WF_deliveryVars(service = "delivery" /\ Mail!Process(w))
  /\ \A d \in Dates : WF_reminderVars(service = "reminders" /\ Due!Worker(d))
  /\ \A c \in Uploads : WF_attachmentVars(service = "attachments" /\ File!Request(c))
  /\ \A k \in BlobNames : WF_attachmentVars(service = "attachments" /\ File!Worker(k))
  /\ \A c \in Writers \cup Pollers : WF_chainVars(service = "chains" /\ Chain!Call(c))

Spec == Init /\ [][Next]_vars /\ Fairness

-----------------------------------------------------------------------------
\* Deliveries: without faults a published event reaches its recipient, or its
\* message ends skipped or as a dead letter; reminders: such a record is reminded of,
\* through retries and restarts; attachments: blobs without a row are purged in the end;
\* chains: calls that wait for each other's connections return.
ServicesEnd ==
  /\ service = "delivery" => Mail!EventuallySettled
  /\ service = "reminders" => Due!EventuallyReminded
  /\ service = "attachments" => File!OrphansPurged
  /\ service = "chains" => Chain!CallsReturn
\* Reminders: every booking is reminded of (docs/scheduling.md), which the code
\* does only where the tenant is in UTC.
EveryStartReminded == service = "reminders" => Due!EveryStartReminded
\* Accounting: closed periods receive no postings (docs/accounting.md).
ClosedReceivesNothing == Trade!ClosedReceivesNothing
\* Chains: they stop at their limits (docs/automation.md), which those that go through a
\* comment do not; kept without a run.
ChainsStop == Chain!ChainsStop
=============================================================================
