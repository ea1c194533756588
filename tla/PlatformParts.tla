--------------------------- MODULE PlatformParts ---------------------------
(***************************************************************************)
(* Six services, each with its theorems in PlatformProofs: deliveries       *)
(* (Delivery), reminders (Reminders), attachments (Attachments), Studio's   *)
(* publications (Studio), commerce and accounting (Sales), and automations  *)
(* that set each other off (Chains).  They share no state: service says     *)
(* which one a behaviour of MCPlatform is about.                            *)
(***************************************************************************)
EXTENDS Integers, Sequences, FiniteSets

CONSTANTS
  \* Delivery
  OfferedChannels, Marketing, InApp, Recipients, NoPreference, NoMessages, Notified, Hook,
  Deliverers, DeliveryTries, DeadAt, DeliveryFaults,
  \* Reminders
  Dates, Lead, LastInstant, Rewrites, ReminderTries, ReminderFaults,
  \* Attachments
  BlobNames, Uploads, PurgeTries, BlobFaults,
  \* Studio
  Fields, Publishers,
  \* Sales
  Sellers, Invoices, Drafts, Payments, Allocations, Orders, Returns, InvoiceTotal, Quantity,
  FiscalPeriod,
  \* Chains
  Automations, Triggers, Effects, DepthLimit, Changed, Writers, Pollers, Connections,
  RowsTaken, RunTries, ActionFails

VARIABLES
  service,
  \* Delivery
  recipient, dpublished, hpc, next, log, attempts, queue, dtries, hookLog,
  dpc, job, dseen, dfaults, calls, sends, notes,
  \* Reminders
  kind, sameZone, clock, rrec, reminder, rtries, found, event, rchanges, rfaults,
  rwanted, elsewhere, skipped,
  \* Attachments
  arow, blobs, purge, atries, apc, aop, name, cur, afaults,
  araced, reused, leaked,
  \* Studio
  registry, file, sourced, columns, versions, spc, sop, sbase, number, met, unsure,
  \* Sales
  inv, pay, order, ret, period, journal, slock, tpc, top, tread, tat, shipped,
  \* Chains
  outbox, runs, retries, stack, cpc, fails, cmade, hurt

Mail == INSTANCE Delivery WITH
          Allowed <- OfferedChannels, Users <- Notified, Workers <- Deliverers,
          MaxTries <- DeliveryTries, tries <- dtries,
          MaxFaults <- DeliveryFaults, published <- dpublished, pc <- dpc, seen <- dseen,
          faults <- dfaults
Due == INSTANCE Reminders WITH
         Horizon <- LastInstant, MaxChanges <- Rewrites, MaxTries <- ReminderTries,
         MaxFaults <- ReminderFaults, now <- clock, rec <- rrec, job <- reminder,
         tries <- rtries, changes <- rchanges, faults <- rfaults, wanted <- rwanted
File == INSTANCE Attachments WITH
          Names <- BlobNames, Callers <- Uploads,
          MaxTries <- PurgeTries, MaxFaults <- BlobFaults, row <- arow, tries <- atries,
          pc <- apc, op <- aop, faults <- afaults, raced <- araced
Draft == INSTANCE Studio WITH pc <- spc, op <- sop, base <- sbase
Trade == INSTANCE Sales WITH
           Clients <- Sellers, Total <- InvoiceTotal, Period <- FiscalPeriod,
           lock <- slock, pc <- tpc, op <- top, read <- tread, at <- tat
Chain == INSTANCE Chains WITH
           Defs <- Automations, On <- Triggers, Makes <- Effects, Limit <- DepthLimit,
           Root <- Changed, Requests <- Writers, Loops <- Pollers, Pool <- Connections,
           Batch <- RowsTaken, MaxTries <- RunTries, MaxFails <- ActionFails,
           jobs <- retries, pc <- cpc, made <- cmade

ASSUME NamesHold == File!NamesAssumption
ASSUME DeliverersHold == Mail!DeliveryAssumption
ASSUME SalesAre == Trade!SalesAssumption
ASSUME ChainsAre == Chain!ChainsAssumption

-----------------------------------------------------------------------------
\* Deliveries: a message, a notification or a webhook call is repeated only
\* after a fault (at-least-once jobs and handlers), and a row that says sent is of
\* a message that has left.
SendsAndLogs == Mail!RepeatsNeedFaults /\ Mail!LogsTellTheTruth
\* Reminders: one of a date that the record was open with when its time had come.
RemindedRightly == Due!RemindedRightly
\* Attachments: whatever fails or overlaps, a row keeps its blob.
RowKeepsBlob == File!RowKeepsBlob
\* Studio: a published field has its column.
ColumnsFollow == Draft!ColumnsFollow
\* Studio: a publication keeps the fields that others have published.
FieldsStay == Draft!FieldsStay
\* Commerce: no invoice is overpaid by payments that run side by side; orders,
\* shipments and invoices of requests side by side add up, and the ledger agrees.
SalesAddUp == Trade!NeverOverpaid /\ Trade!OrdersAddUp /\ Trade!LedgerMatches
\* Chains: automations that set each other off stop at their limits, as far as events
\* count, and what an event triggers is carried out once, or retried, unless its handler
\* waited too long for a connection.
ChainsHold == Chain!ChainsBounded /\ Chain!RunsKept
=============================================================================
