\* Deliveries with two workers and a fault; a record with four changes and two faults;
\* attachments with two requests and two
\* faults; three requests of commerce; three publications of one field;
\* a request and a loop with three connections, three automations and a failure.
SPECIFICATION Spec
CONSTANTS
  OfferedChannels <- Channel
  Marketing = TRUE
  InApp = "in_app"
  Recipients <- People
  NoPreference = ""
  NoMessages = "none"
  Notified = {"u1"}
  Hook = "hook"
  Deliverers = {"w1", "w2"}
  DeliveryTries = 2
  DeadAt = 3
  DeliveryFaults = 1
  Dates = {2, 3}
  Lead = 1
  LastInstant = 3
  Rewrites = 4
  ReminderTries = 2
  ReminderFaults = 2
  BlobNames = {"a", "b"}
  Uploads = {"c1", "c2"}
  PurgeTries = 2
  BlobFaults = 2
  Fields = {"f1"}
  Publishers = {"p1", "p2", "p3"}
  Sellers = {"c1", "c2", "c3"}
  Invoices = {"i1", "i2", "i3"}
  Drafts = {"i1"}
  Payments = {"p1", "p2"}
  Allocations <- Paying
  Orders = {"o1"}
  Returns = {"r1"}
  InvoiceTotal = 2
  Quantity = 2
  FiscalPeriod = "period"
  Automations <- ByName
  Triggers <- ByEvent
  Effects <- Following
  DepthLimit <- Deepest
  Changed = "changed"
  Writers = {"r1"}
  Pollers = {"l1"}
  Connections = 3
  RowsTaken = 2
  RunTries = 2
  ActionFails = 1
\* Each service stops when its requests have ended and its jobs are settled.
CHECK_DEADLOCK FALSE
INVARIANTS
  SendsAndLogs
  RemindedRightly
  RowKeepsBlob
  
  ColumnsFollow
  ChainsHold
PROPERTIES
  ServicesEnd
  FieldsStay
