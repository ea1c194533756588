------------------------------- MODULE Outbox -------------------------------
(***************************************************************************)
(* The transactional outbox of crates/qefro-db/src/outbox.rs and the       *)
(* in-process bus of crates/qefro-events that its dispatcher publishes to. *)
(*                                                                         *)
(* A mutation inserts its events in its own transaction.  Every process    *)
(* calls dispatch_outbox after a mutation and from its worker loop; one    *)
(* call is one transaction that locks a batch of unpublished rows, runs    *)
(* every handler of every event, marks the rows and commits.               *)
(*                                                                         *)
(* Events are numbered by created_at, the order a batch is taken in.       *)
(***************************************************************************)
EXTENDS Integers, FiniteSets

CONSTANTS
  Events,       \* ids of domain events, in the order of their created_at
  Handlers,     \* subscribers of the bus: notifications, automation, realtime
  Realtime,     \* the subscriber that feeds the SSE clients of its process
  Dispatchers,  \* calls of dispatch_outbox that may run at the same time
  Serving,      \* those in a process that has SSE clients (`qefro serve')
  MaxBatch,     \* LIMIT of the query, 100 in the code
  MaxFaults     \* bound: dispatchers that die or lose a statement

ASSUME EventsAssumption == Events \subseteq Nat
ASSUME RealtimeAssumption == Realtime \in Handlers
ASSUME ServingAssumption == Serving \subseteq Dispatchers
ASSUME BoundsAssumption == MaxBatch \in Nat \ {0} /\ MaxFaults \in Nat

VARIABLES
  row,     \* qefro_outbox row: "none", "open" while its mutation has not
           \* committed, "pending", "published"
  batch,   \* the rows a dispatcher's transaction has locked
  marked,  \* those it has set published_at on
  todo,    \* handlers that have not run yet for its current event
  faults,  \* faults so far
  tries,   \* history: how often a handler was called for an event
  ok,      \* history: the handlers that returned Ok for an event
  heard    \* history: events that reached the clients of a serving process

txVars   == <<batch, marked, todo>>
histVars == <<tries, ok, heard>>
vars == <<row, txVars, faults, histVars>>

Init ==
  /\ row = [e \in Events |-> "none"]
  /\ batch = [d \in Dispatchers |-> {}]
  /\ marked = [d \in Dispatchers |-> {}]
  /\ todo = [d \in Dispatchers |-> {}]
  /\ faults = 0
  /\ tries = [e \in Events |-> [h \in Handlers |-> 0]]
  /\ ok = [e \in Events |-> {}]
  /\ heard = {}

-----------------------------------------------------------------------------
(* Mutations: enqueue_tx in the transaction of the business change. *)

Write(e) ==
  /\ row[e] = "none"
  /\ row' = [row EXCEPT ![e] = "open"]
  /\ UNCHANGED <<txVars, faults, histVars>>

CommitWrite(e) ==
  /\ row[e] = "open"
  /\ row' = [row EXCEPT ![e] = "pending"]
  /\ UNCHANGED <<txVars, faults, histVars>>

Rollback(e) ==
  /\ row[e] = "open"
  /\ row' = [row EXCEPT ![e] = "none"]
  /\ UNCHANGED <<txVars, faults, histVars>>

-----------------------------------------------------------------------------
(* dispatch_pending. *)

Locked == UNION {batch[d] : d \in Dispatchers}

\* Mutants of Available: locked rows are not skipped; rows another dispatcher has
\* begun are left to it for good.
AvailableLocked == {e \in Events : row[e] = "pending"}
AvailableFresh ==
  {e \in Events : row[e] = "pending" /\ \A h \in Handlers : tries[e][h] = 0} \ Locked

\* Committed, unpublished rows that no other dispatcher has locked.
Available == {e \in Events : row[e] = "pending"} \ Locked

\* ORDER BY created_at LIMIT n.
Oldest(S, n) == {e \in S : Cardinality({f \in S : f < e}) < n}

Select(d) ==
  /\ batch[d] = {}
  /\ Available # {}
  /\ batch' = [batch EXCEPT ![d] = Oldest(Available, MaxBatch)]
  /\ todo' = [todo EXCEPT ![d] = Handlers]
  /\ UNCHANGED <<row, marked, faults, histVars>>

\* The event that is being published: the oldest row not marked yet.
IsCurrent(d, e) ==
  /\ e \in batch[d] \ marked[d]
  /\ \A f \in batch[d] \ marked[d] : e <= f

\* bus.publish calls a handler; its error is logged and nothing else.  The
\* realtime handler cannot fail, and reaches the clients of its own process.
Handle(d, h, good) ==
  /\ h \in todo[d]
  /\ h = Realtime => good
  /\ \E e \in Events :
       /\ IsCurrent(d, e)
       /\ tries' = [tries EXCEPT ![e][h] = @ + 1]
       /\ ok' = [ok EXCEPT ![e] = IF good THEN @ \cup {h} ELSE @]
       /\ heard' = heard \cup {x \in {e} : h = Realtime /\ d \in Serving}
  /\ todo' = [todo EXCEPT ![d] = @ \ {h}]
  /\ UNCHANGED <<row, batch, marked, faults>>

\* Mutant of Published: the row is marked while handlers are still to run.
PublishedEarly(d) == todo[d] # Handlers

\* Every handler has been called.
Published(d) == todo[d] = {}

\* UPDATE ... SET published_at = now(), in the open transaction.
Mark(d) ==
  /\ Published(d)
  /\ \E e \in Events :
       /\ IsCurrent(d, e)
       /\ marked' = [marked EXCEPT ![d] = @ \cup {e}]
  /\ todo' = [todo EXCEPT ![d] = Handlers]
  /\ UNCHANGED <<row, batch, faults, histVars>>

\* The transaction ends: its locks are released.
Release(d) ==
  /\ batch' = [batch EXCEPT ![d] = {}]
  /\ marked' = [marked EXCEPT ![d] = {}]
  /\ todo' = [todo EXCEPT ![d] = {}]

CommitBatch(d) ==
  /\ batch[d] # {}
  /\ marked[d] = batch[d]
  /\ row' = [e \in Events |-> IF e \in marked[d] THEN "published" ELSE row[e]]
  /\ Release(d)
  /\ UNCHANGED <<faults, histVars>>

\* The dispatcher dies, or a statement or the COMMIT fails: the batch is
\* unlocked and none of its marks stays.
Fault(d) ==
  /\ batch[d] # {}
  /\ faults < MaxFaults
  /\ faults' = faults + 1
  /\ Release(d)
  /\ UNCHANGED <<row, histVars>>

-----------------------------------------------------------------------------

Mutation(e) == Write(e) \/ CommitWrite(e) \/ Rollback(e)

Dispatch(d) ==
  \/ Select(d)
  \/ \E h \in Handlers, good \in BOOLEAN : Handle(d, h, good)
  \/ Mark(d)
  \/ CommitBatch(d)

Next ==
  \/ \E e \in Events : Mutation(e)
  \/ \E d \in Dispatchers : Dispatch(d) \/ Fault(d)

Spec == Init /\ [][Next]_vars

\* The worker loop calls dispatch_outbox on every turn, and a call ends.
FairSpec == Spec /\ \A d \in Dispatchers : WF_vars(Dispatch(d))

-----------------------------------------------------------------------------
(* Properties. *)

\* Every variable stays in its type, and marks are marks of locked rows.
TypeOK ==
  /\ row \in [Events -> {"none", "open", "pending", "published"}]
  /\ batch \in [Dispatchers -> SUBSET Events]
  /\ marked \in [Dispatchers -> SUBSET Events]
  /\ \A d \in Dispatchers : marked[d] \subseteq batch[d]
  /\ todo \in [Dispatchers -> SUBSET Handlers]
  /\ faults \in 0..MaxFaults
  /\ tries \in [Events -> [Handlers -> Nat]]
  /\ ok \in [Events -> SUBSET Handlers]
  /\ heard \subseteq Events

\* No handler ever sees an event of a mutation that has not committed, and so
\* never one of a mutation that rolls back (docs/events.md).
OnlyCommitted ==
  \A e \in Events, h \in Handlers : tries[e][h] > 0 => row[e] \in {"pending", "published"}

\* A published event was given to every handler, whatever crashed in between.
EveryHandlerCalled ==
  \A e \in Events : row[e] = "published" => \A h \in Handlers : tries[e][h] > 0

\* Concurrent dispatchers never duplicate a delivery: only a fault does.
DuplicatesOnlyFromFaults ==
  \A e \in Events, h \in Handlers : tries[e][h] <= 1 + faults

\* A published event is never delivered again.
PublishedIsOver ==
  [][\A e \in Events : row[e] = "published" =>
       row'[e] = "published" /\ tries'[e] = tries[e]]_vars

\* Every committed event is published.
EventuallyPublished == \A e \in Events : row[e] = "pending" ~> row[e] = "published"

\* docs/realtime.md:3: post-commit events fan out over SSE: a published event
\* reached the clients of the serving process.  The code does not keep this: an
\* event that a worker process dispatches never reaches them.
ClientsHear == \A e \in Events : row[e] = "published" => e \in heard
=============================================================================
