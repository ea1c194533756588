------------------------------- MODULE Sales -------------------------------
(***************************************************************************)
(* Selling and its ledger: sales orders, invoices, payments and returns     *)
(* (crates/qefro-db/src/commerce.rs), the journals they post and the fiscal *)
(* period these fall into (accounting.rs).                                  *)
(*                                                                         *)
(* Every operation is one transaction of execute_in_transaction, which      *)
(* locks its record before the handler runs; OperationCtx::get and update   *)
(* lock the rows they touch, OperationCtx::list locks nothing.  Operations  *)
(* nested with OperationCtx::execute are part of the transaction that       *)
(* invokes them.  A request that is refused changes nothing and is not      *)
(* modelled before it has begun.  Amounts are integers, a document has one  *)
(* total and an order one line.  validate_accounts locks the accounts of a  *)
(* journal: all journals here have the receivable account, which stands for *)
(* all of them.                                                             *)
(***************************************************************************)
EXTENDS Integers, Sequences, FiniteSets, Functions

CONSTANTS
  Clients,      \* one request each; also the number of the journal it posts
  Invoices,     \* invoices, one half of them not created yet
  Drafts,       \* those that are drafts at the start
  Payments,     \* draft payments at the start
  Allocations,  \* the allocations of each: a sequence of [invoice, amount]
  Orders, Returns,
  Total,        \* total of an invoice, of a return
  Quantity,     \* quantity of an order
  Period        \* the fiscal period that covers today

Free == "free"

\* Amounts are positive (an allocation that is not is skipped, a payment refused), and the
\* allocations of a payment are of invoices.
SalesAssumption ==
  /\ IsFiniteSet(Clients) /\ IsFiniteSet(Invoices) /\ IsFiniteSet(Returns)
  /\ Free \notin Clients \cup Orders
  /\ Total \in Nat /\ Quantity \in Nat
  /\ Allocations \in [Payments -> Seq([invoice : Invoices, amount : Nat \ {0}])]

Receivable == "receivable"
Rows ==
  Clients \cup Invoices \cup Payments \cup Orders \cup Returns \cup {Period, Receivable}

VARIABLES
  inv,      \* each invoice: status, paid_amount, order_id
  pay,      \* status of each payment
  order,    \* each order: status, qty_fulfilled
  ret,      \* status of each return
  period,   \* status of the period
  journal,  \* the journal of each client: status, its effect on receivables,
            \* and whether it was posted into a closed period
  lock,     \* row locks
  pc,       \* where each request is
  op,       \* what it is
  read,     \* paid_amount or qty_fulfilled it has read
  at,       \* allocations it has applied
  shipped   \* history: quantity of the shipments of each order

dataVars == <<inv, pay, order, ret, period, journal>>
reqVars  == <<pc, op, read, at>>
salesVars == <<dataVars, lock, reqVars, shipped>>

NoOp == [kind |-> "none"]

Init ==
  /\ inv = [i \in Invoices |->
              [status |-> IF i \in Drafts THEN "Draft" ELSE "absent", paid |-> 0, order |-> Free]]
  /\ pay = [p \in Payments |-> "Draft"]
  /\ order = [o \in Orders |-> [status |-> "Draft", done |-> 0]]
  /\ ret = [r \in Returns |-> "Received"]
  /\ period = "Open"
  /\ journal = [c \in Clients |-> [status |-> "none", ar |-> 0, late |-> FALSE]]
  /\ lock = [x \in Rows |-> Free]
  /\ pc = [c \in Clients |-> "new"]
  /\ op = [c \in Clients |-> NoOp]
  /\ read = [c \in Clients |-> 0]
  /\ at = [c \in Clients |-> 0]
  /\ shipped = [o \in Orders |-> 0]

-----------------------------------------------------------------------------
(* Requests. *)

\* Mutant of CanLock: SELECT without FOR UPDATE.
CanLockAlways(c, x) == TRUE

\* SELECT ... FOR UPDATE goes on when nobody else has the row.
CanLock(c, x) == lock[x] \in {Free, c}

Lock(c, x) == lock' = [lock EXCEPT ![x] = c]
Unlocked(c) == [x \in Rows |-> IF lock[x] = c THEN Free ELSE lock[x]]

Live(i) == inv[i].status # "absent"

\* The invoices IssueInvoiceFromOrder lists for an order.
InvoiceOf(o) == {i \in Invoices : Live(i) /\ inv[i].order = o}

Begin(c, o, x, next, value) ==
  /\ pc[c] = "new"
  /\ CanLock(c, x)
  /\ Lock(c, x)
  /\ op' = [op EXCEPT ![c] = o]
  /\ pc' = [pc EXCEPT ![c] = next]
  /\ read' = [read EXCEPT ![c] = value]
  /\ UNCHANGED <<dataVars, at, shipped>>

\* IssueInvoice.
BeginIssue(c, i) ==
  /\ inv[i].status = "Draft"
  /\ Begin(c, [kind |-> "issue", row |-> i], i, "accounts", 0)

\* RecordPayment: at most what remains; by default all of it.
BeginRecord(c, i, amount) ==
  /\ inv[i].status \in {"Issued", "Paid"}
  /\ amount \in 1..(Total - inv[i].paid)
  /\ Begin(c, [kind |-> "record", row |-> i, amount |-> amount], i, "accounts", inv[i].paid)

\* ReceivePayment.
BeginReceive(c, p) ==
  /\ pay[p] = "Draft"
  /\ Begin(c, [kind |-> "receive", row |-> p], p, "accounts", 0)

\* ConfirmOrder, SimpleTransition (complete), CancelOrder.
BeginMove(c, o, from, to) ==
  /\ order[o].status = from
  /\ Begin(c, [kind |-> "move", row |-> o, to |-> to], o, "write", order[o].done)

\* FulfillOrder: the quantity asked for, at most what remains.
BeginFulfill(c, o, amount) ==
  /\ order[o].status = "Confirmed"
  /\ amount \in 1..(Quantity - order[o].done)
  /\ Begin(c, [kind |-> "fulfill", row |-> o, amount |-> amount], o, "write", order[o].done)

\* IssueInvoiceFromOrder: not if the order has an invoice.
BeginInvoice(c, o) ==
  /\ order[o].status \in {"Confirmed", "Fulfilled", "Completed"}
  /\ InvoiceOf(o) = {}
  /\ Begin(c, [kind |-> "invoice", row |-> o], o, "accounts", 0)

\* RefundReturn.
BeginRefund(c, r) ==
  /\ ret[r] = "Received"
  /\ Begin(c, [kind |-> "refund", row |-> r], r, "accounts", 0)

\* ReverseJournal: the new journal has the period_id of the reversed one.
BeginReverse(c, j) ==
  /\ journal[j].status = "Posted"
  /\ Begin(c, [kind |-> "reverse", row |-> j], j, "accounts", 0)

\* validate_accounts.
LockAccounts(c) ==
  /\ pc[c] = "accounts"
  /\ CanLock(c, Receivable)
  /\ Lock(c, Receivable)
  /\ pc' = [pc EXCEPT ![c] = IF op[c].kind = "reverse" THEN "period" ELSE "post"]
  /\ UNCHANGED <<dataVars, op, read, at, shipped>>

\* validate_period of a journal without period_id: it lists the closed periods.
SeePeriod(c) ==
  /\ pc[c] = "post"
  /\ period = "Open"
  /\ pc' = [pc EXCEPT ![c] = IF op[c].kind = "receive" THEN "allocate" ELSE "write"]
  /\ UNCHANGED <<dataVars, lock, op, read, at, shipped>>

\* validate_period of a journal with a period_id: it gets, and locks, the period.
LockPeriod(c) ==
  /\ pc[c] = "period"
  /\ CanLock(c, Period)
  /\ period = "Open"
  /\ Lock(c, Period)
  /\ pc' = [pc EXCEPT ![c] = "write"]
  /\ UNCHANGED <<dataVars, op, read, at, shipped>>

\* Mutant of Allocated: a handler that sees the rows as they were committed.
AllocatedNone(c, i) == 0

Amounts(p) == [k \in DOMAIN Allocations[p] |-> Allocations[p][k].amount]

\* What the first n allocations of a payment give to an invoice.
Given(p, n, i) == SumFunctionOnSet(Amounts(p), {k \in 1..n : Allocations[p][k].invoice = i})

\* What the transaction has allocated to an invoice by now.
Allocated(c, i) == Given(op[c].row, at[c], i)

\* An invoice takes an allocation when it is issued and as much remains.
Takes(c, a) ==
  /\ inv[a.invoice].status \in {"Issued", "Paid"}
  /\ a.amount <= Total - (inv[a.invoice].paid + Allocated(c, a.invoice))

MoreToAllocate(c) == pc[c] = "allocate" /\ at[c] < Len(Allocations[op[c].row])
NextAllocation(c) == Allocations[op[c].row][at[c] + 1]

\* apply_payment_allocations: one invoice after the other, each locked.
Allocate(c) ==
  /\ MoreToAllocate(c)
  /\ CanLock(c, NextAllocation(c).invoice)
  /\ Takes(c, NextAllocation(c))
  /\ Lock(c, NextAllocation(c).invoice)
  /\ at' = [at EXCEPT ![c] = @ + 1]
  /\ UNCHANGED <<dataVars, pc, op, read, shipped>>

Allocating(c) ==
  /\ pc[c] = "allocate"
  /\ ~MoreToAllocate(c)
  /\ pc' = [pc EXCEPT ![c] = "write"]
  /\ UNCHANGED <<dataVars, lock, op, read, at, shipped>>

-----------------------------------------------------------------------------
(* What commits. *)

Commit(c) ==
  /\ pc[c] = "write"
  /\ pc' = [pc EXCEPT ![c] = "done"]
  /\ op' = [op EXCEPT ![c] = NoOp]
  /\ lock' = Unlocked(c)
  /\ read' = [read EXCEPT ![c] = 0]
  /\ at' = [at EXCEPT ![c] = 0]

\* post_ledger: the journal of the request, with its effect on receivables.
PostJournal(c, ar) ==
  journal' = [journal EXCEPT ![c] = [status |-> "Posted", ar |-> ar, late |-> period = "Closed"]]

CommitIssue(c) ==
  /\ op[c].kind = "issue"
  /\ Commit(c)
  /\ inv' = [inv EXCEPT ![op[c].row].status = "Issued"]
  /\ PostJournal(c, Total)
  /\ UNCHANGED <<pay, order, ret, period, shipped>>

\* The invoice becomes Paid when nothing remains.
CommitRecord(c) ==
  LET i == op[c].row
      paid == read[c] + op[c].amount
  IN /\ op[c].kind = "record"
     /\ Commit(c)
     /\ inv' = [inv EXCEPT ![i].paid = paid,
                           ![i].status = IF paid >= Total THEN "Paid" ELSE @]
     /\ PostJournal(c, -op[c].amount)
     /\ UNCHANGED <<pay, order, ret, period, shipped>>

\* A payment of its own leaves the status of its invoices alone.
CommitReceive(c) ==
  LET p == op[c].row
  IN /\ op[c].kind = "receive"
     /\ Commit(c)
     /\ pay' = [pay EXCEPT ![p] = "Received"]
     /\ inv' = [i \in Invoices |-> [inv[i] EXCEPT !.paid = @ + Allocated(c, i)]]
     /\ PostJournal(c, -SumFunction(Amounts(p)))
     /\ UNCHANGED <<order, ret, period, shipped>>

CommitMove(c) ==
  /\ op[c].kind = "move"
  /\ Commit(c)
  /\ order' = [order EXCEPT ![op[c].row].status = op[c].to]
  /\ UNCHANGED <<inv, pay, ret, period, journal, shipped>>

\* A shipment, and refresh_fulfillment.
CommitFulfill(c) ==
  LET o == op[c].row
      done == read[c] + op[c].amount
  IN /\ op[c].kind = "fulfill"
     /\ Commit(c)
     /\ shipped' = [shipped EXCEPT ![o] = @ + op[c].amount]
     /\ order' = [order EXCEPT ![o].done = done,
                               ![o].status = IF done >= Quantity THEN "Fulfilled" ELSE @]
     /\ UNCHANGED <<inv, pay, ret, period, journal>>

\* The invoice is created and issued.
CommitInvoice(c) ==
  /\ op[c].kind = "invoice"
  /\ Commit(c)
  /\ \E i \in Invoices :
       /\ ~Live(i)
       /\ inv' = [inv EXCEPT ![i] = [status |-> "Issued", paid |-> 0, order |-> op[c].row]]
  /\ PostJournal(c, Total)
  /\ UNCHANGED <<pay, order, ret, period, shipped>>

CommitRefund(c) ==
  /\ op[c].kind = "refund"
  /\ Commit(c)
  /\ ret' = [ret EXCEPT ![op[c].row] = "Refunded"]
  /\ PostJournal(c, -Total)
  /\ UNCHANGED <<inv, pay, order, period, shipped>>

\* The reversal is posted with debit and credit swapped.
CommitReverse(c) ==
  LET j == op[c].row
  IN /\ op[c].kind = "reverse"
     /\ Commit(c)
     /\ journal' = [journal EXCEPT
                      ![j].status = "Reversed",
                      ![c] = [status |-> "Posted", ar |-> -journal[j].ar,
                              late |-> period = "Closed"]]
     /\ UNCHANGED <<inv, pay, order, ret, period, shipped>>

-----------------------------------------------------------------------------
(* What does not commit. *)

\* The transaction ends and leaves no trace.
Rollback(c) ==
  /\ pc' = [pc EXCEPT ![c] = "done"]
  /\ op' = [op EXCEPT ![c] = NoOp]
  /\ lock' = Unlocked(c)
  /\ read' = [read EXCEPT ![c] = 0]
  /\ at' = [at EXCEPT ![c] = 0]
  /\ UNCHANGED <<dataVars, shipped>>

\* The period is closed, or an invoice does not take its allocation.
Refused(c) ==
  /\ \/ pc[c] = "post" /\ period = "Closed"
     \/ pc[c] = "period" /\ period = "Closed" /\ CanLock(c, Period)
     \/ /\ MoreToAllocate(c)
        /\ CanLock(c, NextAllocation(c).invoice)
        /\ ~Takes(c, NextAllocation(c))
  /\ Rollback(c)

\* An error of the database, a process that dies.
Dies(c) ==
  /\ pc[c] \in {"accounts", "post", "period", "allocate", "write"}
  /\ Rollback(c)

\* The row the next step of a request locks.
Needs(c) ==
  IF pc[c] = "accounts" THEN {Receivable}
  ELSE IF pc[c] = "period" THEN {Period}
  ELSE IF MoreToAllocate(c) THEN {NextAllocation(c).invoice}
  ELSE {}

WaitsFor(c) == {lock[x] : x \in {y \in Needs(c) : ~CanLock(c, y)}}

\* The database ends a transaction of a circle that waits for one another.
DeadlockEnds(c) ==
  /\ \E circle \in SUBSET Clients :
       c \in circle /\ UNION {WaitsFor(d) : d \in circle} = circle
  /\ Rollback(c)

\* ClosePeriod and ReopenPeriod.
MovePeriod(c) ==
  /\ pc[c] = "new"
  /\ CanLock(c, Period)
  /\ pc' = [pc EXCEPT ![c] = "done"]
  /\ period' = IF period = "Open" THEN "Closed" ELSE "Open"
  /\ UNCHANGED <<inv, pay, order, ret, journal, lock, op, read, at, shipped>>

Begins(c) ==
  \/ \E i \in Invoices : BeginIssue(c, i) \/ \E n \in 1..Total : BeginRecord(c, i, n)
  \/ \E p \in Payments : BeginReceive(c, p)
  \/ \E o \in Orders :
       \/ BeginMove(c, o, "Draft", "Confirmed")
       \/ BeginMove(c, o, "Fulfilled", "Completed")
       \/ BeginMove(c, o, "Confirmed", "Cancelled")
       \/ \E n \in 1..Quantity : BeginFulfill(c, o, n)
       \/ BeginInvoice(c, o)
  \/ \E r \in Returns : BeginRefund(c, r)
  \/ \E j \in Clients : BeginReverse(c, j)

Commits(c) ==
  \/ CommitIssue(c) \/ CommitRecord(c) \/ CommitReceive(c) \/ CommitMove(c)
  \/ CommitFulfill(c) \/ CommitInvoice(c) \/ CommitRefund(c) \/ CommitReverse(c)

\* What a request that has begun does by itself.
Goes(c) ==
  \/ LockAccounts(c) \/ SeePeriod(c) \/ LockPeriod(c) \/ Allocate(c) \/ Allocating(c)
  \/ Commits(c)
  \/ Refused(c) \/ DeadlockEnds(c)

Next == \E c \in Clients : Begins(c) \/ Goes(c) \/ Dies(c) \/ MovePeriod(c)

Spec == Init /\ [][Next]_salesVars

-----------------------------------------------------------------------------
(* Properties. *)

\* No invoice is paid more than its total, by however many payments at once, and
\* an invoice that is Paid is paid in full.
NeverOverpaid ==
  \A i \in Invoices :
    /\ inv[i].paid <= Total
    /\ inv[i].status = "Paid" => inv[i].paid = Total

\* What the orders say was fulfilled is what was shipped, at most what was
\* ordered, and an order has one invoice.
OrdersAddUp ==
  \A o \in Orders :
    /\ shipped[o] = order[o].done
    /\ shipped[o] <= Quantity
    /\ Cardinality({i \in Invoices : inv[i].order = o}) <= 1

\* What an issued invoice leaves open, and what has been reversed of a journal.
Unpaid(i) == IF inv[i].status \in {"Issued", "Paid"} THEN Total - inv[i].paid ELSE 0
Reversal(c) == IF journal[c].status = "Reversed" THEN journal[c].ar ELSE 0

Ledger == SumFunction([c \in Clients |-> journal[c].ar])
Open == SumFunction([i \in Invoices |-> Unpaid(i)])
Refunded == Total * Cardinality({r \in Returns : ret[r] = "Refunded"})
Reversed == SumFunction([c \in Clients |-> Reversal(c)])

\* The receivables of the ledger are what the invoices leave open, less what
\* returns refunded and less what was reversed: no payment is lost between the
\* invoice and the ledger.
LedgerMatches == Ledger = Open - Refunded - Reversed

\* Closed periods receive no postings.
ClosedReceivesNothing == \A c \in Clients : ~journal[c].late
=============================================================================
