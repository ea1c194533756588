------------------------------ MODULE Documents ------------------------------
(***************************************************************************)
(* Documents with child rows and totals computed from them: the requests    *)
(* of EntityService (crates/qefro-db/src/service.rs) that write both, bulk  *)
(* requests (bulk.rs), duplicate and amend (document_ops.rs), and the       *)
(* removal of the child rows of a deleted document.                         *)
(*                                                                         *)
(* The own columns of a document are one number, own; each child row has an *)
(* amount; total is the computed column own + SUM(rows.amount).             *)
(* A statement sees what other transactions have committed (READ            *)
(* COMMITTED); an UPDATE waits for the lock of its row.  Permissions, rules *)
(* and the lock state of a submitted document are decided before the        *)
(* transaction (Records); lists longer than a page are left out.            *)
(***************************************************************************)
EXTENDS Naturals, FiniteSets, FiniteSetsExt, Sequences, SequencesExt

CONSTANTS
  Docs,      \* documents that exist or may come to exist
  First,     \* the one that exists initially, with one child row
  Requests   \* requests, one each

DocumentsAssumption == IsFiniteSet(Docs) /\ First \in Docs

VARIABLES
  doc,       \* state, own and total of each document
  rows,      \* live child rows: id, document, amount
  made,      \* number of child rows ever inserted: their ids
  pc,        \* where a request is
  todo,      \* documents it still has to handle, the present one first
  patch,     \* what a PATCH carries
  base,      \* own as its transaction has it
  seen,      \* child rows it has listed
  stored,    \* child rows it sums up
  held,      \* documents whose row it has locked
  heldRows,  \* child rows it has locked
  clash,     \* history: PATCHes that overlapped one of child rows alone
  raced,     \* history: documents whose last PATCH was one of those
  copied,    \* history: documents that are copies, without a PATCH since
  left       \* history: deleted documents whose sweep failed

tableVars == <<doc, rows, made>>
requestVars == <<pc, todo, patch, base, seen, stored>>
lockVars == <<held, heldRows>>
histVars == <<clash, raced, copied, left>>
documentVars == <<tableVars, requestVars, lockVars, histVars>>

Unborn == [state |-> "unborn", own |-> 0, total |-> 0]
NoPatch == [op |-> "none", own |-> FALSE, list |-> FALSE, keep |-> {}, add |-> 0]
Row(i, d, a) == [id |-> i, of |-> d, amount |-> a]
Ids(S) == {x.id : x \in S}
RowsOf(d) == {x \in rows : x.of = d}
Sum(S) == MapThenSumSet(LAMBDA x : x.amount, S)
\* The formula of the computed column.
Total(own, S) == own + Sum(S)

Init ==
  /\ doc = [d \in Docs |-> IF d = First THEN [state |-> "live", own |-> 0,
                                                 total |-> Total(0, {Row(1, First, 1)})]
                           ELSE Unborn]
  /\ rows = {Row(1, First, 1)}
  /\ made = 1
  /\ pc = [r \in Requests |-> "new"]
  /\ todo = [r \in Requests |-> <<>>]
  /\ patch = [r \in Requests |-> NoPatch]
  /\ base = [r \in Requests |-> 0]
  /\ seen = [r \in Requests |-> {}]
  /\ stored = [r \in Requests |-> {}]
  /\ held = [r \in Requests |-> {}]
  /\ heldRows = [r \in Requests |-> {}]
  /\ clash = {} /\ raced = {} /\ copied = {} /\ left = {}

Here(r) == Head(todo[r])
Op(r) == patch[r].op

CanLock(r, d) == \A q \in Requests \ {r} : d \notin held[q]
CanLockRows(r, S) == \A q \in Requests \ {r} : heldRows[q] \cap Ids(S) = {}

\* Mutant of Present: rows that are deleted are updated, too.
PresentAlways(d) == TRUE

\* deleted_at IS NULL.
Present(d) == doc[d].state = "live"

Goto(r, from, to) ==
  /\ pc[r] = from
  /\ pc' = [pc EXCEPT ![r] = to]

\* The transaction is over; a bulk request goes on with its next document.
NextDocument(r) ==
  /\ todo' = [todo EXCEPT ![r] = Tail(@)]
  /\ pc' = [pc EXCEPT ![r] = IF Len(todo[r]) = 1 THEN "done" ELSE "row"]
  /\ seen' = [seen EXCEPT ![r] = {}]
  /\ stored' = [stored EXCEPT ![r] = {}]
  /\ base' = [base EXCEPT ![r] = 0]
  /\ held' = [held EXCEPT ![r] = {}]
  /\ heldRows' = [heldRows EXCEPT ![r] = {}]
  /\ patch' = IF Len(todo[r]) = 1 THEN [patch EXCEPT ![r] = NoPatch] ELSE patch
  /\ clash' = clash \ {r}

\* An error: nothing is written, bulk notes it and goes on.
Rollback(r) == NextDocument(r) /\ UNCHANGED <<tableVars, raced, copied, left>>

-----------------------------------------------------------------------------
(* Requests. *)

\* One document, or all of them by a bulk request.
Targets == {<<d>> : d \in {e \in Docs : Present(e)}} \cup {SetToSeq(Docs)}

\* What a PATCH may carry: own columns, a list of child rows (some of those the
\* client has seen and new ones), or both; in bulk, own columns.
Patches(t) ==
  {p \in [op : {"update"}, own : BOOLEAN, list : BOOLEAN,
          keep : SUBSET Ids(RowsOf(Head(t))), add : 0..1] :
     /\ p.own \/ p.list
     /\ ~ p.list => p.keep = {} /\ p.add = 0
     /\ Len(t) > 1 => ~ p.list}

Only(o) == [NoPatch EXCEPT !.op = o]

Begin(r) ==
  /\ Goto(r, "new", "row")
  /\ \E t \in Targets :
       /\ todo' = [todo EXCEPT ![r] = t]
       /\ \E p \in Patches(t) \cup {Only("delete")}
                   \cup (IF Len(t) = 1 THEN {Only("copy"), Only("create")} ELSE {}) :
            patch' = [patch EXCEPT ![r] = p]
  /\ UNCHANGED <<tableVars, base, seen, stored, lockVars, histVars>>

\* create: the document, its child rows and its total, seen by nobody before the
\* COMMIT.
Create(r, d, n) ==
  LET new == {Row(made + i, d, 1) : i \in 1..n} IN
  /\ pc[r] = "row" /\ Op(r) = "create"
  /\ doc[d].state = "unborn"
  /\ doc' = [doc EXCEPT ![d] = [state |-> "live", own |-> 0, total |-> Total(0, new)]]
  /\ rows' = rows \cup new
  /\ made' = made + n
  /\ NextDocument(r)
  /\ UNCHANGED <<raced, copied, left>>

\* copy_document of duplicate and amend: with the source locked, its columns but
\* the computed ones, and its child rows.
Copy(r, d) ==
  LET src == Here(r)
      from == SetToSeq(RowsOf(src)) IN
  /\ pc[r] = "row" /\ Op(r) = "copy"
  /\ CanLock(r, src) /\ Present(src)
  /\ doc[d].state = "unborn"
  /\ doc' = [doc EXCEPT ![d] = [state |-> "live", own |-> doc[src].own, total |-> 0]]
  /\ rows' = rows \cup {Row(made + i, d, from[i].amount) : i \in DOMAIN from}
  /\ made' = made + Len(from)
  /\ copied' = copied \cup {d}
  /\ NextDocument(r)
  /\ UNCHANGED <<raced, left>>

\* Mutant of LocksRow: no PATCH locks the document before it reads child rows.
LocksNothing(r) == FALSE

\* update_tx writes the row, and thereby locks it, only when there is a column to
\* write: a PATCH of child rows alone reads it.
LocksRow(r) == patch[r].own

InTransaction(r) == pc[r] \in {"list", "children", "total"}

\* PATCHes of the same document under way, of which one carries child rows alone.
Unlocked(r) ==
  {q \in Requests \ {r} :
     InTransaction(q) /\ Here(q) = Here(r) /\ ~ (patch[q].own /\ patch[r].own)}

UpdateRow(r) ==
  /\ Goto(r, "row", "list")
  /\ Op(r) = "update" /\ Present(Here(r))
  /\ IF LocksRow(r)
     THEN /\ CanLock(r, Here(r))
          /\ held' = [held EXCEPT ![r] = {Here(r)}]
     ELSE UNCHANGED held
  /\ base' = [base EXCEPT ![r] = IF patch[r].own THEN 1 ELSE doc[Here(r)].own]
  /\ clash' = clash \cup Unlocked(r)
                \cup (IF Unlocked(r) = {} THEN {} ELSE {r})
  /\ UNCHANGED <<tableVars, todo, patch, seen, stored, heldRows, raced, copied, left>>

\* write_children lists the child rows there are: without a list in the PATCH they
\* are those to sum up, with one those to update, keep and delete.
ListChildren(r) ==
  /\ Goto(r, "list", IF patch[r].list THEN "children" ELSE "total")
  /\ patch[r].keep \subseteq Ids(RowsOf(Here(r)))
  /\ seen' = [seen EXCEPT ![r] = RowsOf(Here(r))]
  /\ stored' = [stored EXCEPT ![r] = RowsOf(Here(r))]
  /\ UNCHANGED <<tableVars, todo, patch, base, lockVars, histVars>>

\* The rows of the list are updated and inserted, the others deleted, each under
\* its lock.
WriteChildren(r) ==
  LET kept == {Row(i, Here(r), 2) : i \in patch[r].keep}
      new  == {Row(made + i, Here(r), 1) : i \in 1..patch[r].add} IN
  /\ Ids(seen[r]) \subseteq Ids(rows)
  /\ Goto(r, "children", "total")
  /\ CanLockRows(r, seen[r])
  /\ heldRows' = [heldRows EXCEPT ![r] = Ids(seen[r])]
  /\ stored' = [stored EXCEPT ![r] = kept \cup new]
  /\ made' = made + patch[r].add
  /\ UNCHANGED <<doc, rows, todo, patch, base, seen, held, histVars>>

\* recalculate_computed updates the document, waiting for its lock, and COMMIT.
Commit(r) ==
  LET d == Here(r) IN
  /\ pc[r] = "total"
  /\ CanLock(r, d) /\ Present(d)
  /\ doc' = [doc EXCEPT ![d].own = IF patch[r].own THEN base[r] ELSE @,
                        ![d].total = Total(base[r], stored[r])]
  /\ rows' = IF patch[r].list
             THEN {x \in rows : x.id \notin Ids(seen[r])} \cup stored[r]
             ELSE rows
  /\ raced' = IF r \in clash THEN raced \cup {d} ELSE raced \ {d}
  /\ copied' = copied \ {d}
  /\ NextDocument(r)
  /\ UNCHANGED <<made, left>>

\* The document is gone, or a child row the PATCH names or has listed: not found,
\* forbidden.
NotFound(r) ==
  /\ \/ pc[r] = "row" /\ Op(r) # "create" /\ ~ Present(Here(r)) /\ CanLock(r, Here(r))
     \/ pc[r] = "list" /\ ~ patch[r].keep \subseteq Ids(RowsOf(Here(r)))
     \/ pc[r] = "children" /\ ~ Ids(seen[r]) \subseteq Ids(rows)
     \/ pc[r] = "total" /\ ~ Present(Here(r)) /\ CanLock(r, Here(r))
  /\ Rollback(r)

\* A statement fails (a rule, a deadlock, the connection); at the first one of the
\* last document it is as if there had been no request.
Fails(r) ==
  /\ InTransaction(r) \/ (pc[r] = "row" /\ Len(todo[r]) > 1)
  /\ Rollback(r)

\* delete_tx and COMMIT; the child rows stay for the time being.
DeleteRow(r) ==
  /\ Goto(r, "row", "sweep")
  /\ Op(r) = "delete" /\ Present(Here(r)) /\ CanLock(r, Here(r))
  /\ doc' = [doc EXCEPT ![Here(r)].state = "deleted"]
  /\ UNCHANGED <<rows, made, todo, patch, base, seen, stored, lockVars, histVars>>

\* soft_delete_children lists the child rows ...
ListSwept(r) ==
  /\ Goto(r, "sweep", "erase")
  /\ seen' = [seen EXCEPT ![r] = RowsOf(Here(r))]
  /\ UNCHANGED <<tableVars, todo, patch, base, stored, lockVars, histVars>>

\* ... and deletes one after the other, in transactions of their own.
EraseRow(r, x) ==
  /\ pc[r] = "erase" /\ x \in seen[r]
  /\ CanLockRows(r, {x})
  /\ rows' = {y \in rows : y.id # x.id}
  /\ seen' = [seen EXCEPT ![r] = @ \ {x}]
  /\ UNCHANGED <<doc, made, pc, todo, patch, base, stored, lockVars, histVars>>

Swept(r) ==
  /\ pc[r] = "erase" /\ seen[r] = {}
  /\ NextDocument(r)
  /\ UNCHANGED <<tableVars, raced, copied, left>>

\* Its errors are ignored, and the process may die.
SweepFails(r) ==
  /\ pc[r] \in {"sweep", "erase"}
  /\ left' = left \cup {Here(r)}
  /\ NextDocument(r)
  /\ UNCHANGED <<tableVars, raced, copied>>

Next ==
  \E r \in Requests :
    \/ Begin(r)
    \/ \E d \in Docs : Copy(r, d) \/ \E n \in 0..1 : Create(r, d, n)
    \/ UpdateRow(r) \/ ListChildren(r) \/ WriteChildren(r) \/ Commit(r)
    \/ NotFound(r) \/ Fails(r)
    \/ DeleteRow(r) \/ ListSwept(r) \/ Swept(r) \/ SweepFails(r)
    \/ \E x \in seen[r] : EraseRow(r, x)

Spec == Init /\ [][Next]_documentVars

-----------------------------------------------------------------------------
(* Properties. *)

\* Whatever PATCHes, copies, bulk requests and deletes overlap, the stored total
\* of a document is that of its columns and child rows, but for two cases the code
\* leaves open: its last PATCH overlapped one of child rows alone, which locks
\* nothing before it reads; or it is a copy that nobody has updated.
TotalsAddUp ==
  \A d \in Docs \ (raced \cup copied) :
    Present(d) => doc[d].total = Total(doc[d].own, RowsOf(d))

\* Child rows go with their document: once the sweep of a deleted one is over, it
\* has none, and no PATCH that was under way adds any, unless the sweep failed.
ChildrenGo ==
  \A d \in Docs \ left :
    doc[d].state = "deleted" =>
      \/ RowsOf(d) = {}
      \/ \E r \in Requests : pc[r] \in {"sweep", "erase"} /\ Here(r) = d
=============================================================================
