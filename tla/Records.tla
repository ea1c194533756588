------------------------------ MODULE Records -------------------------------
(***************************************************************************)
(* The records of one entity under EntityService: create, update,          *)
(* transition and delete of crates/qefro-db/src/service.rs, operations of  *)
(* operation.rs, document numbers of numbering.rs and the workflow of      *)
(* crates/qefro-workflow, run by concurrent requests over PostgreSQL at    *)
(* READ COMMITTED.                                                         *)
(*                                                                         *)
(* A request reads the record outside its transaction, decides, and then   *)
(* opens the transaction that writes; an operation locks the record first  *)
(* and decides on what it has locked.  A transaction shows nothing before  *)
(* it commits, and a row it wrote stays locked until then.                 *)
(***************************************************************************)
EXTENDS Integers, FiniteSets

CONSTANTS
  Records,      \* ids
  Requests,     \* requests that may be in flight together
  States,       \* workflow states
  Initial,      \* the state a record is created in
  Edges,        \* transitions of the workflow: pairs of states
  Cancelled,    \* the state that operations named cancel lead to
  LockStates,   \* states in which the document is not editable
  MaxRequests,  \* bound: requests that are begun
  None

ASSUME WorkflowAssumption ==
  Initial \in States /\ Edges \subseteq States \X States /\ LockStates \subseteq States
ASSUME RequestsAssumption == None \notin Requests \cup Records
ASSUME BoundsAssumption == MaxRequests \in Nat

VARIABLES
  row,       \* committed row: life, status, value, number, and stamp, which
             \* stands for updated_at: one more with every committed change
  kids,      \* records with live child rows
  trail,     \* committed audit rows (and activity and outbox rows) of a record
  lock,      \* the request whose transaction holds the row lock
  assignOn,  \* naming.assign_on: "create" or "submit"
  last,      \* committed last_value of document_sequences
  seqLock,   \* the request whose transaction has updated it
  pc, op, id, arg, \* a request: next statement, kind, record, new value or state
  saw,       \* ... the stamp of the record it decided on
  new,       \* ... the row it has written
  count      \* requests begun

dataVars == <<row, kids, trail, last>>
lockVars == <<lock, seqLock>>
reqVars  == <<pc, op, id, arg, saw, new>>
vars == <<dataVars, lockVars, assignOn, reqVars, count>>

Absent == [life |-> "none", status |-> Initial, value |-> 0, number |-> 0, stamp |-> 0]

Init ==
  /\ row = [i \in Records |-> Absent]
  /\ kids = {} /\ trail = [i \in Records |-> 0]
  /\ lock = [i \in Records |-> None]
  /\ assignOn \in {"create", "submit"}
  /\ last = 0 /\ seqLock = None
  /\ pc = [q \in Requests |-> "idle"]
  /\ op = [q \in Requests |-> "none"]
  /\ id = [q \in Requests |-> None]
  /\ arg = [q \in Requests |-> None]
  /\ saw = [q \in Requests |-> 0]
  /\ new = [q \in Requests |-> Absent]
  /\ count = 0

-----------------------------------------------------------------------------
(* Requests begin and end. *)

Goto(q, l) == pc' = [pc EXCEPT ![q] = l]

\* A request of kind o for record i has decided on the row it read.
Begin(q, o, i, a, l) ==
  /\ pc[q] = "idle"
  /\ count < MaxRequests
  /\ count' = count + 1
  /\ Goto(q, l)
  /\ op' = [op EXCEPT ![q] = o]
  /\ id' = [id EXCEPT ![q] = i]
  /\ arg' = [arg EXCEPT ![q] = a]
  /\ saw' = [saw EXCEPT ![q] = row[i].stamp]
  /\ UNCHANGED <<dataVars, lockVars, assignOn, new>>

Return(q) ==
  /\ Goto(q, "idle")
  /\ op' = [op EXCEPT ![q] = "none"]
  /\ id' = [id EXCEPT ![q] = None]
  /\ arg' = [arg EXCEPT ![q] = None]
  /\ saw' = [saw EXCEPT ![q] = 0]
  /\ new' = [new EXCEPT ![q] = Absent]

\* Mutant of Unlock: the lock of the sequence is kept.
UnlockRow(q) ==
  /\ lock' = [i \in Records |-> IF lock[i] = q THEN None ELSE lock[i]]
  /\ UNCHANGED seqLock

\* The transaction ends, and with it its locks.
Unlock(q) ==
  /\ lock' = [i \in Records |-> IF lock[i] = q THEN None ELSE lock[i]]
  /\ seqLock' = IF seqLock = q THEN None ELSE seqLock

\* The row a statement finds by id ... AND deleted_at IS NULL once it has the lock.
Found(i) == lock[i] = None /\ row[i].life = "live"
Missing(i) == lock[i] = None /\ row[i].life # "live"

NotFound(q) ==
  /\ pc[q] \in {"write", "lock"}
  /\ Missing(id[q])
  /\ Return(q)
  /\ UNCHANGED <<dataVars, lockVars, assignOn, count>>

-----------------------------------------------------------------------------
(* Decisions, outside any transaction. *)

Create(q, i) ==
  /\ row[i].life = "none"
  /\ \A p \in Requests : id[p] # i
  /\ Begin(q, "create", i, 0, IF assignOn = "create" THEN "number" ELSE "insert")

\* Mutant of Editable: the state is not looked at.
EditableAlways(i) == row[i].life = "live"

\* Fields of a document in a lock state are rejected.
Editable(i) == row[i].life = "live" /\ row[i].status \notin LockStates

\* A PATCH of an ordinary field; _expected_updated_at is that of the row read now,
\* or the request is rejected.
Update(q, i, v) ==
  /\ Editable(i)
  /\ Begin(q, "update", i, v, "write")

\* find_transition.
Allowed(from, to) == <<from, to>> \in Edges

Transition(q, i, s) ==
  /\ row[i].life = "live"
  /\ Allowed(row[i].status, s)
  /\ Begin(q, "transition", i, s, "write")

Delete(q, i) ==
  /\ row[i].life = "live"
  /\ Begin(q, "delete", i, None, "write")

\* An operation with a transition to s decides later, on the locked row.
Operation(q, i, s) ==
  /\ row[i].life = "live"
  /\ Begin(q, "operation", i, s, "lock")

-----------------------------------------------------------------------------
(* Transactions. *)

\* A patch sets its own columns of the row as it is now.
Changed(r, o, a) ==
  [r EXCEPT !.stamp = @ + 1,
            !.value = IF o = "update" THEN a ELSE @,
            !.status = IF o \in {"transition", "operation"} THEN a ELSE @,
            !.life = IF o = "delete" THEN "deleted" ELSE "live"]

AfterWrite(o) == "commit"

Write(q) ==
  /\ pc[q] = "write"
  /\ Found(id[q])
  /\ lock' = [lock EXCEPT ![id[q]] = q]
  /\ new' = [new EXCEPT ![q] = Changed(row[id[q]], op[q], arg[q])]
  /\ Goto(q, AfterWrite(op[q]))
  /\ UNCHANGED <<dataVars, seqLock, assignOn, op, id, arg, saw, count>>

\* get_tx with FOR UPDATE.
Current(i) == Found(i)

\* The field is empty and the record leaves its initial state, but not by cancel.
NeedsNumber(r, s) == assignOn = "submit" /\ r.number = 0 /\ s \notin {Initial, Cancelled}

\* execute_operation: SELECT ... FOR UPDATE, then the workflow, the handler and the
\* UPDATE.
Operate(q) ==
  /\ pc[q] = "lock"
  /\ LET r == row[id[q]] IN
       /\ Current(id[q])
       /\ IF Allowed(r.status, arg[q])
          THEN /\ lock' = [lock EXCEPT ![id[q]] = q]
               /\ new' = [new EXCEPT ![q] = Changed(r, "operation", arg[q])]
               /\ saw' = [saw EXCEPT ![q] = r.stamp]
               /\ Goto(q, IF NeedsNumber(r, arg[q]) THEN "number" ELSE "commit")
               /\ UNCHANGED <<op, id, arg>>
          ELSE Return(q) /\ UNCHANGED lock
  /\ UNCHANGED <<dataVars, seqLock, assignOn, count>>

\* Mutant of SequenceFree: the sequence is read and not locked.
SequenceFreeAlways == TRUE

SequenceFree == seqLock = None

\* numbering::allocate: the row of the sequence stays locked until the transaction ends.
Number(q) ==
  /\ pc[q] = "number"
  /\ SequenceFree
  /\ seqLock' = q
  /\ new' = [new EXCEPT ![q].number = last + 1]
  /\ Goto(q, IF op[q] = "create" THEN "insert" ELSE "commit")
  /\ UNCHANGED <<dataVars, lock, assignOn, op, id, arg, saw, count>>

Insert(q) ==
  /\ pc[q] = "insert"
  /\ new' = [new EXCEPT ![q].life = "live", ![q].stamp = 1]
  /\ Goto(q, "commit")
  /\ UNCHANGED <<dataVars, lockVars, assignOn, op, id, arg, saw, count>>

\* Audit, activity and outbox rows are written in the same transaction.
Trail(q) == 1

Commit(q) ==
  /\ pc[q] = "commit"
  /\ row' = [row EXCEPT ![id[q]] = new[q]]
  /\ trail' = [trail EXCEPT ![id[q]] = @ + Trail(q)]
  /\ last' = IF seqLock = q THEN new[q].number ELSE last
  /\ kids' = IF op[q] = "create" THEN kids \cup {id[q]} ELSE kids
  /\ Unlock(q)
  /\ IF op[q] = "delete"
     THEN Goto(q, "children") /\ UNCHANGED <<op, id, arg, saw, new>>
     ELSE Return(q)
  /\ UNCHANGED <<assignOn, count>>

\* The increment of the sequence is undone with the rest.
Forget(q) == UNCHANGED last

\* A statement fails, or the process of the request dies.
Rollback(q) ==
  /\ pc[q] \notin {"idle", "children"}
  /\ Forget(q)
  /\ Unlock(q)
  /\ Return(q)
  /\ UNCHANGED <<row, kids, trail, assignOn, count>>

\* After the COMMIT soft_delete_children deletes the child rows.
DeleteChildren(q) ==
  /\ pc[q] = "children"
  /\ kids' = kids \ {id[q]}
  /\ Return(q)
  /\ UNCHANGED <<row, trail, last, lockVars, assignOn, count>>

\* Its errors are ignored, and a process may die before it.
LeaveChildren(q) ==
  /\ pc[q] = "children"
  /\ Return(q)
  /\ UNCHANGED <<dataVars, lockVars, assignOn, count>>

-----------------------------------------------------------------------------

Decide(q) ==
  \E i \in Records :
    \/ Create(q, i)
    \/ \E v \in {0, 1} : Update(q, i, v)
    \/ \E s \in States : Transition(q, i, s) \/ Operation(q, i, s)
    \/ Delete(q, i)

Proceed(q) ==
  \/ NotFound(q) \/ Write(q) \/ Operate(q) \/ Number(q) \/ Insert(q)
  \/ Commit(q) \/ DeleteChildren(q)

Fail(q) == Rollback(q) \/ LeaveChildren(q)

Next == \E q \in Requests : Decide(q) \/ Proceed(q) \/ Fail(q)

Spec == Init /\ [][Next]_vars

\* A request goes on; one that waits for a lock gets it in the end. Nothing has to fail.
FairSpec == Spec /\ \A q \in Requests : SF_vars(Proceed(q))

-----------------------------------------------------------------------------
(* Properties. *)

Rows == [life : {"none", "live", "deleted"}, status : States, value : {0, 1},
         number : Nat, stamp : Nat]

\* Every variable keeps its type, and locks are those of open transactions.
TypeOK ==
  /\ row \in [Records -> Rows]
  /\ kids \subseteq Records
  /\ trail \in [Records -> Nat]
  /\ lock \in [Records -> Requests \cup {None}]
  /\ assignOn \in {"create", "submit"}
  /\ last \in Nat /\ seqLock \in Requests \cup {None}
  /\ pc \in [Requests -> {"idle", "write", "lock", "number", "insert", "commit", "children"}]
  /\ op \in [Requests -> {"none", "create", "update", "transition", "operation", "delete"}]
  /\ id \in [Requests -> Records \cup {None}]
  /\ arg \in [Requests -> States \cup {0, 1, None}]
  /\ saw \in [Requests -> Nat]
  /\ new \in [Requests -> Rows]
  /\ count \in 0..MaxRequests
  /\ \A i \in Records : lock[i] # None => id[lock[i]] = i /\ pc[lock[i]] \in {"number", "commit"}

\* docs/numbering.md: concurrent requests cannot share a number; and as a number
\* is taken in the transaction that uses it, none is ever skipped.
NumbersGapless ==
  LET numbered == {i \in Records : row[i].number # 0} IN
  /\ {row[i].number : i \in numbered} = 1..last
  /\ \A i, j \in numbered : row[i].number = row[j].number => i = j

\* A number, once given, is never changed: not by a second submission, nor by
\* requests that race with it.
NumberKept == [][\A i \in Records : row[i].number # 0 => row'[i].number = row[i].number]_vars

\* Every committed change of a record has its audit row, and no audit row reports a
\* change that was rolled back.
TrailMatches == \A i \in Records : trail[i] = row[i].stamp

\* A deleted record is never changed again, whatever requests had read it before.
DeletedIsFinal == [][\A i \in Records : row[i].life = "deleted" => row'[i] = row[i]]_vars

\* A live document never loses its child rows, not even to a delete that fails.
LiveKeepChildren == \A i \in Records : row[i].life = "live" => i \in kids

\* A request decided on the row it now changes.
Fresh(i) == \E q \in Requests : pc[q] = "commit" /\ id[q] = i /\ saw[q] = row[i].stamp
ByTransition(i) == \E q \in Requests : pc[q] = "commit" /\ id[q] = i /\ op[q] = "transition"

\* Status follows the workflow. Operations keep to it whatever runs beside them; a
\* plain transition does unless the record changed after it was read.
MovesLegal ==
  [][\A i \in Records :
       row[i].status # row'[i].status =>
         \/ <<row[i].status, row'[i].status>> \in Edges
         \/ ByTransition(i) /\ ~ Fresh(i)]_vars

\* A field of a locked document changes only under an update that had read it
\* before it was locked.
LockedUnlessRaced ==
  [][\A i \in Records :
       row[i].life = "live" /\ row[i].value # row'[i].value =>
         row[i].status \notin LockStates \/ ~ Fresh(i)]_vars

\* Requests wait for row and sequence locks and never for one another in a circle.
EveryRequestReturns == \A q \in Requests : pc[q] # "idle" ~> pc[q] = "idle"

\* docs/documents.md:23: when the current status is in lock_states, PATCH of
\* ordinary fields is rejected.
LockedKept ==
  [][\A i \in Records :
       row[i].life = "live" /\ row[i].value # row'[i].value => row[i].status \notin LockStates]_vars
=============================================================================
