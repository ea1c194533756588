------------------------------ MODULE Bookings ------------------------------
(***************************************************************************)
(* Conflict detection for a schedulable entity: enforce_in_tx of           *)
(* crates/qefro-db/src/scheduling.rs as EntityService::create and update   *)
(* and the reschedule operation call it inside their transactions, over    *)
(* PostgreSQL at READ COMMITTED.                                           *)
(*                                                                         *)
(* A transaction takes the advisory lock of (resource, local start date),  *)
(* reads and locks the bookings of the resource that start within a day of *)
(* its own, refuses to overlap one of them, and writes.  A create and a    *)
(* PATCH have decided what to write before their transaction; a PATCH      *)
(* writes only the columns it names, on the row as it is by then.          *)
(***************************************************************************)
EXTENDS Integers

CONSTANTS
  Bookings,    \* ids
  Resources,   \* what is booked: tables, rooms, doctors
  Spans,       \* pairs <<start, end>> that requests ask for
  Day,         \* length of a day
  Requests,    \* requests that may be in flight together
  MaxRequests, \* bound: requests that are begun
  None

ASSUME SpansAssumption == \A s \in Spans : s[1] \in Nat /\ s[2] \in Nat /\ s[1] < s[2]
ASSUME DayAssumption == Day \in Nat \ {0} /\ MaxRequests \in Nat
ASSUME NoneAssumption == None \notin Requests \cup Bookings \cup Resources

VARIABLES
  row,      \* committed row: status, resource, span
  rowLock,  \* the request whose transaction has locked the row
  dateLock, \* the request whose transaction holds the advisory lock of a key
  pc, op, id,
  want,     \* ... the record that is checked: the row read, with the patch on it
  cand,     \* ... rows its SELECT has still to lock
  at,       \* ... the one it is locking
  vetted,   \* history: bookings whose row was checked as it stands
  count     \* requests begun

lockVars == <<rowLock, dateLock>>
reqVars  == <<pc, op, id, want, cand, at>>
vars == <<row, lockVars, reqVars, vetted, count>>

-----------------------------------------------------------------------------
(* Windows. *)

Statuses == {"none", "active", "ignored"}  \* ignored: Cancelled, Completed
Rows == [status : Statuses, resource : Resources \cup {None}, span : Spans \cup {<<0, 1>>}]
Absent == [status |-> "none", resource |-> None, span |-> <<0, 1>>]

Date(r) == r.span[1] \div Day
Dates == {s[1] \div Day : s \in Spans}

\* The key of pg_advisory_xact_lock.
LockKey(r) == <<r.resource, Date(r)>>
Keys == Resources \X Dates

\* intervals_overlap: half-open intervals.
Overlaps(a, b) == a.span[1] < b.span[2] /\ b.span[1] < a.span[2]

\* The WHERE of load_candidates: same resource, start within a day of the window.
Matches(r, w) ==
  /\ r.status # "none" /\ r.resource = w.resource
  /\ r.span[1] < w.span[2] + Day /\ r.span[1] >= w.span[1] - Day

-----------------------------------------------------------------------------

Init ==
  /\ row = [b \in Bookings |-> Absent]
  /\ rowLock = [b \in Bookings |-> None]
  /\ dateLock = [k \in Keys |-> None]
  /\ pc = [q \in Requests |-> "idle"] /\ op = [q \in Requests |-> "none"]
  /\ id = [q \in Requests |-> None]
  /\ want = [q \in Requests |-> Absent]
  /\ cand = [q \in Requests |-> {}] /\ at = [q \in Requests |-> None]
  /\ vetted = {}
  /\ count = 0

Goto(q, l) == pc' = [pc EXCEPT ![q] = l]

\* A request of kind o for booking b starts at statement l with w to be written.
Begin(q, o, b, w, l) ==
  /\ pc[q] = "idle" /\ count < MaxRequests
  /\ count' = count + 1
  /\ Goto(q, l)
  /\ op' = [op EXCEPT ![q] = o]
  /\ id' = [id EXCEPT ![q] = b]
  /\ want' = [want EXCEPT ![q] = w]
  /\ UNCHANGED <<row, lockVars, cand, at, vetted>>

Return(q) ==
  /\ Goto(q, "idle")
  /\ op' = [op EXCEPT ![q] = "none"] /\ id' = [id EXCEPT ![q] = None]
  /\ want' = [want EXCEPT ![q] = Absent]
  /\ cand' = [cand EXCEPT ![q] = {}] /\ at' = [at EXCEPT ![q] = None]

\* The transaction has ended, and with it its locks.
End(q) ==
  /\ rowLock' = [b \in Bookings |-> IF rowLock[b] = q THEN None ELSE rowLock[b]]
  /\ dateLock' = [k \in Keys |-> IF dateLock[k] = q THEN None ELSE dateLock[k]]
  /\ Return(q)

\* enforce_in_tx asks nothing of a record in an ignored state.
Checked(w) == IF w.status = "active" THEN "date" ELSE "write"

-----------------------------------------------------------------------------
(* Requests. *)

\* A fresh id; which one makes no difference.
Fresh == {b \in Bookings : row[b].status = "none" /\ \A p \in Requests : id[p] # b}

Create(q) ==
  /\ Fresh # {}
  /\ \E r \in Resources, s \in Spans :
       Begin(q, "create", CHOOSE b \in Fresh : TRUE,
             [status |-> "active", resource |-> r, span |-> s], "date")

\* A PATCH of the start and end, of the resource, or of both; the row is read unlocked.
Move(q, b) ==
  /\ row[b].status # "none"
  /\ \E s \in Spans : Begin(q, "move", b, [row[b] EXCEPT !.span = s], Checked(row[b]))
Assign(q, b) ==
  /\ row[b].status # "none"
  /\ \E r \in Resources : Begin(q, "assign", b, [row[b] EXCEPT !.resource = r], Checked(row[b]))
Place(q, b) ==
  /\ row[b].status # "none"
  /\ \E s \in Spans, r \in Resources :
       Begin(q, "place", b, [row[b] EXCEPT !.span = s, !.resource = r], Checked(row[b]))

\* The operation locks the booking before it reads it, so that what it leaves out of
\* its patch is as good as written.
Reschedule(q, b) ==
  /\ row[b].status # "none"
  /\ \E s \in Spans, r \in Resources :
       Begin(q, "place", b, [Absent EXCEPT !.span = s, !.resource = r], "own")

\* A transition into or out of an ignored state is not checked; it wants a status only.
Transition(q, b) ==
  /\ row[b].status # "none"
  /\ \E s \in {"active", "ignored"} \ {row[b].status} :
       Begin(q, "transition", b, [Absent EXCEPT !.status = s], "write")

-----------------------------------------------------------------------------
(* Statements. *)

Free(b, q) == rowLock[b] \in {None, q}

LockOwn(q) ==
  /\ pc[q] = "own" /\ Free(id[q], q)
  /\ rowLock' = [rowLock EXCEPT ![id[q]] = q]
  /\ LET w == [want[q] EXCEPT !.status = row[id[q]].status] IN
       want' = [want EXCEPT ![q] = w] /\ Goto(q, Checked(w))
  /\ UNCHANGED <<row, dateLock, op, id, cand, at, vetted, count>>

\* Mutant of DateFree: the lock is taken whoever holds it.
DateFreeAlways(q) == TRUE

DateFree(q) == dateLock[LockKey(want[q])] \in {None, q}

\* The snapshot of the SELECT; the booking itself is excluded.
Candidates(q) == {b \in Bookings \ {id[q]} : Matches(row[b], want[q])}

LockDate(q) ==
  /\ pc[q] = "date" /\ DateFree(q)
  /\ dateLock' = [dateLock EXCEPT ![LockKey(want[q])] = q]
  /\ Goto(q, "select")
  /\ UNCHANGED <<row, rowLock, op, id, want, cand, at, vetted, count>>

\* SELECT ... FOR UPDATE finds its rows and locks them one after the other, in no
\* particular order ...
Await(q, C) ==
  \E b \in IF C = {} THEN {None} ELSE C :
    at' = [at EXCEPT ![q] = b] /\ cand' = [cand EXCEPT ![q] = C \ {b}]
Select(q) ==
  /\ pc[q] = "select"
  /\ Await(q, Candidates(q))
  /\ Goto(q, "rows")
  /\ UNCHANGED <<row, lockVars, op, id, want, vetted, count>>
LockRow(q) ==
  /\ at[q] # None /\ Free(at[q], q)
  /\ rowLock' = [rowLock EXCEPT ![at[q]] = q]
  /\ Await(q, cand[q])
  /\ UNCHANGED <<row, dateLock, pc, op, id, want, vetted, count>>

\* ... and returns those that still match; the row of the request itself is none of them.
Conflict(q) ==
  \E b \in Bookings \ {id[q]} :
    /\ rowLock[b] = q /\ Matches(row[b], want[q])
    /\ row[b].status = "active" /\ Overlaps(want[q], row[b])
Accept(q) ==
  /\ pc[q] = "rows" /\ at[q] = None /\ ~ Conflict(q)
  /\ Goto(q, "write")
  /\ UNCHANGED <<row, lockVars, op, id, want, cand, at, vetted, count>>

\* scheduling_conflict
Refuse(q) ==
  /\ pc[q] = "rows" /\ at[q] = None /\ Conflict(q)
  /\ End(q)
  /\ UNCHANGED <<row, vetted, count>>

\* INSERT, or UPDATE, which locks the row.
Write(q) ==
  /\ pc[q] = "write" /\ Free(id[q], q)
  /\ rowLock' = [rowLock EXCEPT ![id[q]] = q]
  /\ Goto(q, "commit")
  /\ UNCHANGED <<row, dateLock, op, id, want, cand, at, vetted, count>>

\* Only the columns of the patch are written.
Written(q) ==
  CASE op[q] = "create"     -> want[q]
    [] op[q] = "move"       -> [row[id[q]] EXCEPT !.span = want[q].span]
    [] op[q] = "assign"     -> [row[id[q]] EXCEPT !.resource = want[q].resource]
    [] op[q] = "place"      -> [want[q] EXCEPT !.status = row[id[q]].status]
    [] op[q] = "transition" -> [row[id[q]] EXCEPT !.status = want[q].status]

Commit(q) ==
  /\ pc[q] = "commit"
  /\ row' = [row EXCEPT ![id[q]] = Written(q)]
  /\ vetted' = IF Written(q) = want[q] THEN vetted \cup {id[q]} ELSE vetted \ {id[q]}
  /\ End(q)
  /\ UNCHANGED count

\* A statement fails, or the process of the request dies.
Rollback(q) ==
  /\ pc[q] # "idle"
  /\ End(q)
  /\ UNCHANGED <<row, vetted, count>>

-----------------------------------------------------------------------------
(* Lock waits. *)

\* The request that q waits for, or None.
Blocker(q) ==
  CASE pc[q] \in {"own", "write"} /\ ~ Free(id[q], q) -> rowLock[id[q]]
    [] pc[q] = "date" /\ ~ DateFree(q)                -> dateLock[LockKey(want[q])]
    [] at[q] # None /\ ~ Free(at[q], q)               -> rowLock[at[q]]
    [] OTHER                                          -> None

Deadlocked(q) ==
  \E S \in SUBSET Requests : q \in S /\ \A p \in S : Blocker(p) \in S

\* PostgreSQL ends one transaction of a cycle with an error.
Abort(q) ==
  /\ Deadlocked(q)
  /\ End(q)
  /\ UNCHANGED <<row, vetted, count>>

-----------------------------------------------------------------------------

Ask(q) ==
  \/ Create(q)
  \/ \E b \in Bookings :
       Move(q, b) \/ Assign(q, b) \/ Place(q, b) \/ Reschedule(q, b) \/ Transition(q, b)

Proceed(q) ==
  \/ LockOwn(q) \/ LockDate(q) \/ Select(q) \/ LockRow(q)
  \/ Accept(q) \/ Refuse(q) \/ Write(q) \/ Commit(q)

Next == \E q \in Requests : Ask(q) \/ Proceed(q) \/ Abort(q) \/ Rollback(q)

Spec == Init /\ [][Next]_vars

\* A request goes on, one that waits for a lock gets it in the end, and a deadlock is
\* detected. Nothing has to fail.
FairSpec ==
  /\ Spec /\ \A q \in Requests : SF_vars(Proceed(q))
  /\ WF_vars(\E q \in Requests : Abort(q))

-----------------------------------------------------------------------------
(* Properties. *)

\* Every variable keeps its type, and locks are those of open transactions.
TypeOK ==
  /\ row \in [Bookings -> Rows] /\ vetted \subseteq Bookings
  /\ rowLock \in [Bookings -> Requests \cup {None}]
  /\ dateLock \in [Keys -> Requests \cup {None}]
  /\ pc \in [Requests -> {"idle", "own", "date", "select", "rows", "write", "commit"}]
  /\ op \in [Requests -> {"none", "create", "move", "assign", "place", "transition"}]
  /\ id \in [Requests -> Bookings \cup {None}]
  /\ want \in [Requests -> Rows]
  /\ cand \in [Requests -> SUBSET Bookings]
  /\ at \in [Requests -> Bookings \cup {None}]
  /\ count \in 0..MaxRequests
  /\ \A b \in Bookings : rowLock[b] # None => pc[rowLock[b]] # "idle"
  /\ \A k \in Keys : dateLock[k] # None => pc[dateLock[k]] # "idle"

\* The booking occupies its resource and stands as it was checked: it was not
\* reinstated, and no PATCH met a row that had changed since it was read.
Vetted(b) == row[b].status = "active" /\ b \in vetted

Clash(b, c) == row[b].resource = row[c].resource /\ Overlaps(row[b], row[c])

\* Bookings that were checked never overlap on a resource when they start on one date,
\* whatever requests are in flight.
NoDoubleBooking ==
  \A b, c \in Bookings :
    b # c /\ Vetted(b) /\ Vetted(c) /\ Date(row[b]) = Date(row[c]) => ~ Clash(b, c)

\* A request ends, with a conflict if need be, and a cycle of lock waits costs one of
\* its requests only.
EveryRequestReturns == \A q \in Requests : []<>(pc[q] = "idle")

\* docs/scheduling.md:97: of two concurrent bookings for the same resource and
\* overlapping time one is committed and the other receives scheduling_conflict.
\* The code does not keep this of two that overlap across midnight.
OneCommits ==
  \A b, c \in Bookings : b # c /\ Vetted(b) /\ Vetted(c) => ~ Clash(b, c)
=============================================================================
