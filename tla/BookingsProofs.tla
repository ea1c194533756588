--------------------------- MODULE BookingsProofs ---------------------------
(***************************************************************************)
(* Proofs about Bookings for any bookings, resources, spans and requests.  *)
(* The argument is that of a critical section: from the advisory lock to   *)
(* its COMMIT a request knows every checked booking under its key, and     *)
(* nobody else can add one.                                                *)
(***************************************************************************)
EXTENDS Bookings, TLAPS

\* A booking that has a resource and a span somebody asked for.
Real(r) == r.resource \in Resources /\ r.span \in Spans

RowInv == \A b \in Bookings : row[b].status # "none" => Real(row[b])

\* Which statements a request of each kind reaches, and what it wants there.
FlowInv ==
  \A q \in Requests :
    /\ pc[q] = "idle" <=> op[q] = "none"
    /\ pc[q] # "idle" => id[q] \in Bookings
    /\ op[q] \in {"move", "assign", "place", "transition"} => row[id[q]].status # "none"
    /\ op[q] = "create" => want[q].status = "active"
    /\ op[q] \in {"move", "place"} => want[q].span \in Spans
    /\ op[q] \in {"assign", "place"} => want[q].resource \in Resources
    /\ op[q] = "transition" =>
         want[q].resource = None /\ want[q].status # "none" /\ pc[q] \in {"write", "commit"}
    /\ pc[q] = "own" => op[q] = "place"
    /\ op[q] \in {"create", "move", "assign", "place"} /\ pc[q] # "own" => Real(want[q])
    /\ at[q] # None => pc[q] = "rows"
    /\ pc[q] = "rows" /\ at[q] = None => cand[q] = {}
    /\ pc[q] \in {"date", "select", "rows"} => want[q].status = "active"

\* The request needs the lock of its key: what it wants has been checked.
Guarded(q) ==
  \/ pc[q] \in {"select", "rows"}
  \/ pc[q] \in {"write", "commit"} /\ op[q] # "transition" /\ want[q].status = "active"

LockInv ==
  /\ \A q \in Requests : Guarded(q) => dateLock[LockKey(want[q])] = q
  /\ \A b \in Bookings : rowLock[b] # None => pc[rowLock[b]] # "idle"
  /\ \A k \in Keys : dateLock[k] # None => pc[dateLock[k]] # "idle"

\* Another checked booking under the key of q.
Rival(q, b) == b # id[q] /\ Vetted(b) /\ LockKey(row[b]) = LockKey(want[q])

\* The SELECT finds every rival: it has locked it or it will.
SeenInv ==
  \A q \in Requests : pc[q] = "rows" =>
    \A b \in Bookings : Rival(q, b) => b \in cand[q] \/ at[q] = b \/ rowLock[b] = q

\* A request that has been accepted overlaps none of its rivals.
ClearInv ==
  \A q \in Requests : pc[q] \in {"write", "commit"} /\ Guarded(q) =>
    \A b \in Bookings : Rival(q, b) => ~ Overlaps(want[q], row[b])

IInv ==
  /\ TypeOK /\ RowInv /\ FlowInv /\ LockInv /\ SeenInv /\ ClearInv /\ NoDoubleBooking

-----------------------------------------------------------------------------
(* Steps. *)

USE SpansAssumption, DayAssumption, NoneAssumption

\* Two starts on one date are less than a day apart.
LEMMA SameDate ==
  ASSUME NEW x \in Nat, NEW y \in Nat, x \div Day = y \div Day
  PROVE  x < y + Day
  <1>1. x = Day * (x \div Day) + (x % Day) /\ x % Day \in 0..(Day - 1)
    OBVIOUS
  <1>2. y = Day * (y \div Day) + (y % Day) /\ y % Day \in 0..(Day - 1)
    OBVIOUS
  <1> QED
    BY <1>1, <1>2

\* What a request that begins wants.
Wanted(o, b, w, l) ==
  /\ w \in Rows
  /\ o # "create" => row[b].status # "none"
  /\ \/ o = "create" /\ w.status = "active" /\ Real(w) /\ l = "date"
     \/ o \in {"move", "assign", "place"} /\ Real(w) /\ l = Checked(w)
     \/ o = "place" /\ Real(w) /\ l = "own"
     \/ o = "transition" /\ w.resource = None /\ w.status # "none" /\ l = "write"

\* A request that begins wants what Wanted says, and has no lock yet.
LEMMA BeginStep ==
  ASSUME IInv, NEW q \in Requests, NEW o, NEW b \in Bookings, NEW w, NEW l,
         Begin(q, o, b, w, l), Wanted(o, b, w, l)
  PROVE  IInv'
  <1>1. TypeOK'
    BY DEF IInv, TypeOK, Rows, FlowInv, LockInv, Real, RowInv, Begin, Wanted, Checked, Goto,
      lockVars, reqVars, Absent
  <1>2. RowInv'
    BY DEF IInv, TypeOK, RowInv, Real, FlowInv, Rows, Begin, Wanted, Checked, Goto,
      lockVars, reqVars
  <1>3. FlowInv'
    BY DEF IInv, TypeOK, FlowInv, RowInv, Real, Rows, Begin, Wanted, Checked, Goto, lockVars, reqVars
  <1>4. LockInv'
    BY DEF IInv, TypeOK, FlowInv, LockInv, Guarded, LockKey, Begin, Wanted, Checked, Real,
      Goto, lockVars, reqVars
  <1>5. SeenInv'
    BY DEF IInv, TypeOK, FlowInv, LockInv, SeenInv, Guarded, Rival, Vetted, Begin, Wanted,
      Checked, Real, Goto, lockVars, reqVars
  <1>6. ClearInv'
    BY DEF IInv, TypeOK, FlowInv, LockInv, ClearInv, Guarded, Rival, Vetted, Begin, Wanted,
      Checked, Real, Goto, lockVars, reqVars
  <1>7. NoDoubleBooking'
    BY DEF IInv, TypeOK, NoDoubleBooking, Vetted, Clash, Begin, Wanted, Checked, Real, Goto,
      lockVars, reqVars
  <1> QED
    BY <1>1, <1>2, <1>3, <1>4, <1>5, <1>6, <1>7 DEF IInv

\* An operation wants its span for the row it has locked.
LEMMA LockOwnStep ==
  ASSUME IInv, NEW q \in Requests, LockOwn(q)
  PROVE  IInv'
  <1>1. TypeOK'
    <2>1. row' \in [Bookings -> Rows] /\ vetted' \subseteq Bookings /\ count' \in 0..MaxRequests
      BY DEF IInv, TypeOK, Rows, FlowInv, LockInv, Real, RowInv, LockOwn, Free, Checked,
        Goto, lockVars, reqVars, Absent
    <2>2. rowLock' \in [Bookings -> Requests \cup {None}]
      BY DEF IInv, TypeOK, Rows, FlowInv, LockInv, Real, RowInv, LockOwn, Free, Checked,
        Goto, lockVars, reqVars
    <2>3. dateLock' \in [Keys -> Requests \cup {None}]
      BY DEF IInv, TypeOK, Rows, FlowInv, LockInv, Real, RowInv, LockOwn, Free, Checked,
        Goto, lockVars, reqVars
    <2>4. pc' \in [Requests -> {"idle", "own", "date", "select", "rows", "write", "commit"}]
      BY DEF IInv, TypeOK, Rows, FlowInv, LockInv, Real, RowInv, LockOwn, Free, Checked,
        Goto, lockVars, reqVars
    <2>5. /\ op' \in [Requests -> {"none", "create", "move", "assign", "place", "transition"}]
          /\ id' \in [Requests -> Bookings \cup {None}]
      BY DEF IInv, TypeOK, Rows, FlowInv, LockInv, Real, RowInv, LockOwn, Free, Checked,
        Goto, lockVars, reqVars
    <2>6. want' \in [Requests -> Rows]
      <3>1. row[id[q]] \in Rows /\ want[q].span \in Spans
        BY DEF IInv, TypeOK, FlowInv, LockOwn
      <3>2. [want[q] EXCEPT !.status = row[id[q]].status] \in Rows
        BY <3>1 DEF IInv, TypeOK, Rows
      <3> QED
        BY <3>2 DEF IInv, TypeOK, LockOwn
    <2>7. cand' \in [Requests -> SUBSET Bookings] /\ at' \in [Requests -> Bookings \cup {None}]
      BY DEF IInv, TypeOK, Rows, FlowInv, LockInv, Real, RowInv, LockOwn, Free, Checked,
        Goto, lockVars, reqVars
    <2>8. /\ \A k \in Bookings : rowLock'[k] # None => pc'[rowLock'[k]] # "idle"
          /\ \A k \in Keys : dateLock'[k] # None => pc'[dateLock'[k]] # "idle"
      BY DEF IInv, TypeOK, Rows, FlowInv, LockInv, Real, RowInv, LockOwn, Free, Checked,
        Goto, lockVars, reqVars
    <2> QED
      BY <2>1, <2>2, <2>3, <2>4, <2>5, <2>6, <2>7, <2>8 DEF TypeOK
  <1>2. RowInv'
    BY DEF IInv, TypeOK, RowInv, Real, FlowInv, Rows, LockOwn, Free, Checked, Goto,
      lockVars, reqVars
  <1>3. FlowInv'
    BY DEF IInv, TypeOK, FlowInv, RowInv, Real, Rows, LockOwn, Free, Checked, Goto,
      lockVars, reqVars
  <1>4. LockInv'
    BY DEF IInv, TypeOK, FlowInv, LockInv, Guarded, LockKey, LockOwn, Free, Checked, Goto,
      lockVars, reqVars
  <1>5. SeenInv'
    BY DEF IInv, TypeOK, FlowInv, LockInv, SeenInv, Guarded, Rival, Vetted, LockOwn, Free,
      Checked, Goto, lockVars, reqVars
  <1>6. ClearInv'
    BY DEF IInv, TypeOK, FlowInv, LockInv, ClearInv, Guarded, Rival, Vetted, LockOwn, Free,
      Checked, Goto, lockVars, reqVars
  <1>7. NoDoubleBooking'
    BY DEF IInv, TypeOK, NoDoubleBooking, Vetted, Clash, LockOwn, Free, Checked, Goto,
      lockVars, reqVars
  <1> QED
    BY <1>1, <1>2, <1>3, <1>4, <1>5, <1>6, <1>7 DEF IInv

\* The advisory lock is taken.
LEMMA LockDateStep ==
  ASSUME IInv, NEW q \in Requests, LockDate(q)
  PROVE  IInv'
  <1>0. /\ LockKey(want[q]) \in Keys /\ dateLock[LockKey(want[q])] \in {None, q}
        /\ dateLock' = [dateLock EXCEPT ![LockKey(want[q])] = q]
        /\ pc' = [pc EXCEPT ![q] = "select"] /\ pc[q] = "date"
    <2>1. want[q].resource \in Resources /\ want[q].span \in Spans
      BY DEF IInv, TypeOK, FlowInv, Real, LockDate
    <2>2. LockKey(want[q]) \in Keys
      BY <2>1 DEF LockKey, Keys, Date, Dates
    <2> QED
      BY <2>2 DEF LockDate, DateFree, Goto
  <1>1. TypeOK'
    <2>1. row' \in [Bookings -> Rows] /\ vetted' \subseteq Bookings /\ count' \in 0..MaxRequests
      BY <1>0 DEF IInv, TypeOK, Rows, FlowInv, LockInv, Real, RowInv, LockDate, DateFree,
        Goto, lockVars, reqVars, Absent
    <2>2. rowLock' \in [Bookings -> Requests \cup {None}]
      BY <1>0 DEF IInv, TypeOK, Rows, FlowInv, LockInv, Real, RowInv, LockDate, DateFree,
        Goto, lockVars, reqVars
    <2>3. dateLock' \in [Keys -> Requests \cup {None}]
      BY <1>0 DEF IInv, TypeOK, Rows, FlowInv, LockInv, Real, RowInv, LockDate, DateFree,
        Goto, lockVars, reqVars
    <2>4. pc' \in [Requests -> {"idle", "own", "date", "select", "rows", "write", "commit"}]
      BY <1>0 DEF IInv, TypeOK, Rows, FlowInv, LockInv, Real, RowInv, LockDate, DateFree,
        Goto, lockVars, reqVars
    <2>5. /\ op' \in [Requests -> {"none", "create", "move", "assign", "place", "transition"}]
          /\ id' \in [Requests -> Bookings \cup {None}]
      BY <1>0 DEF IInv, TypeOK, Rows, FlowInv, LockInv, Real, RowInv, LockDate, DateFree,
        Goto, lockVars, reqVars
    <2>6. want' \in [Requests -> Rows]
      BY <1>0 DEF IInv, TypeOK, Rows, FlowInv, LockInv, Real, RowInv, LockDate, DateFree,
        Goto, lockVars, reqVars, Absent
    <2>7. cand' \in [Requests -> SUBSET Bookings] /\ at' \in [Requests -> Bookings \cup {None}]
      BY <1>0 DEF IInv, TypeOK, Rows, FlowInv, LockInv, Real, RowInv, LockDate, DateFree,
        Goto, lockVars, reqVars
    <2>8. /\ \A k \in Bookings : rowLock'[k] # None => pc'[rowLock'[k]] # "idle"
          /\ \A k \in Keys : dateLock'[k] # None => pc'[dateLock'[k]] # "idle"
      BY <1>0 DEF IInv, TypeOK, Rows, FlowInv, LockInv, Real, RowInv, LockDate, DateFree,
        Goto, lockVars, reqVars
    <2> QED
      BY <2>1, <2>2, <2>3, <2>4, <2>5, <2>6, <2>7, <2>8 DEF TypeOK
  <1>2. RowInv'
    BY <1>0 DEF IInv, TypeOK, RowInv, Real, FlowInv, Rows, LockDate, DateFree, Goto,
      lockVars, reqVars
  <1>3. FlowInv'
    BY <1>0 DEF IInv, TypeOK, FlowInv, RowInv, Real, Rows, LockDate, DateFree, Goto,
      lockVars, reqVars
  <1>4. LockInv'
    <2>1. ASSUME NEW p \in Requests, Guarded(p)'
          PROVE  dateLock'[LockKey(want'[p])] = p
      <3>1. want' = want /\ op' = op
        BY DEF LockDate
      <3>2. CASE p = q
        BY <1>0, <3>1, <3>2 DEF IInv, TypeOK
      <3>3. CASE p # q
        <4>1. Guarded(p)
          BY <1>0, <2>1, <3>1, <3>3 DEF IInv, TypeOK, Guarded
        <4>2. dateLock[LockKey(want[p])] = p /\ LockKey(want[p]) # LockKey(want[q])
          BY <1>0, <3>3, <4>1 DEF IInv, LockInv
        <4> QED
          BY <1>0, <3>1, <4>2 DEF IInv, TypeOK
      <3> QED
        BY <3>2, <3>3
    <2>2. rowLock' = rowLock
      BY DEF LockDate
    <2>3. \A k \in Bookings : rowLock'[k] # None => pc'[rowLock'[k]] # "idle"
      BY <1>0, <2>2 DEF IInv, TypeOK
    <2>4. \A k \in Keys : dateLock'[k] # None => pc'[dateLock'[k]] # "idle"
      BY <1>0 DEF IInv, TypeOK
    <2> QED
      BY <2>1, <2>3, <2>4 DEF LockInv
  <1>5. SeenInv'
    BY <1>0 DEF IInv, TypeOK, FlowInv, LockInv, SeenInv, Guarded, Rival, Vetted, LockDate,
      DateFree, Goto, lockVars, reqVars
  <1>6. ClearInv'
    BY <1>0 DEF IInv, TypeOK, FlowInv, LockInv, ClearInv, Guarded, Rival, Vetted, LockDate,
      DateFree, Goto, lockVars, reqVars
  <1>7. NoDoubleBooking'
    BY <1>0 DEF IInv, TypeOK, NoDoubleBooking, Vetted, Clash, LockDate, DateFree, Goto,
      lockVars, reqVars
  <1> QED
    BY <1>1, <1>2, <1>3, <1>4, <1>5, <1>6, <1>7 DEF IInv

\* Every rival is among the candidates.
LEMMA SelectStep ==
  ASSUME IInv, NEW q \in Requests, Select(q)
  PROVE  IInv'
  <1>1. TypeOK'
    <2>1. row' \in [Bookings -> Rows] /\ vetted' \subseteq Bookings /\ count' \in 0..MaxRequests
      BY DEF IInv, TypeOK, Rows, FlowInv, LockInv, Real, RowInv, Select, Await, Goto,
        lockVars, reqVars, Absent
    <2>2. rowLock' \in [Bookings -> Requests \cup {None}]
      BY DEF IInv, TypeOK, Rows, FlowInv, LockInv, Real, RowInv, Select, Await, Goto,
        lockVars, reqVars
    <2>3. dateLock' \in [Keys -> Requests \cup {None}]
      BY DEF IInv, TypeOK, Rows, FlowInv, LockInv, Real, RowInv, Select, Await, Goto,
        lockVars, reqVars
    <2>4. pc' \in [Requests -> {"idle", "own", "date", "select", "rows", "write", "commit"}]
      BY DEF IInv, TypeOK, Rows, FlowInv, LockInv, Real, RowInv, Select, Await, Goto,
        lockVars, reqVars
    <2>5. /\ op' \in [Requests -> {"none", "create", "move", "assign", "place", "transition"}]
          /\ id' \in [Requests -> Bookings \cup {None}]
      BY DEF IInv, TypeOK, Rows, FlowInv, LockInv, Real, RowInv, Select, Await, Goto,
        lockVars, reqVars
    <2>6. want' \in [Requests -> Rows]
      BY DEF IInv, TypeOK, Rows, FlowInv, LockInv, Real, RowInv, Select, Await, Goto,
        lockVars, reqVars, Absent
    <2>7. cand' \in [Requests -> SUBSET Bookings] /\ at' \in [Requests -> Bookings \cup {None}]
      <3>1. PICK k \in IF Candidates(q) = {} THEN {None} ELSE Candidates(q) :
              at' = [at EXCEPT ![q] = k] /\ cand' = [cand EXCEPT ![q] = Candidates(q) \ {k}]
        BY DEF Select, Await
      <3>2. Candidates(q) \subseteq Bookings
        BY DEF Candidates
      <3> QED
        BY <3>1, <3>2 DEF IInv, TypeOK
    <2>8. /\ \A k \in Bookings : rowLock'[k] # None => pc'[rowLock'[k]] # "idle"
          /\ \A k \in Keys : dateLock'[k] # None => pc'[dateLock'[k]] # "idle"
      BY DEF IInv, TypeOK, Rows, FlowInv, LockInv, Real, RowInv, Select, Await, Goto,
        lockVars, reqVars
    <2> QED
      BY <2>1, <2>2, <2>3, <2>4, <2>5, <2>6, <2>7, <2>8 DEF TypeOK
  <1>2. RowInv'
    BY DEF IInv, TypeOK, RowInv, Real, FlowInv, Rows, Select, Await, Goto, lockVars, reqVars
  <1>3. FlowInv'
    <2>1. PICK k \in IF Candidates(q) = {} THEN {None} ELSE Candidates(q) :
            at' = [at EXCEPT ![q] = k] /\ cand' = [cand EXCEPT ![q] = Candidates(q) \ {k}]
      BY DEF Select, Await
    <2>2. Candidates(q) \subseteq Bookings
      BY DEF Candidates
    <2>3. k = None => Candidates(q) = {}
      BY <2>1, <2>2
    <2>4. /\ row' = row /\ op' = op /\ id' = id /\ want' = want
          /\ pc' = [pc EXCEPT ![q] = "rows"] /\ pc[q] = "select"
      BY DEF Select, Goto
    <2> QED
      BY <2>1, <2>3, <2>4 DEF IInv, TypeOK, FlowInv, Real
  <1>4. LockInv'
    BY DEF IInv, TypeOK, FlowInv, LockInv, Guarded, LockKey, Select, Await, Goto, lockVars,
      reqVars
  <1>5. SeenInv'
    <2>1. PICK k : at' = [at EXCEPT ![q] = k] /\ cand' = [cand EXCEPT ![q] = Candidates(q) \ {k}]
      BY DEF Select, Await
    <2>2. row' = row /\ rowLock' = rowLock /\ vetted' = vetted /\ id' = id /\ want' = want
      BY DEF Select, lockVars
    <2>3. \A p \in Requests, b \in Bookings : Rival(p, b)' <=> Rival(p, b)
      BY <2>2 DEF Rival, Vetted, LockKey, Date
    <2>4. ASSUME NEW b \in Bookings, Rival(q, b)
          PROVE  b \in Candidates(q)
      <3>1. /\ row[b].span[1] \in Nat /\ row[b].span[2] \in Nat
            /\ want[q].span[1] \in Nat /\ want[q].span[2] \in Nat
            /\ want[q].span[1] < want[q].span[2]
        BY DEF IInv, TypeOK, Rows
      <3>2. row[b].resource = want[q].resource /\ row[b].status # "none" /\ b # id[q]
        BY <2>4 DEF Rival, Vetted, LockKey
      <3>3. row[b].span[1] \div Day = want[q].span[1] \div Day
        BY <2>4 DEF Rival, LockKey, Date
      <3>4. row[b].span[1] < want[q].span[1] + Day /\ want[q].span[1] < row[b].span[1] + Day
        BY <3>1, <3>3, SameDate
      <3> QED
        BY <3>1, <3>2, <3>4 DEF Candidates, Matches
    <2>5. pc' = [pc EXCEPT ![q] = "rows"]
      BY DEF Select, Goto
    <2>6. ASSUME NEW p \in Requests, pc'[p] = "rows", NEW b \in Bookings, Rival(p, b)
          PROVE  b \in cand'[p] \/ at'[p] = b \/ rowLock[b] = p
      <3>1. CASE p = q
        BY <2>1, <2>4, <2>6, <3>1 DEF IInv, TypeOK
      <3>2. CASE p # q
        BY <2>1, <2>5, <2>6, <3>2 DEF IInv, TypeOK, SeenInv
      <3> QED
        BY <3>1, <3>2
    <2> QED
      BY <2>2, <2>3, <2>6 DEF SeenInv
  <1>6. ClearInv'
    BY DEF IInv, TypeOK, FlowInv, LockInv, ClearInv, Guarded, Rival, Vetted, Select, Await,
      Goto, lockVars, reqVars
  <1>7. NoDoubleBooking'
    BY DEF IInv, TypeOK, NoDoubleBooking, Vetted, Clash, Select, Await, Goto, lockVars,
      reqVars
  <1> QED
    BY <1>1, <1>2, <1>3, <1>4, <1>5, <1>6, <1>7 DEF IInv

\* A candidate becomes a locked row.
LEMMA LockRowStep ==
  ASSUME IInv, NEW q \in Requests, LockRow(q)
  PROVE  IInv'
  <1>0. /\ pc[q] = "rows" /\ at[q] \in Bookings /\ rowLock[at[q]] \in {None, q}
        /\ rowLock' = [rowLock EXCEPT ![at[q]] = q] /\ pc' = pc
    BY DEF IInv, TypeOK, FlowInv, LockRow, Free
  <1>1. TypeOK'
    <2>1. row' \in [Bookings -> Rows] /\ vetted' \subseteq Bookings /\ count' \in 0..MaxRequests
      BY <1>0 DEF IInv, TypeOK, Rows, FlowInv, LockInv, Real, RowInv, LockRow, Await, Free,
        lockVars, reqVars, Absent
    <2>2. rowLock' \in [Bookings -> Requests \cup {None}]
      BY <1>0 DEF IInv, TypeOK, Rows, FlowInv, LockInv, Real, RowInv, LockRow, Await, Free,
        lockVars, reqVars
    <2>3. dateLock' \in [Keys -> Requests \cup {None}]
      BY <1>0 DEF IInv, TypeOK, Rows, FlowInv, LockInv, Real, RowInv, LockRow, Await, Free,
        lockVars, reqVars
    <2>4. pc' \in [Requests -> {"idle", "own", "date", "select", "rows", "write", "commit"}]
      BY <1>0 DEF IInv, TypeOK, Rows, FlowInv, LockInv, Real, RowInv, LockRow, Await, Free,
        lockVars, reqVars
    <2>5. /\ op' \in [Requests -> {"none", "create", "move", "assign", "place", "transition"}]
          /\ id' \in [Requests -> Bookings \cup {None}]
      BY <1>0 DEF IInv, TypeOK, Rows, FlowInv, LockInv, Real, RowInv, LockRow, Await, Free,
        lockVars, reqVars
    <2>6. want' \in [Requests -> Rows]
      BY <1>0 DEF IInv, TypeOK, Rows, FlowInv, LockInv, Real, RowInv, LockRow, Await, Free,
        lockVars, reqVars, Absent
    <2>7. cand' \in [Requests -> SUBSET Bookings] /\ at' \in [Requests -> Bookings \cup {None}]
      <3>1. PICK k \in IF cand[q] = {} THEN {None} ELSE cand[q] :
              at' = [at EXCEPT ![q] = k] /\ cand' = [cand EXCEPT ![q] = cand[q] \ {k}]
        BY DEF LockRow, Await
      <3>2. cand[q] \subseteq Bookings
        BY DEF IInv, TypeOK
      <3> QED
        BY <3>1, <3>2 DEF IInv, TypeOK
    <2>8. /\ \A k \in Bookings : rowLock'[k] # None => pc'[rowLock'[k]] # "idle"
          /\ \A k \in Keys : dateLock'[k] # None => pc'[dateLock'[k]] # "idle"
      BY <1>0 DEF IInv, TypeOK, Rows, FlowInv, LockInv, Real, RowInv, LockRow, Await, Free,
        lockVars, reqVars
    <2> QED
      BY <2>1, <2>2, <2>3, <2>4, <2>5, <2>6, <2>7, <2>8 DEF TypeOK
  <1>2. RowInv'
    BY <1>0 DEF IInv, TypeOK, RowInv, Real, FlowInv, Rows, LockRow, Await, Free, lockVars,
      reqVars
  <1>3. FlowInv'
    BY <1>0 DEF IInv, TypeOK, FlowInv, RowInv, Real, Rows, LockRow, Await, Free, lockVars,
      reqVars
  <1>4. LockInv'
    BY <1>0 DEF IInv, TypeOK, FlowInv, LockInv, Guarded, LockKey, LockRow, Await, Free,
      lockVars, reqVars
  <1>5. SeenInv'
    BY <1>0 DEF IInv, TypeOK, FlowInv, LockInv, SeenInv, Guarded, Rival, Vetted, LockRow,
      Await, Free, lockVars, reqVars
  <1>6. ClearInv'
    BY <1>0 DEF IInv, TypeOK, FlowInv, LockInv, ClearInv, Guarded, Rival, Vetted, LockRow,
      Await, Free, lockVars, reqVars
  <1>7. NoDoubleBooking'
    BY <1>0 DEF IInv, TypeOK, NoDoubleBooking, Vetted, Clash, LockRow, Await, Free,
      lockVars, reqVars
  <1> QED
    BY <1>1, <1>2, <1>3, <1>4, <1>5, <1>6, <1>7 DEF IInv

\* All rivals are locked, and none overlaps.
LEMMA AcceptStep ==
  ASSUME IInv, NEW q \in Requests, Accept(q)
  PROVE  IInv'
  <1>1. TypeOK'
    BY DEF IInv, TypeOK, Rows, FlowInv, LockInv, Real, RowInv, Accept, Goto, lockVars,
      reqVars, Absent
  <1>2. RowInv'
    BY DEF IInv, TypeOK, RowInv, Real, FlowInv, Rows, Accept, Goto, lockVars, reqVars
  <1>3. FlowInv'
    BY DEF IInv, TypeOK, FlowInv, RowInv, Real, Rows, Accept, Goto, lockVars, reqVars
  <1>4. LockInv'
    BY DEF IInv, TypeOK, FlowInv, LockInv, Guarded, LockKey, Accept, Goto, lockVars, reqVars
  <1>5. SeenInv'
    BY DEF IInv, TypeOK, FlowInv, LockInv, SeenInv, Guarded, Rival, Vetted, Accept, Goto,
      lockVars, reqVars
  <1>6. ClearInv'
    <2>1. /\ row' = row /\ rowLock' = rowLock /\ vetted' = vetted /\ id' = id /\ want' = want
          /\ op' = op /\ pc' = [pc EXCEPT ![q] = "write"] /\ pc[q] = "rows"
          /\ cand[q] = {} /\ at[q] = None /\ ~ Conflict(q)
      BY DEF IInv, FlowInv, Accept, lockVars, Goto
    <2>2. \A p \in Requests, b \in Bookings : Rival(p, b)' <=> Rival(p, b)
      BY <2>1 DEF Rival, Vetted, LockKey, Date
    <2>3. ASSUME NEW b \in Bookings, Rival(q, b)
          PROVE  ~ Overlaps(want[q], row[b])
      <3>1. rowLock[b] = q
        BY <2>1, <2>3 DEF IInv, SeenInv
      <3>2. /\ row[b].span[1] \in Nat /\ want[q].span[1] \in Nat /\ want[q].span[2] \in Nat
            /\ want[q].span[1] < want[q].span[2]
        BY DEF IInv, TypeOK, Rows
      <3>3. row[b].resource = want[q].resource /\ row[b].status = "active" /\ b # id[q]
        BY <2>3 DEF Rival, Vetted, LockKey
      <3>4. row[b].span[1] \div Day = want[q].span[1] \div Day
        BY <2>3 DEF Rival, LockKey, Date
      <3>5. row[b].span[1] < want[q].span[1] + Day /\ want[q].span[1] < row[b].span[1] + Day
        BY <3>2, <3>4, SameDate
      <3>6. Matches(row[b], want[q])
        BY <3>2, <3>3, <3>5 DEF Matches
      <3> QED
        BY <2>1, <3>1, <3>3, <3>6 DEF Conflict
    <2>4. ASSUME NEW p \in Requests, p # q, pc'[p] \in {"write", "commit"}, Guarded(p)',
                 NEW b \in Bookings, Rival(p, b)
          PROVE  ~ Overlaps(want[p], row[b])
      BY <2>1, <2>4 DEF IInv, TypeOK, ClearInv, Guarded
    <2> QED
      BY <2>1, <2>2, <2>3, <2>4 DEF ClearInv, Overlaps
  <1>7. NoDoubleBooking'
    BY DEF IInv, TypeOK, NoDoubleBooking, Vetted, Clash, Accept, Goto, lockVars, reqVars
  <1> QED
    BY <1>1, <1>2, <1>3, <1>4, <1>5, <1>6, <1>7 DEF IInv

\* Writing takes a row lock and changes nothing that was known.
LEMMA WriteStep ==
  ASSUME IInv, NEW q \in Requests, Write(q)
  PROVE  IInv'
  <1>1. TypeOK'
    BY DEF IInv, TypeOK, Rows, FlowInv, LockInv, Real, RowInv, Write, Free, Goto, lockVars,
      reqVars, Absent
  <1>2. RowInv'
    BY DEF IInv, TypeOK, RowInv, Real, FlowInv, Rows, Write, Free, Goto, lockVars, reqVars
  <1>3. FlowInv'
    BY DEF IInv, TypeOK, FlowInv, RowInv, Real, Rows, Write, Free, Goto, lockVars, reqVars
  <1>4. LockInv'
    BY DEF IInv, TypeOK, FlowInv, LockInv, Guarded, LockKey, Write, Free, Goto, lockVars,
      reqVars
  <1>5. SeenInv'
    BY DEF IInv, TypeOK, FlowInv, LockInv, SeenInv, Guarded, Rival, Vetted, Write, Free,
      Goto, lockVars, reqVars
  <1>6. ClearInv'
    BY DEF IInv, TypeOK, FlowInv, LockInv, ClearInv, Guarded, Rival, Vetted, Write, Free,
      Goto, lockVars, reqVars
  <1>7. NoDoubleBooking'
    BY DEF IInv, TypeOK, NoDoubleBooking, Vetted, Clash, Write, Free, Goto, lockVars,
      reqVars
  <1> QED
    BY <1>1, <1>2, <1>3, <1>4, <1>5, <1>6, <1>7 DEF IInv

\* A checked booking is committed under its key, which nobody else has.
LEMMA CommitStep ==
  ASSUME IInv, NEW q \in Requests, Commit(q)
  PROVE  IInv'
  <1>m. PICK m \in Bookings : m = id[q]
    BY DEF IInv, FlowInv, Commit
  <1>0. /\ pc[q] = "commit" /\ id[q] \in Bookings /\ op[q] # "none"
        /\ row' = [row EXCEPT ![id[q]] = Written(q)]
        /\ vetted' = IF Written(q) = want[q] THEN vetted \cup {id[q]} ELSE vetted \ {id[q]}
        /\ rowLock' = [b \in Bookings |-> IF rowLock[b] = q THEN None ELSE rowLock[b]]
        /\ dateLock' = [k \in Keys |-> IF dateLock[k] = q THEN None ELSE dateLock[k]]
        /\ pc' = [pc EXCEPT ![q] = "idle"] /\ op' = [op EXCEPT ![q] = "none"]
        /\ id' = [id EXCEPT ![q] = None] /\ want' = [want EXCEPT ![q] = Absent]
        /\ cand' = [cand EXCEPT ![q] = {}] /\ at' = [at EXCEPT ![q] = None] /\ count' = count
    BY DEF IInv, TypeOK, FlowInv, Commit, End, Return, Goto
  <1>a. Written(q) \in Rows /\ Real(Written(q)) /\ Written(q).status # "none"
    <2>1. row[id[q]] \in Rows /\ want[q] \in Rows
      BY <1>0 DEF IInv, TypeOK
    <2>2. op[q] # "create" => Real(row[id[q]]) /\ row[id[q]].status # "none"
      BY <1>0 DEF IInv, TypeOK, FlowInv, RowInv
    <2>3. CASE op[q] = "create"
      BY <1>0, <2>1, <2>3 DEF IInv, FlowInv, Written
    <2>4. CASE op[q] = "move"
      <3>1. want[q].span \in Spans /\ Written(q) = [row[id[q]] EXCEPT !.span = want[q].span]
        BY <2>4 DEF IInv, FlowInv, Written
      <3> QED
        BY <2>1, <2>2, <2>4, <3>1 DEF Rows, Real
    <2>5. CASE op[q] = "assign"
      <3>1. want[q].resource \in Resources
        BY <2>5 DEF IInv, FlowInv
      <3>2. Written(q) = [row[id[q]] EXCEPT !.resource = want[q].resource]
        BY <2>5 DEF Written
      <3> QED
        BY <2>1, <2>2, <2>5, <3>1, <3>2 DEF Rows, Real
    <2>6. CASE op[q] = "transition"
      <3>1. want[q].status # "none" /\ Written(q) = [row[id[q]] EXCEPT !.status = want[q].status]
        BY <2>6 DEF IInv, FlowInv, Written
      <3> QED
        BY <2>1, <2>2, <2>6, <3>1 DEF Rows, Real
    <2>7. CASE op[q] = "place"
      <3>1. /\ want[q].span \in Spans /\ want[q].resource \in Resources
            /\ Written(q) = [want[q] EXCEPT !.status = row[id[q]].status]
        BY <2>7 DEF IInv, FlowInv, Written
      <3> QED
        BY <2>1, <2>2, <2>7, <3>1 DEF Rows, Real
    <2> QED
      BY <1>0, <2>3, <2>4, <2>5, <2>6, <2>7 DEF IInv, TypeOK
  <1>b. ASSUME Vetted(m)'
        PROVE  Guarded(q) /\ row'[id[q]] = want[q]
    <2>1. row'[id[q]] = Written(q) /\ Written(q) = want[q] /\ want[q].status = "active"
      BY <1>m, <1>0, <1>b DEF IInv, TypeOK, Vetted
    <2>2. want[q].resource # None
      BY <1>a, <2>1 DEF Real
    <2>3. op[q] # "transition"
      BY <2>2 DEF IInv, FlowInv
    <2> QED
      BY <1>0, <2>1, <2>3 DEF Guarded
  <1>c. \A b \in Bookings : b # id[q] => row'[b] = row[b] /\ (Vetted(b)' <=> Vetted(b))
    BY <1>0 DEF IInv, TypeOK, Vetted
  <1>d. ASSUME NEW p \in Requests, p # q, Guarded(p), NEW b \in Bookings, Rival(p, b)'
        PROVE  Rival(p, b)
    <2>1. want'[p] = want[p] /\ id'[p] = id[p]
      BY <1>0, <1>d DEF IInv, TypeOK
    <2>2. CASE b # id[q]
      BY <1>c, <1>d, <2>1, <2>2 DEF Rival, LockKey, Date
    <2>3. CASE b = id[q]
      <3>1. Guarded(q) /\ row'[b] = want[q]
        BY <1>m, <1>b, <1>d, <2>3 DEF Rival
      <3>2. LockKey(want[q]) = LockKey(want[p])
        BY <1>d, <2>1, <3>1 DEF Rival, LockKey, Date
      <3> QED
        BY <1>d, <3>1, <3>2 DEF IInv, LockInv
    <2> QED
      BY <2>2, <2>3
  <1>1. TypeOK'
    <2>1. row' \in [Bookings -> Rows] /\ vetted' \subseteq Bookings /\ count' \in 0..MaxRequests
      BY <1>0, <1>a DEF IInv, TypeOK
    <2>2. rowLock' \in [Bookings -> Requests \cup {None}]
      BY <1>0 DEF IInv, TypeOK, Rows, FlowInv, LockInv, Real, RowInv, Commit, End, Return,
        Goto, lockVars, reqVars
    <2>3. dateLock' \in [Keys -> Requests \cup {None}]
      BY <1>0 DEF IInv, TypeOK, Rows, FlowInv, LockInv, Real, RowInv, Commit, End, Return,
        Goto, lockVars, reqVars
    <2>4. pc' \in [Requests -> {"idle", "own", "date", "select", "rows", "write", "commit"}]
      BY <1>0 DEF IInv, TypeOK, Rows, FlowInv, LockInv, Real, RowInv, Commit, End, Return,
        Goto, lockVars, reqVars
    <2>5. /\ op' \in [Requests -> {"none", "create", "move", "assign", "place", "transition"}]
          /\ id' \in [Requests -> Bookings \cup {None}]
      BY <1>0 DEF IInv, TypeOK, Rows, FlowInv, LockInv, Real, RowInv, Commit, End, Return,
        Goto, lockVars, reqVars
    <2>6. want' \in [Requests -> Rows]
      <3>1. Absent \in Rows
        BY DEF Absent, Rows, Statuses
      <3> QED
        BY <3>1, <1>0 DEF IInv, TypeOK
    <2>7. cand' \in [Requests -> SUBSET Bookings] /\ at' \in [Requests -> Bookings \cup {None}]
      BY <1>0 DEF IInv, TypeOK, Rows, FlowInv, LockInv, Real, RowInv, Commit, End, Return,
        Goto, lockVars, reqVars
    <2>8. /\ \A k \in Bookings : rowLock'[k] # None => pc'[rowLock'[k]] # "idle"
          /\ \A k \in Keys : dateLock'[k] # None => pc'[dateLock'[k]] # "idle"
      BY <1>0 DEF IInv, TypeOK
    <2> QED
      BY <2>1, <2>2, <2>3, <2>4, <2>5, <2>6, <2>7, <2>8 DEF TypeOK
  <1>2. RowInv'
    BY <1>0, <1>a DEF IInv, TypeOK, RowInv
  <1>3. FlowInv'
    <2>1. \A b \in Bookings : row[b].status # "none" => row'[b].status # "none"
      BY <1>0, <1>a DEF IInv, TypeOK
    <2>2. \A p \in Requests : p # q =>
            pc'[p] = pc[p] /\ op'[p] = op[p] /\ id'[p] = id[p] /\ want'[p] = want[p] /\ at'[p] = at[p]
            /\ cand'[p] = cand[p]
      BY <1>0 DEF IInv, TypeOK
    <2>3. pc'[q] = "idle" /\ op'[q] = "none" /\ id'[q] = None /\ at'[q] = None
      BY <1>0 DEF IInv, TypeOK
    <2>4. \A p \in Requests : p # q /\ pc[p] # "idle" => id[p] \in Bookings
      BY DEF IInv, FlowInv
    <2> QED
      BY <2>1, <2>2, <2>3, <2>4 DEF IInv, FlowInv, Real
  <1>4. LockInv'
    <2>1. ASSUME NEW p \in Requests, Guarded(p)'
          PROVE  dateLock'[LockKey(want'[p])] = p
      <3>1. p # q /\ Guarded(p) /\ want'[p] = want[p]
        BY <1>0, <2>1 DEF IInv, TypeOK, Guarded
      <3>2. dateLock[LockKey(want[p])] = p
        BY <3>1 DEF IInv, LockInv
      <3>3. LockKey(want[p]) \in Keys
        <4>1. want[p].resource \in Resources /\ want[p].span \in Spans
          BY <3>1 DEF IInv, TypeOK, FlowInv, Guarded, Real
        <4> QED
          BY <4>1 DEF LockKey, Keys, Date, Dates
      <3>4. LockKey(want'[p]) = LockKey(want[p])
        BY <3>1
      <3> QED
        BY <1>0, <3>1, <3>2, <3>3, <3>4
    <2>2. TypeOK'
      BY <1>1
    <2> QED
      BY <2>1, <2>2 DEF LockInv, TypeOK
  <1>5. SeenInv'
    <2>1. ASSUME NEW p \in Requests, pc'[p] = "rows", NEW b \in Bookings, Rival(p, b)'
          PROVE  b \in cand'[p] \/ at'[p] = b \/ rowLock'[b] = p
      <3>1. p # q /\ pc[p] = "rows" /\ cand'[p] = cand[p] /\ at'[p] = at[p]
        BY <1>0, <2>1 DEF IInv, TypeOK
      <3>2. Rival(p, b)
        BY <1>d, <2>1, <3>1 DEF Guarded
      <3> QED
        BY <1>0, <3>1, <3>2 DEF IInv, TypeOK, SeenInv
    <2> QED
      BY <2>1 DEF SeenInv
  <1>6. ClearInv'
    <2>1. ASSUME NEW p \in Requests, pc'[p] \in {"write", "commit"}, Guarded(p)',
                 NEW b \in Bookings, Rival(p, b)'
          PROVE  ~ Overlaps(want'[p], row'[b])
      <3>1. p # q /\ pc[p] \in {"write", "commit"} /\ Guarded(p) /\ want'[p] = want[p]
        BY <1>0, <2>1 DEF IInv, TypeOK, Guarded
      <3>2. Rival(p, b)
        BY <1>d, <2>1, <3>1
      <3>3. ~ Overlaps(want[p], row[b])
        BY <3>1, <3>2 DEF IInv, ClearInv
      <3>4. CASE b # id[q]
        BY <1>c, <3>1, <3>3, <3>4
      <3>5. CASE b = id[q]
        <4>1. Guarded(q) /\ row'[b] = want[q]
          BY <1>m, <1>b, <2>1, <3>5 DEF Rival
        <4>2. LockKey(want[q]) = LockKey(want[p])
          BY <2>1, <3>1, <4>1 DEF Rival, LockKey, Date
        <4> QED
          BY <3>1, <4>1, <4>2 DEF IInv, LockInv
      <3> QED
        BY <3>4, <3>5
    <2> QED
      BY <2>1 DEF ClearInv
  <1>7. NoDoubleBooking'
    <2>1. ASSUME NEW b \in Bookings, b # id[q], Vetted(b)', Vetted(m)',
                 row'[b].resource = row'[id[q]].resource, Date(row'[b]) = Date(row'[id[q]])
          PROVE  ~ Overlaps(row'[b], row'[id[q]]) /\ ~ Overlaps(row'[id[q]], row'[b])
      <3>1. Guarded(q) /\ row'[id[q]] = want[q] /\ row'[b] = row[b] /\ Vetted(b)
        BY <1>b, <1>c, <2>1
      <3>2. Rival(q, b)
        BY <2>1, <3>1 DEF Rival, LockKey
      <3>3. ~ Overlaps(want[q], row[b])
        BY <1>0, <3>1, <3>2 DEF IInv, ClearInv
      <3> QED
        BY <3>1, <3>3 DEF Overlaps
    <2>2. ASSUME NEW b \in Bookings, NEW c \in Bookings, b # c, b # id[q], c # id[q],
                 Vetted(b)', Vetted(c)', Date(row'[b]) = Date(row'[c])
          PROVE  ~ Clash(b, c)'
      <3>1. row'[b] = row[b] /\ row'[c] = row[c] /\ Vetted(b) /\ Vetted(c)
        BY <1>c, <2>2
      <3>2. ~ Clash(b, c)
        BY <2>2, <3>1 DEF IInv, NoDoubleBooking
      <3> QED
        BY <3>1, <3>2 DEF Clash
    <2> QED
      BY <1>m, <1>0, <2>1, <2>2 DEF NoDoubleBooking, Clash
  <1> QED
    BY <1>1, <1>2, <1>3, <1>4, <1>5, <1>6, <1>7 DEF IInv

\* A transaction that ends without a change gives its locks back.
LEMMA EndStep ==
  ASSUME IInv, NEW q \in Requests, End(q), UNCHANGED <<row, vetted, count>>
  PROVE  IInv'
  <1>1. TypeOK'
    <2>1. row' \in [Bookings -> Rows] /\ vetted' \subseteq Bookings /\ count' \in 0..MaxRequests
      BY DEF IInv, TypeOK, Rows, FlowInv, LockInv, Real, RowInv, End, Return, Goto,
        lockVars, reqVars, Absent
    <2>2. rowLock' \in [Bookings -> Requests \cup {None}]
      BY DEF IInv, TypeOK, Rows, FlowInv, LockInv, Real, RowInv, End, Return, Goto,
        lockVars, reqVars
    <2>3. dateLock' \in [Keys -> Requests \cup {None}]
      BY DEF IInv, TypeOK, Rows, FlowInv, LockInv, Real, RowInv, End, Return, Goto,
        lockVars, reqVars
    <2>4. pc' \in [Requests -> {"idle", "own", "date", "select", "rows", "write", "commit"}]
      BY DEF IInv, TypeOK, Rows, FlowInv, LockInv, Real, RowInv, End, Return, Goto,
        lockVars, reqVars
    <2>5. /\ op' \in [Requests -> {"none", "create", "move", "assign", "place", "transition"}]
          /\ id' \in [Requests -> Bookings \cup {None}]
      BY DEF IInv, TypeOK, Rows, FlowInv, LockInv, Real, RowInv, End, Return, Goto,
        lockVars, reqVars
    <2>6. want' \in [Requests -> Rows]
      <3>1. Absent \in Rows
        BY DEF Absent, Rows, Statuses
      <3> QED
        BY <3>1 DEF IInv, TypeOK, End, Return
    <2>7. cand' \in [Requests -> SUBSET Bookings] /\ at' \in [Requests -> Bookings \cup {None}]
      BY DEF IInv, TypeOK, Rows, FlowInv, LockInv, Real, RowInv, End, Return, Goto,
        lockVars, reqVars
    <2>8. /\ \A k \in Bookings : rowLock'[k] # None => pc'[rowLock'[k]] # "idle"
          /\ \A k \in Keys : dateLock'[k] # None => pc'[dateLock'[k]] # "idle"
      BY DEF IInv, TypeOK, Rows, FlowInv, LockInv, Real, RowInv, End, Return, Goto,
        lockVars, reqVars
    <2> QED
      BY <2>1, <2>2, <2>3, <2>4, <2>5, <2>6, <2>7, <2>8 DEF TypeOK
  <1>2. RowInv'
    BY DEF IInv, TypeOK, RowInv, Real, FlowInv, Rows, End, Return, Goto, lockVars, reqVars
  <1>3. FlowInv'
    BY DEF IInv, TypeOK, FlowInv, RowInv, Real, Rows, End, Return, Goto, lockVars, reqVars
  <1>4. LockInv'
    <2>1. ASSUME NEW p \in Requests, Guarded(p)'
          PROVE  dateLock'[LockKey(want'[p])] = p
      <3>1. p # q /\ Guarded(p) /\ want'[p] = want[p]
        BY <2>1 DEF IInv, TypeOK, Guarded, End, Return, Goto
      <3>2. dateLock[LockKey(want[p])] = p
        BY <3>1 DEF IInv, LockInv
      <3>3. LockKey(want[p]) \in Keys
        <4>1. want[p].resource \in Resources /\ want[p].span \in Spans
          BY <3>1 DEF IInv, TypeOK, FlowInv, Guarded, Real
        <4> QED
          BY <4>1 DEF LockKey, Keys, Date, Dates
      <3>4. LockKey(want'[p]) = LockKey(want[p])
        BY <3>1
      <3> QED
        BY <3>1, <3>2, <3>3, <3>4 DEF End
    <2>2. TypeOK'
      BY <1>1
    <2> QED
      BY <2>1, <2>2 DEF LockInv, TypeOK
  <1>5. SeenInv'
    BY DEF IInv, TypeOK, FlowInv, LockInv, SeenInv, Guarded, Rival, Vetted, End, Return,
      Goto, lockVars, reqVars
  <1>6. ClearInv'
    BY DEF IInv, TypeOK, FlowInv, LockInv, ClearInv, Guarded, Rival, Vetted, End, Return,
      Goto, lockVars, reqVars
  <1>7. NoDoubleBooking'
    BY DEF IInv, TypeOK, NoDoubleBooking, Vetted, Clash, End, Return, Goto, lockVars,
      reqVars
  <1> QED
    BY <1>1, <1>2, <1>3, <1>4, <1>5, <1>6, <1>7 DEF IInv

-----------------------------------------------------------------------------

\* Nothing is booked and nobody asks.
LEMMA InitIInv == Init => IInv
  <1> SUFFICES ASSUME Init PROVE IInv
    OBVIOUS
  <1>1. Absent \in Rows
    BY DEF Absent, Rows, Statuses
  <1>2. TypeOK
    BY <1>1 DEF Init, TypeOK
  <1>3. RowInv /\ FlowInv /\ LockInv
    BY DEF Init, RowInv, FlowInv, LockInv, Guarded, Absent
  <1>4. SeenInv /\ ClearInv /\ NoDoubleBooking
    BY DEF Init, SeenInv, ClearInv, NoDoubleBooking, Guarded, Vetted, Absent
  <1> QED
    BY <1>2, <1>3, <1>4 DEF IInv

\* A request begins with what it has read.
LEMMA AskStep == ASSUME IInv, NEW q \in Requests, Ask(q) PROVE IInv'
  <1>1. CASE Create(q)
    <2>1. PICK r \in Resources, s \in Spans :
            Begin(q, "create", CHOOSE b \in Fresh : TRUE,
                  [status |-> "active", resource |-> r, span |-> s], "date")
      BY <1>1 DEF Create
    <2>2. (CHOOSE b \in Fresh : TRUE) \in Bookings
      BY <1>1 DEF Create, Fresh
    <2>3. [status |-> "active", resource |-> r, span |-> s] \in Rows
      BY DEF Rows, Statuses
    <2> QED
      BY <2>1, <2>2, <2>3, BeginStep DEF Wanted, Real
  <1>2. ASSUME NEW b \in Bookings, NEW s \in Spans, row[b].status # "none",
               Begin(q, "move", b, [row[b] EXCEPT !.span = s], Checked(row[b]))
        PROVE  IInv'
    <2> DEFINE w == [row[b] EXCEPT !.span = s]
    <2>1. w \in Rows /\ Real(w) /\ Checked(w) = Checked(row[b])
      BY <1>2 DEF IInv, TypeOK, RowInv, Rows, Real, Checked
    <2>2. Wanted("move", b, w, Checked(row[b]))
      BY <1>2, <2>1 DEF Wanted
    <2> QED
      BY <1>2, <2>2, BeginStep
  <1>3. ASSUME NEW b \in Bookings, NEW r \in Resources, row[b].status # "none",
               Begin(q, "assign", b, [row[b] EXCEPT !.resource = r], Checked(row[b]))
        PROVE  IInv'
    <2> DEFINE w == [row[b] EXCEPT !.resource = r]
    <2>1. w \in Rows /\ Real(w) /\ Checked(w) = Checked(row[b])
      BY <1>3 DEF IInv, TypeOK, RowInv, Rows, Real, Checked
    <2>2. Wanted("assign", b, w, Checked(row[b]))
      BY <1>3, <2>1 DEF Wanted
    <2> QED
      BY <1>3, <2>2, BeginStep
  <1>4. ASSUME NEW b \in Bookings, NEW s \in Spans, NEW r \in Resources, row[b].status # "none",
               Begin(q, "place", b, [Absent EXCEPT !.span = s, !.resource = r], "own")
        PROVE  IInv'
    <2>1. Wanted("place", b, [Absent EXCEPT !.span = s, !.resource = r], "own")
      BY <1>4 DEF Wanted, Rows, Statuses, Absent, Real
    <2> QED
      BY <1>4, <2>1, BeginStep
  <1>5. ASSUME NEW b \in Bookings, NEW s \in {"active", "ignored"}, row[b].status # "none",
               Begin(q, "transition", b, [Absent EXCEPT !.status = s], "write")
        PROVE  IInv'
    <2>1. Wanted("transition", b, [Absent EXCEPT !.status = s], "write")
      BY <1>5 DEF Wanted, Rows, Statuses, Absent
    <2> QED
      BY <1>5, <2>1, BeginStep
  <1>6. ASSUME NEW b \in Bookings, Move(q, b) PROVE IInv'
    BY <1>2, <1>6 DEF Move
  <1>7. ASSUME NEW b \in Bookings, Assign(q, b) PROVE IInv'
    BY <1>3, <1>7 DEF Assign
  <1>8. ASSUME NEW b \in Bookings, Reschedule(q, b) PROVE IInv'
    BY <1>4, <1>8 DEF Reschedule
  <1>9. ASSUME NEW b \in Bookings, Transition(q, b) PROVE IInv'
    BY <1>5, <1>9 DEF Transition
  <1>10. ASSUME NEW b \in Bookings, NEW s \in Spans, NEW r \in Resources, row[b].status # "none",
               Begin(q, "place", b, [row[b] EXCEPT !.span = s, !.resource = r], Checked(row[b]))
        PROVE  IInv'
    <2> DEFINE w == [row[b] EXCEPT !.span = s, !.resource = r]
    <2>1. w \in Rows /\ Real(w) /\ Checked(w) = Checked(row[b])
      <3>1. [row[b] EXCEPT !.span = s] \in Rows
        BY DEF IInv, TypeOK, Rows
      <3>2. w = [[row[b] EXCEPT !.span = s] EXCEPT !.resource = r]
        OBVIOUS
      <3>3. w \in Rows /\ w.status = row[b].status /\ w.span = s /\ w.resource = r
        BY <3>1, <3>2 DEF IInv, TypeOK, Rows
      <3> QED
        BY <3>3 DEF Real, Checked
    <2>2. Wanted("place", b, w, Checked(row[b]))
      BY <1>10, <2>1 DEF Wanted
    <2> QED
      BY <1>10, <2>2, BeginStep
  <1>11. ASSUME NEW b \in Bookings, Place(q, b) PROVE IInv'
    BY <1>10, <1>11 DEF Place
  <1> QED
    BY <1>1, <1>6, <1>7, <1>8, <1>9, <1>11 DEF Ask

\* One case for each action.
LEMMA NextStep == IInv /\ [Next]_vars => IInv'
  <1> SUFFICES ASSUME IInv, [Next]_vars PROVE IInv'
    OBVIOUS
  <1>1. ASSUME NEW q \in Requests, Proceed(q) PROVE IInv'
    BY <1>1, LockOwnStep, LockDateStep, SelectStep, LockRowStep, AcceptStep, WriteStep,
      CommitStep, EndStep DEF Proceed, Refuse
  <1>2. ASSUME NEW q \in Requests, Abort(q) \/ Rollback(q) PROVE IInv'
    BY <1>2, EndStep DEF Abort, Rollback
  <1>3. CASE UNCHANGED vars
    <2> USE <1>3 DEF vars, lockVars, reqVars
    <2>1. TypeOK' /\ RowInv' /\ FlowInv'
      BY DEF IInv, TypeOK, RowInv, FlowInv, Real
    <2>2. LockInv' /\ SeenInv' /\ ClearInv'
      BY DEF IInv, LockInv, SeenInv, ClearInv, Guarded, LockKey, Date, Rival, Vetted, Overlaps
    <2>3. NoDoubleBooking'
      BY DEF IInv, NoDoubleBooking, Vetted, Clash, Date, Overlaps
    <2> QED
      BY <2>1, <2>2, <2>3 DEF IInv
  <1> QED
    BY <1>1, <1>2, <1>3, AskStep DEF Next

\* The invariant is inductive.
LEMMA Invariance == Spec => []IInv
  BY InitIInv, NextStep, PTL DEF Spec

-----------------------------------------------------------------------------
(* Theorems. *)

\* Every variable keeps its type, and locks are those of open transactions.
THEOREM TypeCorrect == Spec => []TypeOK
  BY Invariance, PTL DEF IInv

\* Checked bookings of a resource that start on one date never overlap, for any number of
\* bookings and requests in flight.
THEOREM NeverDoubleBooked == Spec => []NoDoubleBooking
  BY Invariance, PTL DEF IInv

=============================================================================
