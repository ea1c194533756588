--------------------------- MODULE RecordsProofs ----------------------------
(***************************************************************************)
(* Proofs about Records for any records, requests and workflow.  The       *)
(* invariant describes an open transaction: what it has locked, and how    *)
(* the row it has written follows from the committed row, which nobody     *)
(* else can change before it ends.                                         *)
(***************************************************************************)
EXTENDS Records, TLAPS

\* The transaction of q has written a row that exists.
Holds(q) == op[q] # "create" /\ pc[q] \in {"number", "commit"}

\* Which statements a request of each kind reaches.
FlowInv ==
  \A q \in Requests :
    /\ pc[q] = "idle" <=> op[q] = "none"
    /\ pc[q] # "idle" => id[q] \in Records
    /\ op[q] = "create" => pc[q] \in {"number", "insert", "commit"}
    /\ op[q] = "operation" => pc[q] \in {"lock", "number", "commit"}
    /\ op[q] \in {"update", "transition"} => pc[q] \in {"write", "commit"}
    /\ op[q] = "delete" => pc[q] \in {"write", "commit", "children"}
    /\ op[q] = "update" => arg[q] \in {0, 1}
    /\ op[q] \in {"transition", "operation"} => arg[q] \in States
    /\ pc[q] \in {"idle", "write", "lock"} => new[q] = Absent

\* A row lock belongs to the transaction that has written the row, and such a
\* transaction has the lock.
LockInv ==
  /\ \A i \in Records : lock[i] # None => id[lock[i]] = i /\ Holds(lock[i])
  /\ \A q \in Requests : Holds(q) => lock[id[q]] = q /\ row[id[q]].life = "live"

\* A record that is being created is nobody else's.
CreateInv ==
  \A q \in Requests : op[q] = "create" =>
    /\ row[id[q]].life = "none"
    /\ \A p \in Requests : id[p] = id[q] => p = q
    /\ new[q].status = Initial /\ new[q].value = 0
    /\ pc[q] = "commit" => new[q].life = "live" /\ new[q].stamp = 1

\* Rows that do not exist are blank.
BlankInv == \A i \in Records : row[i].life = "none" => row[i] = Absent

\* The row that was written differs from the committed one as the request wants.
WrittenInv ==
  \A q \in Requests : Holds(q) =>
    /\ new[q].stamp = row[id[q]].stamp + 1
    /\ new[q].life = IF op[q] = "delete" THEN "deleted" ELSE "live"
    /\ new[q].status = IF op[q] \in {"transition", "operation"} THEN arg[q] ELSE row[id[q]].status
    /\ op[q] # "update" => new[q].value = row[id[q]].value
    /\ op[q] = "operation" => Allowed(row[id[q]].status, new[q].status)

\* What a request has decided holds as long as the record has not changed.
DecidedInv ==
  \A q \in Requests : pc[q] \in {"write", "number", "insert", "commit"} =>
    /\ saw[q] <= row[id[q]].stamp
    /\ op[q] = "transition" /\ saw[q] = row[id[q]].stamp => Allowed(row[id[q]].status, arg[q])
    /\ op[q] = "update" /\ saw[q] = row[id[q]].stamp => row[id[q]].status \notin LockStates

\* The holder of the sequence has the next number for a record without one.
SequenceInv ==
  /\ seqLock # None =>
       /\ pc[seqLock] \in {"insert", "commit"}
       /\ new[seqLock].number = last + 1
       /\ row[id[seqLock]].number = 0
  /\ \A q \in Requests :
       /\ pc[q] = "number" => row[id[q]].number = 0
       /\ Holds(q) /\ seqLock # q => new[q].number = row[id[q]].number
       /\ op[q] = "create" /\ seqLock # q => new[q].number = 0

ChildrenInv ==
  /\ LiveKeepChildren
  /\ \A q \in Requests : pc[q] = "children" => row[id[q]].life = "deleted"

IInv ==
  /\ TypeOK /\ FlowInv /\ LockInv /\ CreateInv /\ BlankInv /\ WrittenInv
  /\ DecidedInv /\ SequenceInv /\ ChildrenInv /\ TrailMatches /\ NumbersGapless

-----------------------------------------------------------------------------
(* The initial states and the steps. *)

USE WorkflowAssumption, RequestsAssumption, BoundsAssumption

\* Kinds of requests.
Kinds == {"create", "update", "transition", "operation", "delete"}

\* A row stays a row when it is changed.
LEMMA ChangedType ==
  ASSUME NEW r \in Rows, NEW o \in Kinds, NEW a \in States \cup {0, 1, None},
         o = "update" => a \in {0, 1},
         o \in {"transition", "operation"} => a \in States
  PROVE  Changed(r, o, a) \in Rows
  <1> DEFINE v == IF o = "update" THEN a ELSE r.value
             s == IF o \in {"transition", "operation"} THEN a ELSE r.status
             f == IF o = "delete" THEN "deleted" ELSE "live"
  <1>1. v \in {0, 1} /\ s \in States /\ f \in {"none", "live", "deleted"} /\ r.stamp + 1 \in Nat
    BY DEF Rows
  <1>2. Changed(r, o, a) = [r EXCEPT !.stamp = @ + 1, !.value = v, !.status = s, !.life = f]
    BY DEF Changed, Rows
  <1> HIDE DEF v, s, f
  <1> QED
    BY <1>1, <1>2 DEF Rows

\* ... when it is numbered.
LEMMA NumberedType == ASSUME NEW r \in Rows, NEW n \in Nat PROVE [r EXCEPT !.number = n] \in Rows
  BY DEF Rows

\* ... when it is inserted.
LEMMA InsertedType == ASSUME NEW r \in Rows PROVE [r EXCEPT !.life = "live", !.stamp = 1] \in Rows
  BY DEF Rows

\* What a request that begins has found out.
Decided(o, i, a, l) ==
  /\ o = "create" => /\ row[i].life = "none" /\ l \in {"number", "insert"}
                     /\ \A p \in Requests : id[p] # i
  /\ o # "create" => row[i].life = "live"
  /\ o = "operation" => l = "lock" /\ a \in States
  /\ o = "update" => l = "write" /\ a \in {0, 1} /\ row[i].status \notin LockStates
  /\ o = "transition" => l = "write" /\ a \in States /\ Allowed(row[i].status, a)
  /\ o = "delete" => l = "write"

\* A request that begins has found what Decided says, and changes nothing else.
LEMMA DecideStep == ASSUME IInv, NEW q \in Requests, Decide(q) PROVE IInv'
  <1>0. PICK j \in Records, o \in Kinds, a \in States \cup {0, 1, None},
            l \in {"number", "insert", "write", "lock"} : Begin(q, o, j, a, l) /\ Decided(o, j, a, l)
    <2>1. CASE \E k \in Records : Create(q, k)
      <3>1. PICK k \in Records : Create(q, k)
        BY <2>1
      <3>2. \E l \in {"number", "insert"} : Begin(q, "create", k, 0, l) /\ Decided("create", k, 0, l)
        BY <3>1 DEF Create, Decided
      <3> QED
        BY <3>2 DEF Kinds
    <2>2. CASE \E k \in Records, v \in {0, 1} : Update(q, k, v)
      <3>1. PICK k \in Records, v \in {0, 1} : Update(q, k, v)
        BY <2>2
      <3>2. Begin(q, "update", k, v, "write") /\ Decided("update", k, v, "write")
        BY <3>1 DEF Update, Editable, Decided
      <3> QED
        BY <3>2 DEF Kinds
    <2>3. CASE \E k \in Records, s \in States : Transition(q, k, s)
      <3>1. PICK k \in Records, s \in States : Transition(q, k, s)
        BY <2>3
      <3>2. Begin(q, "transition", k, s, "write") /\ Decided("transition", k, s, "write")
        BY <3>1 DEF Transition, Decided
      <3> QED
        BY <3>2 DEF Kinds
    <2>4. CASE \E k \in Records, s \in States : Operation(q, k, s)
      <3>1. PICK k \in Records, s \in States : Operation(q, k, s)
        BY <2>4
      <3>2. Begin(q, "operation", k, s, "lock") /\ Decided("operation", k, s, "lock")
        BY <3>1 DEF Operation, Decided
      <3> QED
        BY <3>2 DEF Kinds
    <2>5. CASE \E k \in Records : Delete(q, k)
      <3>1. PICK k \in Records : Delete(q, k)
        BY <2>5
      <3>2. Begin(q, "delete", k, None, "write") /\ Decided("delete", k, None, "write")
        BY <3>1 DEF Delete, Decided
      <3> QED
        BY <3>2 DEF Kinds
    <2> QED
      BY <2>1, <2>2, <2>3, <2>4, <2>5 DEF Decide
  <1>1. TypeOK'
    <2>1. row' \in [Records -> Rows]
      BY <1>0 DEF IInv, TypeOK, Rows, FlowInv, LockInv, Holds, Kinds, Begin, Decided, Goto,
      dataVars, lockVars, reqVars, Absent
    <2>2. /\ kids' \subseteq Records /\ trail' \in [Records -> Nat] /\ last' \in Nat
          /\ lock' \in [Records -> Requests \cup {None}] /\ seqLock' \in Requests \cup {None}
          /\ assignOn' \in {"create", "submit"} /\ count' \in 0..MaxRequests
      BY <1>0 DEF IInv, TypeOK, Rows, FlowInv, LockInv, Holds, Kinds, Begin, Decided, Goto,
      dataVars, lockVars, reqVars
    <2>3. pc' \in [Requests -> {"idle", "write", "lock", "number", "insert", "commit", "children"}]
      BY <1>0 DEF IInv, TypeOK, Rows, FlowInv, LockInv, Holds, Kinds, Begin, Decided, Goto,
      dataVars, lockVars, reqVars
    <2>4. /\ op' \in [Requests -> {"none", "create", "update", "transition", "operation", "delete"}]
          /\ id' \in [Requests -> Records \cup {None}] /\ saw' \in [Requests -> Nat]
          /\ arg' \in [Requests -> States \cup {0, 1, None}]
      BY <1>0 DEF IInv, TypeOK, Rows, FlowInv, LockInv, Holds, Kinds, Begin, Decided, Goto,
      dataVars, lockVars, reqVars
    <2>5. new' \in [Requests -> Rows]
      BY <1>0 DEF IInv, TypeOK, Rows, FlowInv, LockInv, Holds, Kinds, Begin, Decided, Goto,
      dataVars, lockVars, reqVars, Absent
    <2>6. \A k \in Records : lock'[k] # None => id'[lock'[k]] = k /\ pc'[lock'[k]] \in {"number", "commit"}
      BY <1>0 DEF IInv, TypeOK, Rows, FlowInv, LockInv, Holds, Kinds, Begin, Decided, Goto,
      dataVars, lockVars, reqVars
    <2> QED
      BY <2>1, <2>2, <2>3, <2>4, <2>5, <2>6 DEF TypeOK
  <1>2. FlowInv' /\ LockInv'
    BY <1>0 DEF IInv, TypeOK, FlowInv, LockInv, Holds, Kinds, Begin, Decided, Goto, dataVars,
      lockVars, reqVars, Absent
  <1>3. CreateInv'
    <2>1. /\ row' = row /\ new' = new /\ op' = [op EXCEPT ![q] = o] /\ id' = [id EXCEPT ![q] = j]
          /\ pc' = [pc EXCEPT ![q] = l] /\ pc[q] = "idle"
      BY <1>0 DEF Begin, Goto, dataVars
    <2>2. new[q].status = Initial /\ new[q].value = 0
      BY <2>1 DEF IInv, FlowInv, Absent
    <2>3. ASSUME NEW p \in Requests, op'[p] = "create"
          PROVE  /\ row[id'[p]].life = "none" /\ new[p].status = Initial /\ new[p].value = 0
                 /\ pc'[p] = "commit" => new[p].life = "live" /\ new[p].stamp = 1
      BY <1>0, <2>1, <2>2, <2>3 DEF IInv, TypeOK, CreateInv, Decided
    <2>4. ASSUME NEW p \in Requests, NEW r \in Requests, op'[p] = "create", id'[r] = id'[p]
          PROVE  r = p
      <3>1. CASE p = q
        BY <1>0, <2>1, <2>4, <3>1 DEF IInv, TypeOK, Decided
      <3>2. CASE p # q /\ r = q
        BY <1>0, <2>1, <2>4, <3>2 DEF IInv, TypeOK, CreateInv, Decided
      <3>3. CASE p # q /\ r # q
        BY <2>1, <2>4, <3>3 DEF IInv, TypeOK, CreateInv
      <3> QED
        BY <3>1, <3>2, <3>3
    <2> QED
      BY <2>1, <2>3, <2>4 DEF CreateInv
  <1>4. BlankInv' /\ ChildrenInv' /\ TrailMatches'
    BY <1>0 DEF IInv, TypeOK, BlankInv, FlowInv, CreateInv, Rows, LockInv, ChildrenInv,
      LiveKeepChildren, WrittenInv, Holds, TrailMatches, Absent, Kinds, Begin, Decided, Goto,
      dataVars, lockVars, reqVars
  <1>5. WrittenInv' /\ DecidedInv'
    BY <1>0 DEF IInv, TypeOK, Rows, FlowInv, LockInv, WrittenInv, CreateInv, Holds, DecidedInv,
      BlankInv, Absent, Kinds, Begin, Decided, Goto, dataVars, lockVars, reqVars
  <1>6. SequenceInv'
    BY <1>0 DEF IInv, TypeOK, Rows, FlowInv, LockInv, SequenceInv, CreateInv, Holds, BlankInv,
      Absent, Kinds, Begin, Decided, Goto, dataVars, lockVars, reqVars
  <1>7. NumbersGapless'
    BY <1>0 DEF IInv, TypeOK, Rows, NumbersGapless, Kinds, Begin, Decided, Goto, dataVars,
      lockVars, reqVars
  <1> QED
    BY <1>1, <1>2, <1>3, <1>4, <1>5, <1>6, <1>7 DEF IInv

\* A statement that finds no row ends its request.
LEMMA NotFoundStep == ASSUME IInv, NEW q \in Requests, NotFound(q) PROVE IInv'
  <1>1. TypeOK'
    BY DEF IInv, TypeOK, Rows, FlowInv, LockInv, Holds, NotFound, Missing, Return, Goto,
      dataVars, lockVars, reqVars, Absent
  <1>2. FlowInv' /\ LockInv' /\ CreateInv'
    BY DEF IInv, TypeOK, FlowInv, LockInv, Holds, Rows, CreateInv, NotFound, Missing, Return,
      Goto, dataVars, lockVars, reqVars, Absent
  <1>3. BlankInv' /\ ChildrenInv' /\ TrailMatches'
    BY DEF IInv, TypeOK, BlankInv, FlowInv, CreateInv, Rows, LockInv, ChildrenInv,
      LiveKeepChildren, WrittenInv, Holds, TrailMatches, Absent, NotFound, Missing, Return,
      Goto, dataVars, lockVars, reqVars
  <1>4. WrittenInv' /\ DecidedInv'
    BY DEF IInv, TypeOK, Rows, FlowInv, LockInv, WrittenInv, CreateInv, Holds, DecidedInv,
      BlankInv, Absent, NotFound, Missing, Return, Goto, dataVars, lockVars, reqVars
  <1>5. SequenceInv'
    BY DEF IInv, TypeOK, Rows, FlowInv, LockInv, SequenceInv, CreateInv, Holds, BlankInv,
      Absent, NotFound, Missing, Return, Goto, dataVars, lockVars, reqVars
  <1>6. NumbersGapless'
    BY DEF IInv, TypeOK, Rows, NumbersGapless, NotFound, Missing, Return, Goto, dataVars,
      lockVars, reqVars
  <1> QED
    BY <1>1, <1>2, <1>3, <1>4, <1>5, <1>6 DEF IInv

\* The written row follows from the committed one, which is now locked.
LEMMA WriteStep == ASSUME IInv, NEW q \in Requests, Write(q) PROVE IInv'
  <1>1. TypeOK'
    <2>1. row' \in [Records -> Rows]
      BY DEF IInv, TypeOK, Rows, FlowInv, LockInv, Holds, Write, Found, Changed, AfterWrite,
      Goto, dataVars, lockVars, reqVars, Absent
    <2>2. /\ kids' \subseteq Records /\ trail' \in [Records -> Nat] /\ last' \in Nat
          /\ lock' \in [Records -> Requests \cup {None}] /\ seqLock' \in Requests \cup {None}
          /\ assignOn' \in {"create", "submit"} /\ count' \in 0..MaxRequests
      BY DEF IInv, TypeOK, Rows, FlowInv, LockInv, Holds, Write, Found, Changed, AfterWrite,
      Goto, dataVars, lockVars, reqVars
    <2>3. pc' \in [Requests -> {"idle", "write", "lock", "number", "insert", "commit", "children"}]
      BY DEF IInv, TypeOK, Rows, FlowInv, LockInv, Holds, Write, Found, Changed, AfterWrite,
      Goto, dataVars, lockVars, reqVars
    <2>4. /\ op' \in [Requests -> {"none", "create", "update", "transition", "operation", "delete"}]
          /\ id' \in [Requests -> Records \cup {None}] /\ saw' \in [Requests -> Nat]
          /\ arg' \in [Requests -> States \cup {0, 1, None}]
      BY DEF IInv, TypeOK, Rows, FlowInv, LockInv, Holds, Write, Found, Changed, AfterWrite,
      Goto, dataVars, lockVars, reqVars
    <2>5. new' \in [Requests -> Rows]
      <3>1. /\ row[id[q]] \in Rows /\ op[q] \in Kinds /\ arg[q] \in States \cup {0, 1, None}
            /\ op[q] = "update" => arg[q] \in {0, 1}
            /\ op[q] \in {"transition", "operation"} => arg[q] \in States
        BY DEF IInv, TypeOK, FlowInv, Kinds, Write
      <3>2. Changed(row[id[q]], op[q], arg[q]) \in Rows
        BY <3>1, ChangedType
      <3> QED
        BY <3>2 DEF IInv, TypeOK, Write
    <2>6. \A k \in Records : lock'[k] # None => id'[lock'[k]] = k /\ pc'[lock'[k]] \in {"number", "commit"}
      BY DEF IInv, TypeOK, Rows, FlowInv, LockInv, Holds, Write, Found, Changed, AfterWrite,
      Goto, dataVars, lockVars, reqVars
    <2> QED
      BY <2>1, <2>2, <2>3, <2>4, <2>5, <2>6 DEF TypeOK
  <1>2. FlowInv' /\ LockInv' /\ CreateInv'
    BY DEF IInv, TypeOK, FlowInv, LockInv, Holds, Rows, CreateInv, Write, Found, Changed,
      AfterWrite, Goto, dataVars, lockVars, reqVars, Absent
  <1>3. BlankInv' /\ ChildrenInv' /\ TrailMatches'
    BY DEF IInv, TypeOK, BlankInv, FlowInv, CreateInv, Rows, LockInv, ChildrenInv,
      LiveKeepChildren, WrittenInv, Holds, TrailMatches, Absent, Write, Found, Changed,
      AfterWrite, Goto, dataVars, lockVars, reqVars
  <1>4. WrittenInv' /\ DecidedInv'
    BY DEF IInv, TypeOK, Rows, FlowInv, LockInv, WrittenInv, CreateInv, Holds, DecidedInv,
      BlankInv, Absent, Write, Found, Changed, AfterWrite, Goto, dataVars, lockVars, reqVars
  <1>5. SequenceInv'
    BY DEF IInv, TypeOK, Rows, FlowInv, LockInv, SequenceInv, CreateInv, Holds, BlankInv,
      Absent, Write, Found, Changed, AfterWrite, Goto, dataVars, lockVars, reqVars
  <1>6. NumbersGapless'
    BY DEF IInv, TypeOK, Rows, NumbersGapless, Write, Found, Changed, AfterWrite, Goto,
      dataVars, lockVars, reqVars
  <1> QED
    BY <1>1, <1>2, <1>3, <1>4, <1>5, <1>6 DEF IInv

\* An operation decides on the row it has locked.
LEMMA OperateStep == ASSUME IInv, NEW q \in Requests, Operate(q) PROVE IInv'
  <1>1. TypeOK'
    <2>1. row' \in [Records -> Rows]
      BY DEF IInv, TypeOK, Rows, FlowInv, LockInv, Holds, Operate, Current, Found, Allowed,
      Changed, NeedsNumber, Return, Goto, dataVars, lockVars, reqVars, Absent
    <2>2. /\ kids' \subseteq Records /\ trail' \in [Records -> Nat] /\ last' \in Nat
          /\ lock' \in [Records -> Requests \cup {None}] /\ seqLock' \in Requests \cup {None}
          /\ assignOn' \in {"create", "submit"} /\ count' \in 0..MaxRequests
      BY DEF IInv, TypeOK, Rows, FlowInv, LockInv, Holds, Operate, Current, Found, Allowed,
      Changed, NeedsNumber, Return, Goto, dataVars, lockVars, reqVars
    <2>3. pc' \in [Requests -> {"idle", "write", "lock", "number", "insert", "commit", "children"}]
      BY DEF IInv, TypeOK, Rows, FlowInv, LockInv, Holds, Operate, Current, Found, Allowed,
      Changed, NeedsNumber, Return, Goto, dataVars, lockVars, reqVars
    <2>4. op' \in [Requests -> {"none", "create", "update", "transition", "operation", "delete"}]
      BY DEF IInv, TypeOK, Rows, FlowInv, LockInv, Holds, Operate, Current, Found, Allowed,
      Changed, NeedsNumber, Return, Goto, dataVars, lockVars, reqVars
    <2>5. id' \in [Requests -> Records \cup {None}]
      BY DEF IInv, TypeOK, Rows, FlowInv, LockInv, Holds, Operate, Current, Found, Allowed,
      Changed, NeedsNumber, Return, Goto, dataVars, lockVars, reqVars
    <2>6. arg' \in [Requests -> States \cup {0, 1, None}]
      BY DEF IInv, TypeOK, Rows, FlowInv, LockInv, Holds, Operate, Current, Found, Allowed,
      Changed, NeedsNumber, Return, Goto, dataVars, lockVars, reqVars
    <2>7. saw' \in [Requests -> Nat]
      BY DEF IInv, TypeOK, Rows, FlowInv, LockInv, Holds, Operate, Current, Found, Allowed,
      Changed, NeedsNumber, Return, Goto, dataVars, lockVars, reqVars
    <2>8. new' \in [Requests -> Rows]
      <3>1. row[id[q]] \in Rows /\ op[q] = "operation" /\ arg[q] \in States
        BY DEF IInv, TypeOK, FlowInv, Operate
      <3>2. Changed(row[id[q]], "operation", arg[q]) \in Rows
        BY <3>1, ChangedType DEF Kinds
      <3>3. Absent \in Rows
        BY DEF Absent, Rows
      <3> QED
        BY <3>2, <3>3 DEF IInv, TypeOK, Operate, Return
    <2>9. \A k \in Records : lock'[k] # None => id'[lock'[k]] = k /\ pc'[lock'[k]] \in {"number", "commit"}
      BY DEF IInv, TypeOK, Rows, FlowInv, LockInv, Holds, Operate, Current, Found, Allowed,
      Changed, NeedsNumber, Return, Goto, dataVars, lockVars, reqVars
    <2> QED
      BY <2>1, <2>2, <2>3, <2>4, <2>5, <2>6, <2>7, <2>8, <2>9 DEF TypeOK
  <1>2. FlowInv'
    <2>1. CASE Allowed(row[id[q]].status, arg[q])
      BY <2>1 DEF IInv, TypeOK, FlowInv, Operate, Goto
    <2>2. CASE ~ Allowed(row[id[q]].status, arg[q])
      BY <2>2 DEF IInv, TypeOK, FlowInv, Operate, Return, Goto
    <2> QED
      BY <2>1, <2>2
  <1>3. LockInv'
    BY DEF IInv, TypeOK, FlowInv, LockInv, Holds, Operate, Current, Found, Allowed, Changed,
      NeedsNumber, Return, Goto, dataVars, lockVars, reqVars
  <1>4. CreateInv'
    BY DEF IInv, TypeOK, Rows, FlowInv, LockInv, CreateInv, Holds, Operate, Current, Found,
      Allowed, Changed, NeedsNumber, Return, Goto, dataVars, lockVars, reqVars
  <1>5. BlankInv' /\ ChildrenInv' /\ TrailMatches'
    BY DEF IInv, TypeOK, BlankInv, FlowInv, CreateInv, Rows, LockInv, ChildrenInv,
      LiveKeepChildren, WrittenInv, Holds, TrailMatches, Absent, Operate, Current, Found,
      Allowed, Changed, NeedsNumber, Return, Goto, dataVars, lockVars, reqVars
  <1>6. WrittenInv'
    <2>1. CASE Allowed(row[id[q]].status, arg[q])
      <3>1. op[q] = "operation" /\ row[id[q]].life = "live" /\ row[id[q]] \in Rows
        BY DEF IInv, TypeOK, FlowInv, Operate, Current, Found
      <3>2. new'[q] = Changed(row[id[q]], "operation", arg[q])
        BY <2>1 DEF IInv, TypeOK, Operate
      <3>3. /\ new'[q].stamp = row[id[q]].stamp + 1 /\ new'[q].life = "live"
            /\ new'[q].status = arg[q] /\ new'[q].value = row[id[q]].value
        BY <3>1, <3>2 DEF Changed, Rows
      <3>4. row' = row /\ op' = op /\ id' = id /\ arg' = arg
        BY <2>1 DEF Operate, dataVars
      <3>5. \A p \in Requests : p # q => new'[p] = new[p] /\ pc'[p] = pc[p]
        BY <2>1 DEF IInv, TypeOK, Operate, Goto
      <3> QED
        BY <2>1, <3>1, <3>3, <3>4, <3>5 DEF IInv, WrittenInv, Holds, Allowed
    <2>2. CASE ~ Allowed(row[id[q]].status, arg[q])
      BY <2>2 DEF IInv, TypeOK, FlowInv, WrittenInv, Holds, Allowed, Operate, Return, Goto, dataVars
    <2> QED
      BY <2>1, <2>2
  <1>7. DecidedInv'
    BY DEF IInv, TypeOK, Rows, FlowInv, LockInv, DecidedInv, WrittenInv, CreateInv, Holds,
      BlankInv, Absent, Operate, Current, Found, Allowed, Changed, NeedsNumber, Return, Goto,
      dataVars, lockVars, reqVars
  <1>8. SequenceInv'
    <2>1. CASE Allowed(row[id[q]].status, arg[q])
      <3>1. op[q] = "operation" /\ row[id[q]] \in Rows /\ seqLock # q
        BY DEF IInv, TypeOK, FlowInv, SequenceInv, Operate
      <3>2. new'[q] = Changed(row[id[q]], "operation", arg[q])
        BY <2>1 DEF IInv, TypeOK, Operate
      <3>3. new'[q].number = row[id[q]].number
        BY <3>1, <3>2 DEF Changed, Rows
      <3>4. row' = row /\ op' = op /\ id' = id /\ seqLock' = seqLock /\ last' = last
        BY <2>1 DEF Operate, dataVars
      <3>5. \A p \in Requests : p # q => new'[p] = new[p] /\ pc'[p] = pc[p]
        BY <2>1 DEF IInv, TypeOK, Operate, Goto
      <3>6. pc'[q] = "number" => row[id[q]].number = 0
        BY <2>1 DEF IInv, TypeOK, Operate, Goto, NeedsNumber
      <3>7. seqLock \in Requests \cup {None}
        BY DEF IInv, TypeOK
      <3> QED
        BY <3>1, <3>3, <3>4, <3>5, <3>6, <3>7 DEF IInv, SequenceInv, Holds
    <2>2. CASE ~ Allowed(row[id[q]].status, arg[q])
      BY <2>2 DEF IInv, TypeOK, FlowInv, SequenceInv, Holds, Operate, Return, Goto, dataVars
    <2> QED
      BY <2>1, <2>2
  <1>9. NumbersGapless'
    BY DEF IInv, TypeOK, Rows, NumbersGapless, Operate, Current, Found, Allowed, Changed,
      NeedsNumber, Return, Goto, dataVars, lockVars, reqVars
  <1> QED
    BY <1>1, <1>2, <1>3, <1>4, <1>5, <1>6, <1>7, <1>8, <1>9 DEF IInv

\* The holder of the sequence takes the next number.
LEMMA NumberStep == ASSUME IInv, NEW q \in Requests, Number(q) PROVE IInv'
  <1>1. TypeOK'
    <2>1. row' \in [Records -> Rows]
      BY DEF IInv, TypeOK, Rows, FlowInv, LockInv, Holds, Number, SequenceFree, Goto, dataVars,
      lockVars, reqVars, Absent
    <2>2. /\ kids' \subseteq Records /\ trail' \in [Records -> Nat] /\ last' \in Nat
          /\ lock' \in [Records -> Requests \cup {None}] /\ seqLock' \in Requests \cup {None}
          /\ assignOn' \in {"create", "submit"} /\ count' \in 0..MaxRequests
      BY DEF IInv, TypeOK, Rows, FlowInv, LockInv, Holds, Number, SequenceFree, Goto, dataVars,
      lockVars, reqVars
    <2>3. pc' \in [Requests -> {"idle", "write", "lock", "number", "insert", "commit", "children"}]
      BY DEF IInv, TypeOK, Rows, FlowInv, LockInv, Holds, Number, SequenceFree, Goto, dataVars,
      lockVars, reqVars
    <2>4. /\ op' \in [Requests -> {"none", "create", "update", "transition", "operation", "delete"}]
          /\ id' \in [Requests -> Records \cup {None}] /\ saw' \in [Requests -> Nat]
          /\ arg' \in [Requests -> States \cup {0, 1, None}]
      BY DEF IInv, TypeOK, Rows, FlowInv, LockInv, Holds, Number, SequenceFree, Goto, dataVars,
      lockVars, reqVars
    <2>5. new' \in [Requests -> Rows]
      <3>1. new[q] \in Rows /\ last + 1 \in Nat
        BY DEF IInv, TypeOK
      <3>2. [new[q] EXCEPT !.number = last + 1] \in Rows
        BY <3>1, NumberedType
      <3>3. new' = [new EXCEPT ![q] = [new[q] EXCEPT !.number = last + 1]]
        BY DEF Number
      <3> QED
        BY <3>2, <3>3 DEF IInv, TypeOK
    <2>6. \A k \in Records : lock'[k] # None => id'[lock'[k]] = k /\ pc'[lock'[k]] \in {"number", "commit"}
      BY DEF IInv, TypeOK, Rows, FlowInv, LockInv, Holds, Number, SequenceFree, Goto, dataVars,
      lockVars, reqVars
    <2> QED
      BY <2>1, <2>2, <2>3, <2>4, <2>5, <2>6 DEF TypeOK
  <1>2. FlowInv' /\ LockInv' /\ CreateInv'
    BY DEF IInv, TypeOK, FlowInv, LockInv, Holds, Rows, CreateInv, Number, SequenceFree, Goto,
      dataVars, lockVars, reqVars, Absent
  <1>3. BlankInv' /\ ChildrenInv' /\ TrailMatches'
    BY DEF IInv, TypeOK, BlankInv, FlowInv, CreateInv, Rows, LockInv, ChildrenInv,
      LiveKeepChildren, WrittenInv, Holds, TrailMatches, Absent, Number, SequenceFree, Goto,
      dataVars, lockVars, reqVars
  <1>4. WrittenInv'
    BY DEF IInv, TypeOK, Rows, FlowInv, LockInv, WrittenInv, CreateInv, Holds, Number,
      SequenceFree, Goto, dataVars, lockVars, reqVars
  <1>5. DecidedInv'
    <2>1. op[q] \in {"create", "operation"}
      BY DEF IInv, TypeOK, FlowInv, Number
    <2>2. row' = row /\ op' = op /\ id' = id /\ arg' = arg /\ saw' = saw
      BY DEF Number, dataVars
    <2>3. \A p \in Requests : p # q => pc'[p] = pc[p]
      BY DEF IInv, TypeOK, Number, Goto
    <2>4. saw[q] <= row[id[q]].stamp
      BY DEF IInv, TypeOK, DecidedInv, Number
    <2> QED
      BY <2>1, <2>2, <2>3, <2>4 DEF IInv, DecidedInv, Allowed
  <1>6. SequenceInv'
    BY DEF IInv, TypeOK, Rows, FlowInv, LockInv, SequenceInv, CreateInv, Holds, BlankInv,
      Absent, Number, SequenceFree, Goto, dataVars, lockVars, reqVars
  <1>7. NumbersGapless'
    BY DEF IInv, TypeOK, Rows, NumbersGapless, Number, SequenceFree, Goto, dataVars, lockVars,
      reqVars
  <1> QED
    BY <1>1, <1>2, <1>3, <1>4, <1>5, <1>6, <1>7 DEF IInv

\* The new row becomes live for its own transaction.
LEMMA InsertStep == ASSUME IInv, NEW q \in Requests, Insert(q) PROVE IInv'
  <1>1. TypeOK'
    <2>1. row' \in [Records -> Rows]
      BY DEF IInv, TypeOK, Rows, FlowInv, LockInv, Holds, Insert, Goto, dataVars, lockVars,
      reqVars, Absent
    <2>2. /\ kids' \subseteq Records /\ trail' \in [Records -> Nat] /\ last' \in Nat
          /\ lock' \in [Records -> Requests \cup {None}] /\ seqLock' \in Requests \cup {None}
          /\ assignOn' \in {"create", "submit"} /\ count' \in 0..MaxRequests
      BY DEF IInv, TypeOK, Rows, FlowInv, LockInv, Holds, Insert, Goto, dataVars, lockVars,
      reqVars
    <2>3. pc' \in [Requests -> {"idle", "write", "lock", "number", "insert", "commit", "children"}]
      BY DEF IInv, TypeOK, Rows, FlowInv, LockInv, Holds, Insert, Goto, dataVars, lockVars,
      reqVars
    <2>4. /\ op' \in [Requests -> {"none", "create", "update", "transition", "operation", "delete"}]
          /\ id' \in [Requests -> Records \cup {None}] /\ saw' \in [Requests -> Nat]
          /\ arg' \in [Requests -> States \cup {0, 1, None}]
      BY DEF IInv, TypeOK, Rows, FlowInv, LockInv, Holds, Insert, Goto, dataVars, lockVars,
      reqVars
    <2>5. new' \in [Requests -> Rows]
      BY InsertedType DEF IInv, TypeOK, Insert
    <2>6. \A k \in Records : lock'[k] # None => id'[lock'[k]] = k /\ pc'[lock'[k]] \in {"number", "commit"}
      BY DEF IInv, TypeOK, Rows, FlowInv, LockInv, Holds, Insert, Goto, dataVars, lockVars,
      reqVars
    <2> QED
      BY <2>1, <2>2, <2>3, <2>4, <2>5, <2>6 DEF TypeOK
  <1>2. FlowInv' /\ LockInv' /\ CreateInv'
    BY DEF IInv, TypeOK, FlowInv, LockInv, Holds, Rows, CreateInv, Insert, Goto, dataVars,
      lockVars, reqVars, Absent
  <1>3. BlankInv' /\ ChildrenInv' /\ TrailMatches'
    BY DEF IInv, TypeOK, BlankInv, FlowInv, CreateInv, Rows, LockInv, ChildrenInv,
      LiveKeepChildren, WrittenInv, Holds, TrailMatches, Absent, Insert, Goto, dataVars,
      lockVars, reqVars
  <1>4. WrittenInv'
    BY DEF IInv, TypeOK, Rows, FlowInv, LockInv, WrittenInv, CreateInv, Holds, Insert, Goto,
      dataVars, lockVars, reqVars
  <1>5. DecidedInv'
    <2>1. op[q] = "create"
      BY DEF IInv, TypeOK, FlowInv, Insert
    <2>2. row' = row /\ op' = op /\ id' = id /\ arg' = arg /\ saw' = saw
      BY DEF Insert, dataVars
    <2>3. \A p \in Requests : p # q => pc'[p] = pc[p]
      BY DEF IInv, TypeOK, Insert, Goto
    <2>4. saw[q] <= row[id[q]].stamp
      BY DEF IInv, TypeOK, DecidedInv, Insert
    <2> QED
      BY <2>1, <2>2, <2>3, <2>4 DEF IInv, DecidedInv, Allowed
  <1>6. SequenceInv'
    BY DEF IInv, TypeOK, Rows, FlowInv, LockInv, SequenceInv, CreateInv, Holds, BlankInv,
      Absent, Insert, Goto, dataVars, lockVars, reqVars
  <1>7. NumbersGapless'
    BY DEF IInv, TypeOK, Rows, NumbersGapless, Insert, Goto, dataVars, lockVars, reqVars
  <1> QED
    BY <1>1, <1>2, <1>3, <1>4, <1>5, <1>6, <1>7 DEF IInv

\* The committed row changes; nobody else has a transaction on that record.
LEMMA CommitStep == ASSUME IInv, NEW q \in Requests, Commit(q) PROVE IInv'
  <1>0. /\ \A p \in Requests : p # q /\ pc[p] \in {"number", "insert", "commit"} => id[p] # id[q]
        /\ id[q] \in Records /\ new[q] \in Rows /\ new[q].life # "none"
        /\ (new[q].life = "deleted") <=> (op[q] = "delete")
        /\ new[q].stamp = row[id[q]].stamp + 1
    BY DEF IInv, TypeOK, Rows, FlowInv, LockInv, CreateInv, WrittenInv, BlankInv, Absent, Holds, Commit
  <1>1. TypeOK'
    <2>1. row' \in [Records -> Rows]
      BY <1>0 DEF IInv, TypeOK, Commit
    <2>2. /\ kids' \subseteq Records /\ trail' \in [Records -> Nat] /\ last' \in Nat
          /\ lock' \in [Records -> Requests \cup {None}] /\ seqLock' \in Requests \cup {None}
          /\ assignOn' \in {"create", "submit"} /\ count' \in 0..MaxRequests
      <3>1. kids' \subseteq Records
        BY <1>0 DEF IInv, TypeOK, Commit
      <3>2. trail' \in [Records -> Nat]
        BY <1>0 DEF IInv, TypeOK, Commit, Trail
      <3>3. last' \in Nat
        BY <1>0 DEF IInv, TypeOK, Rows, Commit
      <3>4. lock' \in [Records -> Requests \cup {None}] /\ seqLock' \in Requests \cup {None}
        BY DEF IInv, TypeOK, Commit, Unlock
      <3>5. assignOn' \in {"create", "submit"} /\ count' \in 0..MaxRequests
        BY DEF IInv, TypeOK, Commit
      <3> QED
        BY <3>1, <3>2, <3>3, <3>4, <3>5
    <2>3. /\ pc' \in [Requests -> {"idle", "write", "lock", "number", "insert", "commit", "children"}]
          /\ op' \in [Requests -> {"none", "create", "update", "transition", "operation", "delete"}]
          /\ id' \in [Requests -> Records \cup {None}]
          /\ arg' \in [Requests -> States \cup {0, 1, None}]
          /\ saw' \in [Requests -> Nat] /\ new' \in [Requests -> Rows]
      <3>1. CASE op[q] = "delete"
        <4>1. Goto(q, "children") /\ UNCHANGED <<op, id, arg, saw, new>>
          BY <3>1 DEF Commit
        <4> QED
          BY <4>1 DEF IInv, TypeOK, Goto
      <3>2. CASE op[q] # "delete"
        <4>1. Return(q)
          BY <3>2 DEF Commit
        <4>2. Absent \in Rows
          BY DEF Rows, Absent
        <4> QED
          BY <4>1, <4>2 DEF IInv, TypeOK, Return, Goto
      <3> QED
        BY <3>1, <3>2
    <2>4. ASSUME NEW k \in Records, lock'[k] # None
          PROVE  id'[lock'[k]] = k /\ pc'[lock'[k]] \in {"number", "commit"}
      <3>1. lock'[k] = lock[k] /\ lock[k] # q /\ lock[k] \in Requests
        BY <2>4 DEF IInv, TypeOK, Commit, Unlock
      <3>2. id[lock[k]] = k /\ pc[lock[k]] \in {"number", "commit"}
        BY <2>4, <3>1 DEF IInv, TypeOK
      <3>3. id'[lock[k]] = id[lock[k]] /\ pc'[lock[k]] = pc[lock[k]]
        BY <3>1 DEF IInv, TypeOK, Commit, Return, Goto
      <3> QED
        BY <3>1, <3>2, <3>3
    <2> QED
      BY <2>1, <2>2, <2>3, <2>4 DEF TypeOK
  <1>2. FlowInv'
    BY <1>0 DEF IInv, TypeOK, FlowInv, Commit, Unlock, Trail, Return, Goto, dataVars, lockVars,
      reqVars
  <1>3. LockInv'
    BY <1>0 DEF IInv, TypeOK, FlowInv, LockInv, Holds, Commit, Unlock, Trail, Return, Goto,
      dataVars, lockVars, reqVars
  <1>4. CreateInv'
    BY <1>0 DEF IInv, TypeOK, Rows, FlowInv, LockInv, CreateInv, Holds, Commit, Unlock, Trail,
      Return, Goto, dataVars, lockVars, reqVars
  <1>5. BlankInv' /\ TrailMatches'
    BY <1>0 DEF IInv, TypeOK, BlankInv, FlowInv, CreateInv, Rows, TrailMatches, Absent,
      WrittenInv, Holds, Commit, Unlock, Trail, Return, Goto, dataVars, lockVars, reqVars
  <1>6. ChildrenInv'
    <2>1. /\ row'[id[q]] = new[q] /\ \A k \in Records : k # id[q] => row'[k] = row[k]
          /\ kids \subseteq kids' /\ (op[q] = "create" => id[q] \in kids')
      BY <1>0 DEF IInv, TypeOK, Commit
    <2>2. op[q] \notin {"create", "delete"} => row[id[q]].life = "live"
      BY DEF IInv, LockInv, Holds, Commit
    <2>3. LiveKeepChildren'
      BY <1>0, <2>1, <2>2 DEF IInv, ChildrenInv, LiveKeepChildren
    <2>4. ASSUME NEW p \in Requests, pc'[p] = "children"
          PROVE  row'[id'[p]].life = "deleted"
      <3>1. CASE p = q
        <4>1. op[q] = "delete" /\ id'[q] = id[q]
          BY <2>4, <3>1 DEF IInv, TypeOK, Commit, Return, Goto
        <4> QED
          BY <1>0, <2>1, <3>1, <4>1
      <3>2. CASE p # q
        <4>1. pc[p] = "children" /\ id'[p] = id[p] /\ id[p] \in Records
          BY <2>4, <3>2 DEF IInv, TypeOK, FlowInv, Commit, Return, Goto
        <4>2. row[id[p]].life = "deleted"
          BY <4>1 DEF IInv, ChildrenInv
        <4>3. id[p] # id[q]
          BY <2>2, <4>2 DEF IInv, ChildrenInv, CreateInv, LockInv, Holds, Commit
        <4> QED
          BY <2>1, <4>1, <4>2, <4>3
      <3> QED
        BY <3>1, <3>2
    <2> QED
      BY <2>3, <2>4 DEF ChildrenInv
  <1>7. WrittenInv'
    BY <1>0 DEF IInv, TypeOK, Rows, FlowInv, LockInv, WrittenInv, CreateInv, Holds, Commit,
      Unlock, Trail, Return, Goto, dataVars, lockVars, reqVars
  <1>8. DecidedInv'
    BY <1>0 DEF IInv, TypeOK, Rows, FlowInv, LockInv, DecidedInv, WrittenInv, CreateInv, Holds,
      BlankInv, Absent, Commit, Unlock, Trail, Return, Goto, dataVars, lockVars, reqVars
  <1>9. SequenceInv'
    BY <1>0 DEF IInv, TypeOK, Rows, FlowInv, LockInv, SequenceInv, CreateInv, Holds, BlankInv,
      Absent, Commit, Unlock, Trail, Return, Goto, dataVars, lockVars, reqVars
  <1>10. NumbersGapless'
    <2> DEFINE i == id[q]
               numbered == {k \in Records : row[k].number # 0}
    <2>1. /\ row'[i] = new[q] /\ \A k \in Records : k # i => row'[k] = row[k]
          /\ last' = IF seqLock = q THEN new[q].number ELSE last
      BY <1>0 DEF IInv, TypeOK, Commit
    <2>2. last \in Nat /\ \A k \in Records : row[k].number \in Nat
      BY DEF IInv, TypeOK, Rows
    <2>3. /\ \A k \in numbered : row[k].number \in 1..last
          /\ \A n \in 1..last : \E k \in numbered : row[k].number = n
          /\ \A j, k \in numbered : row[j].number = row[k].number => j = k
      BY DEF IInv, NumbersGapless
    <2>4. CASE seqLock = q
      <3>1. new[q].number = last + 1 /\ last' = last + 1 /\ row[i].number = 0
        BY <2>1, <2>4 DEF IInv, TypeOK, SequenceInv
      <3>2. {k \in Records : row'[k].number # 0} = numbered \cup {i} /\ i \notin numbered
        BY <1>0, <2>1, <2>2, <3>1
      <3>3. \A k \in numbered : row'[k].number = row[k].number
        BY <2>1, <3>1
      <3>4. {row'[k].number : k \in numbered \cup {i}} = 1..(last + 1)
        BY <2>1, <2>2, <2>3, <3>1, <3>3
      <3>5. \A j, k \in numbered \cup {i} : row'[j].number = row'[k].number => j = k
        BY <2>1, <2>2, <2>3, <3>1, <3>2, <3>3
      <3> QED
        BY <3>1, <3>2, <3>4, <3>5 DEF NumbersGapless
    <2>5. CASE seqLock # q
      <3>1. new[q].number = row[i].number
        BY <2>5 DEF IInv, SequenceInv, CreateInv, BlankInv, Absent, Holds, Commit, FlowInv
      <3>2. last' = last /\ \A k \in Records : row'[k].number = row[k].number
        BY <2>1, <2>5, <3>1
      <3>3. {k \in Records : row'[k].number # 0} = numbered
        BY <3>2
      <3>4. {row'[k].number : k \in numbered} = {row[k].number : k \in numbered}
        BY <3>2
      <3> QED
        BY <3>2, <3>3, <3>4 DEF IInv, NumbersGapless
    <2> QED
      BY <2>4, <2>5
  <1> QED
    BY <1>1, <1>2, <1>3, <1>4, <1>5, <1>6, <1>7, <1>8, <1>9, <1>10 DEF IInv

\* A rollback forgets the request and frees its locks.
LEMMA RollbackStep == ASSUME IInv, NEW q \in Requests, Rollback(q) PROVE IInv'
  <1>1. TypeOK'
    BY DEF IInv, TypeOK, Rows, FlowInv, LockInv, Holds, Rollback, Forget, Unlock, Return, Goto,
      dataVars, lockVars, reqVars, Absent
  <1>2. FlowInv' /\ LockInv' /\ CreateInv'
    BY DEF IInv, TypeOK, FlowInv, LockInv, Holds, Rows, CreateInv, Rollback, Forget, Unlock,
      Return, Goto, dataVars, lockVars, reqVars, Absent
  <1>3. BlankInv' /\ ChildrenInv' /\ TrailMatches'
    BY DEF IInv, TypeOK, BlankInv, FlowInv, CreateInv, Rows, LockInv, ChildrenInv,
      LiveKeepChildren, WrittenInv, Holds, TrailMatches, Absent, Rollback, Forget, Unlock,
      Return, Goto, dataVars, lockVars, reqVars
  <1>4. WrittenInv' /\ DecidedInv'
    BY DEF IInv, TypeOK, Rows, FlowInv, LockInv, WrittenInv, CreateInv, Holds, DecidedInv,
      BlankInv, Absent, Rollback, Forget, Unlock, Return, Goto, dataVars, lockVars, reqVars
  <1>5. SequenceInv'
    BY DEF IInv, TypeOK, Rows, FlowInv, LockInv, SequenceInv, CreateInv, Holds, BlankInv,
      Absent, Rollback, Forget, Unlock, Return, Goto, dataVars, lockVars, reqVars
  <1>6. NumbersGapless'
    BY DEF IInv, TypeOK, Rows, NumbersGapless, Rollback, Forget, Unlock, Return, Goto,
      dataVars, lockVars, reqVars
  <1> QED
    BY <1>1, <1>2, <1>3, <1>4, <1>5, <1>6 DEF IInv

\* Child rows go only with a deleted document.
LEMMA DeleteChildrenStep == ASSUME IInv, NEW q \in Requests, DeleteChildren(q) PROVE IInv'
  <1>1. TypeOK'
    BY DEF IInv, TypeOK, Rows, FlowInv, LockInv, Holds, DeleteChildren, Return, Goto, dataVars,
      lockVars, reqVars, Absent
  <1>2. FlowInv' /\ LockInv' /\ CreateInv'
    BY DEF IInv, TypeOK, FlowInv, LockInv, Holds, Rows, CreateInv, DeleteChildren, Return,
      Goto, dataVars, lockVars, reqVars, Absent
  <1>3. BlankInv' /\ ChildrenInv' /\ TrailMatches'
    BY DEF IInv, TypeOK, BlankInv, FlowInv, CreateInv, Rows, LockInv, ChildrenInv,
      LiveKeepChildren, WrittenInv, Holds, TrailMatches, Absent, DeleteChildren, Return, Goto,
      dataVars, lockVars, reqVars
  <1>4. WrittenInv' /\ DecidedInv'
    BY DEF IInv, TypeOK, Rows, FlowInv, LockInv, WrittenInv, CreateInv, Holds, DecidedInv,
      BlankInv, Absent, DeleteChildren, Return, Goto, dataVars, lockVars, reqVars
  <1>5. SequenceInv'
    BY DEF IInv, TypeOK, Rows, FlowInv, LockInv, SequenceInv, CreateInv, Holds, BlankInv,
      Absent, DeleteChildren, Return, Goto, dataVars, lockVars, reqVars
  <1>6. NumbersGapless'
    BY DEF IInv, TypeOK, Rows, NumbersGapless, DeleteChildren, Return, Goto, dataVars,
      lockVars, reqVars
  <1> QED
    BY <1>1, <1>2, <1>3, <1>4, <1>5, <1>6 DEF IInv

\* A document may keep child rows after its deletion.
LEMMA LeaveChildrenStep == ASSUME IInv, NEW q \in Requests, LeaveChildren(q) PROVE IInv'
  <1>1. TypeOK'
    BY DEF IInv, TypeOK, Rows, FlowInv, LockInv, Holds, LeaveChildren, Return, Goto, dataVars,
      lockVars, reqVars, Absent
  <1>2. FlowInv' /\ LockInv' /\ CreateInv'
    BY DEF IInv, TypeOK, FlowInv, LockInv, Holds, Rows, CreateInv, LeaveChildren, Return, Goto,
      dataVars, lockVars, reqVars, Absent
  <1>3. BlankInv' /\ ChildrenInv' /\ TrailMatches'
    BY DEF IInv, TypeOK, BlankInv, FlowInv, CreateInv, Rows, LockInv, ChildrenInv,
      LiveKeepChildren, WrittenInv, Holds, TrailMatches, Absent, LeaveChildren, Return, Goto,
      dataVars, lockVars, reqVars
  <1>4. WrittenInv' /\ DecidedInv'
    BY DEF IInv, TypeOK, Rows, FlowInv, LockInv, WrittenInv, CreateInv, Holds, DecidedInv,
      BlankInv, Absent, LeaveChildren, Return, Goto, dataVars, lockVars, reqVars
  <1>5. SequenceInv'
    BY DEF IInv, TypeOK, Rows, FlowInv, LockInv, SequenceInv, CreateInv, Holds, BlankInv,
      Absent, LeaveChildren, Return, Goto, dataVars, lockVars, reqVars
  <1>6. NumbersGapless'
    BY DEF IInv, TypeOK, Rows, NumbersGapless, LeaveChildren, Return, Goto, dataVars, lockVars,
      reqVars
  <1> QED
    BY <1>1, <1>2, <1>3, <1>4, <1>5, <1>6 DEF IInv

\* No request runs and no record exists.
LEMMA InitIInv == Init => IInv
  <1> SUFFICES ASSUME Init PROVE IInv
    OBVIOUS
  <1>1. TypeOK
    BY DEF Init, TypeOK, Absent, Rows
  <1>2. FlowInv /\ LockInv /\ CreateInv /\ BlankInv
    BY DEF Init, FlowInv, LockInv, CreateInv, BlankInv, Holds, Absent
  <1>3. WrittenInv /\ DecidedInv /\ SequenceInv
    BY DEF Init, WrittenInv, DecidedInv, SequenceInv, Holds, Absent
  <1>4. ChildrenInv /\ TrailMatches
    BY DEF Init, ChildrenInv, LiveKeepChildren, TrailMatches, Absent
  <1>5. NumbersGapless
    <2>1. {i \in Records : row[i].number # 0} = {}
      BY DEF Init, Absent
    <2>2. 1..last = {}
      BY DEF Init
    <2> QED
      BY <2>1, <2>2 DEF NumbersGapless
  <1> QED
    BY <1>1, <1>2, <1>3, <1>4, <1>5 DEF IInv

\* Every part is about the variables.
LEMMA StutterStep == ASSUME IInv, UNCHANGED vars PROVE IInv'
  <1> USE DEF vars, dataVars, lockVars, reqVars
  <1>1. TypeOK' /\ FlowInv' /\ LockInv' /\ CreateInv' /\ BlankInv'
    BY DEF IInv, TypeOK, FlowInv, LockInv, CreateInv, BlankInv, Holds
  <1>2. WrittenInv' /\ DecidedInv' /\ SequenceInv'
    BY DEF IInv, WrittenInv, DecidedInv, SequenceInv, Holds, Allowed
  <1>3. ChildrenInv' /\ TrailMatches' /\ NumbersGapless'
    BY DEF IInv, ChildrenInv, LiveKeepChildren, TrailMatches, NumbersGapless
  <1> QED
    BY <1>1, <1>2, <1>3 DEF IInv

\* One case for each action.
LEMMA NextStep == IInv /\ [Next]_vars => IInv'
  <1> SUFFICES ASSUME IInv, [Next]_vars PROVE IInv'
    OBVIOUS
  <1>1. ASSUME NEW q \in Requests, Decide(q) \/ Proceed(q) \/ Fail(q) PROVE IInv'
    BY <1>1, DecideStep, NotFoundStep, WriteStep, OperateStep, NumberStep, InsertStep,
      CommitStep, RollbackStep, DeleteChildrenStep, LeaveChildrenStep DEF Proceed, Fail
  <1> QED
    BY <1>1, StutterStep DEF Next

\* The invariant is inductive.
LEMMA Invariance == Spec => []IInv
  BY InitIInv, NextStep, PTL DEF Spec

\* Only a commit changes a committed row, and only that of its record.
LEMMA RowChanges ==
  ASSUME IInv, [Next]_vars, NEW i \in Records, row'[i] # row[i]
  PROVE  \E q \in Requests : /\ pc[q] = "commit" /\ id[q] = i /\ row'[i] = new[q]
                             /\ op[q] = "create" \/ Holds(q)
  <1>1. PICK q \in Requests : Commit(q)
    <2>1. row' # row
      OBVIOUS
    <2>2. PICK q \in Requests : Decide(q) \/ Proceed(q) \/ Fail(q)
      BY <2>1 DEF Next, vars, dataVars
    <2>3. ~ Decide(q)
      BY <2>1 DEF Decide, Create, Update, Transition, Operation, Delete, Begin, dataVars
    <2>4. ~ Fail(q)
      BY <2>1 DEF Fail, Rollback, LeaveChildren, dataVars
    <2>5. ~ (NotFound(q) \/ Write(q) \/ Operate(q) \/ Number(q) \/ Insert(q) \/ DeleteChildren(q))
      BY <2>1 DEF NotFound, Write, Operate, Number, Insert, DeleteChildren, dataVars
    <2> QED
      BY <2>2, <2>3, <2>4, <2>5 DEF Proceed
  <1>2. pc[q] = "commit" /\ row' = [row EXCEPT ![id[q]] = new[q]] /\ id[q] \in Records
    BY <1>1 DEF Commit, IInv, TypeOK, FlowInv
  <1>3. id[q] = i /\ row'[i] = new[q]
    BY <1>2 DEF IInv, TypeOK
  <1> QED
    BY <1>2, <1>3 DEF Holds

-----------------------------------------------------------------------------
(* Theorems. *)

\* Every variable keeps its type, and row locks are those of open transactions.
THEOREM TypeCorrect == Spec => []TypeOK
  BY Invariance, PTL DEF IInv

\* The numbers in use are 1..last, each in one record: none is shared, none is skipped,
\* whatever requests race, fail or roll back.
THEOREM Gapless == Spec => []NumbersGapless
  BY Invariance, PTL DEF IInv

\* A record has one audit row for each of its committed changes.
THEOREM TrailCorrect == Spec => []TrailMatches
  BY Invariance, PTL DEF IInv

\* A live document keeps its child rows.
THEOREM ChildrenKept == Spec => []LiveKeepChildren
  BY Invariance, PTL DEF IInv, ChildrenInv

\* A deleted record is never changed again.
THEOREM DeletedStays == Spec => DeletedIsFinal
  <1>1. ASSUME IInv, [Next]_vars
        PROVE  [\A i \in Records : row[i].life = "deleted" => row'[i] = row[i]]_vars
    <2>1. ASSUME NEW i \in Records, row[i].life = "deleted", row'[i] # row[i] PROVE FALSE
      <3>1. PICK q \in Requests : id[q] = i /\ (op[q] = "create" \/ Holds(q))
        BY <1>1, <2>1, RowChanges
      <3> QED
        BY <1>1, <2>1, <3>1 DEF IInv, CreateInv, LockInv
    <2> QED
      BY <2>1
  <1> QED
    BY <1>1, Invariance, PTL DEF Spec, DeletedIsFinal

\* A number, once given, stays.
THEOREM NumberStays == Spec => NumberKept
  <1>1. ASSUME IInv, [Next]_vars
        PROVE  [\A i \in Records : row[i].number # 0 => row'[i].number = row[i].number]_vars
    <2>1. ASSUME NEW i \in Records, row[i].number # 0, row'[i].number # row[i].number PROVE FALSE
      <3>1. PICK q \in Requests : /\ pc[q] = "commit" /\ id[q] = i /\ row'[i] = new[q]
                                  /\ op[q] = "create" \/ Holds(q)
        BY <1>1, <2>1, RowChanges
      <3>2. Holds(q)
        BY <1>1, <2>1, <3>1 DEF IInv, CreateInv, BlankInv, Absent
      <3> QED
        BY <1>1, <2>1, <3>1, <3>2 DEF IInv, SequenceInv
    <2> QED
      BY <2>1
  <1> QED
    BY <1>1, Invariance, PTL DEF Spec, NumberKept

\* Status moves along the workflow, but for a plain transition that was decided on an
\* older row.
THEOREM LegalMoves == Spec => MovesLegal
  <1>1. ASSUME IInv, [Next]_vars
        PROVE  [\A i \in Records :
                  row[i].status # row'[i].status =>
                    \/ <<row[i].status, row'[i].status>> \in Edges
                    \/ ByTransition(i) /\ ~ Fresh(i)]_vars
    <2>1. ASSUME NEW i \in Records, row[i].status # row'[i].status,
                 <<row[i].status, row'[i].status>> \notin Edges
          PROVE  ByTransition(i) /\ ~ Fresh(i)
      <3>1. PICK q \in Requests : /\ pc[q] = "commit" /\ id[q] = i /\ row'[i] = new[q]
                                  /\ op[q] = "create" \/ Holds(q)
        BY <1>1, <2>1, RowChanges
      <3>2. Holds(q) /\ lock[i] = q
        BY <1>1, <2>1, <3>1 DEF IInv, CreateInv, BlankInv, Absent, LockInv
      <3>3. op[q] = "transition" /\ row'[i].status = arg[q]
        BY <1>1, <2>1, <3>1, <3>2 DEF IInv, WrittenInv, Allowed
      <3>4. saw[q] # row[i].stamp
        BY <1>1, <2>1, <3>1, <3>3 DEF IInv, DecidedInv, Allowed
      <3>5. \A p \in Requests : pc[p] = "commit" /\ id[p] = i => p = q
        BY <1>1, <3>1, <3>2 DEF IInv, LockInv, CreateInv, Holds
      <3> QED
        BY <3>1, <3>3, <3>4, <3>5 DEF ByTransition, Fresh
    <2> QED
      BY <2>1
  <1> QED
    BY <1>1, Invariance, PTL DEF Spec, MovesLegal

\* A field of a locked document changes only under an update decided on an older row.
THEOREM LockedKeptUnlessRaced == Spec => LockedUnlessRaced
  <1>1. ASSUME IInv, [Next]_vars
        PROVE  [\A i \in Records :
                  row[i].life = "live" /\ row[i].value # row'[i].value =>
                    row[i].status \notin LockStates \/ ~ Fresh(i)]_vars
    <2>1. ASSUME NEW i \in Records, row[i].life = "live", row[i].value # row'[i].value,
                 row[i].status \in LockStates
          PROVE  ~ Fresh(i)
      <3>1. PICK q \in Requests : /\ pc[q] = "commit" /\ id[q] = i /\ row'[i] = new[q]
                                  /\ op[q] = "create" \/ Holds(q)
        BY <1>1, <2>1, RowChanges
      <3>2. Holds(q) /\ lock[i] = q
        BY <1>1, <2>1, <3>1 DEF IInv, CreateInv, LockInv
      <3>3. op[q] = "update"
        BY <1>1, <2>1, <3>1, <3>2 DEF IInv, WrittenInv
      <3>4. saw[q] # row[i].stamp
        BY <1>1, <2>1, <3>1, <3>3 DEF IInv, DecidedInv
      <3>5. \A p \in Requests : pc[p] = "commit" /\ id[p] = i => p = q
        BY <1>1, <2>1, <3>1, <3>2 DEF IInv, LockInv, CreateInv, Holds
      <3> QED
        BY <3>4, <3>5 DEF Fresh
    <2> QED
      BY <2>1
  <1> QED
    BY <1>1, Invariance, PTL DEF Spec, LockedUnlessRaced
=============================================================================
