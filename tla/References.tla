---------------------------- MODULE References -----------------------------
(***************************************************************************)
(* Unique fields and relations between records.  A request looks both up    *)
(* before its transaction (check_relation_existence and check_uniques of    *)
(* crates/qefro-db/src/service.rs); what is certain is what the tables      *)
(* enforce (schema.rs): a unique index, over live rows when the entity is   *)
(* deleted softly, and a foreign key with the action of its on_delete.      *)
(*                                                                         *)
(* Items have a unique code and refer to a target.  PostgreSQL's part: the  *)
(* index and the key wait for transactions that have touched the same code  *)
(* or target, and decide by what these have left.                           *)
(***************************************************************************)
EXTENDS Naturals

CONSTANTS Items, Targets, Codes, Requests,
          Null,         \* no target
          MaxRequests   \* bound: requests ever begun

NullAssumption == Null \notin Targets

VARIABLES soft,     \* soft_delete of both entities
          policy,   \* on_delete of the relation, without effect on soft deletions
          rule,     \* the entity has a rule that the target exists
          item,     \* committed items: state, code and ref
          target,   \* committed targets: their states
          req,      \* what each request does, and how far it is
          begun     \* requests begun

refVars == <<soft, policy, rule, item, target, req, begun>>

Unborn == [state |-> "unborn", code |-> Null, ref |-> Null]
NoRequest == [op |-> "none", pc |-> "idle", on |-> Null, sets |-> {}, code |-> Null, ref |-> Null]

Init ==
  /\ soft \in BOOLEAN /\ rule \in BOOLEAN
  /\ policy \in IF soft THEN {"restrict"} ELSE {"restrict", "cascade", "set_null"}
  /\ item = [i \in Items |-> Unborn] /\ target = [t \in Targets |-> "live"]
  /\ req = [r \in Requests |-> NoRequest] /\ begun = 0

-----------------------------------------------------------------------------
Goto(r, from, to) == req[r].pc = from /\ req' = [req EXCEPT ![r].pc = to]
End(r) == req' = [req EXCEPT ![r] = NoRequest]
Kept == UNCHANGED <<soft, policy, rule, item, target, begun>>

Begin(r, q) ==
  /\ req[r].op = "none" /\ begun < MaxRequests
  /\ req' = [req EXCEPT ![r] = q] /\ begun' = begun + 1
  /\ UNCHANGED <<soft, policy, rule, item, target>>

\* POST with a code and a target; the record's id is new.
Create(r, i, c, t) ==
  /\ item[i] = Unborn /\ \A q \in Requests : req[q].on # i
  /\ Begin(r, [op |-> "create", pc |-> "relation", on |-> i, sets |-> {"code", "ref"},
               code |-> c, ref |-> t])

\* PATCH of the code or of the relation: merged with the record as it was read.
Update(r, i, c, t) ==
  /\ item[i].state = "live"
  /\ \E column \in {"code", "ref"} :
       Begin(r, [op |-> "update", pc |-> "relation", on |-> i, sets |-> {column},
                 code |-> IF column = "code" THEN c ELSE item[i].code,
                 ref |-> IF column = "ref" THEN t ELSE item[i].ref])

\* DELETE of a record that was read.
DeleteItem(r, i) ==
  item[i].state = "live" /\ Begin(r, [NoRequest EXCEPT !.op = "delete", !.pc = "write", !.on = i])

DeleteTarget(r, t) ==
  target[t] = "live" /\ Begin(r, [NoRequest EXCEPT !.op = "drop", !.pc = "write", !.on = t])

-----------------------------------------------------------------------------
\* EntityRepository::get: not those deleted softly.
Live(t) == t # Null => target[t] = "live"

\* check_relation_existence: only fields with a rule, on the pool.
CheckRelation(r) ==
  /\ IF rule /\ ~Live(req[r].ref)
     THEN req[r].pc = "relation" /\ End(r)
     ELSE Goto(r, "relation", "unique")
  /\ Kept

\* exists_unique: among live records other than its own.
InUse(i, c) == \E j \in Items \ {i} : item[j].state = "live" /\ item[j].code = c

\* check_uniques: the fields of the patch.
CheckUnique(r) ==
  /\ IF "code" \in req[r].sets /\ InUse(req[r].on, req[r].code)
     THEN req[r].pc = "unique" /\ End(r)
     ELSE Goto(r, "unique", "write")
  /\ Kept

\* The items that refer to t, whatever their state.
Referring(t) == {i \in Items : item[i].state \in {"live", "deleted"} /\ item[i].ref = t}

\* Rows a transaction has locked: its own, and those its foreign key acts on.
Held(r) ==
  IF req[r].pc # "written" THEN {}
  ELSE {req[r].on} \cup (IF req[r].op = "drop" /\ ~soft THEN Referring(req[r].on) ELSE {})

\* The row's lock, the code's entry in the index, and the key's lock on the target
\* are free: an UPDATE of the target's columns does not stand in the way.
Free(r) ==
  \A q \in Requests \ {r} : req[q].pc = "written" =>
    /\ req[r].on \notin Held(q)
    /\ "code" \in req[r].sets =>
         /\ "code" \in req[q].sets => req[r].code # req[q].code
         /\ req[r].code \notin {item[i].code : i \in Held(q) \cap Items}
    /\ "ref" \in req[r].sets /\ req[q].op = "drop" => req[r].ref # req[q].on
    /\ req[r].op = "drop" =>
         /\ "ref" \in req[q].sets => req[q].ref # req[r].on
         /\ Held(q) \cap Referring(req[r].on) = {}

\* The unique index of entity_ddl: rows that are there, or live ones.
\* Mutant of Taken: a unique field gets no index and is only looked up.
TakenNever(i, c) == FALSE
Taken(i, c) ==
  \E j \in Items \ {i} : item[j].code = c
                         /\ item[j].state \in (IF soft THEN {"live"} ELSE {"live", "deleted"})

\* The foreign key: a row of the target is there, deleted softly or not.
\* Mutant of Known: apply_foreign_keys could not add the constraint and goes on.
KnownAlways(t) == TRUE
Known(t) == t = Null \/ target[t] # "gone"

\* on_delete: restrict refuses to remove a target that is referred to.
Restricted(t) == ~soft /\ policy = "restrict" /\ Referring(t) # {}

\* A constraint that the columns written violate.
Violates(q) == \/ "code" \in q.sets /\ Taken(q.on, q.code)
               \/ "ref" \in q.sets /\ ~Known(q.ref)
               \/ q.op = "drop" /\ Restricted(q.on)

\* The live row that an UPDATE or a DELETE looks for.
Found(q) == CASE q.op = "create" -> TRUE [] q.op = "drop" -> target[q.on] = "live"
              [] OTHER -> item[q.on].state = "live"

\* The transaction's statement: INSERT, UPDATE or DELETE.
Write(r) ==
  /\ req[r].pc = "write" /\ Free(r) /\ Found(req[r]) /\ ~Violates(req[r])
  /\ Goto(r, "write", "written") /\ Kept

\* The statement finds no live row, or violates a constraint (map_db_err).
Refused(r) ==
  /\ req[r].pc = "write" /\ Free(r) /\ (~Found(req[r]) \/ Violates(req[r]))
  /\ End(r) /\ Kept

\* A later statement fails, the process dies, or a circular wait is broken.
Fails(r) == req[r].pc # "idle" /\ End(r) /\ Kept

-----------------------------------------------------------------------------
Removed == IF soft THEN "deleted" ELSE "gone"

\* The item after a target has been removed from the table.
AfterDrop(x, t) ==
  IF soft \/ x.state \notin {"live", "deleted"} \/ x.ref # t THEN x
  ELSE IF policy = "cascade" THEN [x EXCEPT !.state = "gone"]
  ELSE [x EXCEPT !.ref = Null]

Commit(r) ==
  LET q == req[r] IN
  /\ q.pc = "written"
  /\ \/ /\ q.op \in {"create", "update"}
        /\ item' = [item EXCEPT ![q.on] =
             [state |-> "live", code |-> IF "code" \in q.sets THEN q.code ELSE @.code,
              ref |-> IF "ref" \in q.sets THEN q.ref ELSE @.ref]]
        /\ target' = target
     \/ /\ q.op = "delete"
        /\ item' = [item EXCEPT ![q.on].state = Removed] /\ target' = target
     \/ /\ q.op = "drop"
        /\ target' = [target EXCEPT ![q.on] = Removed]
        /\ item' = [i \in Items |-> AfterDrop(item[i], q.on)]
  /\ End(r) /\ UNCHANGED <<soft, policy, rule, begun>>

Next == \E r \in Requests :
  \/ \E i \in Items, c \in Codes, t \in Targets \cup {Null} : Create(r, i, c, t) \/ Update(r, i, c, t)
  \/ \E i \in Items : DeleteItem(r, i)
  \/ \E t \in Targets : DeleteTarget(r, t)
  \/ CheckRelation(r) \/ CheckUnique(r) \/ Write(r) \/ Refused(r) \/ Fails(r) \/ Commit(r)

Spec == Init /\ [][Next]_refVars

-----------------------------------------------------------------------------
\* Two live records never share a unique value, although both requests looked it up
\* before either wrote (service.rs:383, schema.rs:557).
UniqueKept == \A i, j \in Items :
  item[i].state = "live" /\ item[j].state = "live" /\ item[i].code = item[j].code => i = j

\* A record refers to a row that is there, although its target was looked up before
\* the transaction, or not at all, and may be removed meanwhile (schema.rs:822).
RefsKept == \A i \in Items :
  item[i].state = "live" /\ item[i].ref # Null => target[item[i].ref] # "gone"

\* Kept without a run: "Reject the delete if related rows exist" (field.rs:104).  A
\* soft deletion is an UPDATE, which no foreign key sees, and nothing else looks.
RestrictRejects == \A i \in Items :
  policy = "restrict" /\ item[i].state = "live" /\ item[i].ref # Null => target[item[i].ref] = "live"
=============================================================================
