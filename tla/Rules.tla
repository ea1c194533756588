-------------------------------- MODULE Rules --------------------------------
(***************************************************************************)
(* What a stored record satisfies: the rules of its entity, from the        *)
(* metadata that declares them (crates/qefro-core: validation.rs,           *)
(* condition.rs, field.rs, entity.rs, custom.rs) through the requests that  *)
(* write it (crates/qefro-db: service.rs, operation.rs, repository.rs) to   *)
(* the columns of its table (schema.rs).                                    *)
(*                                                                         *)
(* One record of one entity in a server that is upgraded once.  A PATCH     *)
(* checks a record that it has read before its transaction and then writes  *)
(* only the fields it carries; an operation holds the lock of the row from  *)
(* its read to its commit.  Permissions, child tables, relations and unique *)
(* fields are left out (Permissions, Documents, References).                *)
(*                                                                         *)
(* A value is a number, or a string that reads as a number n, 100 + n, or   *)
(* one of three more: null, a blank string, and one of no type a field has. *)
(***************************************************************************)
EXTENDS Integers

CONSTANTS
  Def,        \* name of a field -> its definition
  Editions,   \* the fields of the entity in each edition of the app, a sequence of sets
  RuleSets,   \* sets of entity rules that an app may declare
  Status,     \* the field of its workflow
  Initial,    \* its initial state
  Locking,    \* states in which a document is locked
  Moves,      \* its transitions: from, to, guard
  News,       \* what a client may send to create it: fields, and those of the alias of
  Patches,    \* custom fields; and to change it
  Handled     \* fields and values that handlers of operations set

Null == -3
Blank == -2
Bad == -1
Values == Null..199
Never == [field |-> "", equals |-> Null]

VARIABLES
  edition,    \* the edition that runs
  table,      \* column -> whether it is NOT NULL
  rules,      \* the entity rules
  rec,        \* the record: key -> value, or no keys before it is created
  patching,   \* a PATCH between its checks and its transaction
  raced,      \* history: the record has changed since it was checked
  unchecked,  \* history: fields whose value is wrong and no check of their own has seen
  by,         \* history: what wrote the record last: create, update, operation, other
  forced,     \* history: read-only fields that a PATCH has changed
  wronged     \* history: a request was refused without a reason

vars == <<edition, table, rules, rec, patching, raced, unchecked, by, forced, wronged>>

NoFields == [f \in {} |-> Null]
IsRecord(p) == p \in [DOMAIN p -> Values]

\* The keys of p and the others of r.
Over(p, r) == [f \in DOMAIN p \cup DOMAIN r |-> IF f \in DOMAIN p THEN p[f] ELSE r[f]]

Idle == [top |-> NoFields, nested |-> NoFields, open |-> FALSE]

Fields == Editions[edition]
Live == rec # NoFields

-----------------------------------------------------------------------------
(* Values and conditions. *)

IsString(v) == v >= 100 \/ v = Blank
HasNumber(v) == v >= 0
Number(v) == IF v >= 100 THEN v - 100 ELSE v

\* lookup: a key that is not there reads as null.
Lookup(r, f) == IF f \in DOMAIN r THEN r[f] ELSE Null

\* is_empty.
IsEmpty(v) == v \in {Null, Blank}

\* values_equal: a string on the left equals what the right one prints as.
ValuesEqual(l, r) == l = r \/ (IsString(l) /\ HasNumber(l) /\ HasNumber(r) /\ Number(l) = Number(r))

\* Mutant of Greater: greater or equal.
GreaterOrEqual(l, r) == HasNumber(l) /\ HasNumber(r) /\ Number(l) >= Number(r)

\* cmp_ord, of two values that read as numbers.
Greater(l, r) == HasNumber(l) /\ HasNumber(r) /\ Number(l) > Number(r)
Same(l, r) == HasNumber(l) /\ HasNumber(r) /\ Number(l) = Number(r)

\* The comparisons of rules and conditions.
Compares(op, l, r) ==
  \/ op = "greater_than" /\ Greater(l, r)
  \/ op = "less_than" /\ Greater(r, l)
  \/ op = "greater_or_equal" /\ (Greater(l, r) \/ Same(l, r))
  \/ op = "less_or_equal" /\ (Greater(r, l) \/ Same(l, r))

Comparisons == {"greater_than", "less_than", "greater_or_equal", "less_or_equal"}

\* An atom of a Condition.
Meets(a, r) ==
  LET v == Lookup(r, a.field) IN
  \/ a.op = "equals" /\ \E x \in a.values : ValuesEqual(v, x)
  \/ a.op = "not_equals" /\ \A x \in a.values : ~ ValuesEqual(v, x)
  \/ a.op = "is_empty" /\ IsEmpty(v)
  \/ a.op = "is_not_empty" /\ ~ IsEmpty(v)
  \/ \E x \in a.values : Compares(a.op, v, x)

\* Condition::matches; conditions nest one deep, and any = {} is one without alternatives.
Matches(c, r) ==
  /\ \A a \in c.all : Meets(a, r)
  /\ c.any # {} => \E a \in c.any : Meets(a, r)

\* WhenClause::matches of an entity rule.
When(w, r) ==
  LET v == Lookup(r, w.field) IN
  \/ w.test = "always"
  \/ w.test = "equals" /\ ValuesEqual(v, w.value)
  \/ w.test = "not_equals" /\ ~ ValuesEqual(v, w.value)
  \/ w.test = "filled" /\ ~ IsEmpty(v)

\* UiWhen::matches, of required_when and readonly_when.
UiWhen(w, r) == w # Never /\ ValuesEqual(Lookup(r, w.field), w.equals)

-----------------------------------------------------------------------------
(* The checks. *)

\* type_error: no null, and a decimal may be a string.
TypeError(f, v) ==
  \/ Def[f].type \in {"text", "enum"} /\ ~ IsString(v)
  \/ Def[f].type = "decimal" /\ ~ (HasNumber(v) \/ IsString(v))

\* Mutant of ValueErrors: an exclusive lower bound.
AtLeastMore(f, v) == v \in 0..99 /\ v <= Def[f].min

\* validate_value: bounds are those of JSON numbers, options those of strings.
ValueErrors(f, v) ==
  \/ v \in 0..99 /\ v < Def[f].min
  \/ Def[f].type = "enum" /\ IsString(v) /\ v \notin Def[f].options

\* Mutant of RecordErrors: required_when and required are left to the entity rules.
TypesOnly(r, partial) ==
  \E f \in Fields : ~ Def[f].computed /\ Lookup(r, f) # Null
                    /\ (TypeError(f, r[f]) \/ ValueErrors(f, r[f]))

\* validate_record: does it report an error?
RecordErrors(r, partial) ==
  \E f \in Fields :
    /\ ~ Def[f].computed
    /\ LET v == Lookup(r, f) IN
       IF v = Null
       THEN ~ partial /\ (Def[f].required \/ UiWhen(Def[f].required_when, r))
       ELSE TypeError(f, v) \/ ValueErrors(f, v)

\* field_is_readonly.
FieldReadonly(f, r) == Def[f].computed \/ Def[f].readonly \/ UiWhen(Def[f].readonly_when, r)

\* Mutant of ReadonlyErrors: readonly_when is asked of the patch.
ReadonlyByPatch(current, patch) ==
  \E f \in DOMAIN patch \cap Fields :
    /\ ~ Def[f].computed
    /\ FieldReadonly(f, patch)
    /\ ~ ValuesEqual(patch[f], Lookup(current, f))

\* reject_readonly_writes.
ReadonlyErrors(current, patch) ==
  \E f \in DOMAIN patch \cap Fields :
    /\ ~ Def[f].computed
    /\ FieldReadonly(f, current)
    /\ ~ ValuesEqual(patch[f], Lookup(current, f))

\* In a partial record a required field is not missed unless its key is there.
Missing(r, f, partial) ==
  /\ IsEmpty(Lookup(r, f))
  /\ ~ (partial /\ f \notin DOMAIN r)

\* apply_field_rules.
FieldRuleErrors(r, partial) ==
  \E f \in Fields :
    /\ ~ Def[f].computed
    /\ UiWhen(Def[f].required_when, r)
    /\ Missing(r, f, partial)

\* eval_compare: nothing is compared with an empty value, except by equals.
CompareError(c, r) ==
  LET l == Lookup(r, c.field)
      o == Lookup(r, c.other) IN
  \/ /\ c.op \in Comparisons
     /\ ~ IsEmpty(l) /\ ~ IsEmpty(o)
     /\ ~ Compares(c.op, l, o)
  \/ c.op = "equals" /\ ~ IsEmpty(l) /\ ~ ValuesEqual(l, o)

\* eval_named_rule, and the bounds of a range: an operator it does not know is an error.
NamedError(n, r) ==
  LET v == Lookup(r, n.field) IN
  \/ n.op = "required" /\ IsEmpty(v)
  \/ n.op \in Comparisons /\ v # Null /\ ~ Compares(n.op, v, n.value)
  \/ n.op = "range" /\ HasNumber(v) /\ Number(v) < n.value
  \/ n.op \notin Comparisons \cup {"none", "required", "range"}

\* apply_entity_rules.
EntityErrors(r, partial) ==
  \/ \E u \in rules :
       /\ When(u.when, r)
       /\ \/ CompareError(u.compare, r)
          \/ \E f \in u.require : Missing(r, f, partial)
          \/ NamedError(u.named, r)
  \/ FieldRuleErrors(r, partial)

-----------------------------------------------------------------------------
(* The metadata. *)

Comparable(f, g) == Def[f].type = Def[g].type

\* The fields that a rule names.
Touched(u) ==
  u.require \cup ({u.when.field, u.compare.field, u.compare.other, u.named.field} \ {""})

\* What validate_rules demands of a rule before an app starts, in both editions.
ValidRule(u) ==
  /\ \A e \in DOMAIN Editions : Touched(u) \subseteq Editions[e]
  /\ u.compare.op # "none" => Comparable(u.compare.field, u.compare.other)
  /\ u.named.op \in Comparisons \cup {"none", "required", "range", "exists", "equals",
                                      "not_equals", "in", "not_in", "is_empty", "is_not_empty"}

\* What validate_custom_field demands of a custom one.
ValidCustom(f) ==
  /\ f \notin {Status, "id", "custom", "qefro_custom"}
  /\ ~ Def[f].computed
  /\ Def[f].default # Null =>
       IF Def[f].type = "enum" THEN Def[f].default \in Def[f].options
       ELSE ~ TypeError(f, Def[f].default)
  /\ \A w \in {Def[f].required_when, Def[f].readonly_when} \ {Never} : w.field \in DOMAIN Def

Custom == {f \in DOMAIN Def : Def[f].custom}

DefsValid == \A f \in Custom : ValidCustom(f)

\* stores_column.
Columns(e) == {f \in Editions[e] : ~ Def[f].custom}

\* entity_ddl: CREATE TABLE.
CreateTable == [f \in Columns(1) |-> Def[f].required /\ ~ Def[f].computed]

\* Mutant of ApplySchema: the columns that are no longer declared stay as they are.
KeepsNotNull(e) ==
  [f \in DOMAIN table \cup Columns(e) |->
     IF f \in DOMAIN table THEN table[f] /\ (f \in Columns(e) => ~ Def[f].computed) ELSE FALSE]

\* apply_missing_columns adds them without NOT NULL; apply_column_nullability drops that
\* of computed columns and of those that no field has any more.
ApplySchema(e) ==
  [f \in DOMAIN table \cup Columns(e) |->
     f \in DOMAIN table /\ table[f] /\ f \in Columns(e) /\ ~ Def[f].computed]

-----------------------------------------------------------------------------
(* Requests. *)

\* strip_computed_fields, strip_server_managed_fields.
Without(p, F) == [f \in DOMAIN p \ F |-> p[f]]
Computed == {f \in Fields : Def[f].computed}
Managed == {f \in Fields : Def[f].managed}

\* flatten_nested_custom: keys that are there are kept.
Flatten(top, nested) == Over(top, [f \in DOMAIN nested \cap Custom \cap Fields |-> nested[f]])

\* apply_defaults.
Defaults(p, F) ==
  LET due == {f \in F : /\ ~ Def[f].computed /\ Def[f].default # Null
                        /\ Lookup(p, f) \in {Null, Blank}} IN
  [f \in DOMAIN p \cup due |-> IF f \in due THEN Def[f].default ELSE p[f]]

\* A state that the request chooses itself, which only a transition may.
Moved(p) == LET v == Lookup(p, Status) IN IsString(v) /\ v \notin {Blank, Initial}

\* The formula of a computed field, arithmetic on one field: an empty operand counts as 0.
Formula(f, r) == LET v == Lookup(r, Def[f].formula) IN IF HasNumber(v) THEN Number(v) ELSE 0
Computing(r, from) == Over([f \in Computed |-> Formula(f, from)], r)

\* Does the table take the row?  A blank string is no number, nor is Bad.
Takes(r) ==
  /\ \A f \in DOMAIN table : table[f] => Lookup(r, f) # Null
  /\ \A f \in DOMAIN r \ Custom :
       /\ r[f] # Bad
       /\ Def[f].type = "decimal" => r[f] # Blank
       /\ Def[f].type = "enum" => r[f] \in Def[f].options \cup {Null}

\* What it returns: decimals are numbers, but not those in the bag of custom values.
Normal(f, v) ==
  IF f \notin Custom /\ Def[f].type = "decimal" /\ HasNumber(v) THEN Number(v) ELSE v
Row(r) == [f \in DOMAIN r |-> Normal(f, r[f])]

\* insert_tx: every column has a value; the bag has the keys that are given; keys of no
\* field are ignored.
Insert(p) == Row(Over([f \in DOMAIN p \cap Fields |-> p[f]], [f \in DOMAIN table |-> Null]))

\* update_tx: the given columns, and the given keys of the bag.  A key of no field is an
\* error.
Known(p) == DOMAIN p \subseteq Fields
Merge(r, p) == Row(Over(p, r))

Quoted(p) == {f \in DOMAIN p : Def[f].type = "decimal" /\ IsString(p[f])}

-----------------------------------------------------------------------------
(* What the metadata say of a record, apart from the checks. *)

ValueRight(f, v) ==
  \/ v = Null
  \/ /\ Def[f].type = "decimal" /\ HasNumber(v) /\ Number(v) >= Def[f].min
  \/ Def[f].type = "text" /\ IsString(v)
  \/ Def[f].type = "enum" /\ v \in Def[f].options

Filled(r, f) == f \in DOMAIN r /\ r[f] \notin {Null, Blank}

Ordered(op, m, n) ==
  \/ op = "greater_than" /\ m > n
  \/ op = "less_than" /\ m < n
  \/ op = "greater_or_equal" /\ m >= n
  \/ op = "less_or_equal" /\ m <= n

\* A rule that the checks can tell to hold: a computed field is computed after them, and a
\* decimal is a number once it is stored, which differs from a quoted one.
Settled(u) ==
  /\ Touched(u) \cap Computed = {}
  /\ ~ /\ u.when.test = "not_equals" /\ IsString(u.when.value)
       /\ Def[u.when.field].type = "decimal"

Applying(r) == {u \in rules : Settled(u) /\ When(u.when, r)}

\* The fields that a record must have a value of.
Demanded(r) ==
  {f \in Fields \ Computed : /\ Def[f].required_when.field \in Fields \ Computed
                             /\ UiWhen(Def[f].required_when, r)}
  \cup UNION {u.require \cup (IF u.named.op = "required" THEN {u.named.field} ELSE {}) :
              u \in Applying(r)}

Compared(c, r) ==
  /\ c.op \in Comparisons /\ Filled(r, c.field) /\ Filled(r, c.other) =>
       Ordered(c.op, Number(r[c.field]), Number(r[c.other]))
  /\ c.op = "equals" /\ Filled(r, c.field) =>
       Filled(r, c.other) /\ Number(r[c.field]) = Number(r[c.other])

Bounded(n, r) ==
  /\ n.op \in Comparisons /\ Filled(r, n.field) =>
       Ordered(n.op, Number(r[n.field]), Number(n.value))
  /\ n.op = "range" /\ HasNumber(Lookup(r, n.field)) => Number(r[n.field]) >= n.value

\* Every rule that applies holds; the fields of lax may be missing.
Lawful(r, lax) ==
  /\ \A f \in Demanded(r) \ lax : Filled(r, f)
  /\ \A u \in Applying(r) : Compared(u.compare, r) /\ Bounded(u.named, r)

\* Some rules are accepted but never hold: validate_rules knows their operators,
\* eval_named_rule does not.
Unknown == \E u \in rules : u.named.op \notin Comparisons \cup {"none", "required", "range"}

\* No rule is unknown, compares with what is no number, or is left to chance.
Clear ==
  /\ ~ Unknown
  /\ \A u \in rules : Settled(u) /\ (u.named.op \in Comparisons => HasNumber(u.named.value))
  /\ \A f \in Fields : Def[f].required_when # Never =>
                        Def[f].required_when.field \in Fields \ Computed

\* A value as its field has it: decimals are given as numbers.
Proper(f, v) ==
  ValueRight(f, v) /\ v # Blank /\ (Def[f].type = "decimal" => ~ IsString(v))

\* A request p, which leads to the row r, that has no reason to be refused.
Blameless(p, r) ==
  /\ Clear
  /\ \A f \in DOMAIN p \cap Fields : Proper(f, p[f])
  /\ \A f \in Fields \ Computed :
       Proper(f, Lookup(r, f)) /\ (Def[f].required => Lookup(r, f) # Null)
  /\ Lawful(r, {})

\* What is declared has these shapes.  The state of the workflow is no number, a formula
\* is arithmetic, and has no computed operand here: those are the subject of Formulas.
FieldShape ==
  [type : {"text", "enum", "decimal"}, min : Int, options : SUBSET (100..199), default : Values,
   formula : STRING, required_when : [field : STRING, equals : Values],
   readonly_when : [field : STRING, equals : Values], custom : BOOLEAN, required : BOOLEAN,
   readonly : BOOLEAN, computed : BOOLEAN, managed : BOOLEAN, allow_on_submit : BOOLEAN]
RuleShape(u) ==
  /\ u.when.test # "always" => u.when.field # ""
  /\ u.compare.op \in Comparisons \cup {"equals", "none"}
  /\ u.compare.op # "none" => "" \notin {u.compare.field, u.compare.other}
  /\ u.named.op # "none" => u.named.field # ""
  /\ {u.when.value, u.named.value} \subseteq Values
RulesAssumption ==
  /\ "" \notin DOMAIN Def /\ DefsValid
  /\ \A f \in DOMAIN Def :
       /\ Def[f] \in FieldShape
       /\ Def[f].computed =>
            /\ Def[f].type = "decimal"
            /\ Def[f].formula \in DOMAIN Def => ~ Def[Def[f].formula].computed
  /\ DOMAIN Editions = 1..2 /\ \A e \in 1..2 : Editions[e] \subseteq DOMAIN Def
  /\ Status \in Columns(1) \cap Columns(2)
  /\ ~ Def[Status].computed /\ Def[Status].type # "decimal"
  /\ Initial \in Values
  /\ \A m \in Moves : m.to \in Values \ {Null} /\ ValueRight(Status, m.to)
  /\ \A S \in RuleSets : \A u \in S : RuleShape(u)
  /\ \A q \in News \cup Patches : IsRecord(q.top) /\ IsRecord(q.nested)
  /\ \A h \in Handled : h[2] \in Values

-----------------------------------------------------------------------------
(* Creating the record. *)

Init ==
  /\ edition = 1
  /\ table = CreateTable
  /\ rules \in {S \in RuleSets : \A u \in S : ValidRule(u)}
  /\ rec = NoFields
  /\ patching = Idle
  /\ raced = FALSE
  /\ unchecked = {}
  /\ by = "nobody"
  /\ forced = {}
  /\ wronged = FALSE

\* Those fields of F that have a wrong value.
Wrong(F, r) == {f \in F \cap DOMAIN r : ~ ValueRight(f, r[f])}

Stored(r, kind) ==
  /\ rec' = r
  /\ by' = kind

\* Refused: nothing is written; was there a reason?
Refuse(blameless) ==
  /\ wronged' = (wronged \/ blameless)
  /\ UNCHANGED <<rec, by, unchecked>>

Quiet == UNCHANGED <<edition, table, rules, forced>>

\* create of EntityService: strip, flatten, defaults, the initial state, the checks, the
\* INSERT, and the computed values.
Create(top, nested) ==
  LET given == Defaults(Flatten(Without(top, Computed \cup Managed), nested), Fields)
      p == Over([f \in {Status} |-> Initial], given)
      r == Insert(p) IN
  /\ ~ Live
  /\ IF Moved(given) \/ RecordErrors(p, FALSE) \/ EntityErrors(p, FALSE) \/ ~ Takes(r)
     THEN Refuse(~ Moved(given) /\ Blameless(p, r))
     ELSE /\ Stored(Computing(r, r), "create")
          /\ unchecked' = Wrong(Quoted(p), r)
          /\ UNCHANGED wronged
  /\ Quiet /\ UNCHANGED <<patching, raced>>

\* create of OperationCtx: the defaults of columns alone, no alias before the checks,
\* and no computed values.
OperationCreate(top, nested) ==
  LET given == Defaults(Without(top, Computed), Columns(edition))
      p == Over([f \in {Status} |-> Initial], given)
      r == Insert(Flatten(p, nested)) IN
  /\ ~ Live /\ ~ Moved(given)
  /\ ~ RecordErrors(p, FALSE) /\ ~ EntityErrors(p, FALSE) /\ Takes(r)
  /\ Stored(Over([f \in Computed |-> Null], r),
            IF DOMAIN nested \subseteq DOMAIN p THEN "operation" ELSE "other")
  /\ unchecked' = Wrong(Quoted(p) \cup (DOMAIN nested \ DOMAIN p), r)
  /\ Quiet /\ UNCHANGED <<patching, raced, wronged>>

-----------------------------------------------------------------------------
(* Changing it. *)

\* reject_locked_writes.
LockedErrors(patch) ==
  /\ rec[Status] \in Locking
  /\ \E f \in DOMAIN patch \cap Fields : ~ Def[f].computed /\ ~ Def[f].allow_on_submit

\* Mutant of Checked: the rules are asked of the patch alone.
ChecksPatch(patch) == ~ RecordErrors(patch, TRUE) /\ ~ EntityErrors(patch, TRUE)

\* The checks of a PATCH that a request and an operation have in common.
Checked(patch) == ~ RecordErrors(patch, TRUE) /\ ~ EntityErrors(Over(patch, rec), TRUE)

\* update of EntityService up to its transaction.  The alias is not flattened yet.
BeginPatch(top, nested) ==
  LET patch == Without(top, Computed \cup Managed) IN
  /\ Live /\ ~ patching.open
  /\ IF ReadonlyErrors(rec, patch) \/ LockedErrors(patch) \/ Status \in DOMAIN patch
        \/ ~ Checked(patch)
     THEN /\ Refuse(/\ Status \notin DOMAIN patch /\ Known(patch)
                    /\ Blameless(patch, Merge(rec, patch))
                    /\ \A f \in DOMAIN patch : ~ FieldReadonly(f, rec)
                    /\ rec[Status] \notin Locking)
          /\ UNCHANGED patching
     ELSE /\ patching' = [top |-> patch, nested |-> nested, open |-> TRUE]
          /\ UNCHANGED <<rec, by, unchecked, wronged>>
  /\ raced' = FALSE
  /\ Quiet

\* Its transaction: the UPDATE, which the table may refuse, and the computed values.
WritePatch ==
  LET p == Flatten(patching.top, patching.nested)
      r == Merge(rec, p)
      slipped == DOMAIN p \ DOMAIN patching.top IN
  /\ patching.open
  /\ IF Known(p) /\ Takes(r)
     THEN /\ Stored(Computing(r, r),
                    IF raced \/ slipped # {} THEN "other" ELSE "update")
          /\ unchecked' = (unchecked \ DOMAIN p) \cup Wrong(Quoted(p) \cup slipped, r)
          /\ forced' = IF raced THEN forced
                       ELSE forced \cup {f \in DOMAIN p \ slipped :
                                           /\ \/ FieldReadonly(f, rec)
                                              \/ Def[f].managed
                                              \/ rec[Status] \in Locking /\ ~ Def[f].allow_on_submit
                                           /\ ~ ValuesEqual(r[f], Lookup(rec, f))
                                           /\ ~ ValuesEqual(Lookup(rec, f), r[f])}
     ELSE UNCHANGED <<rec, by, unchecked, forced>>
  /\ patching' = Idle
  /\ raced' = FALSE
  /\ UNCHANGED <<edition, table, rules, wronged>>

\* update of OperationCtx, with the row locked: neither the state of a locked document nor
\* server-managed fields are looked at, and nothing is computed.
OperationUpdate(top, nested) ==
  LET patch == Without(top, Computed)
      r == Merge(rec, Flatten(patch, nested)) IN
  /\ Live /\ Status \notin DOMAIN patch
  /\ ~ ReadonlyErrors(rec, patch) /\ Checked(patch) /\ Known(patch) /\ Takes(r)
  /\ Stored(r, IF DOMAIN nested \subseteq DOMAIN patch THEN "operation" ELSE "other")
  /\ unchecked' = (unchecked \ (DOMAIN patch \cup DOMAIN nested))
                  \cup Wrong(Quoted(patch) \cup (DOMAIN nested \ DOMAIN patch), r)
  /\ raced' = patching.open
  /\ Quiet /\ UNCHANGED <<patching, wronged>>

\* The handler of an operation sets a column, and dirty_patch writes it; a custom field it
\* sets is lost.
HandlerSets(f, v) ==
  LET r == Merge(rec, [g \in {f} |-> v]) IN
  /\ Live /\ f \in Columns(edition) \ (Computed \cup {Status})
  /\ Takes(r)
  /\ Stored(r, "other")
  /\ unchecked' = (unchecked \ {f}) \cup Wrong({f}, r)
  /\ raced' = patching.open
  /\ Quiet /\ UNCHANGED <<patching, wronged>>

\* transition: its guard, and no rules.
Transition(m) ==
  /\ Live /\ rec[Status] = m.from
  /\ Matches(m.guard, rec)
  /\ Stored([rec EXCEPT ![Status] = m.to], "other")
  /\ raced' = patching.open
  /\ Quiet /\ UNCHANGED <<patching, unchecked, wronged>>

\* A child row written by a PATCH of its document: its checks see what the client sent of
\* it, and so does its formula.
ChildPatch(top) ==
  LET patch == Without(top, Computed \cup Managed)
      r == Merge(rec, patch) IN
  /\ Live
  /\ ~ RecordErrors(patch, TRUE) /\ ~ EntityErrors(patch, TRUE)
  /\ Known(patch) /\ Takes(r)
  /\ Stored(Computing(r, patch), "other")
  /\ unchecked' = (unchecked \ DOMAIN patch) \cup Wrong(Quoted(patch), r)
  /\ raced' = patching.open
  /\ Quiet /\ UNCHANGED <<patching, wronged>>

\* The server is upgraded: requests end with it, the schema is applied to the table.
Upgrade ==
  /\ edition = 1
  /\ edition' = 2
  /\ table' = ApplySchema(2)
  /\ rec' = IF Live THEN Over(rec, [f \in Columns(2) |-> Null]) ELSE rec
  /\ by' = "other"
  /\ patching' = Idle
  /\ raced' = FALSE
  /\ UNCHANGED <<rules, unchecked, forced, wronged>>

Next ==
  \/ \E q \in News : Create(q.top, q.nested) \/ OperationCreate(q.top, q.nested)
  \/ \E q \in Patches : BeginPatch(q.top, q.nested) \/ OperationUpdate(q.top, q.nested)
  \/ WritePatch
  \/ \E q \in Patches : q.nested = NoFields /\ ChildPatch(q.top)
  \/ \E h \in Handled : HandlerSets(h[1], h[2])
  \/ \E m \in Moves : Transition(m)
  \/ Upgrade

Spec == Init /\ [][Next]_vars

-----------------------------------------------------------------------------
(* Properties. *)

\* Stored values: each is one its field allows, unless no check of its own has seen it
\* (a handler's, one of the alias in an update, a decimal given as a string); NOT NULL
\* columns have one, whatever wrote them.
ValuesKept ==
  Live => /\ \A f \in (DOMAIN rec \cap Fields) \ (unchecked \cup Computed) : ValueRight(f, rec[f])
          /\ \A f \in DOMAIN table : table[f] => rec[f] # Null

\* Rules: a record has its required fields after a create, and satisfies every rule after
\* that and after a PATCH not overtaken by another write, of the fields that its checks
\* have seen; an update does not miss a custom field that was never set.
RulesKept ==
  /\ by = "create" => Lawful(rec, {}) /\ \A f \in Fields : Def[f].required => Lookup(rec, f) # Null
  /\ by \in {"update", "operation"} => Lawful(rec, Custom \ DOMAIN rec)

\* Computed values are those of the formula after every create and PATCH.
ComputedKept == by \in {"create", "update"} => \A f \in Computed : rec[f] = Formula(f, rec)

\* Read-only, server-managed and locked fields keep their value in every PATCH that
\* nothing overtakes; nobody is refused without a reason.
NothingForced == forced = {} /\ ~ wronged

RulesHold == ValuesKept /\ RulesKept /\ ComputedKept /\ NothingForced
=============================================================================
