------------------------------ MODULE MCTenant ------------------------------
(***************************************************************************)
(* Small instances of what a tenant's data are governed by, one per         *)
(* behaviour: the parts of TenantParts and the evaluation order of          *)
(* formulas (Formulas).  They share no state: part says which one a         *)
(* behaviour is about, the variables of the others stay as they are         *)
(* initially.                                                               *)
(***************************************************************************)
EXTENDS TenantParts, TLC

CONSTANTS q1, q2, q3

\* Two requests that begin alike may change places.
Symmetry == Permutations({q1, q2})

VARIABLES
  \* Formulas
  computed, reads

\* The migrations of an app, and two automations: one runs every minute, the other every
\* second one.
TwoMigrations == <<"m1", "m2">>
TwoAutomations == <<"often", "seldom">>
MinutesOf == "often" :> {1, 2, 3} @@ "seldom" :> {1, 3}

\* crm is compiled in, pos has a directory and needs a package of inv; crm and pos
\* both declare an entity Sale.  The small plan has crm.
Directories == "crm" :> 0 @@ "inv" :> 0 @@ "pos" :> 1
PackagesOfInv == {<<"inv", 1>>, <<"inv", 2>>}
PosNeedsInv == "crm" :> {} @@ "inv" :> {} @@ "pos" :> {<<"inv", 1>>}
EntitiesOf == "crm" :> {"Lead", "Sale"} @@ "inv" :> {"Item"} @@ "pos" :> {"Sale"}
SmallPlan == "starter" :> {"crm"} @@ "enterprise" :> {}

\* Of a day of 16 units of 90 minutes: working hours of one window, of three that touch or
\* overlap, and none; bookings of the day before, too.
WorkingHours == {{}, {<<4, 12>>}, {<<2, 6>>, <<8, 14>>, <<12, 10>>}}
BookingStarts == {-18, -16, -12, -8, -4, -2, 0, 2, 4, 6, 8, 12, 14}

\* qty is required and at least 1, total computed from it; limit is greater than it and
\* read-only in the state 101; tier is a custom field, required then and whenever limit is
\* 3.  The second edition has another required field instead of an old one.
Null == -3
Nothing == [f \in {} |-> Null]
Plain == [type |-> "decimal", custom |-> FALSE, required |-> FALSE, min |-> 0, options |-> {},
          required_when |-> [field |-> "", equals |-> Null],
          readonly_when |-> [field |-> "", equals |-> Null], readonly |-> FALSE,
          default |-> Null, computed |-> FALSE, managed |-> FALSE, formula |-> "",
          allow_on_submit |-> FALSE]
Locked == [field |-> "state", equals |-> 101]
NoRule == [when |-> [field |-> "", test |-> "always", value |-> Null], require |-> {},
           compare |-> [field |-> "", op |-> "none", other |-> ""],
           named |-> [field |-> "", op |-> "none", value |-> Null]]
Both == {[NoRule EXCEPT !.compare = [field |-> "limit", op |-> "greater_than", other |-> "qty"]],
         [NoRule EXCEPT !.when = [field |-> "limit", test |-> "equals", value |-> 3],
                        !.require = {"tier"}]}
Odd == {[NoRule EXCEPT !.named = [field |-> "qty", op |-> "in", value |-> 1]]}
Mixed == {[NoRule EXCEPT !.compare = [field |-> "state", op |-> "less_than", other |-> "qty"]]}
Top(p) == [top |-> p, nested |-> Nothing]
RecordFields ==
  "state" :> [Plain EXCEPT !.type = "enum", !.options = {100, 101}]
  @@ "qty" :> [Plain EXCEPT !.required = TRUE, !.min = 1]
  @@ "limit" :> [Plain EXCEPT !.allow_on_submit = TRUE, !.readonly_when = Locked]
  @@ "tier" :> [Plain EXCEPT !.custom = TRUE, !.min = 1, !.allow_on_submit = TRUE,
                             !.required_when = Locked]
  @@ "total" :> [Plain EXCEPT !.computed = TRUE, !.formula = "qty"]
  @@ "old" :> [Plain EXCEPT !.required = TRUE, !.default = 1, !.managed = TRUE]
  @@ "added" :> [Plain EXCEPT !.required = TRUE]
FieldsOf == <<{"state", "qty", "limit", "tier", "total", "old"},
              {"state", "qty", "limit", "tier", "total", "added"}>>
Creations == {[top |-> p @@ l @@ t, nested |-> n] :
           p \in {"qty" :> 0, "qty" :> 2 @@ "added" :> 1, "qty" :> 101 @@ "total" :> 0},
           l \in {Nothing, "limit" :> 3},
           t \in {Nothing, "tier" :> 1}, n \in {Nothing, "tier" :> 0}}
             \cup {Top("qty" :> 2 @@ "state" :> 101)}
Changes == {Top("qty" :> v) : v \in {2, 101}}
           \cup {Top("limit" :> v) : v \in {2, 3}}
           \cup {Top("qty" :> Null @@ "limit" :> 2), Top("limit" :> 3 @@ "tier" :> 1),
                 Top("total" :> 0 @@ "old" :> 0), Top("tier" :> Null), Top("state" :> 101),
                 [top |-> Nothing, nested |-> "tier" :> 0]}
StatusMoves ==
  {[from |-> 100, to |-> 101,
    guard |-> [all |-> {[field |-> "limit", op |-> "is_not_empty", values |-> {}]}, any |-> {}]]}
HandlerValues == {<<"qty", 0>>, <<"qty", Null>>}
Declared == {Both, Odd, Mixed}

\* TLC evaluates these once, where what a constant is replaced by is evaluated at each use.
MCFieldDefs == RecordFields
MCFieldEditions == FieldsOf
MCRuleSets == Declared
MCMoves == StatusMoves
MCCreateBodies == Creations
MCPatchBodies == Changes

\* Transitions that are reserved or guarded; operations of the names of transitions, one
\* of another name, and cancelling, which takes one of two.  From "done", "void" finds the
\* transition that leads to the state called so.
Rights == {{}, {"list"}, {"read"}, {"create"}, {"read", "update"},
           {"list", "create", "read", "update", "delete"}}
SubjectTransitions ==
  <<[name |-> "submit", from |-> "draft", to |-> "open",
     reserved |-> FALSE, guarded |-> TRUE],
    [name |-> "approve", from |-> "open", to |-> "done",
     reserved |-> TRUE, guarded |-> FALSE],
    [name |-> "cancel", from |-> "open", to |-> "void",
     reserved |-> TRUE, guarded |-> FALSE],
    [name |-> "reject", from |-> "open", to |-> "void",
     reserved |-> FALSE, guarded |-> TRUE],
    [name |-> "cancel_submitted", from |-> "done", to |-> "void",
     reserved |-> FALSE, guarded |-> TRUE],
    [name |-> "void", from |-> "done", to |-> "draft",
     reserved |-> FALSE, guarded |-> TRUE]>>
SubjectOperations ==
  {[name |-> "submit", transition |-> "submit", reserved |-> TRUE,
    handler |-> "neither", shown |-> FALSE],
   [name |-> "reject", transition |-> "reject", reserved |-> FALSE,
    handler |-> "applies", shown |-> TRUE],
   [name |-> "cancel", transition |-> "none", reserved |-> FALSE,
    handler |-> "cancels", shown |-> FALSE],
   [name |-> "finish", transition |-> "approve", reserved |-> FALSE,
    handler |-> "neither", shown |-> FALSE]}
UserPages ==
  "orders" :> [app |-> "sales", reserved |-> TRUE, shows |-> "entity",
               of |-> "order", name |-> "none"]
  @@ "totals" :> [app |-> "pos", reserved |-> FALSE, shows |-> "report",
                  of |-> "sums", name |-> "none"]
  @@ "desk" :> [app |-> "pos", reserved |-> FALSE, shows |-> "action",
                of |-> "order", name |-> "cancel"]
UserReports ==
  "sums" :> [app |-> "pos", entity |-> "order"]
           @@ "rows" :> [app |-> "common", entity |-> "line"]
EntityApps == "order" :> "sales" @@ "line" :> "common"

F == INSTANCE Formulas WITH Fields <- <<"a", "b", "c">>

memberVars == <<account, member, session, req, changes, ended, excused>>
grantVars == <<boot, replaced, overlay, published>>
fieldVars == <<row, cache, fieldReq, changed, overlapped>>
migrationVars == <<record, effects, lock, cli>>
documentVars == <<doc, rows, made, docPc, todo, patch, docBase, docSeen, docStored, held,
                  heldRows, clash, raced, copied, left>>
ruleVars == <<edition, table, rules, rec, patching, outrun, unchecked, by, forced, wronged>>
referenceVars == <<soft, policy, rule, item, target, refReq, begun>>
scheduleVars == <<now, scanPc, at, read, jobs, looked, gap>>
appVars == <<installed, torn, store, server, cmd, count, kills, inTurn, crossed, lost,
             superseded>>
choiceVars == <<settings, cached, fresh, op, edits, kept, wanted, crossing, emptied>>
offerVars == <<admin, staff, enabled, granted, agents, workflow, stage, filled>>
formulaVars == <<computed, reads>>
slotVars == <<calendar, booked>>
vars == <<part, ruleVars, memberVars, grantVars, fieldVars, migrationVars, documentVars,
          referenceVars, scheduleVars, appVars, choiceVars, offerVars, formulaVars, slotVars>>

\* The configuration to begin with; Configure chooses any other.
Closed == [hours |-> {}, duration |-> 2, interval |-> 2, before |-> 0, after |-> 0,
          blackout |-> FALSE]

Init ==
  /\ part \in {"members", "grants", "fields", "migrations", "documents", "rules", "references",
               "schedules", "apps", "choices", "offers", "formulas", "slots"}
  /\ M!Init /\ P!Init /\ C!Init /\ A!Init /\ D!Init /\ U!Init /\ R!Init /\ E!Init /\ I!Init /\ T!Init
  /\ O!Init /\ F!Init
  /\ part # "rules" => rules = Both
  /\ part # "references" => ~soft /\ rule /\ policy = "restrict"
  /\ calendar = Closed /\ booked = {}

Next ==
  \/ /\ part = "members" /\ M!Next
     /\ UNCHANGED <<part, ruleVars, appVars, choiceVars, offerVars, grantVars, fieldVars, migrationVars,
                    documentVars, referenceVars, scheduleVars, formulaVars, slotVars>>
  \/ /\ part = "grants" /\ P!Next
     /\ UNCHANGED <<part, ruleVars, appVars, choiceVars, offerVars, memberVars, fieldVars, migrationVars,
                    documentVars, referenceVars, scheduleVars, formulaVars, slotVars>>
  \/ /\ part = "fields" /\ C!Next
     /\ UNCHANGED <<part, ruleVars, appVars, choiceVars, offerVars, memberVars, grantVars, migrationVars,
                    documentVars, referenceVars, scheduleVars, formulaVars, slotVars>>
  \/ /\ part = "migrations" /\ A!Next
     /\ UNCHANGED <<part, ruleVars, appVars, choiceVars, offerVars, memberVars, grantVars, fieldVars,
                    documentVars, referenceVars, scheduleVars, formulaVars, slotVars>>
  \/ /\ part = "documents" /\ D!Next
     /\ UNCHANGED <<part, ruleVars, appVars, choiceVars, offerVars, memberVars, grantVars, fieldVars,
                    migrationVars, referenceVars, scheduleVars, formulaVars, slotVars>>
  \/ /\ part = "rules" /\ U!Next
     /\ UNCHANGED <<part, appVars, choiceVars, offerVars, memberVars, grantVars, fieldVars,
                    migrationVars, documentVars, referenceVars, scheduleVars, formulaVars,
                    slotVars>>
  \/ /\ part = "references" /\ R!Next
     /\ UNCHANGED <<part, ruleVars, appVars, choiceVars, offerVars, memberVars, grantVars, fieldVars,
                    migrationVars, documentVars, scheduleVars, formulaVars, slotVars>>
  \/ /\ part = "schedules" /\ E!Next
     /\ UNCHANGED <<part, ruleVars, appVars, choiceVars, offerVars, memberVars, grantVars, fieldVars,
                    migrationVars, documentVars, referenceVars, formulaVars, slotVars>>
  \/ /\ part = "formulas" /\ F!Next
     /\ UNCHANGED <<part, ruleVars, appVars, choiceVars, offerVars, memberVars, grantVars, fieldVars,
                    migrationVars, documentVars, referenceVars, scheduleVars, slotVars>>
  \/ /\ part = "slots" /\ L!Next
     /\ UNCHANGED <<part, ruleVars, appVars, choiceVars, offerVars, memberVars, grantVars, fieldVars,
                    migrationVars, documentVars, referenceVars, scheduleVars, formulaVars>>
  \/ /\ part = "apps" /\ I!Next
     /\ UNCHANGED <<part, ruleVars, choiceVars, offerVars, memberVars, grantVars, fieldVars,
                    migrationVars, documentVars, referenceVars, scheduleVars, formulaVars,
                    slotVars>>
  \/ /\ part = "choices" /\ T!Next
     /\ UNCHANGED <<part, ruleVars, appVars, offerVars, memberVars, grantVars, fieldVars,
                    migrationVars, documentVars, referenceVars, scheduleVars, formulaVars,
                    slotVars>>
  \/ /\ part = "offers" /\ O!Next
     /\ UNCHANGED <<part, ruleVars, appVars, choiceVars, memberVars, grantVars, fieldVars,
                    migrationVars, documentVars, referenceVars, scheduleVars, formulaVars,
                    slotVars>>

Spec == Init /\ [][Next]_vars

-----------------------------------------------------------------------------
\* Formulas: circular ones are refused, the others evaluated in order.
FormulasOrdered == part = "formulas" => F!EvaluatedInOrder
\* Relations: docs say that a restricted deletion is refused; kept without a run.
RestrictRejects == R!RestrictRejects
=============================================================================
