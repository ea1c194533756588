------------------------------- MODULE Offers -------------------------------
(***************************************************************************)
(* What a user is offered, and what is answered.  The workspace, pages, the *)
(* list of tools and a record itself name what the user may do next; each   *)
(* filters by checks of its own.  The request that follows is checked again *)
(* by the service, which no offer consults.                                 *)
(*                                                                         *)
(* An offer is a pair of the place that makes it and the call it leads to;  *)
(* Configure changes what both depend on.  One role that things may be      *)
(* reserved for stands for all, and one field for those that guards of      *)
(* transitions look at.  Rate limits, labels, order, levels of fields and   *)
(* policies of rows are left out, and so are actors other than users.       *)
(***************************************************************************)
EXTENDS Integers, Sequences, TLC

CONSTANTS
  Entities,
  Apps, Common,
  AppOf,        \* AppOf[e]: the application of e, Common for one of the framework
  Grants,       \* sets of actions on an entity to choose from
  Subject,      \* the entity of the record
  Initial,
  Transitions,  \* of its workflow, in order: [name, from, to, reserved, guarded]
  Operations,   \* on it: [name, transition, reserved, handler, shown], transition "none"
                \* for none; the handler "applies" it, "cancels", or does "neither"; and
                \* whether only the role is shown it, by an action of the entity
  Pages,        \* Pages[p]: [app, reserved, shows, of, name], with one section
  Reports       \* Reports[r]: [app, entity]

VARIABLES
  admin,        \* the user is an administrator,
  member,       \* or has the role that things are reserved for
  enabled,      \* the applications of the tenant, {} for all of them
  granted,      \* granted[e]: what the roles of the user are granted on e
  agents,       \* the tenant's flag agent_actions
  workflow,     \* the subject has its workflow
  status, filled   \* of the record

vars == <<admin, member, enabled, granted, agents, workflow, status, filled>>

Actions == {"list", "read", "create", "update", "delete", "export"}
States == {Initial} \cup {Transitions[i].from : i \in DOMAIN Transitions}
            \cup {Transitions[i].to : i \in DOMAIN Transitions}

\* The registry keeps one operation of a name; "none" is the name of none.  A handler may
\* make the transition of its definition, and CancelDocument belongs to a "cancel" that is
\* defined without.
OffersAssumption ==
  /\ Subject \in Entities
  /\ Grants \subseteq SUBSET Actions /\ Grants # {}
  /\ Transitions \in Seq([name : STRING, from : STRING, to : STRING,
                          reserved : BOOLEAN, guarded : BOOLEAN])
  /\ Operations \subseteq [name : STRING \ {"none"}, transition : STRING, reserved : BOOLEAN,
                           handler : {"applies", "cancels", "neither"}, shown : BOOLEAN]
  /\ \A x, y \in Operations : x.name = y.name => x = y
  /\ \A x \in Operations :
       /\ x.handler = "applies" => x.transition # "none"
       /\ x.handler = "cancels" => x.name = "cancel" /\ x.transition = "none"

TypeOK ==
  /\ {admin, member, agents, workflow, filled} \subseteq BOOLEAN
  /\ enabled \subseteq Apps
  /\ granted \in [Entities -> Grants]
  /\ status \in States

Init ==
  /\ admin = FALSE /\ member = FALSE /\ enabled = {}
  /\ granted \in [Entities -> {CHOOSE g \in Grants : TRUE}]
  /\ agents = TRUE /\ workflow = TRUE
  /\ status = Initial /\ filled = FALSE

-----------------------------------------------------------------------------
\* No list, and what has no application, allow every application.
allows_app(app) == app = Common \/ enabled = {} \/ app \in enabled

allows(e, action) == admin \/ action \in granted[e]

\* What is reserved for a role is for administrators as well.
has_role(reserved) == reserved => admin \/ member

Call(to, e, name) == [to |-> to, entity |-> e, name |-> name]
Offer(via, call) == [via |-> via, call |-> call]

-----------------------------------------------------------------------------
(* The workflow of the record                                              *)

Leaving == {i \in DOMAIN Transitions : Transitions[i].from = status}
First(set) == CHOOSE i \in set : \A j \in set : i <= j

\* A transition is found by its name or by the state it leads to.
find_transition(name) ==
  LET found == {i \in Leaving : name \in {Transitions[i].name, Transitions[i].to}} IN
  IF found = {} THEN {} ELSE {Transitions[First(found)]}

\* WorkflowRegistry::apply: guards are not its business.
apply(name) == workflow /\ \E t \in find_transition(name) : has_role(t.reserved)

guard_allows(t) == t.guarded => filled

\* What a handler calls.
apply_transition(name) == apply(name) /\ \A t \in find_transition(name) : guard_allows(t)

\* Those of CancelDocument; they stand for all whose names begin with cancel.
Cancelling == {"cancel", "cancel_submitted"}

allowed_from == {Transitions[i] : i \in {j \in Leaving : has_role(Transitions[j].reserved)}}

-----------------------------------------------------------------------------
(* What is answered                                                        *)

operation_allowed(op) == allows(Subject, "update") /\ has_role(op.reserved)

\* The registry finds an operation by its name, or by the transition that it takes.
try_get(name) ==
  LET named == {op \in Operations : op.name = name} IN
  IF named # {} THEN named ELSE {op \in Operations : op.transition = name}

list(e) == allows_app(AppOf[e]) /\ allows(e, "list")
get(e) == allows_app(AppOf[e]) /\ allows(e, "read")

\* The transition of an operation is checked before its handler is called, and made
\* when the handler has not; guards are looked at by handlers only.
execute(name) ==
  /\ allows_app(AppOf[Subject])
  /\ \E op \in try_get(name) :
       /\ operation_allowed(op)
       /\ op.transition # "none" => apply(op.transition)
       /\ op.handler = "applies" => apply_transition(op.transition)
       /\ op.handler = "cancels" => \E t \in Cancelling : apply_transition(t)

\* A transition is an operation when one is found for it.
transition(name) ==
  IF try_get(name) # {} THEN execute(name)
  ELSE /\ allows_app(AppOf[Subject]) /\ allows(Subject, "update")
       /\ apply_transition(name)

page_allowed(p) == allows_app(Pages[p].app) /\ has_role(Pages[p].reserved)

run_report(r) == allows_app(Reports[r].app) /\ list(Reports[r].entity)

Answered(call) ==
  \/ call.to = "list" /\ list(call.entity)
  \/ call.to \in {"get", "activity", "comment", "attachments", "print"} /\ get(call.entity)
  \/ /\ call.to \in {"create", "update", "delete"}
     /\ allows_app(AppOf[call.entity]) /\ allows(call.entity, call.to)
  \/ call.to = "execute" /\ execute(call.name)
  \/ call.to = "transition" /\ transition(call.name)
  \/ call.to = "page" /\ page_allowed(call.name)
  \/ call.to = "report" /\ run_report(call.name)
  \* The cards of a dashboard which are refused are left out of it.
  \/ call.to = "dashboard" /\ allows_app(call.name)

\* A tool is the call it stands for, after checks of its own.
invoke_tool(call) ==
  /\ agents
  /\ allows_app(AppOf[call.entity])
  /\ \A op \in Operations : op.name = call.name => has_role(op.reserved)
  /\ Answered(call)

-----------------------------------------------------------------------------
(* What is offered by the workspace                                        *)

\* An item of an entity belongs to the application of that entity.
nav_item_visible(e) == allows_app(AppOf[e]) /\ allows(e, "list")

workspace_payload ==
  {Offer("navigation", Call("list", e, "none")) : e \in {x \in Entities : nav_item_visible(x)}}
  \cup {Offer("shortcut", Call("create", e, "none")) :
          e \in {x \in Entities : nav_item_visible(x) /\ allows(x, "create")}}
  \cup {Offer("navigation", Call("page", Subject, p)) :
          p \in {q \in DOMAIN Pages : page_allowed(q)}}
  \cup {Offer("reports", Call("report", Reports[r].entity, r)) :
          r \in {q \in DOMAIN Reports : allows_app(Reports[q].app)}}
  \cup {Offer("dashboards", Call("dashboard", Subject, a)) : a \in {b \in Apps : allows_app(b)}}

\* The calls that stand for the grants on an entity.
Granting == {<<"create", "create">>, <<"list", "list">>, <<"read", "get">>,
             <<"update", "update">>, <<"delete", "delete">>}

\* Of those calls, the ones on an entity that its grants allow.
OfEntity(via, calls, e) ==
  {Offer(via, Call(pair[2], e, "none")) : pair \in {q \in calls : allows(e, q[1])}}

OfEntities(via, calls) ==
  UNION {OfEntity(via, calls, e) : e \in {x \in Entities : allows_app(AppOf[x])}}

\* Mutant of meta_ui: the grants of an entity are shown whatever its application.
AllEntities == UNION {OfEntity("permissions", Granting, e) : e \in Entities}

\* The grants of an entity that meta_ui tells a client.
meta_ui == OfEntities("permissions", Granting)

\* A section shows an entity, a card of one or a report, and an action belongs to an
\* entity: for those who may list it.
section_allowed(p) ==
  LET of == Pages[p].of IN
  IF Pages[p].shows = "report"
    THEN allows_app(Reports[of].app) /\ allows(Reports[of].entity, "list")
    ELSE allows(of, "list")

section_shows(p) ==
  IF Pages[p].shows = "report"
    THEN Call("report", Reports[Pages[p].of].entity, Pages[p].of)
  ELSE IF Pages[p].shows = "action" THEN Call("execute", Pages[p].of, Pages[p].name)
  ELSE Call("list", Pages[p].of, "none")

visible_page ==
  {Offer("section", section_shows(p)) :
     p \in {q \in DOMAIN Pages : page_allowed(q) /\ section_allowed(q)}}

-----------------------------------------------------------------------------
(* What is offered to agents                                               *)

OfOperations(via) ==
  {Offer(via, Call("execute", Subject, op.name)) :
     op \in {o \in Operations : allows_app(AppOf[Subject]) /\ operation_allowed(o)}}

\* Tools of entities, and of operations, which may be reserved.
list_tools ==
  OfEntities("tool", Granting \cup ({"read"} \X {"activity", "comment", "attachments"}))
  \cup OfOperations("tool")

list_operations == OfEntities("operations", Granting) \cup OfOperations("operations")

-----------------------------------------------------------------------------
(* What is offered by a record that was got                                *)

\* Those that apply a transition are offered where it is to be had; cancelling where
\* some transition cancels.
available_for_record ==
  {op \in Operations :
     /\ operation_allowed(op)
     /\ workflow =>
          IF op.transition # "none" THEN apply(op.transition)
          ELSE op.name = "cancel" => \E t \in allowed_from : t.name \in Cancelling}

\* An action of the entity may be shown to a role, which the operation does not ask for.
attach_actions ==
  {Offer("action", Call("execute", Subject, op.name)) :
     op \in {o \in available_for_record : has_role(o.shown)}}
  \cup {Offer("action", Call("print", Subject, "none"))}

workflow_json ==
  {Offer("workflow", Call("transition", Subject, t.name)) :
     t \in {u \in allowed_from : workflow}}

attach_permissions ==
  {Offer("record", Call(a, Subject, "none")) :
     a \in {b \in {"update", "delete"} : allows(Subject, b)}}

\* Lists of what refers to the record.
attach_links ==
  {Offer("links", Call("list", e, "none")) : e \in {x \in Entities : allows(x, "list")}}

present ==
  IF get(Subject) THEN attach_actions \cup workflow_json \cup attach_permissions \cup attach_links
  ELSE {}

-----------------------------------------------------------------------------
Offered ==
  workspace_payload \cup meta_ui \cup visible_page \cup list_tools \cup list_operations \cup present

Grant(e, g) ==
  /\ granted' = [granted EXCEPT ![e] = g]
  /\ UNCHANGED <<admin, member, enabled, agents, workflow, status, filled>>
Enable(set) ==
  /\ enabled' = set
  /\ UNCHANGED <<admin, member, granted, agents, workflow, status, filled>>
Join(a, b) ==
  /\ admin' = a /\ member' = b
  /\ UNCHANGED <<enabled, granted, agents, workflow, status, filled>>
Configure(a, w) ==
  /\ agents' = a /\ workflow' = w
  /\ UNCHANGED <<admin, member, enabled, granted, status, filled>>
Change(s, f) ==
  /\ status' = s /\ filled' = f
  /\ UNCHANGED <<admin, member, enabled, granted, agents, workflow>>

Next ==
  \/ \E e \in Entities, g \in Grants : Grant(e, g)
  \/ \E set \in SUBSET Apps : Enable(set)
  \/ \E a, b \in BOOLEAN : Join(a, b) \/ Configure(a, b)
  \/ \E s \in States, f \in BOOLEAN : Change(s, f)

Spec == Init /\ [][Next]_vars

-----------------------------------------------------------------------------
\* The transitions that the handler of an operation tries.
Tried(op) ==
  IF op.handler = "applies" THEN {op.transition}
  ELSE IF op.handler = "cancels" THEN Cancelling ELSE {}
Withheld(names) == \E name \in names : \E t \in find_transition(name) : ~guard_allows(t)

\* A name that finds another transition than the one of that name: an earlier one that
\* leads to a state called so.
Shadowed(name) ==
  \E i \in Leaving : Transitions[i].name = name /\ Transitions[i] \notin find_transition(name)
\* What may keep the handler of an operation from what the offer has seen.
Hindered(op) ==
  \/ Withheld(Tried(op))
  \/ op.handler = "cancels" /\ \E name \in Cancelling : Shadowed(name)

\* What an offer leaves to the call: a transition may need update, what its guard
\* asks for, and what the operation that is found for it asks for; an action what the
\* guards ask for that its handler meets; links, reports and sections
\* are offered without a look at the application of the entity, reports without a
\* look at its grants as well; the action of a page is offered to those who may
\* list; and tools are listed for a tenant whose agents are switched off.
LeftToTheCall(o) ==
  \/ /\ o.via = "workflow"
     /\ \/ ~allows(Subject, "update")
        \/ Withheld({o.call.name}) \/ Shadowed(o.call.name)
        \/ \E op \in try_get(o.call.name) : op \notin available_for_record \/ Hindered(op)
  \/ o.via = "action" /\ ~workflow
  \/ o.via = "action" /\ \E op \in Operations : op.name = o.call.name /\ Hindered(op)
  \/ o.via \in {"links", "section", "reports"} /\ ~allows_app(AppOf[o.call.entity])
  \/ o.via = "reports" /\ ~allows(o.call.entity, "list")
  \/ o.via = "section" /\ o.call.to = "execute"
  \/ o.via = "tool" /\ (~agents \/ o.call.to = "execute")
  \/ o.via = "operations" /\ o.call.to = "execute"

\* What a user is offered is answered, by services that check everything once more,
\* except for what the offers leave to the call.
OfferedIsAnswered ==
  \A o \in Offered :
    \/ LeftToTheCall(o)
    \/ o.via # "tool" /\ Answered(o.call)
    \/ o.via = "tool" /\ invoke_tool(o.call)

\* An operation "cancel" without a transition is offered where a transition of its kind
\* leaves: not if its handler does something else, or finds one by the state it leads to.
CancelsOtherwise(op) ==
  /\ op.name = "cancel" /\ op.transition = "none"
  /\ op.handler = "cancels" => States \cap Cancelling # {}

\* What is done to a record by its transitions and operations, it has offered to those
\* who are shown it: a handler finds no transition that the offer has not found.
AnsweredIsOffered ==
  get(Subject) =>
    /\ \A op \in Operations :
         execute(op.name) => op \in available_for_record \/ CancelsOtherwise(op)
    /\ \A i \in Leaving :
         LET name == Transitions[i].name IN
         transition(name) =>
           \/ \E op \in try_get(name) : op \in available_for_record \/ CancelsOtherwise(op)
           \/ Offer("workflow", Call("transition", Subject, name)) \in present
           \/ Shadowed(name)

\* A guarded transition waits for what it asks for, unless an operation that is found for
\* it leaves it to its definition, or it is not the one that is made.
GuardsHold ==
  \A i \in Leaving :
    LET name == Transitions[i].name IN
    transition(name) /\ Transitions[i].guarded /\ ~filled =>
      \/ Shadowed(name)
      \/ \E op \in try_get(name) :
           op.handler = "neither" \/ \E other \in Tried(op) \ {name} : apply_transition(other)

OffersHold == OfferedIsAnswered /\ AnsweredIsOffered /\ GuardsHold
=============================================================================
