----------------------------- MODULE TenantApps -----------------------------
(***************************************************************************)
(* Which applications a tenant may use.  The row of tenant_settings holds  *)
(* the tenant's own list, its plan and its branding (which stands for all  *)
(* else in the row).  Whoever changes one of them reads the whole row,      *)
(* in the server through a cache, and writes the whole row back; requests   *)
(* are allowed what the list, the plan and the server's active applications *)
(* have in common, jobs what the list says.  In all of them an empty list   *)
(* stands for everything.                                                   *)
(*                                                                         *)
(* The server's cache expires after five seconds: Expire, at any time.      *)
(***************************************************************************)
EXTENDS Integers, FiniteSets

CONSTANTS
  Apps,
  Active,       \* the applications active in the server and in installed.json
  Plans, PlanApps,   \* PlanApps[p]: what plan p allows, {} for everything
  Requests,     \* requests of administrators, in the server
  Shells,       \* processes of the command line, each with a cache of its own
  MaxChanges

Processes == Requests \cup Shells

\* Some plan allows everything.
ChoicesAssumption ==
  /\ Active \subseteq Apps /\ MaxChanges \in Nat
  /\ \E p \in Plans : PlanApps[p] = {}

Config == [enabled : SUBSET Apps, plan : Plans, branding : 0..MaxChanges]

VARIABLES
  settings,     \* the row of the tenant
  cached,       \* the server's copy
  fresh,        \* the copy has not expired
  op,           \* op[p]: the change that p has under way
  changes,
  \* What the properties are about: the row as changes that run one after another
  \* leave it, the applications that the tenant has been given, whether two changes
  \* overlapped or one was made behind the server's copy, and whether the last application
  \* has been taken away.
  expected, wanted, raced, emptied

vars == <<settings, cached, fresh, op, changes, expected, wanted, raced, emptied>>

Kinds == {"apps", "branding", "tenant", "enable", "disable"}

TypeOK ==
  /\ settings \in Config /\ cached \in Config /\ fresh \in BOOLEAN
  /\ \A p \in Processes :
       op[p] \in [at : {"idle", "write"}, kind : Kinds, apps : SUBSET Apps, seen : Config]
  /\ changes \in 0..MaxChanges
  /\ expected \in Config /\ wanted \subseteq Apps
  /\ raced \in BOOLEAN /\ emptied \in BOOLEAN

\* A tenant without a row: everything, on the plan that allows everything.
Default == [enabled |-> {}, plan |-> CHOOSE p \in Plans : PlanApps[p] = {}, branding |-> 0]

Idle == [at |-> "idle", kind |-> "apps", apps |-> {}, seen |-> Default]

Init ==
  /\ settings = Default /\ cached = Default /\ fresh = FALSE
  /\ op = [p \in Processes |-> Idle]
  /\ changes = 0
  /\ expected = Default /\ wanted = Active
  /\ raced = FALSE /\ emptied = FALSE

-----------------------------------------------------------------------------
plan_allows(plan, a) == PlanApps[plan] = {} \/ a \in PlanApps[plan]

resolve_apps(enabled, plan) ==
  {a \in (IF enabled = {} THEN Active ELSE enabled) : a \in Active /\ plan_allows(plan, a)}

can_enable(a, plan) == a \in Active /\ plan_allows(plan, a)

\* The empty list allows every application.
allows_app(enabled) == IF enabled = {} THEN Apps ELSE enabled

\* What the copy in the server has, or the row, which is then copied; a process of the
\* command line has copied nothing yet.
get_config(p) == IF p \in Requests /\ fresh THEN cached ELSE settings

CacheAfterRead(p) ==
  IF p \in Requests /\ ~fresh THEN cached' = settings /\ fresh' = TRUE
  ELSE UNCHANGED <<cached, fresh>>

\* Every request begins with the configuration of its tenant.
Auth == resolve_apps(get_config(CHOOSE p \in Requests : TRUE).enabled,
                     get_config(CHOOSE p \in Requests : TRUE).plan)

\* A job of the tenant takes the list itself, and without a row, nothing.
JobApps == settings.enabled

Expire ==
  /\ fresh /\ fresh' = FALSE
  /\ UNCHANGED <<settings, cached, op, changes, expected, wanted, raced, emptied>>

-----------------------------------------------------------------------------
\* What a change makes of the configuration that it has read.
Edited(o, config) ==
  CASE o.kind = "apps" -> [config EXCEPT !.enabled = o.apps]
    [] o.kind = "branding" -> [config EXCEPT !.branding = (@ + 1) % (MaxChanges + 1)]
    [] o.kind = "tenant" -> o.seen
    [] o.kind = "enable" ->
         [config EXCEPT !.enabled = (IF @ = {} THEN Active ELSE @) \cup o.apps]
    [] o.kind = "disable" ->
         [config EXCEPT !.enabled = (IF @ = {} THEN Active ELSE @) \ o.apps]

Begin(p, kind, apps, seen) ==
  /\ op[p].at = "idle" /\ changes < MaxChanges
  /\ changes' = changes + 1
  /\ op' = [op EXCEPT ![p] = [at |-> "write", kind |-> kind, apps |-> apps, seen |-> seen]]
  /\ raced' = (raced \/ \E q \in Processes : op[q].at = "write")
  /\ UNCHANGED <<settings, expected, wanted, emptied>>

\* PATCH of the list: of applications that the plan of the copy allows.
patch_apps(p, apps) ==
  /\ p \in Requests
  /\ \A a \in apps : can_enable(a, get_config(p).plan)
  /\ Begin(p, "apps", apps, get_config(p))
  /\ CacheAfterRead(p)

patch_branding(p) ==
  /\ p \in Requests
  /\ Begin(p, "branding", {}, get_config(p))
  /\ CacheAfterRead(p)

\* PATCH of the tenant is the whole configuration, the plan and the list included, which
\* nothing checks.
patch_tenant(p, config) ==
  /\ p \in Requests
  /\ Begin(p, "tenant", {}, config)
  /\ CacheAfterRead(p)

\* qefro app enable-tenant and disable-tenant.
cmd_tenant_app(p, kind, a) ==
  /\ p \in Shells
  /\ a \in Active
  /\ kind = "enable" => can_enable(a, settings.plan)
  /\ Begin(p, kind, {a}, settings)
  /\ UNCHANGED <<cached, fresh>>

\* The applications that the tenant has been given, as the documentation counts them:
\* an empty list in a request is everything.
Given(o) ==
  CASE o.kind = "enable" -> wanted \cup o.apps
    [] o.kind = "disable" -> wanted \ o.apps
    [] o.kind = "branding" -> wanted
    [] OTHER -> LET list == Edited(o, o.seen).enabled IN IF list = {} THEN Active ELSE list

\* Mutant of upsert_config: the server keeps the copy that it has.
KeepsCopy(p) ==
  LET o == op[p] IN
  /\ o.at = "write"
  /\ settings' = Edited(o, o.seen)
  /\ op' = [op EXCEPT ![p] = Idle]
  /\ expected' = Edited(o, expected)
  /\ wanted' = Given(o)
  /\ emptied' = (emptied \/ Given(o) = {})
  /\ raced' = (raced \/ (p \in Shells /\ fresh))
  /\ UNCHANGED <<cached, fresh, changes>>

\* The row is written as a whole; the server drops its copy and reads the row again,
\* when it is the server that wrote it.
upsert_config(p) ==
  LET o == op[p] IN
  /\ o.at = "write"
  /\ settings' = Edited(o, o.seen)
  /\ IF p \in Requests THEN cached' = settings' /\ fresh' = TRUE ELSE UNCHANGED <<cached, fresh>>
  /\ op' = [op EXCEPT ![p] = Idle]
  /\ expected' = Edited(o, expected)
  /\ wanted' = Given(o)
  /\ emptied' = (emptied \/ Given(o) = {})
  /\ raced' = (raced \/ (p \in Shells /\ fresh))
  /\ UNCHANGED changes

Next ==
  \/ \E p \in Requests :
       \/ \E apps \in SUBSET Apps : patch_apps(p, apps)
       \/ patch_branding(p)
       \/ \E list \in SUBSET Apps, plan \in Plans :
            patch_tenant(p, [enabled |-> list, plan |-> plan, branding |-> 0])
  \/ \E p \in Shells, kind \in {"enable", "disable"}, a \in Apps : cmd_tenant_app(p, kind, a)
  \/ \E p \in Processes : upsert_config(p)
  \/ Expire

Spec == Init /\ [][Next]_vars

-----------------------------------------------------------------------------
Quiet == \A p \in Processes : op[p].at = "idle"

\* A change of one part of the row leaves the others as they were, and is not undone by
\* the next, when no two of them overlap and the command line does not write within
\* the lifetime of the server's copy.
ChangesKept == Quiet /\ ~raced => settings = expected

\* Requests are allowed the applications that the tenant has been given, are active and
\* in its plan, as long as there are any and the last one has not been taken away;
\* then they are allowed everything.
GivenIsAllowed ==
  Quiet /\ ~raced /\ ~emptied =>
    LET given == {a \in wanted \cap Active : plan_allows(settings.plan, a)} IN
    allows_app(Auth) = IF given = {} THEN Apps ELSE given

\* What requests may use, the jobs that they leave behind may use as well.
JobsMayFinish ==
  Quiet /\ ~raced /\ Auth # {} => Auth \subseteq allows_app(JobApps)

TenantAppsHold == ChangesKept /\ GivenIsAllowed /\ JobsMayFinish
=============================================================================
