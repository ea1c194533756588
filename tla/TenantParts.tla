---------------------------- MODULE TenantParts ----------------------------
(***************************************************************************)
(* What a tenant's data are governed by, the parts that there are theorems  *)
(* about: its members and their sessions (Sessions), its grants             *)
(* (Permissions), its custom fields (CustomFields), the migrations of its   *)
(* apps (AppMigrations), unique fields and relations (References), its      *)
(* scheduled automations (Schedules), the applications of the server and    *)
(* those that it may use (Apps, TenantApps), the totals and child rows of   *)
(* documents (Documents), the rules of records (Rules), the slots of a      *)
(* calendar (Slots), and what users are offered (Offers).  They share no    *)
(* state: part says which one a behaviour of MCTenant is about.             *)
(***************************************************************************)
EXTENDS Integers, Sequences, FiniteSets

CONSTANTS
  Requests,                                \* requests in flight
  \* Sessions
  Users, Founders, MaxSessions, MaxChanges, Nobody,
  \* Permissions
  Roles, Entities, GrantActions, AnyEntity,
  \* CustomFields
  Types, NoType, UnknownType, Servers, Http, MaxVersion,
  \* AppMigrations
  Migrations, Destructive, SqlEditions, Clis, NoHolder,
  \* References
  Items, TargetRows, Codes, NoTarget, MaxRequests,
  \* Schedules
  Automations, CronOf, Minute, Ahead, ScanWorkers, Horizon,
  \* Apps; with TenantApps, the processes of the command line
  Builtin, Others, Catalog, Packages, Needs, Declares, Shells, InStudio, MaxCommands, MaxKills,
  \* TenantApps
  AppNames, Active, Plans, PlanApps, MaxEdits,
  \* Documents
  Docs, FirstDoc, Writes,
  \* Slots
  Day, Hours, Lengths, Buffers, Starts, Longest,
  \* Offers
  EntityNames, OwnApps, CommonApp, EntityApp, GrantSets, Subject, InitialState,
  Transitions, Operations, Pages, Reports,
  \* Rules
  FieldDefs, FieldEditions, RuleSets, StateField, FirstState, LockStates, StateMoves,
  CreateBodies, PatchBodies, Handled

VARIABLES
  part,
  \* Sessions
  account, member, session, req, changes, ended, excused,
  \* Permissions
  boot, replaced, overlay, published,
  \* CustomFields
  row, cache, fieldReq, changed, overlapped,
  \* AppMigrations
  record, effects, lock, cli,
  \* References
  soft, policy, rule, item, target, refReq, begun,
  \* Schedules
  now, scanPc, at, read, jobs, looked, gap,
  \* Apps
  installed, torn, store, server, cmd, count, kills, inTurn, crossed, lost, superseded,
  \* TenantApps
  settings, cached, fresh, op, edits, kept, wanted, crossing, emptied,
  \* Documents
  doc, rows, made, docPc, todo, patch, docBase, docSeen, docStored, held,
  heldRows,
  clash, raced, copied, left,
  \* Slots
  calendar, booked,
  \* Offers
  admin, staff, enabled, granted, agents, workflow, stage, filled,
  \* Rules
  edition, table, rules, rec, patching, outrun, unchecked, by, forced, wronged

M == INSTANCE Sessions
P == INSTANCE Permissions WITH Actions <- GrantActions, Any <- AnyEntity
C == INSTANCE CustomFields WITH
       Absent <- NoType, Unknown <- UnknownType, Processes <- Servers,
       req <- fieldReq, excused <- overlapped
A == INSTANCE AppMigrations WITH
       Editions <- SqlEditions, Processes <- Clis, Free <- NoHolder
R == INSTANCE References WITH Targets <- TargetRows, Null <- NoTarget, req <- refReq
E == INSTANCE Schedules WITH Workers <- ScanWorkers, pc <- scanPc
I == INSTANCE Apps WITH
       Studio <- InStudio,
       expected <- inTurn, raced <- crossed, replaced <- superseded
T == INSTANCE TenantApps WITH
       Apps <- AppNames, MaxChanges <- MaxEdits,
       changes <- edits, expected <- kept, raced <- crossing
D == INSTANCE Documents WITH
       First <- FirstDoc, Requests <- Writes,
       pc <- docPc, base <- docBase, seen <- docSeen, stored <- docStored
L == INSTANCE Slots WITH config <- calendar
O == INSTANCE Offers WITH
       Entities <- EntityNames, Apps <- OwnApps, Common <- CommonApp, AppOf <- EntityApp,
       Grants <- GrantSets, Initial <- InitialState, member <- staff, status <- stage
U == INSTANCE Rules WITH
       Def <- FieldDefs, Editions <- FieldEditions, Status <- StateField,
       Initial <- FirstState, Locking <- LockStates, Moves <- StateMoves,
       News <- CreateBodies, Patches <- PatchBodies, raced <- outrun

ASSUME MigrationsHold == A!MigrationsAssumption
ASSUME UsersHold == M!UsersAssumption
ASSUME FieldsAre == C!FieldsAssumption
ASSUME NullIsNone == R!NullAssumption
ASSUME SchedulesHold == E!ScheduleAssumption
ASSUME AppsAre == I!AppsAssumption
ASSUME ChoicesAre == T!ChoicesAssumption
ASSUME DocumentsAre == D!DocumentsAssumption
ASSUME SlotsAre == L!SlotsAssumption
ASSUME OffersAre == O!OffersAssumption
ASSUME RulesAre == U!RulesAssumption

-----------------------------------------------------------------------------
\* Members: the sessions of an excluded member never come back, and the tenant keeps an
\* administrator.
MembersHold == part = "members" => M!OldSessionsEnd /\ M!AdminStays
\* Grants: what Studio publishes is what is enforced.
PublishedIsEnforced == part = "grants" => P!PublishedIsEnforced
\* Fields: a stored custom field keeps a compatible type, unique values stay unique, and
\* relations refer to rows that are there.
FieldsHold ==
  /\ part = "fields" => C!TypeKept
  /\ R!UniqueKept /\ R!RefsKept
\* Scheduled automations: every minute of a schedule gets its job, and no other; slots: what
\* the calendar offers and what a booking is granted agree.
ScheduleKept ==
  /\ part = "schedules" => E!ScheduleKept
  /\ part = "slots" => L!SlotsAgree
\* Documents: totals are those of the columns and child rows, which go with their document.
DocumentsAddUp == D!TotalsAddUp /\ D!ChildrenGo
\* Applications: commands that do not overlap are kept, what is recorded is there, a
\* tenant may use what it was given, and each migration of an app takes effect exactly once.
AppsHold ==
  /\ part = "migrations" => A!MigrationsOnce
  /\ part = "apps" => I!AppsHold
  /\ part = "choices" => T!TenantAppsHold
\* Offers: what a user is offered is answered, what a record does it has offered, and
\* guarded transitions wait.
OffersHold == part = "offers" => O!OffersHold
\* Rules: a stored record satisfies the rules of its entity, and nobody is refused without
\* a reason.
RulesHold == part = "rules" => U!RulesHold
\* Applications: a server starts unless a command lost a directory or installed two
\* applications with the same entity.
StartsUnlessLost == I!StartsUnlessLost
=============================================================================
