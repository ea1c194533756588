\* Two users, two sessions and three changes of members; three requests and two
\* documents; three requests on items and targets; two of each in the others.
SPECIFICATION Spec
CONSTANTS
  q1 = q1
  q2 = q2
  q3 = q3
  Requests = {q1, q2}
  \* ann is the first administrator, bob comes and goes.
  Users = {"ann", "bob"}
  Founders = {"ann"}
  MaxSessions = 2
  MaxChanges = 3
  Nobody = "nobody"
  Roles = {"staff", "hr"}
  Entities = {"Order", "Payment"}
  GrantActions = {"delete"}
  AnyEntity = "*"
  Types = {"text", "number"}
  NoType = "absent"
  UnknownType = "unknown"
  Servers = {"http", "worker"}
  Http = "http"
  MaxVersion = 2
  Migrations <- TwoMigrations
  Destructive = {"m2"}
  SqlEditions = {"v1", "v2"}
  Clis = {"p1", "p2"}
  NoHolder = "free"
  Items = {"i1", "i2"}
  TargetRows = {"t1"}
  Codes = {"a", "b"}
  NoTarget = "null"
  MaxRequests = 3
  Automations <- TwoAutomations
  CronOf <- MinutesOf
  \* A minute of two units.
  Minute = 2
  Ahead = 1
  ScanWorkers = {"w1", "w2"}
  Horizon = 8
  Builtin = {"crm"}
  Others = {"inv", "pos"}
  Catalog <- Directories
  Packages <- PackagesOfInv
  Needs <- PosNeedsInv
  Declares <- EntitiesOf
  Shells = {"c1"}
  InStudio = "studio"
  MaxCommands = 3
  MaxKills = 1
  \* One application is installed no more.
  AppNames = {"crm", "pos", "old"}
  Active = {"crm", "pos"}
  Plans = {"starter", "enterprise"}
  PlanApps <- SmallPlan
  MaxEdits = 2
  Docs = {"d1", "d2"}
  FirstDoc = "d1"
  Writes = {q1, q2, q3}
  \* A buffer of 4 is longer than a slot.
  Day = 16
  Hours <- WorkingHours
  Lengths = {2, 4}
  Buffers = {0, 2, 4}
  Starts <- BookingStarts
  Longest = 18
  EntityNames = {"order", "line"}
  OwnApps = {"sales", "pos"}
  CommonApp = "common"
  EntityApp <- EntityApps
  GrantSets <- Rights
  Subject = "order"
  InitialState = "draft"
  Transitions <- SubjectTransitions
  Operations <- SubjectOperations
  Pages <- UserPages
  Reports <- UserReports
  FieldDefs <- MCFieldDefs
  FieldEditions <- MCFieldEditions
  RuleSets <- MCRuleSets
  StateField = "state"
  FirstState = 100
  LockStates = {101}
  StateMoves <- MCMoves
  CreateBodies <- MCCreateBodies
  PatchBodies <- MCPatchBodies
  Handled <- HandlerValues
SYMMETRY Symmetry
\* Sessions stop when all of them are issued and have ended.
CHECK_DEADLOCK FALSE
INVARIANTS
  
  PublishedIsEnforced
  FieldsHold
  DocumentsAddUp
  ScheduleKept
  
  OffersHold
  RulesHold
  FormulasOrdered
PROPERTIES
  StartsUnlessLost
