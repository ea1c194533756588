\* Two clients and a worker over a synchronous operation with a transition and
\* an asynchronous one, with and without a key, and a crash.
SPECIFICATION FairSpec
CONSTANTS
  Runs = {r1, r2}
  Recs = {x1}
  SyncOps = {post}
  AsyncOps = {ship}
  MoveOps = {post}
  KeyedOps = {}
  Keys = {k1}
  NoKey = NoKey
  Clients = {c1, c2}
  Executors = {e1}
  None = None
  MaxTries = 2
  MaxCrashes = 1
  OneRunner = TRUE
\* Run ids are finite: the system stops when every one is settled.
CHECK_DEADLOCK FALSE
INVARIANTS
  EffectOncePerKey
PROPERTIES
  ImplementsContract
  EventuallyDone
