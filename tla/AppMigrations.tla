--------------------------- MODULE AppMigrations ----------------------------
(***************************************************************************)
(* The migrations of an app, applied by command line processes that may run *)
(* side by side and may die (qefro-cli/src/app_cmd.rs,                      *)
(* qefro-db/src/app_registry.rs).  A process reads what is pending, then    *)
(* takes one migration after the other under a PostgreSQL advisory lock.    *)
(* The SQL of a migration is abstracted to its edition (its checksum) and   *)
(* to whether it succeeds.                                                  *)
(***************************************************************************)
EXTENDS Naturals, Sequences

CONSTANTS Migrations,   \* the migrations of the bundle, in order
          Destructive,  \* those whose SQL looks destructive
          Editions,     \* editions of a migration's SQL
          Processes,    \* command line processes
          Free          \* nobody holds the lock; nothing is recorded

VARIABLES record,   \* qefro_app_migrations: status and checksum by migration
          effects,  \* history: how often the SQL of a migration was committed
          lock,     \* holder of the advisory lock
          cli       \* the processes

migrationVars == <<record, effects, lock, cli>>

Ids == {Migrations[i] : i \in DOMAIN Migrations}

MigrationsAssumption ==
    Migrations \in Seq(Ids) /\ Free \notin Processes /\ Free # "applied"

NoRecord == [status |-> Free, checksum |-> Free]
Stopped == [pc |-> "idle", yes |-> FALSE, edition |-> Free, pending |-> {}, at |-> 1]

TypeOK ==
    /\ record \in [Ids -> [status : {Free, "applied", "failed"},
                           checksum : Editions \union {Free}]]
    /\ effects \in [Ids -> Nat]
    /\ lock \in Processes \union {Free}
    /\ cli \in [Processes ->
            [pc : {"idle", "next", "lock", "read", "run", "commit", "failed"},
             yes : BOOLEAN, edition : Editions \union {Free},
             pending : SUBSET Ids, at : 1..(Len(Migrations) + 1)]]

Init ==
    /\ record = [m \in Ids |-> NoRecord]
    /\ effects = [m \in Ids |-> 0]
    /\ lock = Free
    /\ cli = [p \in Processes |-> Stopped]

-----------------------------------------------------------------------------
Now(p) == Migrations[cli[p].at]
Goto(p, pc) == cli' = [cli EXCEPT ![p].pc = pc]
\* The next migration of the list; apply_migration unlocks on the way out.
Advance(p) == cli' = [cli EXCEPT ![p].pc = "next", ![p].at = @ + 1]
Stop(p) == cli' = [cli EXCEPT ![p] = Stopped]
Unlock(p) == lock' = IF lock = p THEN Free ELSE lock

\* apply_pending_migrations: those that are not recorded as applied.
Start(p, yes, e) ==
    /\ cli[p].pc = "idle"
    /\ cli' = [cli EXCEPT ![p] =
            [pc |-> "next", yes |-> yes, edition |-> e, at |-> 1,
             pending |-> {m \in Ids : record[m].status # "applied"}]]
    /\ UNCHANGED <<record, effects, lock>>

\* "skipping destructive migration ...; pass --yes".
Skips(p) == Now(p) \in Destructive /\ ~cli[p].yes

Take(p) ==
    /\ cli[p].pc = "next"
    /\ IF cli[p].at > Len(Migrations) THEN Stop(p)
       ELSE IF Now(p) \notin cli[p].pending \/ Skips(p) THEN Advance(p)
       ELSE Goto(p, "lock")
    /\ UNCHANGED <<record, effects, lock>>

Lock(p) ==
    /\ cli[p].pc = "lock" /\ lock = Free
    /\ lock' = p /\ Goto(p, "read")
    /\ UNCHANGED <<record, effects>>

\* Mutant of Applied: the list of pending migrations was read already.
AppliedNever(m) == FALSE
Applied(m) == record[m].status = "applied"

\* "failed previously with a different checksum; do not retry blindly".
Edited(p) ==
    /\ record[Now(p)].checksum # Free
    /\ record[Now(p)].checksum # cli[p].edition

\* Under the lock the record is read again.
Read(p) ==
    /\ cli[p].pc = "read"
    /\ IF Applied(Now(p)) THEN Advance(p) /\ Unlock(p)
       ELSE IF Edited(p) THEN Stop(p) /\ Unlock(p)
       ELSE Goto(p, "run") /\ UNCHANGED lock
    /\ UNCHANGED <<record, effects>>

\* The SQL succeeds, or fails and is rolled back.
Execute(p) ==
    /\ cli[p].pc = "run"
    /\ \E ok \in BOOLEAN : Goto(p, IF ok THEN "commit" ELSE "failed")
    /\ UNCHANGED <<record, effects, lock>>

Recorded(p, status) ==
    record' = [record EXCEPT ![Now(p)] = [status |-> status,
                                         checksum |-> cli[p].edition]]

\* The effects of the SQL and the record are one transaction.
Commit(p) ==
    /\ cli[p].pc = "commit"
    /\ Recorded(p, "applied")
    /\ effects' = [effects EXCEPT ![Now(p)] = @ + 1]
    /\ Advance(p) /\ Unlock(p)

\* record_migration_failure, and the process reports the error.
RecordFailure(p) ==
    /\ cli[p].pc = "failed"
    /\ Recorded(p, "failed")
    /\ Stop(p) /\ Unlock(p) /\ UNCHANGED effects

\* The process dies: its connection closes, its transaction is rolled back and
\* its advisory lock released.
Dies(p) ==
    /\ cli[p].pc # "idle"
    /\ Stop(p) /\ Unlock(p) /\ UNCHANGED <<record, effects>>

Next == \E p \in Processes :
    \/ \E yes \in BOOLEAN, e \in Editions : Start(p, yes, e)
    \/ Take(p) \/ Lock(p) \/ Read(p) \/ Execute(p) \/ Commit(p)
    \/ RecordFailure(p) \/ Dies(p)

Spec == Init /\ [][Next]_migrationVars

-----------------------------------------------------------------------------
(* The SQL of a migration takes effect exactly once over all the processes  *)
(* that ever run it: it is committed at most once, however many of them     *)
(* listed it as pending, and it is recorded as applied exactly when it was, *)
(* so that a failure or a crash is retried and a success never is.          *)
MigrationsOnce ==
    \A m \in Ids : effects[m] = IF record[m].status = "applied" THEN 1 ELSE 0
=============================================================================
