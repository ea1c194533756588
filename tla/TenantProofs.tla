----------------------------- MODULE TenantProofs -----------------------------
(***************************************************************************)
(* Proofs about the parts of a tenant, one section for each.  A theorem is  *)
(* about the specification of its part, for any values of the constants; in *)
(* MCTenant each behaviour of the composition is a behaviour of every part. *)
(***************************************************************************)
EXTENDS TenantParts, FunctionTheorems, FiniteSetTheorems, WellFoundedInduction, TLAPS

-----------------------------------------------------------------------------

(* Grants (Permissions). *)

\* The overlay of a published entity is the last matrix published for it.
GrantsOverlayInv ==
    \A r \in Roles, t \in P!Targets :
        overlay[r][t] = IF t \in replaced THEN published[t][r] ELSE {}

GrantsIInv == P!TypeOK /\ GrantsOverlayInv

-----------------------------------------------------------------------------
\* The invariant holds at first.
LEMMA GrantsInitStep == P!Init => GrantsIInv
    <1> SUFFICES ASSUME P!Init PROVE GrantsIInv
        OBVIOUS
    <1>1. P!TypeOK
        BY DEF P!Init, P!TypeOK, P!NoGrants, P!Grants
    <1>2. GrantsOverlayInv
        BY DEF P!Init, GrantsOverlayInv, P!NoGrants
    <1> QED
        BY <1>1, <1>2 DEF GrantsIInv

\* Grant preserves the invariant.
LEMMA GrantsGrantStep ==
    ASSUME GrantsIInv, NEW r \in Roles, NEW t \in P!Targets, NEW as \in SUBSET GrantActions,
           P!Grant(r, t, as)
    PROVE  GrantsIInv'
    <1>1. boot' \in P!Grants
        <2> DEFINE g == [boot[r] EXCEPT ![t] = @ \union as]
        <2>1. boot \in P!Grants
            BY DEF GrantsIInv, P!TypeOK
        <2>2. g \in [P!Targets -> SUBSET GrantActions]
            BY <2>1 DEF P!Grants
        <2>3. boot' = [boot EXCEPT ![r] = g]
            BY <2>1 DEF P!Grant, P!Grants
        <2> HIDE DEF g
        <2> QED
            BY <2>1, <2>2, <2>3 DEF P!Grants
    <1> QED
        BY <1>1 DEF GrantsIInv, P!TypeOK, GrantsOverlayInv, P!Grant

\* What the overlay holds of an entity once it has been published.
LEMMA GrantsPublishedRow ==
    ASSUME GrantsIInv, NEW t \in P!Targets, NEW matrix \in P!Matrix, P!Publish(t, matrix),
           NEW r \in Roles, NEW u \in P!Targets
    PROVE  /\ overlay'[r][u] = IF u = t THEN matrix[r] ELSE overlay[r][u]
           /\ overlay'[r] \in [P!Targets -> SUBSET GrantActions]
    <1> DEFINE c == [overlay[r] EXCEPT ![t] = {}]
    <1>1. overlay[r] \in [P!Targets -> SUBSET GrantActions] /\ matrix[r] \in SUBSET GrantActions
        BY DEF GrantsIInv, P!TypeOK, P!Grants, P!Matrix
    <1>2. c \in [P!Targets -> SUBSET GrantActions] /\ c[t] = {}
          /\ (u # t => c[u] = overlay[r][u])
        BY <1>1
    <1>3. overlay'[r] = [c EXCEPT ![t] = @ \union matrix[r]]
        BY DEF P!Publish, P!Cleared
    <1> HIDE DEF c
    <1> QED
        BY <1>1, <1>2, <1>3

\* Publish preserves the invariant.
LEMMA GrantsPublishStep ==
    ASSUME GrantsIInv, NEW t \in P!Targets, NEW matrix \in P!Matrix, P!Publish(t, matrix)
    PROVE  GrantsIInv'
    <1>1. P!TypeOK'
        <2>1. DOMAIN overlay' = Roles /\ overlay' = [r \in Roles |-> overlay'[r]]
            BY DEF P!Publish
        <2>2. overlay' \in P!Grants
            BY <2>1, GrantsPublishedRow DEF P!Grants
        <2>3. replaced' \subseteq P!Targets /\ boot' \in P!Grants
            BY DEF GrantsIInv, P!TypeOK, P!Publish
        <2>4. DOMAIN published' = replaced' /\ \A u \in replaced' : published'[u] \in P!Matrix
            BY DEF GrantsIInv, P!TypeOK, P!Publish
        <2> QED
            BY <2>2, <2>3, <2>4 DEF P!TypeOK
    <1>2. GrantsOverlayInv'
        <2> SUFFICES ASSUME NEW r \in Roles, NEW u \in P!Targets
                     PROVE overlay'[r][u] = IF u \in replaced' THEN published'[u][r] ELSE {}
            BY DEF GrantsOverlayInv
        <2>1. overlay'[r][u] = IF u = t THEN matrix[r] ELSE overlay[r][u]
            BY GrantsPublishedRow
        <2>2. overlay[r][u] = IF u \in replaced THEN published[u][r] ELSE {}
            BY DEF GrantsIInv, GrantsOverlayInv
        <2>3. replaced' = replaced \union {t}
              /\ \A v \in replaced' : published'[v] = IF v = t THEN matrix ELSE published[v]
            BY DEF P!Publish
        <2> QED
            BY <2>1, <2>2, <2>3
    <1> QED
        BY <1>1, <1>2 DEF GrantsIInv

\* Restart preserves the invariant.
LEMMA GrantsRestartStep ==
    ASSUME GrantsIInv, P!Restart
    PROVE  GrantsIInv'
    BY DEF GrantsIInv, P!TypeOK, GrantsOverlayInv, P!Restart, P!NoGrants, P!Grants

\* Every step preserves the invariant.
LEMMA GrantsNextStep == GrantsIInv /\ [P!Next]_(P!permissionVars) => GrantsIInv'
    <1> SUFFICES ASSUME GrantsIInv, [P!Next]_(P!permissionVars) PROVE GrantsIInv'
        OBVIOUS
    <1>1. CASE P!Next
        BY <1>1, GrantsGrantStep, GrantsPublishStep, GrantsRestartStep DEF P!Next
    <1>2. CASE UNCHANGED P!permissionVars
        BY <1>2 DEF P!permissionVars, GrantsIInv, P!TypeOK, GrantsOverlayInv
    <1> QED
        BY <1>1, <1>2

\* What the overlay holds decides what a request meets.
LEMMA GrantsDecide == GrantsIInv => P!PublishedIsEnforced
    <1> SUFFICES ASSUME GrantsIInv, NEW r \in Roles, NEW e \in Entities, NEW a \in GrantActions
                 PROVE
                   LET star == IF AnyEntity \in replaced THEN published[AnyEntity][r] ELSE {} IN
                   /\ P!Allows(r, e, a) <=>
                        IF e \in replaced THEN a \in published[e][r] \union star
                        ELSE a \in boot[r][e] \union boot[r][AnyEntity]
                   /\ a \in P!Shown(r, e) => P!Allows(r, e, a)
        BY DEF P!PublishedIsEnforced
    <1>1. e \in P!Targets /\ AnyEntity \in P!Targets
        BY DEF P!Targets
    <1>2. overlay[r][e] = (IF e \in replaced THEN published[e][r] ELSE {})
          /\ overlay[r][AnyEntity] =
               (IF AnyEntity \in replaced THEN published[AnyEntity][r] ELSE {})
        BY <1>1 DEF GrantsIInv, GrantsOverlayInv
    <1>3. CASE e \in replaced
        BY <1>2, <1>3 DEF P!Allows, P!Granted, P!Shown
    <1>4. CASE e \notin replaced
        BY <1>4 DEF P!Allows, P!Granted, P!Shown
    <1> QED
        BY <1>3, <1>4

(* The matrices, the overlay and what was published keep their types.       *)
THEOREM GrantsTypeCorrect == P!Spec => []P!TypeOK
    <1>1. P!Init => GrantsIInv
        BY GrantsInitStep
    <1>2. GrantsIInv /\ [P!Next]_(P!permissionVars) => GrantsIInv'
        BY GrantsNextStep
    <1>3. GrantsIInv => P!TypeOK
        BY DEF GrantsIInv
    <1> QED
        BY <1>1, <1>2, <1>3, PTL DEF P!Spec

(* For any roles, entities and actions, after any sequence of publications  *)
(* and restarts: a request meets exactly what was published last for its    *)
(* entity, or what the apps granted when nothing was.                       *)
THEOREM GrantsEnforced == P!Spec => []PublishedIsEnforced
    <1>1. P!Init => GrantsIInv
        BY GrantsInitStep
    <1>2. GrantsIInv /\ [P!Next]_(P!permissionVars) => GrantsIInv'
        BY GrantsNextStep
    <1>3. GrantsIInv => PublishedIsEnforced
        BY GrantsDecide DEF PublishedIsEnforced
    <1> QED
        BY <1>1, <1>2, <1>3, PTL DEF P!Spec

-----------------------------------------------------------------------------
(* Migrations of apps (AppMigrations). *)

MigrationCli == [pc : {"idle", "next", "lock", "read", "run", "commit", "failed"},
        yes : BOOLEAN, edition : SqlEditions \union {NoHolder},
        pending : SUBSET A!Ids, at : 1..(Len(Migrations) + 1)]

\* A process inside the critical section holds the lock.
MigrationLockInv ==
    \A p \in Clis : cli[p].pc \in {"read", "run", "commit", "failed"} => lock = p

\* A process that is past Take is at a migration of the list.
MigrationAtInv ==
    \A p \in Clis :
        cli[p].pc \in {"lock", "read", "run", "commit", "failed"} =>
            cli[p].at \in 1..Len(Migrations)

\* What it has read under the lock: the migration has not been applied.
MigrationFreshInv ==
    \A p \in Clis :
        cli[p].pc \in {"run", "commit", "failed"} => record[A!Now(p)].status # "applied"

MigrationIInv ==
    /\ A!TypeOK /\ MigrationLockInv /\ MigrationAtInv /\ MigrationFreshInv
    /\ A!MigrationsOnce

\* One process at a time is between Lock and its unlocking.
LEMMA MigrationAlone ==
    ASSUME MigrationLockInv, NEW p \in Clis, NEW q \in Clis,
           cli[p].pc \in {"read", "run", "commit", "failed"},
           cli[q].pc \in {"read", "run", "commit", "failed"}
    PROVE  p = q
    BY DEF MigrationLockInv

\* The migration of a process is one of the bundle.
LEMMA MigrationNowIsId ==
    ASSUME A!MigrationsAssumption, MigrationAtInv, NEW p \in Clis,
           cli[p].pc \in {"lock", "read", "run", "commit", "failed"}
    PROVE  A!Now(p) \in A!Ids
    BY DEF A!MigrationsAssumption, MigrationAtInv, A!Now, A!Ids

\* The invariant holds at first.
LEMMA MigrationInitStep ==
    ASSUME A!MigrationsAssumption, A!Init PROVE MigrationIInv
    <1>1. Len(Migrations) \in Nat
        BY DEF A!MigrationsAssumption
    <1>2. A!TypeOK
        BY <1>1 DEF A!Init, A!TypeOK, A!NoRecord, A!Stopped
    <1>3. MigrationLockInv /\ MigrationAtInv /\ MigrationFreshInv
        BY DEF A!Init, MigrationLockInv, MigrationAtInv, MigrationFreshInv, A!Stopped
    <1>4. A!MigrationsOnce
        BY DEF A!Init, A!MigrationsOnce, A!NoRecord, A!MigrationsAssumption
    <1> QED
        BY <1>2, <1>3, <1>4 DEF MigrationIInv

\* A step of p that changes neither the records nor the effects: what p does
\* next agrees with its lock and with the record of its migration.
LEMMA MigrationQuietStep ==
    ASSUME A!MigrationsAssumption, MigrationIInv, NEW p \in Clis,
           record' = record, effects' = effects,
           lock' = lock \/ (lock' = p /\ lock = NoHolder) \/ (lock' = NoHolder /\ lock = p),
           cli'[p] \in MigrationCli, cli' = [cli EXCEPT ![p] = cli'[p]],
           cli'[p].pc \in {"read", "run", "commit", "failed"} => lock' = p,
           cli'[p].pc \in {"lock", "read", "run", "commit", "failed"} =>
               cli'[p].at \in 1..Len(Migrations),
           cli'[p].pc \in {"run", "commit", "failed"} =>
               record[Migrations[cli'[p].at]].status # "applied"
    PROVE  MigrationIInv'
    <1>1. \A q \in Clis : q # p => cli'[q] = cli[q]
        BY DEF MigrationIInv, A!TypeOK
    <1>2. A!TypeOK'
        BY DEF MigrationIInv, A!TypeOK, MigrationCli
    <1>3. MigrationLockInv'
        BY <1>1 DEF MigrationIInv, MigrationLockInv, A!MigrationsAssumption
    <1>4. MigrationAtInv'
        BY <1>1 DEF MigrationIInv, MigrationAtInv
    <1>5. MigrationFreshInv'
        BY <1>1 DEF MigrationIInv, MigrationFreshInv, A!Now
    <1>6. A!MigrationsOnce'
        BY DEF MigrationIInv, A!MigrationsOnce
    <1> QED
        BY <1>2, <1>3, <1>4, <1>5, <1>6 DEF MigrationIInv

\* The place a process goes to, with everything else it knows.
LEMMA MigrationGotoIs ==
    ASSUME MigrationIInv, NEW p \in Clis,
           NEW pc \in {"next", "lock", "read", "run", "commit", "failed"}, A!Goto(p, pc)
    PROVE  /\ cli'[p] \in MigrationCli /\ cli' = [cli EXCEPT ![p] = cli'[p]]
           /\ cli'[p].pc = pc /\ cli'[p].at = cli[p].at
    BY DEF MigrationIInv, A!TypeOK, MigrationCli, A!Goto

\* The next migration of the list.
LEMMA MigrationAdvanceIs ==
    ASSUME A!MigrationsAssumption, MigrationIInv, NEW p \in Clis, A!Advance(p),
           cli[p].at \in 1..Len(Migrations)
    PROVE  cli'[p] \in MigrationCli /\ cli' = [cli EXCEPT ![p] = cli'[p]] /\ cli'[p].pc = "next"
    BY DEF MigrationIInv, A!TypeOK, MigrationCli, A!Advance, A!MigrationsAssumption

\* A deployment that stops is idle again.
LEMMA MigrationStopIs ==
    ASSUME A!MigrationsAssumption, MigrationIInv, NEW p \in Clis, A!Stop(p)
    PROVE  cli'[p] \in MigrationCli /\ cli' = [cli EXCEPT ![p] = cli'[p]] /\ cli'[p].pc = "idle"
    BY DEF MigrationIInv, A!TypeOK, MigrationCli, A!Stop, A!Stopped, A!MigrationsAssumption

\* Start preserves the invariant.
LEMMA MigrationStartStep ==
    ASSUME A!MigrationsAssumption, MigrationIInv, NEW p \in Clis, NEW yes \in BOOLEAN,
           NEW e \in SqlEditions, A!Start(p, yes, e)
    PROVE  MigrationIInv'
    <1>1. cli'[p] \in MigrationCli /\ cli' = [cli EXCEPT ![p] = cli'[p]] /\ cli'[p].pc = "next"
        BY DEF MigrationIInv, A!TypeOK, MigrationCli, A!Start, A!MigrationsAssumption
    <1> QED
        BY <1>1, MigrationQuietStep DEF A!Start

\* Take preserves the invariant.
LEMMA MigrationTakeStep ==
    ASSUME A!MigrationsAssumption, MigrationIInv, NEW p \in Clis, A!Take(p)
    PROVE  MigrationIInv'
    <1>1. CASE cli[p].at > Len(Migrations)
        BY <1>1, MigrationStopIs, MigrationQuietStep DEF A!Take
    <1>2. CASE cli[p].at <= Len(Migrations)
        <2>1. cli[p].at \in 1..Len(Migrations)
            BY <1>2 DEF MigrationIInv, A!TypeOK, A!MigrationsAssumption
        <2>2. CASE A!Now(p) \notin cli[p].pending \/ A!Skips(p)
            <3>1. A!Advance(p) /\ UNCHANGED <<record, effects, lock>>
                <4>1. ~(cli[p].at > Len(Migrations))
                    BY <2>1 DEF A!MigrationsAssumption
                <4> QED
                    BY <2>2, <4>1 DEF A!Take
            <3>2. cli'[p] \in MigrationCli /\ cli' = [cli EXCEPT ![p] = cli'[p]] /\ cli'[p].pc = "next"
                BY <2>1, <3>1, MigrationAdvanceIs
            <3> QED
                BY <3>1, <3>2, MigrationQuietStep
        <2>3. CASE ~(A!Now(p) \notin cli[p].pending \/ A!Skips(p))
            <3>1. A!Goto(p, "lock") /\ UNCHANGED <<record, effects, lock>>
                <4>1. ~(cli[p].at > Len(Migrations))
                    BY <2>1 DEF A!MigrationsAssumption
                <4> QED
                    BY <2>3, <4>1 DEF A!Take
            <3>2. /\ cli'[p] \in MigrationCli /\ cli' = [cli EXCEPT ![p] = cli'[p]]
                  /\ cli'[p].pc = "lock" /\ cli'[p].at = cli[p].at
                BY <3>1, MigrationGotoIs
            <3> QED
                BY <2>1, <3>1, <3>2, MigrationQuietStep
        <2> QED
            BY <2>2, <2>3
    <1> QED
        BY <1>1, <1>2 DEF MigrationIInv, A!TypeOK, A!MigrationsAssumption

\* Lock preserves the invariant.
LEMMA MigrationLockStep ==
    ASSUME A!MigrationsAssumption, MigrationIInv, NEW p \in Clis, A!Lock(p)
    PROVE  MigrationIInv'
    <1>1. cli[p].at \in 1..Len(Migrations)
        BY DEF MigrationIInv, MigrationAtInv, A!Lock
    <1> QED
        BY <1>1, MigrationGotoIs, MigrationQuietStep DEF A!Lock

\* Reading the record of the migration, under the lock: whoever finds none may execute.
LEMMA MigrationReadStep ==
    ASSUME A!MigrationsAssumption, MigrationIInv, NEW p \in Clis, A!Read(p)
    PROVE  MigrationIInv'
    <1>1. cli[p].at \in 1..Len(Migrations) /\ lock = p
        BY DEF MigrationIInv, MigrationAtInv, MigrationLockInv, A!Read
    <1>2. CASE A!Applied(A!Now(p))
        BY <1>1, <1>2, MigrationAdvanceIs, MigrationQuietStep DEF A!Read, A!Unlock
    <1>3. CASE ~A!Applied(A!Now(p)) /\ A!Edited(p)
        BY <1>1, <1>3, MigrationStopIs, MigrationQuietStep DEF A!Read, A!Unlock
    <1>4. CASE ~A!Applied(A!Now(p)) /\ ~A!Edited(p)
        <2>1. record[Migrations[cli[p].at]].status # "applied"
            BY <1>4 DEF A!Applied, A!Now
        <2> QED
            BY <1>1, <1>4, <2>1, MigrationGotoIs, MigrationQuietStep DEF A!Read
    <1> QED
        BY <1>2, <1>3, <1>4

\* The statements take effect in the transaction that will record them.
LEMMA MigrationExecuteStep ==
    ASSUME A!MigrationsAssumption, MigrationIInv, NEW p \in Clis, A!Execute(p)
    PROVE  MigrationIInv'
    <1>1. cli[p].at \in 1..Len(Migrations) /\ lock = p
        BY DEF MigrationIInv, MigrationAtInv, MigrationLockInv, A!Execute
    <1>2. record[Migrations[cli[p].at]].status # "applied"
        BY DEF MigrationIInv, MigrationFreshInv, A!Execute, A!Now
    <1>3. PICK pc \in {"commit", "failed"} : A!Goto(p, pc)
        BY DEF A!Execute
    <1> QED
        BY <1>1, <1>2, <1>3, MigrationGotoIs, MigrationQuietStep DEF A!Execute

\* A death gives up the transaction and the lock.
LEMMA MigrationDiesStep ==
    ASSUME A!MigrationsAssumption, MigrationIInv, NEW p \in Clis, A!Dies(p)
    PROVE  MigrationIInv'
    BY MigrationStopIs, MigrationQuietStep DEF A!Dies, A!Unlock

\* A step of p that records a status of its migration and unlocks: the others are
\* outside of the critical section, so nothing they know is about it.
LEMMA MigrationRecordStep ==
    ASSUME A!MigrationsAssumption, MigrationIInv, NEW p \in Clis,
           cli[p].pc \in {"commit", "failed"}, lock' = NoHolder,
           cli'[p] \in MigrationCli, cli' = [cli EXCEPT ![p] = cli'[p]],
           cli'[p].pc \in {"idle", "next"},
           NEW status \in {"applied", "failed"}, A!Recorded(p, status),
           effects' = [effects EXCEPT ![A!Now(p)] = @ + (IF status = "applied" THEN 1 ELSE 0)]
    PROVE  MigrationIInv'
    <1>1. \A q \in Clis : q # p => cli'[q] = cli[q]
        BY DEF MigrationIInv, A!TypeOK
    <1>2. A!Now(p) \in A!Ids /\ record[A!Now(p)].status # "applied"
        BY MigrationNowIsId DEF MigrationIInv, MigrationFreshInv
    <1>3. \A q \in Clis : cli'[q].pc \notin {"read", "run", "commit", "failed"}
        BY <1>1, MigrationAlone DEF MigrationIInv
    <1>4. A!TypeOK'
        <2>1. record' \in [A!Ids -> [status : {NoHolder, "applied", "failed"},
                                   checksum : SqlEditions \union {NoHolder}]]
            BY <1>2 DEF MigrationIInv, A!TypeOK, A!Recorded
        <2>2. effects' \in [A!Ids -> Nat]
            BY <1>2 DEF MigrationIInv, A!TypeOK
        <2>3. cli' \in [Clis -> MigrationCli]
            BY DEF MigrationIInv, A!TypeOK, MigrationCli
        <2> QED
            BY <2>1, <2>2, <2>3 DEF A!TypeOK, MigrationCli
    <1>5. MigrationLockInv' /\ MigrationFreshInv'
        BY <1>3 DEF MigrationLockInv, MigrationFreshInv
    <1>6. MigrationAtInv'
        BY <1>1 DEF MigrationIInv, MigrationAtInv
    <1>7. A!MigrationsOnce'
        BY <1>2 DEF MigrationIInv, A!TypeOK, A!MigrationsOnce, A!Recorded
    <1> QED
        BY <1>4, <1>5, <1>6, <1>7 DEF MigrationIInv

\* The effect and its record come together.
LEMMA MigrationCommitStep ==
    ASSUME A!MigrationsAssumption, MigrationIInv, NEW p \in Clis, A!Commit(p)
    PROVE  MigrationIInv'
    <1>1. cli[p].at \in 1..Len(Migrations) /\ lock = p
        BY DEF MigrationIInv, MigrationAtInv, MigrationLockInv, A!Commit
    <1> QED
        BY <1>1, MigrationAdvanceIs, MigrationRecordStep DEF A!Commit, A!Unlock

\* RecordFailure preserves the invariant.
LEMMA MigrationRecordFailureStep ==
    ASSUME A!MigrationsAssumption, MigrationIInv, NEW p \in Clis, A!RecordFailure(p)
    PROVE  MigrationIInv'
    <1>1. lock = p
        BY DEF MigrationIInv, MigrationLockInv, A!RecordFailure
    <1>2. effects' = [effects EXCEPT ![A!Now(p)] = @ + 0]
        BY MigrationNowIsId DEF MigrationIInv, A!TypeOK, A!RecordFailure
    <1> QED
        BY <1>1, <1>2, MigrationStopIs, MigrationRecordStep DEF A!RecordFailure, A!Unlock

\* Every step preserves the invariant.
LEMMA MigrationNextStep ==
    ASSUME A!MigrationsAssumption, MigrationIInv, [A!Next]_(A!migrationVars)
    PROVE  MigrationIInv'
    <1>1. CASE A!Next
        BY <1>1, MigrationStartStep, MigrationTakeStep, MigrationLockStep, MigrationReadStep,
          MigrationExecuteStep, MigrationCommitStep,
           MigrationRecordFailureStep, MigrationDiesStep DEF A!Next
    <1>2. CASE UNCHANGED A!migrationVars
        BY <1>2 DEF A!migrationVars, MigrationIInv, A!TypeOK, MigrationLockInv, MigrationAtInv,
          MigrationFreshInv, A!MigrationsOnce, A!Now
    <1> QED
        BY <1>1, <1>2

(* The records, the lock and the processes keep their types.                *)
THEOREM MigrationTypeCorrect == A!Spec => []A!TypeOK
    <1>1. A!Init => MigrationIInv
        BY MigrationsHold, MigrationInitStep
    <1>2. MigrationIInv /\ [A!Next]_(A!migrationVars) => MigrationIInv'
        BY MigrationsHold, MigrationNextStep
    <1>3. MigrationIInv => A!TypeOK
        BY DEF MigrationIInv
    <1> QED
        BY <1>1, <1>2, <1>3, PTL DEF A!Spec

(* However many processes apply a bundle of whatever length and die at any  *)
(* point, the SQL of a migration is committed exactly as often as it is     *)
(* recorded as applied: never twice, and never without its record.          *)
THEOREM MigratedOnce == A!Spec => []A!MigrationsOnce
    <1>1. A!Init => MigrationIInv
        BY MigrationsHold, MigrationInitStep
    <1>2. MigrationIInv /\ [A!Next]_(A!migrationVars) => MigrationIInv'
        BY MigrationsHold, MigrationNextStep
    <1>3. MigrationIInv => A!MigrationsOnce
        BY DEF MigrationIInv
    <1> QED
        BY <1>1, <1>2, <1>3, PTL DEF A!Spec

-----------------------------------------------------------------------------
(* Sessions and members (Sessions). *)

\* A session that a disable or a removal has ended stays revoked; the sessions that such a
\* request has still to revoke are the target's.
MemberEndedInv ==
  /\ \A s \in ended : session[s].user # Nobody /\ session[s].revoked
  /\ \A r \in Requests :
       /\ ~req[r].late
       /\ \A s \in req[r].old : session[s].user = req[r].target /\ req[r].target # Nobody

\* Whoever was accepted as an administrator still is one: what could have changed that
\* overlapped with his request.
MemberAdmin(u) == M!May(u) /\ member[u].admin
MemberAdminInv ==
  \/ excused
  \/ /\ \E u \in Users : MemberAdmin(u)
     /\ \A r \in Requests :
          req[r].kind \in M!Administers /\ req[r].pc = "accepted" => MemberAdmin(req[r].user)

\* Members have accounts; an account under creation is no member, and its creator's own.
MemberEnrollInv ==
  /\ \A u \in Users : member[u].here => u \in account
  /\ \A r \in Requests : req[r].pc = "enroll" =>
       /\ req[r].target \in account /\ ~member[req[r].target].here
       /\ \A q \in Requests \ {r} : req[q].pc = "enroll" => req[q].target # req[r].target

\* Users of requests; what a request that administers is about.
MemberRequestInv ==
  \A r \in Requests :
    /\ req[r].pc \notin {"idle"} => req[r].user \in Users
    /\ req[r].kind \in M!Administers /\ req[r].pc # "idle" => req[r].target \in Users
    /\ req[r].pc \in {"enroll", "revoke"} => req[r].kind \in M!Administers

MemberIInv == M!TypeOK /\ MemberEndedInv /\ MemberAdminInv /\ MemberEnrollInv /\ MemberRequestInv


\* A request, a session and a membership.
MemberRequest == [kind : M!Kinds, user : Users \union {Nobody}, sid : {0} \union M!Sids,
            pc : {"idle", "issue", "member", "accepted", "tenant", "enroll", "revoke", "done"},
            target : Users \union {Nobody}, old : SUBSET M!Sids, late : BOOLEAN]
MemberToken == [user : Users \union {Nobody}, revoked : BOOLEAN, expired : BOOLEAN]
MemberMembership == [here : BOOLEAN, enabled : BOOLEAN, admin : BOOLEAN]

\* The type of the state, in these words.
LEMMA MemberTyped ==
  M!TypeOK <=> /\ account \subseteq Users /\ member \in [Users -> MemberMembership]
               /\ session \in [M!Sids -> MemberToken] /\ req \in [Requests -> MemberRequest]
               /\ changes \in 0..MaxChanges /\ ended \subseteq M!Sids /\ excused \in BOOLEAN
  BY DEF M!TypeOK, MemberRequest, MemberToken, MemberMembership

\* The same in the next state.
LEMMA MemberTypedNext ==
  ASSUME account' \subseteq Users, member' \in [Users -> MemberMembership],
         session' \in [M!Sids -> MemberToken], req' \in [Requests -> MemberRequest],
         changes' \in 0..MaxChanges, ended' \subseteq M!Sids, excused' \in BOOLEAN
  PROVE  M!TypeOK'
  BY DEF M!TypeOK, MemberRequest, MemberToken, MemberMembership

\* A request that has ended.
LEMMA MemberIdleRequest == /\ M!Idle \in MemberRequest /\ ~M!Idle.late /\ M!Idle.old = {} /\ M!Idle.pc = "idle"
                           /\ M!Idle.kind = "login"
  BY DEF M!Idle, MemberRequest, M!Kinds

\* The invariant holds at first.
LEMMA MemberInitStep == M!Init => MemberIInv
  <1> SUFFICES ASSUME M!Init PROVE MemberIInv
    OBVIOUS
  <1>1. M!TypeOK
    <2>0. account \subseteq Users /\ ended \subseteq M!Sids /\ excused \in BOOLEAN
      BY UsersHold DEF M!Init, M!UsersAssumption
    <2>1. changes \in 0..MaxChanges
      BY UsersHold DEF M!Init, M!UsersAssumption
    <2>2. M!Unissued \in MemberToken /\ M!Outsider \in MemberMembership /\ M!Enrolled(TRUE) \in MemberMembership
      BY DEF M!Unissued, MemberToken, M!Outsider, M!Enrolled, MemberMembership
    <2>3. member \in [Users -> MemberMembership] /\ session \in [M!Sids -> MemberToken]
      BY <2>2 DEF M!Init
    <2>4. req \in [Requests -> MemberRequest]
      BY MemberIdleRequest DEF M!Init
    <2> QED
      BY <2>0, <2>1, <2>3, <2>4, MemberTyped
  <1>2. MemberEndedInv
    BY DEF M!Init, MemberEndedInv, M!Idle
  <1>3. MemberAdminInv
    BY UsersHold DEF M!Init, MemberAdminInv, MemberAdmin, M!May, M!UsersAssumption, M!Enrolled,
      M!Idle
  <1>4. MemberEnrollInv /\ MemberRequestInv
    BY UsersHold DEF M!Init, MemberEnrollInv, MemberRequestInv, M!Idle, M!Enrolled, M!Outsider,
      M!UsersAssumption
  <1> QED
    BY <1>1, <1>2, <1>3, <1>4 DEF MemberIInv

\* A request that ends leaves nothing.
LEMMA MemberEnds ==
  ASSUME MemberIInv, NEW r \in Requests, M!End(r)
  PROVE  /\ req' \in [Requests -> MemberRequest] /\ MemberRequestInv'
         /\ req'[r].pc = "idle" /\ req'[r].old = {} /\ ~req'[r].late /\ req'[r].kind = "login"
         /\ \A q \in Requests \ {r} : req'[q] = req[q]
  <1>1. req \in [Requests -> MemberRequest]
    BY MemberTyped DEF MemberIInv
  <1>2. req' = [req EXCEPT ![r] = M!Idle]
    BY DEF M!End
  <1>3. /\ req' \in [Requests -> MemberRequest]
        /\ req'[r].pc = "idle" /\ req'[r].old = {} /\ ~req'[r].late /\ req'[r].kind = "login"
        /\ \A q \in Requests \ {r} : req'[q] = req[q]
    BY <1>1, <1>2, MemberIdleRequest
  <1>4. MemberRequestInv'
    BY <1>3 DEF MemberIInv, MemberRequestInv, M!Administers
  <1> QED
    BY <1>3, <1>4

\* A request that goes on.
LEMMA MemberGoes ==
  ASSUME MemberIInv, NEW r \in Requests,
         NEW p \in {"accepted", "issue", "tenant", "enroll"}, M!Goto(r, p)
  PROVE  /\ req' \in [Requests -> MemberRequest]
         /\ req'[r].pc = p /\ req'[r].old = req[r].old /\ req'[r].late = req[r].late
         /\ req'[r].kind = req[r].kind /\ req'[r].user = req[r].user
         /\ req'[r].sid = req[r].sid /\ req'[r].target = req[r].target
         /\ \A q \in Requests \ {r} : req'[q] = req[q]
  <1>1. req \in [Requests -> MemberRequest] /\ req[r] \in MemberRequest
    BY MemberTyped DEF MemberIInv
  <1> DEFINE x == [req[r] EXCEPT !.pc = p]
  <1>3. /\ x \in MemberRequest /\ x.pc = p /\ x.old = req[r].old /\ x.late = req[r].late
        /\ x.kind = req[r].kind /\ x.user = req[r].user
        /\ x.sid = req[r].sid /\ x.target = req[r].target
    BY <1>1 DEF MemberRequest
  <1>4. req' = [req EXCEPT ![r] = x]
    BY DEF M!Goto
  <1> HIDE DEF x
  <1> QED
    BY <1>1, <1>3, <1>4

\* Who may be at work, and with whom.
LEMMA MemberActors ==
  ASSUME MemberIInv, NEW r \in Requests
  PROVE  /\ req[r] \in MemberRequest
         /\ req[r].pc # "idle" => req[r].user \in Users
         /\ req[r].kind \in M!Administers /\ req[r].pc # "idle" => req[r].target \in Users
  BY MemberTyped DEF MemberIInv, MemberRequestInv

\* A request that ends and touches neither members nor sessions.
LEMMA MemberEndsOnly ==
  ASSUME MemberIInv, NEW r \in Requests, M!End(r), UNCHANGED <<account, member, session>>,
         M!History
  PROVE  MemberIInv'
  <1>1. /\ req' \in [Requests -> MemberRequest] /\ MemberRequestInv'
        /\ req'[r].pc = "idle" /\ req'[r].old = {} /\ ~req'[r].late /\ req'[r].kind = "login"
        /\ \A q \in Requests \ {r} : req'[q] = req[q]
    BY MemberEnds
  <1>2. M!TypeOK'
    BY <1>1, MemberTyped, MemberTypedNext DEF MemberIInv, M!History
  <1>3. MemberEndedInv'
    BY <1>1 DEF MemberIInv, MemberEndedInv, M!History
  <1>4. MemberAdminInv'
    BY <1>1 DEF MemberIInv, MemberAdminInv, MemberAdmin, M!May, M!History
  <1>5. MemberEnrollInv'
    BY <1>1 DEF MemberIInv, MemberEnrollInv
  <1> QED
    BY <1>1, <1>2, <1>3, <1>4, <1>5 DEF MemberIInv

\* login.
LEMMA MemberLoginStep ==
  ASSUME MemberIInv, NEW r \in Requests, NEW u \in Users, M!Login(r, u)
  PROVE  MemberIInv'
  <1> DEFINE x == [M!Idle EXCEPT !.kind = "login", !.pc = "issue", !.user = u]
  <1>1. /\ x \in MemberRequest /\ x.pc = "issue" /\ x.old = {} /\ ~x.late /\ x.kind = "login" /\ x.user = u
    BY DEF M!Idle, MemberRequest, M!Kinds
  <1>2. req' = [req EXCEPT ![r] = x] /\ UNCHANGED <<account, member, session>> /\ M!History
    BY DEF M!Login
  <1> HIDE DEF x
  <1>3. /\ req' \in [Requests -> MemberRequest] /\ req'[r] = x
        /\ \A q \in Requests \ {r} : req'[q] = req[q]
    BY <1>1, <1>2, MemberTyped DEF MemberIInv
  <1>4. M!TypeOK'
    BY <1>2, <1>3, MemberTyped, MemberTypedNext DEF MemberIInv, M!History
  <1>5. MemberEndedInv'
    BY <1>1, <1>2, <1>3 DEF MemberIInv, MemberEndedInv, M!History
  <1>6. MemberAdminInv'
    BY <1>1, <1>2, <1>3 DEF MemberIInv, MemberAdminInv, MemberAdmin, M!May, M!History
  <1>7. MemberEnrollInv'
    BY <1>1, <1>2, <1>3 DEF MemberIInv, MemberEnrollInv
  <1>8. MemberRequestInv'
    BY <1>1, <1>3 DEF MemberIInv, MemberRequestInv, M!Administers
  <1> QED
    BY <1>4, <1>5, <1>6, <1>7, <1>8 DEF MemberIInv

\* The session of a token is read: none that has ended is live.
LEMMA MemberPresentStep ==
  ASSUME MemberIInv, NEW r \in Requests, NEW s \in M!Sids, NEW k \in M!Kinds,
         NEW t \in Users \union {Nobody},
         M!Present(r, s, k, t)
  PROVE  MemberIInv'
  <1> DEFINE x == [M!Idle EXCEPT !.kind = k, !.pc = "member", !.user = session[s].user,
                               !.sid = s, !.target = t, !.late = FALSE]
  <1>0. session[s] \in MemberToken
    BY MemberTyped DEF MemberIInv
  <1>a. (s \in ended) = FALSE
    BY DEF MemberIInv, MemberEndedInv, M!Present, M!Live
  <1>1. /\ x \in MemberRequest /\ x.pc = "member" /\ x.old = {} /\ ~x.late
        /\ x.kind = k /\ x.user = session[s].user /\ x.sid = s /\ x.target = t
    BY <1>0 DEF M!Idle, MemberRequest, MemberToken, M!Kinds
  <1>2. /\ req' = [req EXCEPT ![r] = x]
        /\ UNCHANGED <<account, member, session, ended, excused>>
        /\ session[s].user # Nobody /\ ~session[s].revoked
        /\ k \in M!Administers => t \in Users
    BY <1>a DEF M!Present, M!Issued, M!Live
  <1>b. changes' \in 0..MaxChanges
    <2>1. changes \in 0..MaxChanges /\ MaxChanges \in Nat
      BY MemberTyped, UsersHold DEF MemberIInv, M!UsersAssumption
    <2>2. changes' = changes \/ (changes < MaxChanges /\ changes' = changes + 1)
      BY DEF M!Present
    <2> QED
      BY <2>1, <2>2
  <1> HIDE DEF x
  <1>3. /\ req' \in [Requests -> MemberRequest] /\ req'[r] = x
        /\ \A q \in Requests \ {r} : req'[q] = req[q]
    BY <1>1, <1>2, MemberTyped DEF MemberIInv
  <1>4. M!TypeOK'
    BY <1>2, <1>b, <1>3, MemberTyped, MemberTypedNext DEF MemberIInv
  <1>5. MemberEndedInv'
    BY <1>1, <1>2, <1>3 DEF MemberIInv, MemberEndedInv
  <1>6. MemberAdminInv'
    BY <1>1, <1>2, <1>3 DEF MemberIInv, MemberAdminInv, MemberAdmin, M!May
  <1>7. MemberEnrollInv'
    BY <1>1, <1>2, <1>3 DEF MemberIInv, MemberEnrollInv
  <1>8. MemberRequestInv'
    BY <1>0, <1>1, <1>2, <1>3 DEF MemberIInv, MemberRequestInv, MemberToken
  <1> QED
    BY <1>4, <1>5, <1>6, <1>7, <1>8 DEF MemberIInv

\* The membership is read: who administers is an administrator.
LEMMA MemberAuthenticateStep ==
  ASSUME MemberIInv, NEW r \in Requests, M!Authenticate(r)
  PROVE  MemberIInv'
  <1>1. CASE M!End(r)
    BY <1>1, MemberEndsOnly DEF M!Authenticate
  <1>2. CASE ~M!End(r)
    <2> DEFINE x == [req[r] EXCEPT !.pc = "accepted",
                                   !.sid = IF req[r].kind \in M!Administers THEN 0 ELSE @]
    <2>0. req[r] \in MemberRequest /\ req[r].user \in Users
      BY MemberActors DEF M!Authenticate
    <2>1. /\ x \in MemberRequest /\ x.pc = "accepted" /\ x.old = req[r].old /\ x.late = req[r].late
          /\ x.kind = req[r].kind /\ x.user = req[r].user /\ x.target = req[r].target
          /\ req[r].kind \notin M!Administers => x.sid = req[r].sid
      BY <2>0 DEF MemberRequest
    <2>2. /\ req' = [req EXCEPT ![r] = x]
          /\ UNCHANGED <<account, member, session>> /\ M!History
          /\ req[r].kind \in M!Administers => MemberAdmin(req[r].user)
          /\ req[r].pc = "member"
      BY <1>2 DEF M!Authenticate, MemberAdmin
    <2> HIDE DEF x
    <2>3. /\ req' \in [Requests -> MemberRequest] /\ req'[r] = x
          /\ \A q \in Requests \ {r} : req'[q] = req[q]
      BY <2>1, <2>2, MemberTyped DEF MemberIInv
    <2>4. M!TypeOK'
      BY <2>2, <2>3, MemberTyped, MemberTypedNext DEF MemberIInv, M!History
    <2>5. MemberEndedInv'
      BY <2>1, <2>2, <2>3 DEF MemberIInv, MemberEndedInv, M!History
    <2>6. MemberAdminInv'
      BY <2>1, <2>2, <2>3 DEF MemberIInv, MemberAdminInv, MemberAdmin, M!May, M!History
    <2>7. MemberEnrollInv'
      BY <2>1, <2>2, <2>3 DEF MemberIInv, MemberEnrollInv
    <2>8. MemberRequestInv'
      BY <2>0, <2>1, <2>2, <2>3 DEF MemberIInv, MemberRequestInv
    <2> QED
      BY <2>4, <2>5, <2>6, <2>7, <2>8 DEF MemberIInv
  <1> QED
    BY <1>1, <1>2

\* A new session: none of an ended one's number.
LEMMA MemberIssueTokenStep ==
  ASSUME MemberIInv, NEW r \in Requests, M!IssueToken(r)
  PROVE  MemberIInv'
  <1> USE DEF MemberIInv
  <1>1. /\ req' \in [Requests -> MemberRequest] /\ MemberRequestInv'
        /\ req'[r].pc = "idle" /\ req'[r].old = {} /\ ~req'[r].late /\ req'[r].kind = "login"
        /\ \A q \in Requests \ {r} : req'[q] = req[q]
    BY MemberEnds DEF M!IssueToken
  <1>2. UNCHANGED <<account, member, changes, ended, excused>> /\ req[r].user \in Users
    BY MemberActors DEF M!IssueToken, M!History
  <1>3. PICK s \in M!Sids : /\ M!Issued = 1..(s - 1)
                            /\ session' = [session EXCEPT ![s] = [M!Unissued EXCEPT !.user = req[r].user]]
    BY DEF M!IssueToken
  <1>4. session \in [M!Sids -> MemberToken] /\ [M!Unissued EXCEPT !.user = req[r].user] \in MemberToken
    BY <1>2, MemberTyped DEF M!Unissued, MemberToken
  <1>5. session' \in [M!Sids -> MemberToken] /\ \A t \in M!Sids \ {s} : session'[t] = session[t]
    BY <1>3, <1>4
  <1>6. session[s].user = Nobody
    BY <1>3, UsersHold DEF M!Issued, M!Sids, M!UsersAssumption
  <1>7. M!TypeOK'
    BY <1>1, <1>2, <1>5, MemberTyped, MemberTypedNext
  <1>8. MemberEndedInv'
    BY <1>1, <1>2, <1>5, <1>6, MemberTyped DEF MemberEndedInv, MemberRequest
  <1>9. MemberAdminInv' /\ MemberEnrollInv'
    BY <1>1, <1>2 DEF MemberAdminInv, MemberEnrollInv, MemberAdmin, M!May
  <1> QED
    BY <1>1, <1>7, <1>8, <1>9

\* A step that changes sessions, and revokes none of them less.
LEMMA MemberSessionStep ==
  ASSUME MemberIInv, NEW r \in Requests, MemberRequestInv', req' \in [Requests -> MemberRequest],
         \A q \in Requests \ {r} : req'[q] = req[q],
         req'[r].pc \notin {"accepted", "enroll"}, ~req'[r].late, req'[r].old = {},
         UNCHANGED <<account, member, changes, excused>>, session' \in [M!Sids -> MemberToken],
         \A s \in M!Sids : /\ session'[s].user = session[s].user
                           /\ session[s].revoked => session'[s].revoked,
         ended' \subseteq M!Sids,
         \A s \in ended' : s \in ended \/ (session[s].user # Nobody /\ session'[s].revoked)
  PROVE  MemberIInv'
  <1> USE DEF MemberIInv
  <1>1. M!TypeOK'
    BY MemberTyped, MemberTypedNext
  <1>2. MemberEndedInv'
    <2>1. \A s \in ended' : session'[s].user # Nobody /\ session'[s].revoked
      BY DEF MemberEndedInv
    <2>2. ASSUME NEW q \in Requests \ {r}, NEW s \in req[q].old
          PROVE  session'[s].user = req[q].target /\ req[q].target # Nobody
      <3>1. req[q] \in MemberRequest
        BY MemberActors
      <3>2. s \in M!Sids
        BY <2>2, <3>1 DEF MemberRequest
      <3> QED
        BY <2>2, <3>2 DEF MemberEndedInv
    <2>3. \A q \in Requests \ {r} : ~req[q].late
      BY DEF MemberEndedInv
    <2> QED
      BY <2>1, <2>2, <2>3 DEF MemberEndedInv
  <1>3. MemberAdminInv' /\ MemberEnrollInv'
    BY DEF MemberAdminInv, MemberEnrollInv, MemberAdmin, M!May
  <1> QED
    BY <1>1, <1>2, <1>3

\* Reissue preserves the invariant.
LEMMA MemberReissueStep ==
  ASSUME MemberIInv, NEW r \in Requests, M!Reissue(r)
  PROVE  MemberIInv'
  <1> DEFINE x == [session[req[r].sid] EXCEPT !.expired = @ /\ session[req[r].sid].revoked]
  <1>1. session \in [M!Sids -> MemberToken] /\ session' = [session EXCEPT ![req[r].sid] = x]
    BY MemberTyped DEF MemberIInv, M!Reissue
  <1>2. req[r].sid \in M!Sids => x \in MemberToken /\ x.user = session[req[r].sid].user
                               /\ x.revoked = session[req[r].sid].revoked
    BY <1>1 DEF MemberToken
  <1> HIDE DEF x
  <1>3. /\ session' \in [M!Sids -> MemberToken]
        /\ \A s \in M!Sids : /\ session'[s].user = session[s].user
                             /\ session[s].revoked => session'[s].revoked
    BY <1>1, <1>2
  <1>4. /\ UNCHANGED <<account, member, changes, excused, ended>> /\ M!End(r)
        /\ ended \subseteq M!Sids
    BY MemberTyped DEF M!Reissue, M!History, MemberIInv
  <1> QED
    BY <1>3, <1>4, MemberEnds, MemberSessionStep

\* Logout preserves the invariant.
LEMMA MemberLogoutStep ==
  ASSUME MemberIInv, NEW r \in Requests, M!Logout(r)
  PROVE  MemberIInv'
  <1> DEFINE x == [session[req[r].sid] EXCEPT !.revoked = TRUE]
  <1>1. session \in [M!Sids -> MemberToken] /\ session' = [session EXCEPT ![req[r].sid] = x]
    BY MemberTyped DEF MemberIInv, M!Logout
  <1>2. req[r].sid \in M!Sids => x \in MemberToken /\ x.user = session[req[r].sid].user /\ x.revoked
    BY <1>1 DEF MemberToken
  <1> HIDE DEF x
  <1>3. /\ session' \in [M!Sids -> MemberToken]
        /\ \A s \in M!Sids : /\ session'[s].user = session[s].user
                             /\ session[s].revoked => session'[s].revoked
    BY <1>1, <1>2
  <1>4. UNCHANGED <<account, member, changes, excused, ended>> /\ ended \subseteq M!Sids
    BY MemberTyped DEF M!Logout, M!History, MemberIInv
  <1>5. CASE M!End(r)
    BY <1>3, <1>4, <1>5, MemberEnds, MemberSessionStep
  <1>6. CASE req[r].pc = "tenant" /\ M!Goto(r, "issue")
    <2>1. /\ req' \in [Requests -> MemberRequest]
          /\ req'[r].pc = "issue" /\ req'[r].old = req[r].old /\ req'[r].late = req[r].late
          /\ req'[r].kind = req[r].kind /\ req'[r].user = req[r].user
          /\ req'[r].target = req[r].target
          /\ \A q \in Requests \ {r} : req'[q] = req[q]
      BY <1>6, MemberGoes
    <2>2. MemberRequestInv'
      BY <1>6, <2>1 DEF MemberIInv, MemberRequestInv
    <2>3. M!TypeOK'
      BY <1>3, <1>4, <2>1, MemberTyped, MemberTypedNext DEF MemberIInv
    <2>4. MemberEndedInv'
      BY <1>3, <1>4, <2>1, MemberTyped DEF MemberIInv, MemberEndedInv, MemberRequest
    <2>5. MemberAdminInv' /\ MemberEnrollInv'
      BY <1>4, <2>1 DEF MemberIInv, MemberAdminInv, MemberEnrollInv, MemberAdmin, M!May
    <2> QED
      BY <2>2, <2>3, <2>4, <2>5 DEF MemberIInv
  <1> QED
    BY <1>5, <1>6 DEF M!Logout

\* SwitchTenant preserves the invariant.
LEMMA MemberSwitchTenantStep ==
  ASSUME MemberIInv, NEW r \in Requests, M!SwitchTenant(r)
  PROVE  MemberIInv'
  <1>1. CASE M!End(r)
    BY <1>1, MemberEndsOnly DEF M!SwitchTenant
  <1>2. CASE M!Goto(r, "tenant")
    <2>1. /\ req' \in [Requests -> MemberRequest]
          /\ req'[r].pc = "tenant" /\ req'[r].old = req[r].old /\ req'[r].late = req[r].late
          /\ req'[r].kind = req[r].kind /\ req'[r].user = req[r].user
          /\ req'[r].target = req[r].target
          /\ \A q \in Requests \ {r} : req'[q] = req[q]
      BY <1>2, MemberGoes
    <2>2. UNCHANGED <<account, member, session>> /\ M!History /\ M!Accepted(r, "switch")
      BY DEF M!SwitchTenant
    <2>3. MemberRequestInv'
      BY <2>1, <2>2 DEF MemberIInv, MemberRequestInv, M!Accepted
    <2>4. M!TypeOK'
      BY <2>1, <2>2, MemberTyped, MemberTypedNext DEF MemberIInv, M!History
    <2>5. MemberEndedInv'
      BY <2>1, <2>2 DEF MemberIInv, MemberEndedInv, M!History
    <2>6. MemberAdminInv' /\ MemberEnrollInv'
      BY <2>1, <2>2 DEF MemberIInv, MemberAdminInv, MemberEnrollInv, MemberAdmin, M!May, M!History
    <2> QED
      BY <2>3, <2>4, <2>5, <2>6 DEF MemberIInv
  <1> QED
    BY <1>1, <1>2 DEF M!SwitchTenant

\* revoke_sessions: whatever the target had when it was excluded is revoked.
LEMMA MemberRevokeSessionsStep ==
  ASSUME MemberIInv, NEW r \in Requests, M!RevokeSessions(r)
  PROVE  MemberIInv'
  <1> DEFINE x(s) == IF s \in M!Revoked(req[r].target) THEN [session[s] EXCEPT !.revoked = TRUE]
                                                     ELSE session[s]
  <1>1. session \in [M!Sids -> MemberToken] /\ session' = [s \in M!Sids |-> x(s)]
    BY MemberTyped DEF MemberIInv, M!RevokeSessions
  <1>2. ASSUME NEW s \in M!Sids
        PROVE  /\ x(s) \in MemberToken /\ x(s).user = session[s].user
               /\ session[s].revoked => x(s).revoked
               /\ session[s].user = req[r].target /\ req[r].target # Nobody => x(s).revoked
    BY <1>1 DEF MemberToken, M!Revoked, M!Issued
  <1> HIDE DEF x
  <1>3. /\ session' \in [M!Sids -> MemberToken]
        /\ \A s \in M!Sids : /\ session'[s].user = session[s].user
                             /\ session[s].revoked => session'[s].revoked
                             /\ session[s].user = req[r].target /\ req[r].target # Nobody => session'[s].revoked
    BY <1>1, <1>2
  <1>4. UNCHANGED <<account, member, changes, excused>> /\ M!End(r) /\ ended' = ended \union req[r].old
    BY DEF M!RevokeSessions
  <1>5. /\ ended' \subseteq M!Sids
        /\ \A s \in ended' : s \in ended \/ (session[s].user # Nobody /\ session'[s].revoked)
    BY <1>3, <1>4, MemberActors, MemberTyped DEF MemberIInv, MemberEndedInv, MemberRequest
  <1> QED
    BY <1>3, <1>4, <1>5, MemberEnds, MemberSessionStep

\* Expire preserves the invariant.
LEMMA MemberExpireStep ==
  ASSUME MemberIInv, NEW s \in M!Sids, M!Expire(s)
  PROVE  MemberIInv'
  <1> DEFINE x == [session[s] EXCEPT !.expired = TRUE]
  <1>1. session \in [M!Sids -> MemberToken] /\ session' = [session EXCEPT ![s] = x]
    BY MemberTyped DEF MemberIInv, M!Expire
  <1>2. x \in MemberToken /\ x.user = session[s].user /\ x.revoked = session[s].revoked
    BY <1>1 DEF MemberToken
  <1> HIDE DEF x
  <1>3. /\ session' \in [M!Sids -> MemberToken]
        /\ \A t \in M!Sids : /\ session'[t].user = session[t].user
                             /\ session[t].revoked => session'[t].revoked
    BY <1>1, <1>2
  <1>4. UNCHANGED <<account, member, req>> /\ M!History
    BY DEF M!Expire
  <1>5. M!TypeOK'
    BY <1>3, <1>4, MemberTyped, MemberTypedNext DEF MemberIInv, M!History
  <1>6. MemberEndedInv'
    BY <1>3, <1>4, MemberTyped DEF MemberIInv, MemberEndedInv, M!History, MemberRequest
  <1>7. (MemberAdminInv /\ MemberEnrollInv /\ MemberRequestInv)'
    BY <1>4 DEF MemberIInv, MemberAdminInv, MemberEnrollInv, MemberRequestInv, MemberAdmin, M!May,
      M!History
  <1> QED
    BY <1>5, <1>6, <1>7 DEF MemberIInv

\* An account is created first and is no member yet.
LEMMA MemberCreateUserStep ==
  ASSUME MemberIInv, NEW r \in Requests, M!CreateUser(r)
  PROVE  MemberIInv'
  <1>0. UNCHANGED <<member, session>> /\ M!History /\ M!Accepted(r, "create")
    BY DEF M!CreateUser
  <1>1. CASE req[r].target \in account
    BY <1>0, <1>1, MemberEndsOnly DEF M!CreateUser
  <1>2. CASE req[r].target \notin account
    <2>1. M!Goto(r, "enroll") /\ account' = account \union {req[r].target}
      BY <1>2 DEF M!CreateUser
    <2>2. /\ req' \in [Requests -> MemberRequest]
          /\ req'[r].pc = "enroll" /\ req'[r].old = req[r].old /\ req'[r].late = req[r].late
          /\ req'[r].kind = req[r].kind /\ req'[r].user = req[r].user
          /\ req'[r].target = req[r].target
          /\ \A q \in Requests \ {r} : req'[q] = req[q]
      BY <2>1, MemberGoes
    <2>3. req[r].kind = "create" /\ req[r].pc = "accepted" /\ req[r].target \in Users
      BY <1>0, MemberActors DEF M!Accepted, M!Administers
    <2>4. MemberRequestInv'
      BY <2>2, <2>3 DEF MemberIInv, MemberRequestInv, M!Administers
    <2>5. M!TypeOK'
      BY <1>0, <2>1, <2>2, <2>3, MemberTyped, MemberTypedNext DEF MemberIInv, M!History
    <2>6. MemberEndedInv'
      BY <1>0, <2>2 DEF MemberIInv, MemberEndedInv, M!History
    <2>7. MemberAdminInv'
      BY <1>0, <2>2 DEF MemberIInv, MemberAdminInv, MemberAdmin, M!May, M!History
    <2>8. MemberEnrollInv'
      BY <1>0, <1>2, <2>1, <2>2, <2>3 DEF MemberIInv, MemberEnrollInv
    <2> QED
      BY <2>4, <2>5, <2>6, <2>7, <2>8 DEF MemberIInv
  <1> QED
    BY <1>1, <1>2

\* A request that ends having changed the membership of t, and nobody's sessions.
LEMMA MemberMemberStep ==
  ASSUME MemberIInv, NEW r \in Requests, NEW t \in Users, NEW x \in MemberMembership, M!End(r),
         member' = [member EXCEPT ![t] = x], UNCHANGED <<account, session, changes, ended>>,
         excused' \in BOOLEAN, excused => excused',
         x.here => /\ t \in account
                   /\ \A q \in Requests \ {r} : req[q].pc = "enroll" => req[q].target # t,
         \/ MemberAdminInv'
         \/ MemberAdmin(t) => x.here /\ x.enabled /\ x.admin
  PROVE  MemberIInv'
  <1> USE DEF MemberIInv
  <1>1. /\ req' \in [Requests -> MemberRequest] /\ MemberRequestInv'
        /\ req'[r].pc = "idle" /\ req'[r].old = {} /\ ~req'[r].late /\ req'[r].kind = "login"
        /\ \A q \in Requests \ {r} : req'[q] = req[q]
    BY MemberEnds
  <1>2. /\ member' \in [Users -> MemberMembership] /\ member'[t] = x
        /\ \A u \in Users \ {t} : member'[u] = member[u]
    BY MemberTyped
  <1>3. M!TypeOK'
    BY <1>1, <1>2, MemberTyped, MemberTypedNext
  <1>4. MemberEndedInv'
    BY <1>1 DEF MemberEndedInv
  <1>5. MemberAdminInv'
    <2>1. CASE excused'
      BY <2>1 DEF MemberAdminInv
    <2>2. CASE ~excused' /\ (MemberAdmin(t) => x.here /\ x.enabled /\ x.admin)
      <3>1. \A u \in Users : MemberAdmin(u) => MemberAdmin(u)'
        BY <1>2, <2>2 DEF MemberAdmin, M!May
      <3>2. \A q \in Requests : req'[q].kind \in M!Administers /\ req'[q].pc = "accepted"
                                  => req[q].kind \in M!Administers /\ req[q].pc = "accepted"
                                     /\ req'[q] = req[q] /\ req[q].user \in Users
        BY <1>1, MemberActors
      <3> QED
        BY <2>2, <3>1, <3>2 DEF MemberAdminInv
    <2> QED
      BY <2>1, <2>2
  <1>6. MemberEnrollInv'
    BY <1>1, <1>2 DEF MemberEnrollInv
  <1> QED
    BY <1>1, <1>3, <1>4, <1>5, <1>6

\* An administrator changes the membership of t, not his own: he stays one, and nobody
\* else was accepted as one, unless they raced.
LEMMA MemberAdminKept ==
  ASSUME MemberIInv, NEW r \in Requests, NEW t, req[r].kind \in M!Administers,
         req[r].pc = "accepted",
         \A u \in Users \ {t} : member'[u] = member[u],
         \A q \in Requests \ {r} : req'[q] = req[q], req'[r].pc # "accepted",
         \/ excused' = (excused \/ M!Races(r)) /\ t # req[r].user
         \/ excused' = (excused \/ M!Races(r) \/ t = req[r].user)
  PROVE  MemberAdminInv'
  <1>1. CASE excused'
    BY <1>1 DEF MemberAdminInv
  <1>2. CASE ~excused'
    <2>1. ~excused /\ ~M!Races(r) /\ t # req[r].user
      BY <1>2
    <2>2. MemberAdmin(req[r].user) /\ req[r].user \in Users
      BY <2>1, MemberActors DEF MemberIInv, MemberAdminInv
    <2>3. \E v \in Users : MemberAdmin(v)'
      <3>1. PICK v \in Users : v # t /\ MemberAdmin(v)
        BY <2>1, <2>2
      <3>2. member'[v] = member[v]
        BY <3>1
      <3> QED
        BY <3>1, <3>2 DEF MemberAdmin, M!May
    <2>4. \A q \in Requests : ~(req'[q].kind \in M!Administers /\ req'[q].pc = "accepted")
      BY <2>1 DEF M!Races
    <2> QED
      BY <2>3, <2>4 DEF MemberAdminInv
  <1> QED
    BY <1>1, <1>2

\* AddMembership preserves the invariant.
LEMMA MemberAddMembershipStep ==
  ASSUME MemberIInv, NEW r \in Requests, M!AddMembership(r)
  PROVE  MemberIInv'
  <1>1. PICK a \in BOOLEAN : member' = [member EXCEPT ![req[r].target] = M!Enrolled(a)]
    BY DEF M!AddMembership
  <1>2. M!Enrolled(a) \in MemberMembership /\ req[r].target \in Users
    BY MemberActors DEF M!AddMembership, M!Enrolled, MemberMembership, MemberIInv,
       MemberRequestInv
  <1>3. /\ M!End(r) /\ UNCHANGED <<account, session, changes, ended, excused>>
        /\ req[r].pc = "enroll" /\ excused \in BOOLEAN
    BY MemberTyped DEF M!AddMembership, M!History, MemberIInv
  <1>4. /\ ~MemberAdmin(req[r].target) /\ req[r].target \in account
        /\ \A q \in Requests \ {r} : req[q].pc = "enroll" => req[q].target # req[r].target
    BY <1>3 DEF MemberIInv, MemberEnrollInv, MemberAdmin, M!May
  <1> QED
    BY <1>1, <1>2, <1>3, <1>4, MemberMemberStep

\* Enable preserves the invariant.
LEMMA MemberEnableStep ==
  ASSUME MemberIInv, NEW r \in Requests, M!Enable(r)
  PROVE  MemberIInv'
  <1> DEFINE t == req[r].target
             x == [member[t] EXCEPT !.enabled = @ \/ member[t].here]
  <1>1. /\ M!Accepted(r, "enable") /\ member' = [member EXCEPT ![t] = x]
        /\ M!End(r) /\ UNCHANGED <<account, session, changes, ended, excused>>
    BY DEF M!Enable, M!History
  <1>2. t \in Users /\ member[t] \in MemberMembership /\ excused \in BOOLEAN
    BY <1>1, MemberActors, MemberTyped DEF M!Accepted, M!Administers, MemberIInv
  <1>3. /\ x \in MemberMembership /\ x.here = member[t].here /\ x.admin = member[t].admin
        /\ member[t].enabled => x.enabled
    BY <1>2 DEF MemberMembership
  <1>4. x.here => /\ t \in account
                  /\ \A q \in Requests \ {r} : req[q].pc = "enroll" => req[q].target # t
    BY <1>2, <1>3 DEF MemberIInv, MemberEnrollInv
  <1>5. MemberAdmin(t) => x.here /\ x.enabled /\ x.admin
    BY <1>3 DEF MemberAdmin, M!May
  <1> HIDE DEF x
  <1> QED
    BY <1>1, <1>2, <1>3, <1>4, <1>5, MemberMemberStep

\* A demotion takes the role of an administrator.
LEMMA MemberDemoteStep ==
  ASSUME MemberIInv, NEW r \in Requests, M!Demote(r)
  PROVE  MemberIInv'
  <1> DEFINE t == req[r].target
             x == [member[t] EXCEPT !.admin = FALSE]
  <1>1. /\ M!Accepted(r, "demote") /\ member' = [member EXCEPT ![t] = x]
        /\ M!End(r) /\ UNCHANGED <<account, session, changes, ended>>
        /\ excused' = (excused \/ M!Races(r) \/ t = req[r].user)
    BY DEF M!Demote
  <1>2. t \in Users /\ member[t] \in MemberMembership
    BY <1>1, MemberActors, MemberTyped DEF M!Accepted, M!Administers, MemberIInv
  <1>3. x \in MemberMembership /\ x.here = member[t].here
    BY <1>2 DEF MemberMembership
  <1>4. MemberAdminInv'
    <2>1. \A u \in Users \ {t} : member'[u] = member[u]
      BY <1>1, MemberTyped DEF MemberIInv
    <2>2. /\ req[r].kind \in M!Administers /\ req[r].pc = "accepted"
          /\ excused \in BOOLEAN
      BY <1>1, MemberTyped DEF M!Accepted, M!Administers, MemberIInv
    <2> QED
      BY <1>1, <1>2, <2>1, <2>2, MemberEnds, MemberAdminKept
  <1>5. x.here => /\ t \in account
                  /\ \A q \in Requests \ {r} : req[q].pc = "enroll" => req[q].target # t
    BY <1>2, <1>3 DEF MemberIInv, MemberEnrollInv
  <1>6. excused' \in BOOLEAN /\ (excused => excused')
    BY <1>1
  <1> HIDE DEF x
  <1> QED
    BY <1>1, <1>2, <1>3, <1>4, <1>5, <1>6, MemberMemberStep

\* An exclusion changes the membership; the sessions it has to end are revoked later.
LEMMA MemberExcludeStep ==
  ASSUME MemberIInv, NEW r \in Requests, M!Exclude(r)
  PROVE  MemberIInv'
  <1> DEFINE t == req[r].target
  <1>0. /\ req[r].kind \in M!Administers /\ req[r].pc = "accepted"
        /\ t \in Users /\ member[t] \in MemberMembership /\ req[r] \in MemberRequest
    BY MemberActors, MemberTyped DEF M!Exclude, M!Accepted, M!Administers, MemberIInv
  <1>1. CASE ~(M!NotOwn(r) /\ member[t].here)
    BY <1>1, MemberEndsOnly DEF M!Exclude, M!History
  <1>2. CASE M!NotOwn(r) /\ member[t].here
    <2> DEFINE x == IF req[r].kind = "disable" THEN [member[t] EXCEPT !.enabled = FALSE]
                                               ELSE M!Outsider
              y == [req[r] EXCEPT !.pc = "revoke", !.old = M!OldSessions(r)]
    <2>1. /\ member' = [member EXCEPT ![t] = x] /\ req' = [req EXCEPT ![r] = y]
          /\ excused' = (excused \/ M!Races(r))
          /\ UNCHANGED <<account, session, changes, ended>>
      BY <1>2 DEF M!Exclude
    <2>2. x \in MemberMembership /\ (x.here => member[t].here)
      BY <1>0 DEF MemberMembership, M!Outsider
    <2>3. M!OldSessions(r) \subseteq M!Sids /\ \A s \in M!OldSessions(r) : session[s].user = t
      BY DEF M!OldSessions, M!Issued
    <2>4. /\ y \in MemberRequest /\ y.pc = "revoke" /\ y.old = M!OldSessions(r) /\ y.late = req[r].late
          /\ y.kind = req[r].kind /\ y.user = req[r].user /\ y.target = t
      BY <1>0, <2>3 DEF MemberRequest
    <2> HIDE DEF x, y
    <2>5. /\ req' \in [Requests -> MemberRequest] /\ req'[r] = y
          /\ \A q \in Requests \ {r} : req'[q] = req[q]
      BY <2>1, <2>4, MemberTyped DEF MemberIInv
    <2>6. /\ member' \in [Users -> MemberMembership] /\ member'[t] = x
          /\ \A u \in Users \ {t} : member'[u] = member[u]
      BY <1>0, <2>1, <2>2, MemberTyped DEF MemberIInv
    <2>7. excused' \in BOOLEAN
      BY <2>1
    <2>8. M!TypeOK'
      BY <2>1, <2>5, <2>6, <2>7, MemberTyped, MemberTypedNext DEF MemberIInv
    <2>9. MemberEndedInv'
      BY <1>0, <2>1, <2>3, <2>4, <2>5, UsersHold DEF MemberIInv, MemberEndedInv, M!UsersAssumption
    <2>10. MemberAdminInv'
      BY <1>0, <1>2, <2>1, <2>4, <2>5, <2>6, MemberAdminKept DEF M!NotOwn
    <2>11. MemberEnrollInv'
      BY <1>0, <2>1, <2>2, <2>4, <2>5, <2>6 DEF MemberIInv, MemberEnrollInv
    <2>12. MemberRequestInv'
      BY <1>0, <2>4, <2>5 DEF MemberIInv, MemberRequestInv
    <2> QED
      BY <2>8, <2>9, <2>10, <2>11, <2>12 DEF MemberIInv
  <1> QED
    BY <1>1, <1>2

\* Every step preserves the invariant.
LEMMA MemberNextStep == MemberIInv /\ [M!Next]_(M!sessionVars) => MemberIInv'
  <1> SUFFICES ASSUME MemberIInv, [M!Next]_(M!sessionVars) PROVE MemberIInv'
    OBVIOUS
  <1>1. ASSUME NEW r \in Requests,
               \/ \E u \in Users : M!Login(r, u)
               \/ \E s \in M!Sids, k \in M!Kinds, t \in Users \union {Nobody} : M!Present(r, s, k, t)
               \/ M!Authenticate(r) \/ M!IssueToken(r)
        PROVE  MemberIInv'
    BY <1>1, MemberLoginStep, MemberPresentStep, MemberAuthenticateStep, MemberIssueTokenStep
  <1>2. ASSUME NEW r \in Requests,
               M!Reissue(r) \/ M!Logout(r) \/ M!SwitchTenant(r) \/ M!RevokeSessions(r)
        PROVE  MemberIInv'
    BY <1>2, MemberReissueStep, MemberLogoutStep, MemberSwitchTenantStep, MemberRevokeSessionsStep
  <1>3. ASSUME NEW r \in Requests,
               M!CreateUser(r) \/ M!AddMembership(r) \/ M!Exclude(r) \/ M!Enable(r) \/ M!Demote(r)
        PROVE  MemberIInv'
    BY <1>3, MemberCreateUserStep, MemberAddMembershipStep, MemberExcludeStep, MemberEnableStep,
      MemberDemoteStep
  <1>4. ASSUME NEW r \in Requests, M!Dies(r) PROVE MemberIInv'
    BY <1>4, MemberEndsOnly DEF M!Dies
  <1>5. ASSUME NEW s \in M!Sids, M!Expire(s) PROVE MemberIInv'
    BY <1>5, MemberExpireStep
  <1>6. CASE UNCHANGED M!sessionVars
    BY <1>6 DEF MemberIInv, M!TypeOK, MemberEndedInv, MemberAdminInv, MemberEnrollInv,
      MemberRequestInv, MemberAdmin, M!May, M!sessionVars
  <1> QED
    BY <1>1, <1>2, <1>3, <1>4, <1>5, <1>6 DEF M!Next

\* For any users, founders, requests in flight and sessions: the sessions of an excluded
\* member never come back, and an administrator stays unless two changes overlapped or
\* one gave up the role.
THEOREM MemberHold == M!Spec => []MembersHold
  <1>1. MemberIInv => MembersHold
    BY DEF MembersHold, MemberIInv, MemberEndedInv, MemberAdminInv, MemberAdmin, M!OldSessionsEnd,
      M!AdminStays
  <1> QED
    BY <1>1, MemberInitStep, MemberNextStep, PTL DEF M!Spec

-----------------------------------------------------------------------------
(* Custom fields (CustomFields). *)

\* Unless one overlapped another: whoever changes the field is alone in the process that
\* stores fields, what its requests have read is what is stored, and the cache is stale
\* only until the change has been forgotten there.
FieldActive(r) == fieldReq[r].pc # "idle"
FieldRead(r) == fieldReq[r].at = Http /\ fieldReq[r].pc \in {"insert", "check", "version", "write"}
FieldAlone ==
  \A r \in Requests : FieldActive(r) /\ fieldReq[r].upsert =>
    /\ fieldReq[r].at = Http
    /\ \A q \in Requests \ {r} : FieldActive(q) => fieldReq[q].at # Http
FieldCurrent ==
  /\ \A r \in Requests : FieldRead(r) => fieldReq[r].seen = row.type
  /\ cache[Http] \in {UnknownType, row.type} \/ \E r \in Requests : fieldReq[r].pc = "forget"
FieldChecked ==
  \A r \in Requests :
    /\ fieldReq[r].pc \in {"check", "version", "write", "forget"} => fieldReq[r].upsert
    /\ fieldReq[r].pc \in {"version", "write"} => C!Compatible(r)
FieldIInv == C!TypeOK /\ (overlapped \/ (~changed /\ FieldAlone /\ FieldCurrent /\ FieldChecked))

\* A request and a definition.
FieldRequest == [pc : {"idle", "fetch", "insert", "check", "version", "write", "forget"},
            upsert : BOOLEAN, at : Servers, want : Types \union {NoType},
            version : 0..MaxVersion, seen : Types \union {NoType, UnknownType}]
FieldRow == [type : Types \union {NoType}, version : 0..MaxVersion]

\* A request has the fields of a request.
LEMMA FieldTyped ==
  C!TypeOK <=> /\ row \in FieldRow /\ cache \in [Servers -> Types \union {NoType, UnknownType}]
               /\ fieldReq \in [Requests -> FieldRequest] /\ changed \in BOOLEAN /\ overlapped \in BOOLEAN
  BY DEF C!TypeOK, FieldRequest, FieldRow

\* The same in the next state.
LEMMA FieldTypedNext ==
  ASSUME row' \in FieldRow, cache' \in [Servers -> Types \union {NoType, UnknownType}],
         fieldReq' \in [Requests -> FieldRequest], changed' \in BOOLEAN, overlapped' \in BOOLEAN
  PROVE  C!TypeOK'
  BY DEF C!TypeOK, FieldRequest, FieldRow

\* A request that has ended.
LEMMA FieldIdleRequest == C!Idle \in FieldRequest /\ C!Idle.pc = "idle"
  <1>1. 0 \in 0..MaxVersion
    BY FieldsAre DEF C!FieldsAssumption
  <1> QED
    BY <1>1, FieldsAre DEF C!FieldsAssumption, C!Idle, FieldRequest

\* The invariant holds at first.
LEMMA FieldInitStep == C!Init => FieldIInv
  <1> SUFFICES ASSUME C!Init PROVE FieldIInv
    OBVIOUS
  <1>1. row \in FieldRow
    BY FieldsAre DEF C!Init, FieldRow, C!FieldsAssumption
  <1>2. fieldReq \in [Requests -> FieldRequest] /\ \A r \in Requests : fieldReq[r].pc = "idle"
    BY FieldIdleRequest DEF C!Init
  <1>3. C!TypeOK
    BY <1>1, <1>2, FieldTyped DEF C!Init
  <1>4. ~changed /\ FieldAlone /\ FieldCurrent /\ FieldChecked
    BY <1>2, FieldsAre DEF C!Init, FieldAlone, FieldCurrent, FieldChecked, FieldActive, FieldRead,
      C!FieldsAssumption
  <1> QED
    BY <1>3, <1>4 DEF FieldIInv

\* What a step has to do for the invariant to hold on: its request is x, the others stay.
LEMMA FieldRequestStep ==
  ASSUME FieldIInv, NEW r \in Requests, NEW x \in FieldRequest,
         fieldReq' = [fieldReq EXCEPT ![r] = x],
         row' = row, changed' = changed, cache' \in [Servers -> Types \union {NoType, UnknownType}],
         overlapped' \in BOOLEAN, overlapped => overlapped',
         \/ overlapped'
         \/ /\ x.pc # "idle" /\ x.upsert =>
                 x.at = Http /\ \A q \in Requests \ {r} : FieldActive(q) => fieldReq[q].at # Http
            /\ x.pc # "idle" /\ x.at = Http => \A q \in Requests \ {r} : FieldActive(q) => ~fieldReq[q].upsert
            /\ x.at = Http /\ x.pc \in {"insert", "check", "version", "write"} => x.seen = row.type
            /\ x.pc \in {"check", "version", "write", "forget"} => x.upsert
            /\ x.pc \in {"version", "write"} => (x.seen \in Types => x.seen = x.want)
            /\ \/ cache'[Http] \in {UnknownType, row.type}
               \/ cache'[Http] = cache[Http] /\ fieldReq[r].pc # "forget"
  PROVE  FieldIInv'
  <1>1. /\ fieldReq' \in [Requests -> FieldRequest] /\ fieldReq'[r] = x
        /\ \A q \in Requests \ {r} : fieldReq'[q] = fieldReq[q]
    BY FieldTyped DEF FieldIInv
  <1>2. C!TypeOK'
    BY <1>1, FieldTyped, FieldTypedNext DEF FieldIInv
  <1>3. CASE ~overlapped'
    <2>1. ~changed /\ FieldAlone /\ FieldCurrent /\ FieldChecked
      BY <1>3 DEF FieldIInv
    <2>2. FieldAlone'
      BY <1>1, <1>3, <2>1 DEF FieldAlone, FieldActive
    <2>3. FieldCurrent'
      BY <1>1, <1>3, <2>1 DEF FieldCurrent, FieldRead
    <2>4. FieldChecked'
      BY <1>1, <1>3, <2>1 DEF FieldChecked, C!Compatible
    <2> QED
      BY <1>2, <2>1, <2>2, <2>3, <2>4 DEF FieldIInv
  <1> QED
    BY <1>2, <1>3 DEF FieldIInv

\* A request that ends, and leaves the cache of the storing process right.
LEMMA FieldEnds ==
  ASSUME FieldIInv, NEW r \in Requests, C!End(r), UNCHANGED <<row, changed, overlapped>>,
         cache' \in [Servers -> Types \union {NoType, UnknownType}],
         \/ overlapped
         \/ cache'[Http] \in {UnknownType, row.type}
         \/ cache'[Http] = cache[Http] /\ fieldReq[r].pc # "forget"
  PROVE  FieldIInv'
  <1>1. fieldReq' = [fieldReq EXCEPT ![r] = C!Idle] /\ overlapped' \in BOOLEAN
    BY FieldTyped DEF C!End, FieldIInv
  <1> QED
    BY <1>1, FieldIdleRequest, FieldRequestStep

\* Nobody overlaps it.
LEMMA FieldNoOverlap ==
  ASSUME NEW r \in Requests, NEW p, NEW u \in BOOLEAN, ~C!Overlap(r, p, u)
  PROVE  \A q \in Requests \ {r} : FieldActive(q) /\ fieldReq[q].at = p => ~u /\ ~fieldReq[q].upsert
  BY DEF C!Overlap, FieldActive

\* list_effective.
LEMMA FieldListStep ==
  ASSUME FieldIInv, NEW r \in Requests, NEW p \in Servers, C!List(r, p)
  PROVE  FieldIInv'
  <1> DEFINE y == [C!Idle EXCEPT !.at = p]
             x == C!Listed(y, p)
  <1>1. y \in FieldRequest /\ y.at = p /\ ~y.upsert
    BY FieldIdleRequest DEF FieldRequest, C!Idle
  <1> HIDE DEF y
  <1>2. /\ x \in FieldRequest /\ x.pc \in {"idle", "fetch"} /\ (x.pc # "idle" => ~x.upsert /\ x.at = p)
    BY <1>1, FieldIdleRequest DEF C!Listed, FieldRequest
  <1>3. /\ fieldReq' = [fieldReq EXCEPT ![r] = x] /\ UNCHANGED <<row, cache, changed>>
        /\ overlapped' = (overlapped \/ C!Overlap(r, p, FALSE)) /\ fieldReq[r].pc = "idle"
    BY DEF C!List, y
  <1> HIDE DEF x
  <1>4. overlapped' \in BOOLEAN /\ cache \in [Servers -> Types \union {NoType, UnknownType}]
    BY <1>3, FieldTyped DEF FieldIInv
  <1>5. ~overlapped' => \A q \in Requests \ {r} : FieldActive(q) /\ fieldReq[q].at = p => ~fieldReq[q].upsert
    BY <1>3, FieldNoOverlap
  <1>6. ~overlapped' => \A q \in Requests : FieldActive(q) /\ fieldReq[q].upsert => fieldReq[q].at = Http
    BY <1>3 DEF FieldIInv, FieldAlone
  <1> QED
    BY <1>2, <1>3, <1>4, <1>5, <1>6, FieldRequestStep

\* Upsert preserves the invariant.
LEMMA FieldUpsertStep ==
  ASSUME FieldIInv, NEW r \in Requests, NEW want \in Types, NEW version \in 0..MaxVersion,
         C!Upsert(r, want, version)
  PROVE  FieldIInv'
  <1> DEFINE y == [C!Idle EXCEPT !.upsert = TRUE, !.want = want, !.version = version]
             x == C!Listed(y, Http)
  <1>1. y \in FieldRequest /\ y.at = Http /\ y.upsert
    BY FieldIdleRequest DEF FieldRequest, C!Idle
  <1> HIDE DEF y
  <1>2. cache[Http] \in Types \union {NoType, UnknownType}
    BY FieldTyped, FieldsAre DEF FieldIInv, C!FieldsAssumption
  <1>3. /\ x \in FieldRequest /\ x.at = Http /\ x.upsert
        /\ x.pc = "fetch" \/ (x.pc = "check" /\ x.seen = cache[Http] /\ cache[Http] # UnknownType)
    BY <1>1, <1>2 DEF C!Listed, FieldRequest
  <1>4. /\ fieldReq' = [fieldReq EXCEPT ![r] = x] /\ UNCHANGED <<row, cache, changed>>
        /\ overlapped' = (overlapped \/ C!Overlap(r, Http, TRUE)) /\ fieldReq[r].pc = "idle"
    BY DEF C!Upsert, y
  <1> HIDE DEF x
  <1>5. overlapped' \in BOOLEAN /\ cache \in [Servers -> Types \union {NoType, UnknownType}]
    BY <1>4, FieldTyped DEF FieldIInv
  <1>6. CASE overlapped'
    BY <1>3, <1>4, <1>5, <1>6, FieldRequestStep
  <1>7. CASE ~overlapped'
    <2>1. \A q \in Requests \ {r} : FieldActive(q) => fieldReq[q].at # Http
      BY <1>4, <1>7, FieldNoOverlap
    <2>2. ~overlapped /\ FieldAlone /\ FieldCurrent /\ FieldChecked
      BY <1>4, <1>7 DEF FieldIInv
    <2>3. \A q \in Requests \ {r} : FieldActive(q) => ~fieldReq[q].upsert
      BY <2>1, <2>2 DEF FieldAlone
    <2>4. \A q \in Requests : fieldReq[q].pc # "forget"
      BY <1>4, <2>2, <2>3 DEF FieldChecked, FieldActive
    <2>5. cache[Http] \in {UnknownType, row.type}
      BY <2>2, <2>4 DEF FieldCurrent
    <2> QED
      BY <1>3, <1>4, <1>5, <2>1, <2>3, <2>5, FieldRequestStep
  <1> QED
    BY <1>6, <1>7

\* What a request is, once it is at work.
LEMMA FieldAtWork ==
  ASSUME FieldIInv, NEW r \in Requests, FieldActive(r)
  PROVE  /\ fieldReq[r] \in FieldRequest /\ row \in FieldRow
         /\ overlapped \in BOOLEAN /\ cache \in [Servers -> Types \union {NoType, UnknownType}]
         /\ \/ overlapped
            \/ /\ ~overlapped /\ ~changed /\ FieldAlone /\ FieldCurrent /\ FieldChecked
               /\ fieldReq[r].upsert => /\ fieldReq[r].at = Http
                                        /\ \A q \in Requests \ {r} : FieldActive(q) => fieldReq[q].at # Http
               /\ fieldReq[r].at = Http => \A q \in Requests \ {r} : FieldActive(q) => ~fieldReq[q].upsert
  BY FieldTyped DEF FieldIInv, FieldAlone

\* The stored definitions are fetched.
LEMMA FieldFetchStep == ASSUME FieldIInv, NEW r \in Requests, C!Fetch(r) PROVE FieldIInv'
  <1> DEFINE x == [fieldReq[r] EXCEPT !.pc = "insert", !.seen = row.type]
  <1>0. FieldActive(r) /\ fieldReq[r].pc = "fetch"
    BY DEF C!Fetch, FieldActive
  <1>1. fieldReq[r] \in FieldRequest /\ row.type \in Types \union {NoType}
    BY <1>0, FieldAtWork DEF FieldRow
  <1>2. /\ x \in FieldRequest /\ x.pc = "insert" /\ x.seen = row.type
        /\ x.at = fieldReq[r].at /\ x.upsert = fieldReq[r].upsert
    BY <1>1 DEF FieldRequest
  <1>3. fieldReq' = [fieldReq EXCEPT ![r] = x] /\ UNCHANGED <<row, cache, changed, overlapped>>
    BY DEF C!Fetch
  <1> HIDE DEF x
  <1> QED
    BY <1>0, <1>2, <1>3, FieldAtWork, FieldRequestStep

\* What was fetched goes into the cache.
LEMMA FieldInsertStep ==
  ASSUME FieldIInv, NEW r \in Requests, C!Insert(r)
  PROVE  FieldIInv'
  <1>0. FieldActive(r) /\ fieldReq[r].pc = "insert"
    BY DEF C!Insert, FieldActive
  <1>1. fieldReq[r] \in FieldRequest
    BY <1>0, FieldAtWork
  <1>2. /\ cache' = [cache EXCEPT ![fieldReq[r].at] = fieldReq[r].seen]
        /\ UNCHANGED <<row, changed, overlapped>>
    BY DEF C!Insert
  <1>3. /\ cache' \in [Servers -> Types \union {NoType, UnknownType}]
        /\ \/ overlapped
           \/ cache'[Http] = row.type
           \/ cache'[Http] = cache[Http]
    <2>1. overlapped \/ (fieldReq[r].at = Http => fieldReq[r].seen = row.type)
      BY <1>0, FieldAtWork DEF FieldCurrent, FieldRead
    <2> QED
      BY <1>0, <1>1, <1>2, <2>1, FieldAtWork, FieldsAre DEF FieldRequest, C!FieldsAssumption
  <1>4. CASE C!End(r)
    BY <1>0, <1>2, <1>3, <1>4, FieldEnds
  <1>5. CASE fieldReq[r].upsert /\ fieldReq' = [fieldReq EXCEPT ![r].pc = "check"]
    <2> DEFINE x == [fieldReq[r] EXCEPT !.pc = "check"]
    <2>1. /\ x \in FieldRequest /\ x.pc = "check" /\ x.seen = fieldReq[r].seen
          /\ x.at = fieldReq[r].at /\ x.upsert = fieldReq[r].upsert
      BY <1>1 DEF FieldRequest
    <2>2. fieldReq' = [fieldReq EXCEPT ![r] = x]
      BY <1>5
    <2> HIDE DEF x
    <2>3. overlapped \/ (fieldReq[r].at = Http => fieldReq[r].seen = row.type)
      BY <1>0, FieldAtWork DEF FieldCurrent, FieldRead
    <2>4. \/ overlapped
          \/ /\ x.at = Http /\ \A q \in Requests \ {r} : FieldActive(q) => fieldReq[q].at # Http
             /\ \A q \in Requests \ {r} : FieldActive(q) => ~fieldReq[q].upsert
             /\ x.seen = row.type
      BY <1>0, <1>5, <2>1, <2>3, FieldAtWork
    <2>5. overlapped \in BOOLEAN /\ (overlapped => overlapped') /\ overlapped' \in BOOLEAN
      BY <1>0, <1>2, FieldAtWork
    <2> QED
      BY <1>0, <1>2, <1>3, <1>5, <2>1, <2>2, <2>4, <2>5, FieldRequestStep
  <1> QED
    BY <1>4, <1>5 DEF C!Insert

\* A request passes on to a step of its change, or ends.
LEMMA FieldGoesOn ==
  ASSUME FieldIInv, NEW r \in Requests, fieldReq[r].pc \in {"check", "version"},
         NEW p \in {"version", "write"}, fieldReq' = [fieldReq EXCEPT ![r].pc = p],
         fieldReq[r].seen \in Types => fieldReq[r].seen = fieldReq[r].want,
         UNCHANGED <<row, cache, changed, overlapped>>
  PROVE  FieldIInv'
  <1> DEFINE x == [fieldReq[r] EXCEPT !.pc = p]
  <1>0. FieldActive(r)
    BY DEF FieldActive
  <1>1. /\ x \in FieldRequest /\ x.pc = p /\ x.seen = fieldReq[r].seen /\ x.want = fieldReq[r].want
        /\ x.at = fieldReq[r].at /\ x.upsert = fieldReq[r].upsert
    BY <1>0, FieldAtWork DEF FieldRequest
  <1>2. fieldReq' = [fieldReq EXCEPT ![r] = x]
    OBVIOUS
  <1> HIDE DEF x
  <1>3. overlapped \/ (fieldReq[r].upsert /\ (fieldReq[r].at = Http => fieldReq[r].seen = row.type))
    BY <1>0, FieldAtWork DEF FieldCurrent, FieldRead, FieldChecked
  <1>4. \/ overlapped
        \/ /\ x.at = Http /\ \A q \in Requests \ {r} : FieldActive(q) => fieldReq[q].at # Http
           /\ \A q \in Requests \ {r} : FieldActive(q) => ~fieldReq[q].upsert
           /\ x.seen = row.type /\ x.upsert
    BY <1>0, <1>1, <1>3, FieldAtWork
  <1>5. /\ overlapped \in BOOLEAN /\ (overlapped => overlapped') /\ overlapped' \in BOOLEAN
        /\ cache' \in [Servers -> Types \union {NoType, UnknownType}]
    BY <1>0, FieldAtWork
  <1>6. /\ cache'[Http] = cache[Http] /\ fieldReq[r].pc # "forget"
        /\ row' = row /\ changed' = changed /\ (x.seen \in Types => x.seen = x.want)
        /\ x.pc # "idle"
    BY <1>1
  <1> QED
    BY <1>1, <1>2, <1>4, <1>5, <1>6, FieldRequestStep

\* Steps that only end a request.
LEMMA FieldEndsOnly ==
  ASSUME FieldIInv, NEW r \in Requests, FieldActive(r), fieldReq[r].pc # "forget", C!End(r),
         UNCHANGED <<row, cache, changed, overlapped>>
  PROVE  FieldIInv'
  BY FieldAtWork, FieldEnds

\* The type is compared with the cached one.
LEMMA FieldCheckStep == ASSUME FieldIInv, NEW r \in Requests, C!Check(r) PROVE FieldIInv'
  <1>1. CASE ~C!Compatible(r)
    BY <1>1, FieldEndsOnly DEF C!Check, FieldActive
  <1>2. CASE C!Compatible(r)
    <2>1. PICK p \in {"version", "write"} : fieldReq' = [fieldReq EXCEPT ![r].pc = p]
      BY <1>2 DEF C!Check
    <2> QED
      BY <1>2, <2>1, FieldGoesOn DEF C!Check, C!Compatible
  <1> QED
    BY <1>1, <1>2

\* CheckVersion preserves the invariant.
LEMMA FieldCheckVersionStep ==
  ASSUME FieldIInv, NEW r \in Requests, C!CheckVersion(r)
  PROVE  FieldIInv'
  <1>1. CASE C!End(r)
    BY <1>1, FieldEndsOnly DEF C!CheckVersion, FieldActive
  <1>2. CASE fieldReq' = [fieldReq EXCEPT ![r].pc = "write"]
    <2> DEFINE x == [fieldReq[r] EXCEPT !.pc = "write"]
    <2>0. FieldActive(r) /\ fieldReq[r].pc = "version" /\ UNCHANGED <<row, cache, changed, overlapped>>
      BY DEF C!CheckVersion, FieldActive
    <2>1. /\ x \in FieldRequest /\ x.pc = "write" /\ x.seen = fieldReq[r].seen /\ x.want = fieldReq[r].want
          /\ x.at = fieldReq[r].at /\ x.upsert = fieldReq[r].upsert
      BY <2>0, FieldAtWork DEF FieldRequest
    <2>2. fieldReq' = [fieldReq EXCEPT ![r] = x]
      BY <1>2
    <2> HIDE DEF x
    <2>3. \/ overlapped
          \/ /\ fieldReq[r].upsert /\ (fieldReq[r].at = Http => fieldReq[r].seen = row.type)
             /\ fieldReq[r].seen \in Types => fieldReq[r].seen = fieldReq[r].want
      BY <2>0, FieldAtWork DEF FieldCurrent, FieldRead, FieldChecked, C!Compatible
    <2> QED
      BY <2>0, <2>1, <2>2, <2>3, FieldAtWork, FieldRequestStep
  <1> QED
    BY <1>1, <1>2 DEF C!CheckVersion

\* The field is stored: what was checked is what is stored, so its type stays.
LEMMA FieldStoredKeeps ==
  ASSUME FieldIInv, NEW r \in Requests, fieldReq[r].pc = "write", C!Stored(r)
  PROVE  row' \in FieldRow /\ changed' \in BOOLEAN /\ (overlapped \/ ~changed')
  <1>0. FieldActive(r)
    BY DEF FieldActive
  <1>1. row \in FieldRow /\ fieldReq[r] \in FieldRequest /\ changed \in BOOLEAN
    BY <1>0, FieldAtWork, FieldTyped DEF FieldIInv
  <1>2. row.version + 1 \in 0..MaxVersion
    BY <1>1, FieldsAre DEF C!Stored, FieldRow, C!FieldsAssumption
  <1>3. row' \in FieldRow
    BY <1>1, <1>2 DEF C!Stored, FieldRow, FieldRequest
  <1>4. overlapped \/ (row.type = fieldReq[r].seen /\ C!Compatible(r) /\ ~changed)
    BY <1>0, FieldAtWork DEF FieldCurrent, FieldRead, FieldChecked
  <1>5. overlapped \/ row.type \in {NoType, fieldReq[r].want}
    BY <1>1, <1>4 DEF C!Compatible, FieldRow
  <1> QED
    BY <1>1, <1>3, <1>4, <1>5 DEF C!Stored

\* The definition is stored.
LEMMA FieldWriteStep == ASSUME FieldIInv, NEW r \in Requests, C!Write(r) PROVE FieldIInv'
  <1> DEFINE x == [fieldReq[r] EXCEPT !.pc = "forget"]
  <1>0. FieldActive(r) /\ fieldReq[r].pc = "write" /\ C!Stored(r) /\ UNCHANGED <<cache, overlapped>>
    BY DEF C!Write, FieldActive
  <1>1. /\ x \in FieldRequest /\ x.pc = "forget" /\ x.at = fieldReq[r].at /\ x.upsert = fieldReq[r].upsert
    BY <1>0, FieldAtWork DEF FieldRequest
  <1>2. fieldReq' = [fieldReq EXCEPT ![r] = x]
    BY DEF C!Write
  <1> HIDE DEF x
  <1>3. /\ fieldReq' \in [Requests -> FieldRequest] /\ fieldReq'[r] = x
        /\ \A q \in Requests \ {r} : fieldReq'[q] = fieldReq[q]
    BY <1>1, <1>2, FieldTyped DEF FieldIInv
  <1>4. row' \in FieldRow /\ changed' \in BOOLEAN /\ (overlapped \/ ~changed')
    BY <1>0, FieldStoredKeeps
  <1>5. C!TypeOK'
    BY <1>0, <1>3, <1>4, FieldAtWork, FieldTypedNext
  <1>6. CASE ~overlapped
    <2>1. /\ FieldAlone /\ FieldCurrent /\ FieldChecked /\ fieldReq[r].upsert /\ fieldReq[r].at = Http
          /\ \A q \in Requests \ {r} : FieldActive(q) => fieldReq[q].at # Http
          /\ \A q \in Requests \ {r} : FieldActive(q) => ~fieldReq[q].upsert
      BY <1>0, <1>6, FieldAtWork DEF FieldChecked
    <2>2. FieldAlone'
      BY <1>1, <1>3, <2>1 DEF FieldAlone, FieldActive
    <2>3. FieldCurrent'
      BY <1>0, <1>1, <1>3, <2>1 DEF FieldCurrent, FieldRead, FieldActive
    <2>4. FieldChecked'
      BY <1>1, <1>3, <2>1 DEF FieldChecked, C!Compatible
    <2> QED
      BY <1>4, <1>5, <1>6, <2>2, <2>3, <2>4 DEF FieldIInv
  <1> QED
    BY <1>0, <1>5, <1>6 DEF FieldIInv

\* Invalidate preserves the invariant.
LEMMA FieldInvalidateStep ==
  ASSUME FieldIInv, NEW r \in Requests, C!Invalidate(r)
  PROVE  FieldIInv'
  <1>1. FieldActive(r) /\ C!End(r) /\ UNCHANGED <<row, changed, overlapped>>
    BY DEF C!Invalidate, FieldActive
  <1>2. /\ cache' \in [Servers -> Types \union {NoType, UnknownType}]
        /\ cache'[Http] = UnknownType
    BY <1>1, FieldAtWork, FieldsAre DEF C!Invalidate, C!Forgotten, C!FieldsAssumption
  <1> QED
    BY <1>1, <1>2, FieldEnds

\* Abandon preserves the invariant.
LEMMA FieldAbandonStep ==
  ASSUME FieldIInv, NEW r \in Requests, C!Abandon(r)
  PROVE  FieldIInv'
  <1>1. FieldActive(r) /\ C!End(r) /\ fieldReq[r].pc # "forget" /\ UNCHANGED cache
    BY DEF C!Abandon, FieldActive
  <1>2. CASE UNCHANGED <<row, changed, overlapped>>
    BY <1>1, <1>2, FieldEndsOnly
  <1>3. CASE fieldReq[r].pc = "write" /\ C!Stored(r) /\ overlapped' = TRUE
    <2>1. row' \in FieldRow /\ changed' \in BOOLEAN
      BY <1>3, FieldStoredKeeps
    <2>2. fieldReq' \in [Requests -> FieldRequest]
      BY <1>1, FieldIdleRequest, FieldTyped DEF C!End, FieldIInv
    <2>3. C!TypeOK'
      BY <1>1, <1>3, <2>1, <2>2, FieldAtWork, FieldTypedNext
    <2> QED
      BY <1>3, <2>3 DEF FieldIInv
  <1> QED
    BY <1>2, <1>3 DEF C!Abandon

\* Restart preserves the invariant.
LEMMA FieldRestartStep ==
  ASSUME FieldIInv, NEW p \in Servers, C!Restart(p)
  PROVE  FieldIInv'
  <1>1. /\ cache' = [cache EXCEPT ![p] = UnknownType] /\ UNCHANGED <<row, changed, overlapped>>
        /\ fieldReq' = [r \in Requests |-> IF fieldReq[r].at = p THEN C!Idle ELSE fieldReq[r]]
    BY DEF C!Restart
  <1>2. /\ fieldReq' \in [Requests -> FieldRequest]
        /\ \A r \in Requests : (fieldReq'[r] = fieldReq[r] /\ fieldReq[r].at # p) \/ fieldReq'[r].pc = "idle"
    BY <1>1, FieldIdleRequest, FieldTyped DEF FieldIInv
  <1>3. /\ cache' \in [Servers -> Types \union {NoType, UnknownType}]
        /\ cache'[Http] = IF p = Http THEN UnknownType ELSE cache[Http]
    BY <1>1, FieldTyped, FieldsAre DEF FieldIInv, C!FieldsAssumption
  <1>4. C!TypeOK'
    BY <1>1, <1>2, <1>3, FieldTyped, FieldTypedNext DEF FieldIInv
  <1>5. CASE ~overlapped
    <2>1. ~changed /\ FieldAlone /\ FieldCurrent /\ FieldChecked
      BY <1>5 DEF FieldIInv
    <2>2. FieldAlone'
      BY <1>2, <2>1 DEF FieldAlone, FieldActive
    <2>3. FieldCurrent'
      <3>1. \A r \in Requests : FieldRead(r)' => fieldReq'[r].seen = row'.type
        BY <1>1, <1>2, <2>1 DEF FieldCurrent, FieldRead
      <3>2. CASE p = Http
        BY <1>3, <3>1, <3>2 DEF FieldCurrent
      <3>3. CASE p # Http /\ cache[Http] \in {UnknownType, row.type}
        BY <1>1, <1>3, <3>1, <3>3 DEF FieldCurrent
      <3>4. CASE p # Http /\ \E r \in Requests : fieldReq[r].pc = "forget"
        <4>1. PICK r \in Requests : fieldReq[r].pc = "forget"
          BY <3>4
        <4>2. fieldReq[r].at = Http
          BY <2>1, <4>1 DEF FieldChecked, FieldAlone, FieldActive
        <4>3. fieldReq'[r].pc = "forget"
          BY <1>1, <3>4, <4>1, <4>2
        <4> QED
          BY <3>1, <4>3 DEF FieldCurrent
      <3> QED
        BY <2>1, <3>2, <3>3, <3>4 DEF FieldCurrent
    <2>4. FieldChecked'
      BY <1>2, <2>1 DEF FieldChecked, C!Compatible
    <2> QED
      BY <1>1, <1>4, <2>1, <2>2, <2>3, <2>4 DEF FieldIInv
  <1> QED
    BY <1>1, <1>4, <1>5 DEF FieldIInv

\* Every step preserves the invariant.
LEMMA FieldNextStep == FieldIInv /\ [C!Next]_(C!fieldVars) => FieldIInv'
  <1> SUFFICES ASSUME FieldIInv, [C!Next]_(C!fieldVars) PROVE FieldIInv'
    OBVIOUS
  <1>1. ASSUME NEW r \in Requests,
               \/ \E p \in Servers : C!List(r, p)
               \/ \E want \in Types, version \in 0..MaxVersion : C!Upsert(r, want, version)
               \/ C!Fetch(r) \/ C!Insert(r) \/ C!Check(r) \/ C!CheckVersion(r)
        PROVE  FieldIInv'
    BY <1>1, FieldListStep, FieldUpsertStep, FieldFetchStep, FieldInsertStep, FieldCheckStep,
      FieldCheckVersionStep
  <1>2. ASSUME NEW r \in Requests, C!Write(r) \/ C!Invalidate(r) \/ C!Abandon(r) PROVE FieldIInv'
    BY <1>2, FieldWriteStep, FieldInvalidateStep, FieldAbandonStep
  <1>3. ASSUME NEW p \in Servers, C!Restart(p) PROVE FieldIInv'
    BY <1>3, FieldRestartStep
  <1>4. CASE UNCHANGED C!fieldVars
    BY <1>4 DEF FieldIInv, C!TypeOK, FieldAlone, FieldCurrent, FieldChecked, C!Compatible,
      FieldActive, FieldRead, C!fieldVars
  <1> QED
    BY <1>1, <1>2, <1>3, <1>4 DEF C!Next

\* For any types, processes and requests: a stored field changes its type only if a
\* change overlapped another request of the process, or was stored for a client that had gone.
THEOREM FieldKeeps == C!Spec => []C!TypeKept
  <1>1. FieldIInv => C!TypeKept
    BY FieldTyped DEF FieldIInv, C!TypeKept
  <1> QED
    BY <1>1, FieldInitStep, FieldNextStep, PTL DEF C!Spec

-----------------------------------------------------------------------------
(* Scheduled automations (Schedules). *)

\* What is assumed of the schedules.
LEMMA SchConstants ==
  /\ Minute \in Nat \ {0} /\ Ahead \in Nat
  /\ CronOf \in [E!Names -> SUBSET (Nat \ {0})]
  BY SchedulesHold DEF E!ScheduleAssumption

\* A set of natural numbers that is not empty has a least element, and Min is it.
LEMMA SchLeast ==
  ASSUME NEW S \in SUBSET Nat, S # {}
  PROVE  E!Min(S) \in S /\ \A y \in S : E!Min(S) <= y
  <1>1. \E x \in S : \A y \in S : x <= y
    <2> DEFINE less == OpToRel(<, Nat)
    <2>1. \A x, y \in Nat : x < y => <<x, y>> \in less
      BY DEF OpToRel
    <2>2. IsWellFoundedOn(less, Nat)
      BY NatLessThanWellFounded
    <2> HIDE DEF less
    <2>3. PICK x \in S : \A y \in S : ~(<<y, x>> \in less)
      BY <2>2, WFMin
    <2>4. ASSUME NEW y \in S PROVE x <= y
      <3>1. x \in Nat /\ y \in Nat /\ ~(y < x)
        BY <2>1, <2>3
      <3> QED BY <3>1
    <2> QED BY <2>4
  <1> QED BY <1>1 DEF E!Min

\* Max of two numbers.
LEMMA SchLatest ==
  ASSUME NEW x \in Nat, NEW y \in Nat
  PROVE  E!Max({x, y}) = IF x >= y THEN x ELSE y
  <1>1. \E z \in {x, y} : \A v \in {x, y} : z >= v
    OBVIOUS
  <1>2. E!Max({x, y}) \in {x, y} /\ \A v \in {x, y} : E!Max({x, y}) >= v
    BY <1>1 DEF E!Max
  <1> QED
    BY <1>2

\* The minute of a time has begun and is not over.
LEMMA SchMinutes == ASSUME NEW per \in Nat \ {0}, NEW t \in Nat
  PROVE t \div per \in Nat /\ (t \div per) * per <= t /\ t < ((t \div per) + 1) * per
  OBVIOUS

\* It is the only one.
LEMMA SchFloor == ASSUME NEW per \in Nat \ {0}, NEW t \in Nat, NEW m \in Nat, m * per <= t, t < (m + 1) * per
  PROVE m = t \div per
  OBVIOUS

\* What is not too early stays so.
LEMMA SchLater ==
  ASSUME NEW x \in Nat, NEW n \in Nat, NEW l \in Nat, NEW h \in Nat, x <= n + h, n <= l
  PROVE  x <= l + h
  OBVIOUS

\* What a scan at t enqueues is of the schedule and not too early, and is the minute of t if
\* the schedule has it.
LEMMA SchSlot ==
  ASSUME NEW a \in E!Names, NEW t \in Nat
  PROVE  /\ E!Slots(a, t) \in SUBSET CronOf[a]
         /\ \A m \in E!Slots(a, t) : m * Minute <= t + Ahead
         /\ t \div Minute \in CronOf[a] => t \div Minute \in E!Slots(a, t)
  <1> DEFINE later == {m \in CronOf[a] : m >= ((t - Minute) + Minute) \div Minute}
  <1>1. CronOf[a] \in SUBSET Nat /\ later \in SUBSET Nat /\ later \subseteq CronOf[a]
    BY SchConstants
  <1>2. E!NextRun(a, t - Minute) = IF later = {} THEN {} ELSE {E!Min(later)}
    BY DEF E!NextRun
  <1>3. (t - Minute) + Minute = t
    BY SchConstants
  <1>4. later # {} => E!Min(later) \in later /\ \A y \in later : E!Min(later) <= y
    BY <1>1, SchLeast
  <1>5. E!Slots(a, t) \in SUBSET CronOf[a] /\ \A m \in E!Slots(a, t) : m * Minute <= t + Ahead
    BY <1>1, <1>2, <1>4 DEF E!Slots
  <1>6. ASSUME t \div Minute \in CronOf[a] PROVE t \div Minute \in E!Slots(a, t)
    <2>1. t \div Minute \in Nat /\ (t \div Minute) * Minute <= t
      BY SchMinutes, SchConstants
    <2>2. t \div Minute \in later /\ \A y \in later : y >= t \div Minute
      BY <1>3, <1>6, <2>1
    <2>3. E!Min(later) = t \div Minute
      <3> DEFINE k == E!Min(later)
                 q == t \div Minute
      <3>1. k \in Nat /\ q \in Nat /\ k <= q /\ q <= k
        BY <1>1, <1>4, <2>1, <2>2
      <3> HIDE DEF k, q
      <3>2. k = q
        BY <3>1
      <3> QED BY <3>2 DEF k, q
    <2>4. t \div Minute \in E!NextRun(a, t - Minute)
      BY <1>2, <2>2, <2>3
    <2>5. (t \div Minute) * Minute <= t + Ahead
      <3> DEFINE x == (t \div Minute) * Minute
      <3>1. x \in Nat /\ x <= t
        BY <2>1, SchConstants
      <3> HIDE DEF x
      <3>2. x <= t + Ahead
        BY <3>1, SchConstants
      <3> QED BY <3>2 DEF x
    <2> QED BY <2>4, <2>5 DEF E!Slots
  <1> QED BY <1>5, <1>6

\* Times and jobs; a scan has read a time that has come.
SchTypeInv ==
  /\ now \in Nat
  /\ read \in [ScanWorkers -> Nat] /\ \A w \in ScanWorkers : read[w] <= now
  /\ looked \in [E!Names -> Nat] /\ gap \in [E!Names -> BOOLEAN]
  /\ jobs \in [E!Names -> SUBSET Nat]

\* The minute of the latest look has its job, if the schedule has that minute.
SchSlotInv ==
  \A a \in E!Names : looked[a] \div Minute \in CronOf[a] => looked[a] \div Minute \in jobs[a]

SchIInv == SchTypeInv /\ SchSlotInv /\ E!ScheduleKept

\* Nothing is behind when the process starts.
LEMMA SchInitStep == E!Init => SchIInv
  <1> SUFFICES ASSUME E!Init PROVE SchIInv
    OBVIOUS
  <1>1. SchTypeInv
    BY DEF E!Init, SchTypeInv
  <1>2. 0 \div Minute = 0
    BY SchConstants
  <1>3. SchSlotInv
    BY <1>2, SchConstants DEF E!Init, SchSlotInv
  <1>4. ASSUME NEW a \in E!Names, NEW m \in CronOf[a], (m + 1) * Minute <= looked[a] PROVE FALSE
    <2>1. m \in Nat /\ Minute \in Nat \ {0} /\ looked[a] = 0
      BY SchConstants DEF E!Init
    <2> QED BY <1>4, <2>1
  <1>5. E!ScheduleKept
    BY <1>4 DEF E!ScheduleKept, E!Init
  <1> QED BY <1>1, <1>3, <1>5 DEF SchIInv

\* A look at an automation: if it comes within a minute of the one before, the only minute
\* that it can leave behind is the minute of that look, which has its job.
LEMMA SchLookStep == ASSUME SchIInv, NEW w \in ScanWorkers, E!Look(w) PROVE SchIInv'
  <1> DEFINE b == Automations[at[w]]
             t == read[w]
  <1>1. /\ t \in Nat /\ t <= now /\ now \in Nat /\ now' = now
        /\ jobs' = [jobs EXCEPT ![b] = @ \cup E!Slots(b, t)]
        /\ gap' = [gap EXCEPT ![b] = @ \/ t > looked[b] + Minute]
        /\ looked' = [looked EXCEPT ![b] = E!Max({@, t})]
    BY DEF E!Look, SchIInv, SchTypeInv
  <1>2. read' \in [ScanWorkers -> Nat] /\ \A v \in ScanWorkers : read'[v] <= now'
    <2>1. read' = read \/ read' = [read EXCEPT ![w] = 0]
      BY DEF E!Look, E!Advance, E!Leave
    <2>2. read \in [ScanWorkers -> Nat] /\ now \in Nat /\ \A v \in ScanWorkers : read[v] <= now
      BY DEF SchIInv, SchTypeInv
    <2>3. CASE read' = read
      BY <1>1, <2>2, <2>3
    <2>4. CASE read' = [read EXCEPT ![w] = 0]
      <3>1. ASSUME NEW v \in ScanWorkers PROVE read'[v] \in Nat /\ read'[v] <= now
        BY <2>2, <2>4
      <3> QED BY <1>1, <2>2, <2>4, <3>1
    <2> QED BY <2>1, <2>3, <2>4
  <1> HIDE DEF b, t
  <1>3. /\ jobs \in [E!Names -> SUBSET Nat] /\ looked \in [E!Names -> Nat] /\ gap \in [E!Names -> BOOLEAN]
        /\ DOMAIN jobs' = E!Names /\ DOMAIN looked' = E!Names /\ DOMAIN gap' = E!Names
    BY <1>1 DEF SchIInv, SchTypeInv
  <1>4. ASSUME NEW a \in E!Names, a # b
        PROVE  jobs'[a] = jobs[a] /\ looked'[a] = looked[a] /\ gap'[a] = gap[a]
    BY <1>1, <1>3, <1>4
  <1>5. ASSUME b \in E!Names
        PROVE  /\ jobs'[b] = jobs[b] \cup E!Slots(b, t)
               /\ gap'[b] = (gap[b] \/ t > looked[b] + Minute)
               /\ looked'[b] = IF looked[b] >= t THEN looked[b] ELSE t
    <2>1. looked'[b] = E!Max({looked[b], t}) /\ looked[b] \in Nat
      BY <1>1, <1>3, <1>5
    <2>2. looked'[b] = IF looked[b] >= t THEN looked[b] ELSE t
      BY <1>1, <2>1, SchLatest
    <2>3. jobs'[b] = jobs[b] \cup E!Slots(b, t)
      BY <1>1, <1>3, <1>5
    <2>4. gap'[b] = (gap[b] \/ t > looked[b] + Minute)
      BY <1>1, <1>3, <1>5
    <2> QED BY <2>2, <2>3, <2>4
  <1>6. ASSUME b \in E!Names
        PROVE  /\ E!Slots(b, t) \in SUBSET CronOf[b] /\ CronOf[b] \in SUBSET Nat
               /\ \A m \in E!Slots(b, t) : m * Minute <= t + Ahead
               /\ t \div Minute \in CronOf[b] => t \div Minute \in E!Slots(b, t)
    BY <1>1, <1>6, SchSlot, SchConstants
  <1>7. SchTypeInv'
    <2>1. \A a \in E!Names : jobs'[a] \in SUBSET Nat
      BY <1>3, <1>4, <1>5, <1>6
    <2>2. \A a \in E!Names : looked'[a] \in Nat
      BY <1>1, <1>3, <1>4, <1>5
    <2>3. \A a \in E!Names : gap'[a] \in BOOLEAN
      BY <1>3, <1>4, <1>5
    <2>4. jobs' \in [E!Names -> SUBSET Nat] /\ looked' \in [E!Names -> Nat] /\ gap' \in [E!Names -> BOOLEAN]
      BY <1>1, <1>3, <2>1, <2>2, <2>3
    <2> QED BY <1>1, <1>2, <2>4 DEF SchTypeInv
  <1>8. SchSlotInv'
    <2>1. ASSUME NEW a \in E!Names, looked'[a] \div Minute \in CronOf[a]
          PROVE  looked'[a] \div Minute \in jobs'[a]
      BY <1>4, <1>5, <1>6, <2>1 DEF SchIInv, SchSlotInv
    <2> QED BY <2>1 DEF SchSlotInv
  <1>9. ASSUME NEW a \in E!Names, NEW m \in jobs'[a] PROVE m \in CronOf[a] /\ m * Minute <= now' + Ahead
    <2>1. CASE m \in jobs[a]
      BY <1>1, <2>1 DEF SchIInv, E!ScheduleKept
    <2>2. CASE m \notin jobs[a]
      <3>1. a = b /\ m \in E!Slots(b, t) /\ m \in Nat
        BY <1>4, <1>5, <1>6, <1>9, <2>2
      <3>2. m \in CronOf[a] /\ m * Minute <= t + Ahead
        BY <1>6, <3>1
      <3> DEFINE x == m * Minute
      <3>3. x \in Nat /\ x <= t + Ahead /\ Ahead \in Nat
        BY <3>1, <3>2, SchConstants
      <3> HIDE DEF x
      <3>4. x <= now' + Ahead
        BY <1>1, <3>3
      <3> QED BY <3>2, <3>4 DEF x
    <2> QED BY <2>1, <2>2
  <1>10. ASSUME NEW a \in E!Names, ~gap'[a], NEW m \in CronOf[a], (m + 1) * Minute <= looked'[a]
         PROVE  m \in jobs'[a]
    <2>1. m \in Nat /\ Minute \in Nat \ {0}
      BY SchConstants
    <2>2. CASE ~gap[a] /\ (m + 1) * Minute <= looked[a]
      BY <1>4, <1>5, <2>2 DEF SchIInv, E!ScheduleKept
    <2>3. CASE ~(~gap[a] /\ (m + 1) * Minute <= looked[a])
      <3>1. a = b
        BY <1>4, <1>10, <2>3
      <3>2. ~gap[b] /\ ~(t > looked[b] + Minute)
        BY <1>5, <1>10, <3>1
      <3>3. looked[b] \in Nat /\ looked'[b] = t /\ (m + 1) * Minute <= looked'[b] /\ ~((m + 1) * Minute <= looked[b])
        <4>1. ~gap[b] /\ looked[b] \in Nat
          BY <1>3, <3>1, <3>2
        <4>2. ~((m + 1) * Minute <= looked[b]) /\ (m + 1) * Minute <= looked'[b]
          BY <1>10, <2>3, <3>1, <4>1
        <4> QED BY <1>5, <3>1, <4>1, <4>2
      <3> DEFINE k == looked[b]
      <3>4. k \in Nat /\ t \in Nat /\ t <= k + Minute /\ (m + 1) * Minute <= t /\ ~((m + 1) * Minute <= k)
        BY <1>1, <3>2, <3>3, SchConstants
      <3> HIDE DEF k
      <3>5. m * Minute <= k /\ k < (m + 1) * Minute
        BY <2>1, <3>4
      <3>6. m = k \div Minute
        BY <2>1, <3>4, <3>5, SchFloor
      <3> QED
        BY <1>5, <3>1, <3>6 DEF k, SchIInv, SchSlotInv
    <2> QED BY <2>2, <2>3
  <1>11. E!ScheduleKept'
    BY <1>9, <1>10 DEF E!ScheduleKept
  <1> QED BY <1>7, <1>8, <1>11 DEF SchIInv

\* Steps that enqueue nothing.
LEMMA SchIdleStep ==
  ASSUME SchIInv, UNCHANGED <<jobs, looked, gap>>, now' \in Nat, now <= now',
         read' \in [ScanWorkers -> Nat], \A v \in ScanWorkers : read'[v] <= now'
  PROVE  SchIInv'
  <1>1. SchTypeInv' /\ SchSlotInv'
    BY DEF SchIInv, SchTypeInv, SchSlotInv
  <1>2. ASSUME NEW a \in E!Names, NEW m \in jobs[a] PROVE m \in CronOf[a] /\ m * Minute <= now' + Ahead
    <2>1. m \in CronOf[a] /\ m \in Nat /\ m * Minute <= now + Ahead /\ now \in Nat /\ now' \in Nat
      BY SchConstants DEF SchIInv, SchTypeInv, E!ScheduleKept
    <2> DEFINE x == m * Minute
    <2>2. x \in Nat /\ x <= now + Ahead /\ Ahead \in Nat
      BY <2>1, SchConstants
    <2> HIDE DEF x
    <2>3. now <= now'
      OBVIOUS
    <2>4. x <= now' + Ahead
      BY <2>1, <2>2, <2>3, SchLater
    <2> QED BY <2>1, <2>4 DEF x
  <1>3. E!ScheduleKept'
    BY <1>2 DEF E!ScheduleKept, SchIInv
  <1> QED BY <1>1, <1>3 DEF SchIInv

\* Every step preserves the invariant.
LEMMA SchNextStep == SchIInv /\ [E!Next]_(E!scheduleVars) => SchIInv'
  <1> SUFFICES ASSUME SchIInv, [E!Next]_(E!scheduleVars) PROVE SchIInv'
    OBVIOUS
  <1>1. CASE E!Tick
    <2>1. now' \in Nat /\ now <= now' /\ now \in Nat /\ read' = read /\ read \in [ScanWorkers -> Nat] /\ UNCHANGED <<jobs, looked, gap>>
      BY <1>1 DEF E!Tick, SchIInv, SchTypeInv
    <2>2. \A v \in ScanWorkers : read'[v] <= now'
      BY <2>1 DEF SchIInv, SchTypeInv
    <2> QED BY <2>1, <2>2, SchIdleStep
  <1>2. ASSUME NEW w \in ScanWorkers, E!Scan(w) PROVE SchIInv'
    <2>1. now' = now /\ now \in Nat /\ UNCHANGED <<jobs, looked, gap>> /\ read' \in [ScanWorkers -> Nat] /\ \A v \in ScanWorkers : read'[v] <= now'
      BY <1>2 DEF E!Scan, SchIInv, SchTypeInv
    <2> QED BY <2>1, SchIdleStep
  <1>3. ASSUME NEW w \in ScanWorkers, E!LookFails(w) \/ E!Restart(w) PROVE SchIInv'
    <2>1. now' = now /\ now \in Nat /\ UNCHANGED <<jobs, looked, gap>> /\ read' \in [ScanWorkers -> Nat] /\ \A v \in ScanWorkers : read'[v] <= now'
      BY <1>3 DEF E!LookFails, E!Restart, E!Leave, SchIInv, SchTypeInv
    <2> QED BY <2>1, SchIdleStep
  <1>4. CASE UNCHANGED E!scheduleVars
    BY <1>4 DEF E!scheduleVars, SchIInv, SchTypeInv, SchSlotInv, E!ScheduleKept
  <1> QED
    BY <1>1, <1>2, <1>3, <1>4, SchLookStep DEF E!Next

\* For any schedules, length of a minute and number of workers: an automation that is looked
\* at every minute has a job for every minute of its schedule that has gone by, and no job is
\* for another minute or too early.
THEOREM SchStays == E!Spec => []E!ScheduleKept
  <1>1. SchIInv => E!ScheduleKept
    BY DEF SchIInv
  <1> QED BY <1>1, SchInitStep, SchNextStep, PTL DEF E!Spec

-----------------------------------------------------------------------------
(* Unique fields and relations (References). *)

RefItem == [state : {"unborn", "live", "deleted", "gone"}, code : Codes \cup {NoTarget},
         ref : TargetRows \cup {NoTarget}]
RefRequest == [op : {"none", "create", "update", "delete", "drop"},
            pc : {"idle", "relation", "unique", "write", "written"},
            on : Items \cup TargetRows \cup {NoTarget}, sets : SUBSET {"code", "ref"},
            code : Codes \cup {NoTarget}, ref : TargetRows \cup {NoTarget}]

\* What each kind of request is about.
RefMeant(q) ==
  /\ q.op = "create" => q.on \in Items /\ q.sets = {"code", "ref"}
  /\ q.op = "update" => q.on \in Items
  /\ q.op = "delete" => q.on \in Items /\ q.sets = {}
  /\ q.op = "drop" => q.on \in TargetRows /\ q.sets = {}

RefTypeInv ==
  /\ soft \in BOOLEAN /\ item \in [Items -> RefItem]
  /\ target \in [TargetRows -> {"live", "deleted", "gone"}]
  /\ refReq \in [Requests -> RefRequest] /\ \A r \in Requests : RefMeant(refReq[r])
  /\ soft \/ \A i \in Items : item[i].state # "deleted"

\* Requests that have written and not yet committed: their locks keep them apart, ...
RefWritten(r) == refReq[r].pc = "written"
RefApart(q, s) ==
  /\ q.on # s.on
  /\ "code" \in q.sets /\ "code" \in s.sets => q.code # s.code
  /\ s.op = "drop" => /\ "ref" \in q.sets => q.ref # s.on
                      /\ ~soft => q.on \notin R!Referring(s.on)
RefLockInv ==
  \A r, s \in Requests : r # s /\ RefWritten(r) /\ RefWritten(s) => RefApart(refReq[r], refReq[s])

\* ... and what a statement found is so until its transaction ends.
RefStillSo(q) ==
  /\ ~R!Violates(q)
  /\ q.op \in {"update", "delete"} => item[q.on].state = "live"
RefFoundInv == \A r \in Requests : RefWritten(r) => RefStillSo(refReq[r])

RefIInv == RefTypeInv /\ RefLockInv /\ RefFoundInv /\ R!UniqueKept /\ R!RefsKept

\* The invariant holds at first.
LEMMA RefInitStep == R!Init => RefIInv
  <1> SUFFICES ASSUME R!Init PROVE RefIInv
    OBVIOUS
  <1>1. R!Unborn \in RefItem /\ R!NoRequest \in RefRequest /\ RefMeant(R!NoRequest)
    BY DEF R!Unborn, RefItem, R!NoRequest, RefRequest, RefMeant
  <1>2. item \in [Items -> RefItem] /\ refReq \in [Requests -> RefRequest]
    BY <1>1 DEF R!Init
  <1>3. RefTypeInv
    BY <1>1, <1>2 DEF R!Init, RefTypeInv, R!Unborn
  <1>4. RefLockInv /\ RefFoundInv
    BY DEF R!Init, RefLockInv, RefFoundInv, RefWritten, R!NoRequest
  <1>5. R!UniqueKept /\ R!RefsKept
    BY DEF R!Init, R!UniqueKept, R!RefsKept, R!Unborn
  <1> QED
    BY <1>3, <1>4, <1>5 DEF RefIInv

\* A step of a request before it has written, or with which it ends.
LEMMA RefRequestStep ==
  ASSUME RefIInv, NEW r \in Requests, NEW x \in RefRequest, RefMeant(x), x.pc # "written",
         refReq' = [refReq EXCEPT ![r] = x], UNCHANGED <<soft, policy, item, target>>
  PROVE  RefIInv'
  <1>1. /\ refReq' \in [Requests -> RefRequest] /\ refReq'[r] = x
        /\ \A q \in Requests \ {r} : refReq'[q] = refReq[q]
    BY DEF RefIInv, RefTypeInv
  <1>2. \A q : (R!Referring(q)' = R!Referring(q)) /\ (RefMeant(q)' = RefMeant(q))
    BY DEF R!Referring, RefMeant
  <1>3. RefTypeInv'
    BY <1>1, <1>2 DEF RefIInv, RefTypeInv, RefMeant
  <1>4. RefLockInv'
    BY <1>1 DEF RefIInv, RefLockInv, RefWritten, RefApart, R!Referring
  <1>5. RefFoundInv'
    BY <1>1 DEF RefIInv, RefFoundInv, RefWritten, RefStillSo, R!Violates, R!Taken, R!Known,
      R!Restricted, R!Referring
  <1>6. R!UniqueKept' /\ R!RefsKept'
    BY DEF RefIInv, R!UniqueKept, R!RefsKept
  <1> QED
    BY <1>3, <1>4, <1>5, <1>6 DEF RefIInv

\* A request that ends changes no row.
LEMMA RefEndStep ==
  ASSUME RefIInv, NEW r \in Requests, R!End(r), UNCHANGED <<soft, policy, item, target>>
  PROVE  RefIInv'
  <1>1. R!NoRequest \in RefRequest /\ RefMeant(R!NoRequest) /\ R!NoRequest.pc # "written"
    BY DEF R!NoRequest, RefRequest, RefMeant
  <1> QED
    BY <1>1, RefRequestStep DEF R!End

\* What it does is taken up.
LEMMA RefBeginStep ==
  ASSUME RefIInv, NEW r \in Requests,
         \/ \E i \in Items, c \in Codes, t \in TargetRows \cup {NoTarget} : R!Create(r, i, c, t) \/ R!Update(r, i, c, t)
         \/ \E i \in Items : R!DeleteItem(r, i)
         \/ \E t \in TargetRows : R!DeleteTarget(r, t)
  PROVE  RefIInv'
  <1>1. ASSUME NEW i \in Items, NEW c \in Codes, NEW t \in TargetRows \cup {NoTarget}, R!Create(r, i, c, t)
        PROVE  RefIInv'
    <2> DEFINE x == [op |-> "create", pc |-> "relation", on |-> i, sets |-> {"code", "ref"},
                     code |-> c, ref |-> t]
    <2>1. x \in RefRequest /\ RefMeant(x) /\ x.pc # "written"
      BY DEF RefRequest, RefMeant
    <2>2. refReq' = [refReq EXCEPT ![r] = x] /\ UNCHANGED <<soft, policy, item, target>>
      BY <1>1 DEF R!Create, R!Begin
    <2> HIDE DEF x
    <2> QED
      BY <2>1, <2>2, RefRequestStep
  <1>2. ASSUME NEW i \in Items, NEW c \in Codes, NEW t \in TargetRows \cup {NoTarget}, R!Update(r, i, c, t)
        PROVE  RefIInv'
    <2>1. PICK column \in {"code", "ref"} :
            R!Begin(r, [op |-> "update", pc |-> "relation", on |-> i, sets |-> {column},
                      code |-> IF column = "code" THEN c ELSE item[i].code,
                      ref |-> IF column = "ref" THEN t ELSE item[i].ref])
      BY <1>2 DEF R!Update
    <2> DEFINE x == [op |-> "update", pc |-> "relation", on |-> i, sets |-> {column},
                     code |-> IF column = "code" THEN c ELSE item[i].code,
                     ref |-> IF column = "ref" THEN t ELSE item[i].ref]
    <2>2. item[i] \in RefItem
      BY DEF RefIInv, RefTypeInv
    <2>3. x \in RefRequest /\ RefMeant(x) /\ x.pc # "written"
      BY <2>2 DEF RefRequest, RefMeant, RefItem
    <2>4. refReq' = [refReq EXCEPT ![r] = x] /\ UNCHANGED <<soft, policy, item, target>>
      BY <2>1 DEF R!Begin
    <2> HIDE DEF x
    <2> QED
      BY <2>3, <2>4, RefRequestStep
  <1>3. ASSUME NEW i \in Items, R!DeleteItem(r, i) PROVE RefIInv'
    <2> DEFINE x == [R!NoRequest EXCEPT !.op = "delete", !.pc = "write", !.on = i]
    <2>1. x \in RefRequest /\ RefMeant(x) /\ x.pc # "written"
      BY DEF RefRequest, RefMeant, R!NoRequest
    <2>2. refReq' = [refReq EXCEPT ![r] = x] /\ UNCHANGED <<soft, policy, item, target>>
      BY <1>3 DEF R!DeleteItem, R!Begin
    <2> HIDE DEF x
    <2> QED
      BY <2>1, <2>2, RefRequestStep
  <1>4. ASSUME NEW t \in TargetRows, R!DeleteTarget(r, t) PROVE RefIInv'
    <2> DEFINE x == [R!NoRequest EXCEPT !.op = "drop", !.pc = "write", !.on = t]
    <2>1. x \in RefRequest /\ RefMeant(x) /\ x.pc # "written"
      BY DEF RefRequest, RefMeant, R!NoRequest
    <2>2. refReq' = [refReq EXCEPT ![r] = x] /\ UNCHANGED <<soft, policy, item, target>>
      BY <1>4 DEF R!DeleteTarget, R!Begin
    <2> HIDE DEF x
    <2> QED
      BY <2>1, <2>2, RefRequestStep
  <1> QED
    BY <1>1, <1>2, <1>3, <1>4

\* The lookups before the transaction.
LEMMA RefLookupStep ==
  ASSUME RefIInv, NEW r \in Requests, R!CheckRelation(r) \/ R!CheckUnique(r)
  PROVE  RefIInv'
  <1>0. R!Kept
    BY DEF R!CheckRelation, R!CheckUnique
  <1>1. CASE R!End(r)
    BY <1>0, <1>1, RefEndStep DEF R!Kept
  <1>2. ASSUME NEW p \in {"unique", "write"}, refReq' = [refReq EXCEPT ![r].pc = p] PROVE RefIInv'
    <2> DEFINE x == [refReq[r] EXCEPT !.pc = p]
    <2>1. refReq[r] \in RefRequest /\ RefMeant(refReq[r])
      BY DEF RefIInv, RefTypeInv
    <2>2. x \in RefRequest /\ RefMeant(x) /\ x.pc # "written"
      BY <2>1 DEF RefRequest, RefMeant
    <2>3. refReq' = [refReq EXCEPT ![r] = x]
      BY <1>2
    <2> HIDE DEF x
    <2> QED
      BY <1>0, <2>2, <2>3, RefRequestStep DEF R!Kept
  <1> QED
    BY <1>1, <1>2 DEF R!CheckRelation, R!CheckUnique, R!Goto

\* A statement: what it waits for keeps it apart from the others, what it has not
\* violated is so.
LEMMA RefWriteStep == ASSUME RefIInv, NEW r \in Requests, R!Write(r) PROVE RefIInv'
  <1> DEFINE x == [refReq[r] EXCEPT !.pc = "written"]
  <1>1. refReq[r] \in RefRequest /\ RefMeant(refReq[r]) /\ refReq[r].pc = "write"
    BY DEF RefIInv, RefTypeInv, R!Write
  <1>2. /\ x \in RefRequest /\ x.pc = "written" /\ x.op = refReq[r].op /\ x.on = refReq[r].on
        /\ x.sets = refReq[r].sets /\ x.code = refReq[r].code /\ x.ref = refReq[r].ref
    BY <1>1 DEF RefRequest
  <1>3. refReq' = [refReq EXCEPT ![r] = x] /\ UNCHANGED <<soft, policy, item, target>>
    BY DEF R!Write, R!Goto, R!Kept
  <1> HIDE DEF x
  <1>4. /\ refReq' \in [Requests -> RefRequest] /\ refReq'[r] = x
        /\ \A q \in Requests \ {r} : refReq'[q] = refReq[q]
    BY <1>2, <1>3 DEF RefIInv, RefTypeInv
  <1>5. RefTypeInv'
    BY <1>1, <1>2, <1>3, <1>4 DEF RefIInv, RefTypeInv, RefMeant
  <1>6. ASSUME NEW q \in Requests \ {r}, RefWritten(q)
        PROVE  RefApart(refReq[q], refReq[r]) /\ RefApart(refReq[r], refReq[q])
    <2>1. RefMeant(refReq[q]) /\ refReq[q] \in RefRequest
      BY DEF RefIInv, RefTypeInv
    <2> QED
      BY <1>1, <1>6, <2>1 DEF R!Write, R!Free, R!Held, RefApart, RefWritten
  <1>7. RefLockInv'
    <2> SUFFICES ASSUME NEW q \in Requests, NEW s \in Requests, q # s, RefWritten(q)', RefWritten(s)'
                 PROVE  RefApart(refReq[q], refReq[s])'
      BY DEF RefLockInv
    <2>1. CASE q = r
      BY <1>2, <1>3, <1>4, <1>6, <2>1 DEF RefWritten, RefApart, R!Referring
    <2>2. CASE s = r
      BY <1>2, <1>3, <1>4, <1>6, <2>2 DEF RefWritten, RefApart, R!Referring
    <2>3. CASE q # r /\ s # r
      BY <1>3, <1>4, <2>3 DEF RefWritten, RefApart, R!Referring, RefIInv, RefLockInv
    <2> QED
      BY <2>1, <2>2, <2>3
  <1>8. RefFoundInv'
    <2>1. RefStillSo(refReq[r])
      BY DEF R!Write, R!Found, RefStillSo
    <2>2. ASSUME NEW q, NEW s, q.on = s.on, q.sets = s.sets, q.code = s.code, q.ref = s.ref, q.op = s.op
          PROVE  RefStillSo(q) => RefStillSo(s)'
      BY <1>3, <2>2 DEF RefStillSo, R!Violates, R!Taken, R!Known, R!Restricted, R!Referring
    <2> QED
      BY <1>2, <1>4, <2>1, <2>2 DEF RefIInv, RefFoundInv, RefWritten
  <1>9. R!UniqueKept' /\ R!RefsKept'
    BY <1>3 DEF RefIInv, R!UniqueKept, R!RefsKept
  <1> QED
    BY <1>5, <1>7, <1>8, <1>9 DEF RefIInv

\* The other requests, when one commits and ends.
LEMMA RefOthers ==
  ASSUME RefIInv, NEW r \in Requests, R!Commit(r)
  PROVE  /\ refReq' \in [Requests -> RefRequest] /\ ~RefWritten(r)' /\ RefMeant(refReq'[r])
         /\ \A s \in Requests \ {r} : refReq'[s] = refReq[s]
         /\ UNCHANGED <<soft, policy>>
         /\ refReq[r] \in RefRequest /\ RefMeant(refReq[r]) /\ RefStillSo(refReq[r])
         /\ \A s \in Requests \ {r} : RefWritten(s) =>
              /\ refReq[s] \in RefRequest /\ RefMeant(refReq[s]) /\ RefStillSo(refReq[s])
              /\ RefApart(refReq[r], refReq[s]) /\ RefApart(refReq[s], refReq[r])
  <1>1. R!NoRequest \in RefRequest /\ RefMeant(R!NoRequest) /\ R!NoRequest.pc # "written"
    BY DEF R!NoRequest, RefRequest, RefMeant
  <1>2. /\ refReq' = [refReq EXCEPT ![r] = R!NoRequest] /\ UNCHANGED <<soft, policy>>
        /\ RefWritten(r)
    BY DEF R!Commit, R!End, RefWritten
  <1>3. refReq \in [Requests -> RefRequest] /\ \A s \in Requests : refReq[s] \in RefRequest /\ RefMeant(refReq[s])
    BY DEF RefIInv, RefTypeInv
  <1>4. /\ refReq' \in [Requests -> RefRequest] /\ refReq'[r] = R!NoRequest
        /\ \A s \in Requests \ {r} : refReq'[s] = refReq[s]
    BY <1>1, <1>2, <1>3
  <1>5. RefStillSo(refReq[r])
    BY <1>2 DEF RefIInv, RefFoundInv
  <1>6. \A s \in Requests \ {r} : RefWritten(s) =>
           RefStillSo(refReq[s]) /\ RefApart(refReq[r], refReq[s]) /\ RefApart(refReq[s], refReq[r])
    BY <1>2 DEF RefIInv, RefFoundInv, RefLockInv
  <1> QED
    BY <1>1, <1>2, <1>3, <1>4, <1>5, <1>6 DEF RefWritten

\* It suffices that those at work stay apart, and that what they found is still so.
LEMMA RefCommitStep ==
  ASSUME RefIInv, NEW r \in Requests, R!Commit(r),
         item' \in [Items -> RefItem], target' \in [TargetRows -> {"live", "deleted", "gone"}],
         soft \/ \A i \in Items : item'[i].state # "deleted",
         \A s \in Requests \ {r} : RefWritten(s) => RefStillSo(refReq[s])',
         \A s, u \in Requests \ {r} : s # u /\ RefWritten(s) /\ RefWritten(u) => RefApart(refReq[s], refReq[u])',
         R!UniqueKept', R!RefsKept'
  PROVE  RefIInv'
  <1>1. /\ refReq' \in [Requests -> RefRequest] /\ ~RefWritten(r)' /\ RefMeant(refReq'[r])
        /\ \A s \in Requests \ {r} : refReq'[s] = refReq[s]
        /\ UNCHANGED <<soft, policy>>
    BY RefOthers
  <1>2. RefTypeInv'
    BY <1>1 DEF RefIInv, RefTypeInv, RefMeant
  <1>3. RefLockInv'
    BY <1>1 DEF RefLockInv, RefWritten
  <1>4. RefFoundInv'
    BY <1>1 DEF RefFoundInv, RefWritten
  <1> QED
    BY <1>2, <1>3, <1>4 DEF RefIInv

\* A record is created or changed.
LEMMA RefEditStep ==
  ASSUME RefIInv, NEW r \in Requests, R!Commit(r), refReq[r].op \in {"create", "update"}
  PROVE  RefIInv'
  <1> DEFINE q == refReq[r]
             y == [state |-> "live", code |-> IF "code" \in q.sets THEN q.code ELSE item[q.on].code,
                   ref |-> IF "ref" \in q.sets THEN q.ref ELSE item[q.on].ref]
  <1>1. /\ q \in RefRequest /\ RefMeant(q) /\ RefStillSo(q) /\ q.on \in Items
        /\ item \in [Items -> RefItem] /\ target \in [TargetRows -> {"live", "deleted", "gone"}]
        /\ UNCHANGED <<soft, policy>>
    BY RefOthers DEF RefIInv, RefTypeInv, RefMeant
  <1>2. item' = [item EXCEPT ![q.on] = y] /\ target' = target
    BY DEF R!Commit
  <1>3. /\ y \in RefItem /\ y.state = "live"
        /\ y.code = IF "code" \in q.sets THEN q.code ELSE item[q.on].code
        /\ y.ref = IF "ref" \in q.sets THEN q.ref ELSE item[q.on].ref
        /\ ("code" \in q.sets /\ "ref" \in q.sets) \/ item[q.on].state = "live"
    BY <1>1 DEF RefItem, RefRequest, RefMeant, RefStillSo
  <1> HIDE DEF y
  <1>4. /\ item' \in [Items -> RefItem] /\ item'[q.on] = y
        /\ \A i \in Items \ {q.on} : item'[i] = item[i]
    BY <1>1, <1>2, <1>3
  <1>5. \A s \in Requests \ {r} : RefWritten(s) =>
              /\ refReq'[s] = refReq[s] /\ refReq[s] \in RefRequest /\ RefMeant(refReq[s]) /\ RefStillSo(refReq[s])
              /\ RefApart(q, refReq[s]) /\ RefApart(refReq[s], q)
    BY RefOthers
  <1>6. ASSUME NEW t PROVE R!Referring(t)' \subseteq R!Referring(t) \cup (IF "ref" \in q.sets /\ q.ref = t THEN {q.on} ELSE {})
    BY <1>1, <1>3, <1>4 DEF R!Referring
  <1>7. ASSUME NEW s \in Requests \ {r}, RefWritten(s)
        PROVE  RefStillSo(refReq[s])'
    <2>0. /\ refReq'[s] = refReq[s] /\ refReq[s] \in RefRequest /\ RefMeant(refReq[s]) /\ RefStillSo(refReq[s])
          /\ RefApart(q, refReq[s]) /\ RefApart(refReq[s], q)
      BY <1>5, <1>7
    <2>1. refReq[s].op \in {"update", "delete"} => item'[refReq[s].on].state = "live"
      BY <1>4, <2>0 DEF RefStillSo, RefApart, RefMeant
    <2>2. "code" \in refReq[s].sets => ~R!Taken(refReq[s].on, refReq[s].code)'
      <3> SUFFICES ASSUME "code" \in refReq[s].sets PROVE ~R!Taken(refReq[s].on, refReq[s].code)'
        OBVIOUS
      <3>1. \A j \in Items \ {refReq[s].on} : item[j].code = refReq[s].code =>
               item[j].state \notin (IF soft THEN {"live"} ELSE {"live", "deleted"})
        BY <2>0 DEF RefStillSo, R!Violates, R!Taken
      <3>2. \A j \in Items \ {refReq[s].on} : item'[j].code = refReq[s].code =>
               item'[j].state \notin (IF soft THEN {"live"} ELSE {"live", "deleted"})
        BY <1>3, <1>4, <2>0, <3>1 DEF RefApart
      <3> QED
        BY <1>1, <2>0, <3>2 DEF R!Taken
    <2>3. "ref" \in refReq[s].sets => R!Known(refReq[s].ref)'
      BY <1>2, <2>0 DEF RefStillSo, R!Violates, R!Known
    <2>4. refReq[s].op = "drop" => ~R!Restricted(refReq[s].on)'
      <3> SUFFICES ASSUME refReq[s].op = "drop", ~soft, policy = "restrict"
                   PROVE  R!Referring(refReq[s].on)' = {}
        BY <1>1, <2>0 DEF R!Restricted
      <3>1. R!Referring(refReq[s].on) = {}
        BY <2>0 DEF RefStillSo, R!Violates, R!Restricted
      <3>2. ~("ref" \in q.sets /\ q.ref = refReq[s].on)
        BY <2>0 DEF RefApart
      <3>3. ASSUME NEW t, t = refReq[s].on PROVE R!Referring(t)' = {}
        BY <1>6, <3>1, <3>2, <3>3
      <3> QED
        BY <2>0, <3>3 DEF R!Referring
    <2> QED
      BY <2>0, <2>1, <2>2, <2>3, <2>4 DEF RefStillSo, R!Violates
  <1>8. ASSUME NEW s \in Requests \ {r}, NEW u \in Requests \ {r}, s # u, RefWritten(s), RefWritten(u)
        PROVE  RefApart(refReq[s], refReq[u])'
    <2>1. RefApart(refReq[s], refReq[u]) /\ refReq[s].on # q.on
      BY <1>5, <1>8 DEF RefIInv, RefLockInv, RefApart
    <2>2. refReq'[s] = refReq[s] /\ refReq'[u] = refReq[u] /\ RefMeant(refReq[u])
      BY <1>5, <1>8
    <2>3. refReq[u].op = "drop" /\ ~soft => refReq[s].on \notin R!Referring(refReq[u].on)'
      BY <1>1, <1>4, <2>1, <2>2 DEF RefApart, R!Referring
    <2> QED
      BY <1>1, <2>1, <2>2, <2>3 DEF RefApart
  <1>9. R!UniqueKept'
    <2>1. ASSUME NEW j \in Items \ {q.on}, item[j].state = "live" PROVE item[j].code # y.code
      <3>1. CASE "code" \in q.sets
        BY <1>1, <1>3, <2>1, <3>1 DEF RefStillSo, R!Violates, R!Taken
      <3>2. CASE "code" \notin q.sets
        BY <1>1, <1>3, <2>1, <3>2 DEF RefIInv, R!UniqueKept
      <3> QED
        BY <3>1, <3>2
    <2> QED
      BY <1>1, <1>4, <2>1 DEF R!UniqueKept, RefIInv
  <1>10. R!RefsKept'
    BY <1>1, <1>2, <1>3, <1>4 DEF R!RefsKept, RefIInv, RefStillSo, R!Violates, R!Known
  <1>11. soft \/ \A i \in Items : item'[i].state # "deleted"
    BY <1>1, <1>3, <1>4 DEF RefIInv, RefTypeInv
  <1> QED
    BY <1>1, <1>2, <1>4, <1>7, <1>8, <1>9, <1>10, <1>11, RefCommitStep

\* A record or a target goes: no row gains a value, a reference or a life by it.
LEMMA RefShrinkStep ==
  ASSUME RefIInv, NEW r \in Requests, R!Commit(r),
         item' \in [Items -> RefItem], target' \in [TargetRows -> {"live", "deleted", "gone"}],
         soft \/ \A i \in Items : item'[i].state # "deleted",
         \A i \in Items : /\ item'[i].code = item[i].code
                          /\ item'[i].ref \in {item[i].ref, NoTarget}
                          /\ item'[i].state = "live" => item[i].state = "live"
                          /\ item'[i].state = "deleted" => item[i].state \in {"live", "deleted"},
         \A s \in Requests \ {r} : RefWritten(s) /\ refReq[s].op \in {"update", "delete"} =>
            item'[refReq[s].on].state = item[refReq[s].on].state,
         \A t \in TargetRows : target'[t] = target[t] \/ (refReq[r].op = "drop" /\ t = refReq[r].on),
         R!RefsKept'
  PROVE  RefIInv'
  <1>1. /\ UNCHANGED <<soft, policy>>
        /\ \A s \in Requests \ {r} : RefWritten(s) =>
              /\ refReq'[s] = refReq[s] /\ refReq[s] \in RefRequest /\ RefMeant(refReq[s]) /\ RefStillSo(refReq[s])
              /\ RefApart(refReq[r], refReq[s]) /\ RefApart(refReq[s], refReq[r])
    BY RefOthers
  <1>2. ASSUME NEW t \in TargetRows PROVE R!Referring(t)' \subseteq R!Referring(t)
    BY NullIsNone DEF R!Referring, R!NullAssumption
  <1>3. ASSUME NEW s \in Requests \ {r}, RefWritten(s)
        PROVE  RefStillSo(refReq[s])'
    <2>0. /\ refReq'[s] = refReq[s] /\ refReq[s] \in RefRequest /\ RefMeant(refReq[s]) /\ RefStillSo(refReq[s])
          /\ RefApart(refReq[r], refReq[s]) /\ RefApart(refReq[s], refReq[r])
      BY <1>1, <1>3
    <2>1. refReq[s].op \in {"update", "delete"} => item'[refReq[s].on].state = "live"
      BY <1>3, <2>0 DEF RefStillSo
    <2>2. "code" \in refReq[s].sets => ~R!Taken(refReq[s].on, refReq[s].code)'
      <3> SUFFICES ASSUME "code" \in refReq[s].sets PROVE ~R!Taken(refReq[s].on, refReq[s].code)'
        OBVIOUS
      <3>1. \A j \in Items \ {refReq[s].on} : item[j].code = refReq[s].code =>
               item[j].state \notin (IF soft THEN {"live"} ELSE {"live", "deleted"})
        BY <2>0 DEF RefStillSo, R!Violates, R!Taken
      <3>2. \A j \in Items \ {refReq[s].on} : item'[j].code = refReq[s].code =>
               item'[j].state \notin (IF soft THEN {"live"} ELSE {"live", "deleted"})
        BY <3>1
      <3> QED
        BY <1>1, <2>0, <3>2 DEF R!Taken
    <2>3. "ref" \in refReq[s].sets => R!Known(refReq[s].ref)'
      BY <2>0 DEF RefStillSo, R!Violates, R!Known, RefApart, RefRequest
    <2>4. refReq[s].op = "drop" => ~R!Restricted(refReq[s].on)'
      <3> SUFFICES ASSUME refReq[s].op = "drop", ~soft, policy = "restrict"
                   PROVE  R!Referring(refReq[s].on)' = {}
        BY <1>1, <2>0 DEF R!Restricted
      <3>1. R!Referring(refReq[s].on) = {} /\ refReq[s].on \in TargetRows
        BY <2>0 DEF RefStillSo, R!Violates, R!Restricted, RefMeant
      <3>2. ASSUME NEW t, t = refReq[s].on PROVE R!Referring(t)' = {}
        BY <1>2, <3>1, <3>2
      <3> QED
        BY <2>0, <3>2 DEF R!Referring
    <2> QED
      BY <2>0, <2>1, <2>2, <2>3, <2>4 DEF RefStillSo, R!Violates
  <1>4. ASSUME NEW s \in Requests \ {r}, NEW u \in Requests \ {r}, s # u, RefWritten(s), RefWritten(u)
        PROVE  RefApart(refReq[s], refReq[u])'
    <2>1. RefApart(refReq[s], refReq[u]) /\ refReq'[s] = refReq[s] /\ refReq'[u] = refReq[u] /\ RefMeant(refReq[u])
      BY <1>1, <1>4 DEF RefIInv, RefLockInv
    <2>2. refReq[u].op = "drop" /\ ~soft => refReq[s].on \notin R!Referring(refReq[u].on)'
      BY <2>1, NullIsNone DEF RefApart, R!Referring, RefMeant, R!NullAssumption
    <2> QED
      BY <1>1, <2>1, <2>2 DEF RefApart
  <1>5. R!UniqueKept'
    BY DEF RefIInv, R!UniqueKept
  <1> QED
    BY <1>3, <1>4, <1>5, RefCommitStep

\* The record that was checked is deleted.
LEMMA RefDeleteStep ==
  ASSUME RefIInv, NEW r \in Requests, R!Commit(r), refReq[r].op = "delete"
  PROVE  RefIInv'
  <1> DEFINE q == refReq[r]
             y == [item[q.on] EXCEPT !.state = R!Removed]
  <1>1. /\ RefStillSo(q) /\ q.on \in Items /\ item[q.on].state = "live"
        /\ item \in [Items -> RefItem] /\ target \in [TargetRows -> {"live", "deleted", "gone"}]
    BY RefOthers DEF RefIInv, RefTypeInv, RefMeant, RefStillSo
  <1>2. item' = [item EXCEPT ![q.on] = y] /\ target' = target
    BY DEF R!Commit
  <1>3. /\ y \in RefItem /\ y.code = item[q.on].code /\ y.ref = item[q.on].ref
        /\ y.state = IF soft THEN "deleted" ELSE "gone"
    BY <1>1 DEF RefItem, R!Removed
  <1> HIDE DEF y
  <1>4. /\ item' \in [Items -> RefItem] /\ item'[q.on] = y
        /\ \A i \in Items \ {q.on} : item'[i] = item[i]
    BY <1>1, <1>2, <1>3
  <1>5. ASSUME NEW s \in Requests \ {r}, RefWritten(s), refReq[s].op \in {"update", "delete"}
        PROVE  item'[refReq[s].on].state = item[refReq[s].on].state
    BY <1>4, <1>5, RefOthers DEF RefApart, RefMeant
  <1>6. R!RefsKept'
    BY <1>1, <1>2, <1>3, <1>4 DEF R!RefsKept, RefIInv
  <1>7. soft \/ \A i \in Items : item'[i].state # "deleted"
    BY <1>3, <1>4 DEF RefIInv, RefTypeInv
  <1>8. \A i \in Items : /\ item'[i].code = item[i].code
                         /\ item'[i].ref \in {item[i].ref, NoTarget}
                         /\ item'[i].state = "live" => item[i].state = "live"
                         /\ item'[i].state = "deleted" => item[i].state \in {"live", "deleted"}
    BY <1>1, <1>3, <1>4
  <1> QED
    BY <1>1, <1>2, <1>4, <1>5, <1>6, <1>7, <1>8, RefShrinkStep

\* A target is deleted, with what the policy says of the rows that refer to it.
LEMMA RefDropStep ==
  ASSUME RefIInv, NEW r \in Requests, R!Commit(r), refReq[r].op = "drop"
  PROVE  RefIInv'
  <1> DEFINE q == refReq[r]
             y(i) == R!AfterDrop(item[i], q.on)
  <1>1. /\ RefStillSo(q) /\ q.on \in TargetRows /\ q.sets = {}
        /\ item \in [Items -> RefItem] /\ target \in [TargetRows -> {"live", "deleted", "gone"}]
    BY RefOthers DEF RefIInv, RefTypeInv, RefMeant
  <1>2. item' = [i \in Items |-> y(i)] /\ target' = [target EXCEPT ![q.on] = R!Removed]
    BY DEF R!Commit
  <1>3. ASSUME NEW i \in Items
        PROVE  /\ y(i) \in RefItem /\ y(i).code = item[i].code
               /\ y(i).ref \in {item[i].ref, NoTarget} /\ y(i).state \in {item[i].state, "gone"}
               /\ soft \/ i \notin R!Referring(q.on) => y(i) = item[i]
               /\ ~soft /\ i \in R!Referring(q.on) /\ policy # "restrict"
                    => y(i).state = "gone" \/ y(i).ref = NoTarget
    BY <1>1 DEF RefItem, R!AfterDrop, R!Referring
  <1> HIDE DEF y
  <1>4. /\ item' \in [Items -> RefItem] /\ \A i \in Items : item'[i] = y(i)
        /\ target' \in [TargetRows -> {"live", "deleted", "gone"}]
        /\ \A t \in TargetRows \ {q.on} : target'[t] = target[t]
        /\ soft => target'[q.on] = "deleted"
    BY <1>1, <1>2, <1>3 DEF R!Removed
  <1>5. ASSUME NEW s \in Requests \ {r}, RefWritten(s), refReq[s].op \in {"update", "delete"}
        PROVE  item'[refReq[s].on].state = item[refReq[s].on].state
    <2>1. RefApart(refReq[s], q) /\ refReq[s].on \in Items
      BY <1>5, RefOthers DEF RefMeant
    <2> QED
      BY <1>3, <1>4, <2>1 DEF RefApart
  <1>6. R!RefsKept'
    <2> SUFFICES ASSUME NEW i \in Items, item'[i].state = "live", item'[i].ref # NoTarget
                 PROVE  target'[item'[i].ref] # "gone"
      BY DEF R!RefsKept
    <2>1. /\ item'[i] = y(i) /\ item[i].state = "live" /\ item'[i].ref = item[i].ref
          /\ item[i].ref \in TargetRows /\ target[item[i].ref] # "gone"
      BY <1>1, <1>3, <1>4 DEF RefIInv, R!RefsKept, RefItem
    <2>2. CASE soft
      BY <1>4, <2>1, <2>2
    <2>3. CASE ~soft
      <3>1. item[i].ref = q.on => policy # "restrict"
        BY <1>1, <2>1, <2>3 DEF RefStillSo, R!Violates, R!Restricted, R!Referring
      <3>2. item[i].ref # q.on
        BY <1>3, <2>1, <2>3, <3>1 DEF R!Referring
      <3> QED
        BY <1>4, <2>1, <3>2
    <2> QED
      BY <2>2, <2>3
  <1>7. soft \/ \A i \in Items : item'[i].state # "deleted"
    BY <1>3, <1>4 DEF RefIInv, RefTypeInv
  <1>8. \A i \in Items : /\ item'[i].code = item[i].code
                         /\ item'[i].ref \in {item[i].ref, NoTarget}
                         /\ item'[i].state = "live" => item[i].state = "live"
                         /\ item'[i].state = "deleted" => item[i].state \in {"live", "deleted"}
    BY <1>3, <1>4
  <1> QED
    BY <1>4, <1>5, <1>6, <1>7, <1>8, RefShrinkStep

\* Every step preserves the invariant.
LEMMA RefNextStep == RefIInv /\ [R!Next]_(R!refVars) => RefIInv'
  <1> SUFFICES ASSUME RefIInv, [R!Next]_(R!refVars) PROVE RefIInv'
    OBVIOUS
  <1>1. ASSUME NEW r \in Requests,
               \/ \E i \in Items, c \in Codes, t \in TargetRows \cup {NoTarget} :
                    R!Create(r, i, c, t) \/ R!Update(r, i, c, t)
               \/ \E i \in Items : R!DeleteItem(r, i)
               \/ \E t \in TargetRows : R!DeleteTarget(r, t)
        PROVE  RefIInv'
    BY <1>1, RefBeginStep
  <1>2. ASSUME NEW r \in Requests, R!CheckRelation(r) \/ R!CheckUnique(r) PROVE RefIInv'
    BY <1>2, RefLookupStep
  <1>3. ASSUME NEW r \in Requests, R!Refused(r) \/ R!Fails(r) PROVE RefIInv'
    BY <1>3, RefEndStep DEF R!Refused, R!Fails, R!Kept
  <1>4. ASSUME NEW r \in Requests, R!Write(r) PROVE RefIInv'
    BY <1>4, RefWriteStep
  <1>5. ASSUME NEW r \in Requests, R!Commit(r) PROVE RefIInv'
    <2>1. refReq[r].op \in {"create", "update"} \/ refReq[r].op = "delete" \/ refReq[r].op = "drop"
      BY <1>5 DEF R!Commit
    <2> QED
      BY <1>5, <2>1, RefEditStep, RefDeleteStep, RefDropStep
  <1>6. CASE UNCHANGED R!refVars
    BY <1>6 DEF RefIInv, RefTypeInv, RefLockInv, RefFoundInv, R!UniqueKept, R!RefsKept, RefMeant,
      RefWritten, RefApart,
                RefStillSo, R!Violates, R!Taken, R!Known, R!Restricted, R!Referring, R!refVars
  <1> QED
    BY <1>1, <1>2, <1>3, <1>4, <1>5, <1>6 DEF R!Next

\* For any records, codes and requests, under every policy: two live records never share
\* a unique value, and what a live record refers to is there.
THEOREM RefKeep == R!Spec => [](R!UniqueKept /\ R!RefsKept)
  <1>1. RefIInv => R!UniqueKept /\ R!RefsKept
    BY DEF RefIInv
  <1> QED
    BY <1>1, RefInitStep, RefNextStep, PTL DEF R!Spec

\* The two together, as a tenant has them: for any processes that cache the definitions
\* and any requests, a stored custom field keeps a compatible type unless changes of it
\* overlapped, unique values stay unique and references stay good.
THEOREM FieldsAreKept == C!Spec /\ R!Spec => []FieldsHold
  <1>1. C!TypeKept /\ R!UniqueKept /\ R!RefsKept => FieldsHold
    BY DEF FieldsHold
  <1> QED
    BY <1>1, FieldKeeps, RefKeep, PTL

-----------------------------------------------------------------------------
(* The applications of the server (Apps). *)

\* Every variable keeps its type; what is about to record a version has one.
AppCommand == [kind : I!Kinds, app : I!Apps, version : I!Versions, at : I!Places, seen : I!InstalledSet]
AppTypeInv ==
  /\ installed \in I!InstalledSet /\ inTurn \in I!InstalledSet
  /\ torn \in BOOLEAN /\ crossed \in BOOLEAN
  /\ store \in [I!Apps -> I!Versions] /\ kills \in Nat
  /\ lost \subseteq I!Apps /\ superseded \subseteq I!Apps
  /\ cmd \in [I!Processes -> AppCommand]

AppSane(c) ==
  c.at # "idle" =>
    /\ c.kind \in I!Recording => c.version # 0
    /\ c.kind = "builtin" => c.app \in Builtin
    /\ c.at = "unpack" => c.kind = "package"
    /\ c.at = "rename" => c.kind = "replace"
AppKindInv == \A p \in I!Processes : AppSane(cmd[p])

\* Unless commands overlapped, the file is what they leave one after another, and the
\* one that has read it has read that.
AppKeptInv ==
  \/ crossed
  \/ /\ \A p, q \in I!Writers : p = q
     /\ installed = inTurn
     /\ \A p \in I!Writers : cmd[p].seen = installed
     /\ torn => \E p \in I!Processes : cmd[p].at = "write"

\* A command on its way to recording a version of a.
AppSaving == {"load", "truncate", "write"}
AppRecords(c, a) == c.at \in AppSaving /\ c.app = a /\ c.kind \in I!Recording

\* What is recorded, or about to be, is in the store.
AppThereInv ==
  \/ crossed \/ kills # 0
  \/ \A a \in Others : Catalog[a] = 0 /\ a \notin lost =>
       /\ I!is_installed(installed, a) =>
            store[a] = installed[a].version \/ \E p \in I!Processes : AppRecords(cmd[p], a)
       /\ \A p \in I!Processes : AppRecords(cmd[p], a) => store[a] = cmd[p].version

\* What was looked at is there until a command replaces it; a replacement is of an
\* application that is there.
AppMet(need) ==
  \/ need[1] \in superseded
  \/ (I!is_installed(inTurn, need[1]) /\ inTurn[need[1]].version >= need[2])
AppVersionInv == \A a \in I!Apps : I!is_installed(inTurn, a) => inTurn[a].version # 0
AppSound(c) ==
  /\ AppRecords(c, c.app) /\ c.kind \in {"install", "package"} =>
       \A need \in Needs[c.app] : AppMet(need)
  /\ c.at # "idle" /\ c.kind = "replace" => c.app \in superseded \/ I!is_installed(inTurn, c.app)
AppNeedsInv ==
  \/ crossed
  \/ /\ \A a \in I!Apps : I!is_installed(inTurn, a) /\ a \notin superseded =>
          \A need \in Needs[a] : AppMet(need)
     /\ \A p \in I!Processes : AppSound(cmd[p])

\* An application whose directory no command has lost, and that has none, is not
\* recorded, nor about to be.
AppUnknown(c, a) ==
  /\ ~AppRecords(c, a)
  /\ c.at \in {"truncate", "write"} => ~I!is_installed(c.seen, a)
AppLostInv ==
  \A a \in Others : Catalog[a] = 0 /\ store[a] = 0 /\ a \notin lost =>
    ~I!is_installed(installed, a) /\ \A p \in I!Processes : AppUnknown(cmd[p], a)

AppIInv == AppTypeInv /\ AppKindInv /\ AppKeptInv /\ AppThereInv /\ AppVersionInv /\ AppNeedsInv /\ AppLostInv

\* A process without a command.
LEMMA AppIdleCommand == I!Idle \in AppCommand /\ I!Idle.at = "idle" /\ I!Nothing \in I!InstalledSet
  <1>1. (CHOOSE a \in I!Apps : TRUE) \in I!Apps
    BY AppsAre DEF I!AppsAssumption
  <1>2. I!Absent \in I!Record /\ 0 \in I!Versions
    BY DEF I!Absent, I!Record, I!Versions
  <1>3. I!Nothing \in I!InstalledSet
    BY <1>2 DEF I!Nothing, I!InstalledSet
  <1> QED
    BY <1>1, <1>2, <1>3 DEF I!Idle, AppCommand, I!Kinds, I!Places

\* The invariant holds at first.
LEMMA AppInitStep == I!Init => AppIInv
  <1> SUFFICES ASSUME I!Init PROVE AppIInv
    OBVIOUS
  <1>1. AppTypeInv
    <2>0. torn \in BOOLEAN /\ crossed \in BOOLEAN
      BY DEF I!Init
    <2>1. store \in [I!Apps -> I!Versions] /\ kills \in Nat
      BY DEF I!Init, I!Versions
    <2>2. cmd \in [I!Processes -> AppCommand]
      BY AppIdleCommand DEF I!Init
    <2>3. installed \in I!InstalledSet /\ inTurn \in I!InstalledSet /\ lost = {} /\ superseded = {}
      BY AppIdleCommand DEF I!Init
    <2> QED
      BY <2>0, <2>1, <2>2, <2>3 DEF AppTypeInv
  <1>2. \A p \in I!Processes : cmd[p].at = "idle"
    BY AppIdleCommand DEF I!Init
  <1>3. \A a \in I!Apps : installed[a] = I!Absent /\ inTurn[a] = I!Absent
    BY DEF I!Init, I!Nothing
  <1>4. AppKindInv /\ AppKeptInv
    BY <1>2 DEF AppKindInv, AppSane, AppKeptInv, I!Writers, I!Init
  <1>5. AppThereInv /\ AppVersionInv /\ AppNeedsInv /\ AppLostInv
    BY <1>2, <1>3 DEF AppThereInv, AppVersionInv, AppNeedsInv, AppLostInv, AppSound, AppRecords,
      AppSaving, AppUnknown,
                      I!is_installed, I!Apps
  <1> QED
    BY <1>1, <1>4, <1>5 DEF AppIInv

\* A command begins: what it is about has been looked at.
LEMMA AppBeginStep ==
  ASSUME AppIInv, NEW p \in I!Processes, NEW x \in AppCommand,
         cmd[p].at = "idle", cmd' = [cmd EXCEPT ![p] = x],
         AppSane(x), x.at # "truncate", x.at # "write",
         crossed \/ AppSound(x),
         \A a \in Others : AppRecords(x, a) /\ Catalog[a] = 0 /\ a \notin lost =>
           store[a] = x.version /\ store[a] # 0,
         UNCHANGED <<installed, torn, store, kills, inTurn, crossed, lost, superseded>>
  PROVE  AppIInv'
  <1>1. AppTypeInv' /\ cmd'[p] = x /\ \A q \in I!Processes : q # p => cmd'[q] = cmd[q]
    BY DEF AppIInv, AppTypeInv
  <1>2. AppKindInv'
    BY <1>1 DEF AppIInv, AppKindInv
  <1>3. \A q \in I!Processes : cmd'[q].at = "write" <=> cmd[q].at = "write"
    BY <1>1
  <1>4. I!Writers' = I!Writers /\ \A q \in I!Writers : cmd'[q] = cmd[q]
    BY <1>1 DEF I!Writers
  <1>5. AppKeptInv'
    BY <1>3, <1>4 DEF AppIInv, AppKeptInv, I!Writers
  <1>6. AppThereInv'
    <2>1. ASSUME ~crossed, kills = 0, NEW a \in Others, Catalog[a] = 0, a \notin lost
          PROVE  /\ I!is_installed(installed, a) =>
                      store[a] = installed[a].version \/ \E q \in I!Processes : AppRecords(cmd'[q], a)
                 /\ \A q \in I!Processes : AppRecords(cmd'[q], a) => store[a] = cmd'[q].version
      <3>1. /\ I!is_installed(installed, a) =>
                 store[a] = installed[a].version \/ \E q \in I!Processes : AppRecords(cmd[q], a)
            /\ \A q \in I!Processes : AppRecords(cmd[q], a) => store[a] = cmd[q].version
        BY <2>1 DEF AppIInv, AppThereInv
      <3>2. \A q \in I!Processes : AppRecords(cmd[q], a) => AppRecords(cmd'[q], a)
        BY <1>1 DEF AppRecords, AppSaving
      <3> QED
        BY <1>1, <2>1, <3>1, <3>2
    <2> QED
      BY <2>1 DEF AppThereInv, I!is_installed
  <1>7. AppVersionInv' /\ AppNeedsInv'
    BY <1>1 DEF AppIInv, AppVersionInv, AppNeedsInv, AppSound, AppMet, I!is_installed
  <1>8. AppLostInv'
    <2>1. ASSUME NEW a \in Others, Catalog[a] = 0, store[a] = 0, a \notin lost
          PROVE  ~I!is_installed(installed, a) /\ \A q \in I!Processes : AppUnknown(cmd'[q], a)
      <3>1. ~I!is_installed(installed, a) /\ \A q \in I!Processes : AppUnknown(cmd[q], a)
        BY <2>1 DEF AppIInv, AppLostInv
      <3>2. AppUnknown(x, a)
        BY <2>1 DEF AppUnknown
      <3> QED
        BY <1>1, <3>1, <3>2
    <2> QED
      BY <2>1 DEF AppLostInv, I!is_installed
  <1> QED
    BY <1>1, <1>2, <1>5, <1>6, <1>7, <1>8 DEF AppIInv

\* A package is about to be unpacked or put in the place of the old one, which is gone.
LEMMA AppUnpackStep ==
  ASSUME AppIInv, NEW p \in I!Processes, NEW x \in AppCommand,
         cmd[p].at = "idle", cmd' = [cmd EXCEPT ![p] = x],
         AppSane(x), x.at \in {"unpack", "rename"}, crossed \/ AppSound(x),
         store' = [store EXCEPT ![x.app] = 0], lost' = lost \cup {x.app},
         UNCHANGED <<installed, torn, kills, inTurn, crossed, superseded>>
  PROVE  AppIInv'
  <1>0. x.app \in I!Apps /\ 0 \in I!Versions /\ store'[x.app] = 0
        /\ \A b \in I!Apps : b # x.app => store'[b] = store[b]
    BY DEF AppCommand, AppIInv, AppTypeInv, I!Versions
  <1>1. AppTypeInv' /\ cmd'[p] = x /\ \A q \in I!Processes : q # p => cmd'[q] = cmd[q]
    BY <1>0 DEF AppIInv, AppTypeInv
  <1>2. AppKindInv'
    BY <1>1 DEF AppIInv, AppKindInv
  <1>3. \A q \in I!Processes : cmd'[q].at = "write" <=> cmd[q].at = "write"
    BY <1>1
  <1>4. I!Writers' = I!Writers /\ \A q \in I!Writers : cmd'[q] = cmd[q]
    BY <1>1 DEF I!Writers
  <1>5. AppKeptInv'
    BY <1>3, <1>4 DEF AppIInv, AppKeptInv, I!Writers
  <1>6. \A a \in I!Apps : ~AppRecords(x, a) /\ ~AppRecords(cmd[p], a)
    BY DEF AppRecords, AppSaving
  <1>7. AppThereInv'
    <2>1. ASSUME ~crossed, kills = 0, NEW a \in Others, Catalog[a] = 0, a \notin lost'
          PROVE  /\ I!is_installed(installed, a) =>
                      store'[a] = installed[a].version \/ \E q \in I!Processes : AppRecords(cmd'[q], a)
                 /\ \A q \in I!Processes : AppRecords(cmd'[q], a) => store'[a] = cmd'[q].version
      <3>1. /\ I!is_installed(installed, a) =>
                 store[a] = installed[a].version \/ \E q \in I!Processes : AppRecords(cmd[q], a)
            /\ \A q \in I!Processes : AppRecords(cmd[q], a) => store[a] = cmd[q].version
        BY <2>1 DEF AppIInv, AppThereInv
      <3>2. store'[a] = store[a] /\ a \in I!Apps
        BY <1>0, <2>1 DEF I!Apps
      <3> QED
        BY <1>1, <1>6, <3>1, <3>2
    <2> QED
      BY <2>1 DEF AppThereInv, I!is_installed
  <1>8. AppVersionInv' /\ AppNeedsInv'
    BY <1>1 DEF AppIInv, AppVersionInv, AppNeedsInv, AppSound, AppMet, I!is_installed
  <1>9. AppLostInv'
    <2>1. ASSUME NEW a \in Others, Catalog[a] = 0, store'[a] = 0, a \notin lost'
          PROVE  ~I!is_installed(installed, a) /\ \A q \in I!Processes : AppUnknown(cmd'[q], a)
      <3>1. a \in I!Apps /\ store[a] = 0 /\ a \notin lost
        BY <1>0, <2>1 DEF I!Apps
      <3>2. ~I!is_installed(installed, a) /\ \A q \in I!Processes : AppUnknown(cmd[q], a)
        BY <2>1, <3>1 DEF AppIInv, AppLostInv
      <3>3. AppUnknown(x, a)
        BY <1>6, <3>1 DEF AppUnknown
      <3> QED
        BY <1>1, <3>2, <3>3
    <2> QED
      BY <2>1 DEF AppLostInv, I!is_installed
  <1> QED
    BY <1>1, <1>2, <1>5, <1>7, <1>8, <1>9 DEF AppIInv

\* What has been looked at is there.
LEMMA AppValidated ==
  ASSUME AppIInv, ~crossed, NEW a \in I!Apps, I!validate_bundle(a)
  PROVE  \A need \in Needs[a] : AppMet(need)
  <1>1. installed = inTurn
    BY DEF AppIInv, AppKeptInv
  <1>2. ASSUME NEW need \in Needs[a] PROVE AppMet(need)
    <2>1. I!is_installed(I!load_installed, need[1]) /\ I!load_installed[need[1]].version >= need[2]
      BY <1>2 DEF I!validate_bundle, I!validate_dependencies
    <2>2. need[1] \in I!Apps
      BY AppsAre DEF I!AppsAssumption
    <2>3. ~torn
      BY <2>1, <2>2 DEF I!load_installed, I!is_installed, I!Nothing
    <2> QED
      BY <1>1, <2>1, <2>3 DEF I!load_installed, AppMet
  <1> QED
    BY <1>2

\* A package is in its place: unless another command is about to record a version of the
\* same application, what is recorded next is what is there.
LEMMA AppPlaceStep ==
  ASSUME AppIInv, NEW p \in I!Processes, cmd[p].at \in {"unpack", "rename"},
         cmd[p].at = "unpack" => I!validate_bundle(cmd[p].app),
         cmd' = [cmd EXCEPT ![p].at = "load"],
         store' = [store EXCEPT ![cmd[p].app] = cmd[p].version],
         lost' = lost \ {cmd[p].app}, crossed' = (crossed \/ I!Crossed(p)),
         UNCHANGED <<installed, torn, kills, inTurn, superseded>>
  PROVE  AppIInv'
  <1> DEFINE x == [cmd[p] EXCEPT !.at = "load"]
             b == cmd[p].app
  <1>0. /\ cmd[p] \in AppCommand /\ x \in AppCommand /\ b \in I!Apps /\ AppSane(cmd[p])
        /\ x.at = "load" /\ x.kind = cmd[p].kind /\ x.app = b
        /\ x.version = cmd[p].version /\ x.seen = cmd[p].seen
    BY DEF AppIInv, AppTypeInv, AppKindInv, AppCommand, I!Places
  <1>a. cmd' = [cmd EXCEPT ![p] = x]
    BY DEF AppIInv, AppTypeInv
  <1> HIDE DEF x
  <1>b. x.kind \in {"package", "replace"} /\ x.kind \in I!Recording /\ x.version # 0 /\ AppRecords(x, b)
        /\ \A a : AppRecords(x, a) => a = b
    BY <1>0 DEF AppSane, I!Recording, I!Kinds, AppRecords, AppSaving
  <1>c. store'[b] = x.version /\ \A a \in I!Apps : a # b => store'[a] = store[a]
    BY <1>0 DEF AppIInv, AppTypeInv
  <1>1. AppTypeInv' /\ cmd'[p] = x /\ \A q \in I!Processes : q # p => cmd'[q] = cmd[q]
    <2>1. cmd' \in [I!Processes -> AppCommand] /\ store' \in [I!Apps -> I!Versions]
      BY <1>0, <1>a DEF AppIInv, AppTypeInv, AppCommand
    <2>2. crossed' \in BOOLEAN
      BY DEF AppIInv, AppTypeInv
    <2> QED
      BY <1>a, <2>1, <2>2 DEF AppIInv, AppTypeInv
  <1>2. AppKindInv'
    <2>1. AppSane(x)
      BY <1>0, <1>b DEF AppSane
    <2> QED
      BY <1>1, <2>1 DEF AppIInv, AppKindInv
  <1>3. \A q \in I!Processes : cmd'[q].at = "write" <=> cmd[q].at = "write"
    BY <1>0, <1>1
  <1>4. I!Writers' = I!Writers /\ \A q \in I!Writers : cmd'[q] = cmd[q]
    BY <1>0, <1>1 DEF I!Writers
  <1>5. AppKeptInv'
    BY <1>3, <1>4 DEF AppIInv, AppKeptInv, I!Writers
  <1>6. AppThereInv'
    <2>1. ASSUME ~crossed', kills = 0, NEW a \in Others, Catalog[a] = 0, a \notin lost'
          PROVE  /\ I!is_installed(installed, a) =>
                      store'[a] = installed[a].version \/ \E q \in I!Processes : AppRecords(cmd'[q], a)
                 /\ \A q \in I!Processes : AppRecords(cmd'[q], a) => store'[a] = cmd'[q].version
      <3>1. CASE a = b
        <4>1. \A q \in I!Processes : q # p => ~AppRecords(cmd'[q], a)
          <5>1. ~I!Crossed(p)
            BY <2>1
          <5>2. ASSUME NEW q \in I!Processes, q # p, AppRecords(cmd[q], b)
                PROVE  FALSE
            <6>1. cmd[q].at # "idle" /\ cmd[q].kind \in I!Recording /\ cmd[q].app = b
              BY <5>2 DEF AppRecords, AppSaving
            <6> QED
              BY <5>1, <5>2, <6>1 DEF I!Crossed
          <5> QED
            BY <1>1, <3>1, <5>2
        <4> QED
          BY <1>b, <1>c, <1>1, <3>1, <4>1
      <3>2. CASE a # b
        <4>1. /\ I!is_installed(installed, a) =>
                   store[a] = installed[a].version \/ \E q \in I!Processes : AppRecords(cmd[q], a)
              /\ \A q \in I!Processes : AppRecords(cmd[q], a) => store[a] = cmd[q].version
          BY <1>0, <2>1, <3>2 DEF AppIInv, AppThereInv
        <4>2. store'[a] = store[a] /\ ~AppRecords(x, a) /\ ~AppRecords(cmd[p], a)
          BY <1>0, <1>b, <1>c, <2>1, <3>2 DEF I!Apps, AppRecords
        <4> QED
          BY <1>1, <4>1, <4>2
      <3> QED
        BY <3>1, <3>2
    <2> QED
      BY <2>1 DEF AppThereInv, I!is_installed
  <1>7. AppVersionInv'
    BY DEF AppIInv, AppVersionInv, I!is_installed
  <1>8. AppNeedsInv'
    <2>1. ASSUME ~crossed' PROVE AppSound(x)
      <3>1. ~crossed /\ AppSound(cmd[p]) /\ installed = inTurn
        BY <2>1 DEF AppIInv, AppNeedsInv, AppKeptInv
      <3>2. x.kind = "package" => cmd[p].at = "unpack"
        BY <1>0 DEF AppSane
      <3>3. ASSUME x.kind = "package", NEW need \in Needs[b] PROVE AppMet(need)
        BY <1>0, <3>1, <3>2, <3>3, AppValidated
      <3>4. x.kind = "replace" => b \in superseded \/ I!is_installed(inTurn, b)
        BY <1>0, <3>1 DEF AppSound
      <3> QED
        BY <1>0, <1>b, <3>3, <3>4 DEF AppSound
    <2>2. ASSUME ~crossed', NEW q \in I!Processes PROVE AppSound(cmd'[q])
      <3>1. AppSound(cmd[q])
        BY <2>2 DEF AppIInv, AppNeedsInv
      <3> QED
        BY <1>1, <2>1, <2>2, <3>1
    <2> QED
      BY <2>2 DEF AppIInv, AppNeedsInv, AppSound, AppMet, I!is_installed
  <1>9. AppLostInv'
    <2>1. ASSUME NEW a \in Others, Catalog[a] = 0, store'[a] = 0, a \notin lost'
          PROVE  ~I!is_installed(installed, a) /\ \A q \in I!Processes : AppUnknown(cmd'[q], a)
      <3>1. a \in I!Apps /\ a # b /\ store[a] = 0 /\ a \notin lost
        BY <1>b, <1>c, <2>1 DEF I!Apps
      <3>2. ~I!is_installed(installed, a) /\ \A q \in I!Processes : AppUnknown(cmd[q], a)
        BY <2>1, <3>1 DEF AppIInv, AppLostInv
      <3>3. AppUnknown(x, a)
        BY <1>0, <1>b, <3>1 DEF AppUnknown
      <3> QED
        BY <1>1, <3>2, <3>3
    <2> QED
      BY <2>1 DEF AppLostInv, I!is_installed
  <1> QED
    BY <1>1, <1>2, <1>5, <1>6, <1>7, <1>8, <1>9 DEF AppIInv

\* A package that is refused is removed again.
LEMMA AppRefuseStep ==
  ASSUME AppIInv, NEW p \in I!Processes, cmd[p].at = "unpack", cmd' = [cmd EXCEPT ![p] = I!Idle],
         store' = [store EXCEPT ![cmd[p].app] = 0], lost' = lost \cup {cmd[p].app},
         crossed' = (crossed \/ I!Crossed(p)),
         UNCHANGED <<installed, torn, kills, inTurn, superseded>>
  PROVE  AppIInv'
  <1> DEFINE b == cmd[p].app
  <1>0. /\ b \in I!Apps /\ store'[b] = 0 /\ I!Idle \in AppCommand /\ I!Idle.at = "idle"
        /\ \A a \in I!Apps : a # b => store'[a] = store[a]
    BY AppIdleCommand DEF AppIInv, AppTypeInv, AppCommand, I!Versions
  <1>1. AppTypeInv' /\ cmd'[p] = I!Idle /\ \A q \in I!Processes : q # p => cmd'[q] = cmd[q]
    <2>1. cmd' \in [I!Processes -> AppCommand] /\ store' \in [I!Apps -> I!Versions]
      BY <1>0 DEF AppIInv, AppTypeInv, I!Versions
    <2>2. crossed' \in BOOLEAN
      BY DEF AppIInv, AppTypeInv
    <2> QED
      BY <1>0, <2>1, <2>2 DEF AppIInv, AppTypeInv
  <1>2. AppKindInv'
    BY <1>0, <1>1 DEF AppIInv, AppKindInv, AppSane
  <1>3. \A q \in I!Processes : cmd'[q].at = "write" <=> cmd[q].at = "write"
    BY <1>0, <1>1
  <1>4. I!Writers' = I!Writers /\ \A q \in I!Writers : cmd'[q] = cmd[q]
    BY <1>0, <1>1 DEF I!Writers
  <1>5. AppKeptInv'
    BY <1>3, <1>4 DEF AppIInv, AppKeptInv, I!Writers
  <1>6. \A a \in I!Apps : ~AppRecords(I!Idle, a) /\ ~AppRecords(cmd[p], a)
    BY <1>0 DEF AppRecords, AppSaving
  <1>7. AppThereInv'
    <2>1. ASSUME ~crossed', kills = 0, NEW a \in Others, Catalog[a] = 0, a \notin lost'
          PROVE  /\ I!is_installed(installed, a) =>
                      store'[a] = installed[a].version \/ \E q \in I!Processes : AppRecords(cmd'[q], a)
                 /\ \A q \in I!Processes : AppRecords(cmd'[q], a) => store'[a] = cmd'[q].version
      <3>1. /\ I!is_installed(installed, a) =>
                 store[a] = installed[a].version \/ \E q \in I!Processes : AppRecords(cmd[q], a)
            /\ \A q \in I!Processes : AppRecords(cmd[q], a) => store[a] = cmd[q].version
        BY <2>1 DEF AppIInv, AppThereInv
      <3>2. store'[a] = store[a] /\ a \in I!Apps
        BY <1>0, <2>1 DEF I!Apps
      <3> QED
        BY <1>1, <1>6, <3>1, <3>2
    <2> QED
      BY <2>1 DEF AppThereInv, I!is_installed
  <1>8. AppVersionInv'
    BY DEF AppIInv, AppVersionInv, I!is_installed
  <1>9. AppNeedsInv'
    <2>1. AppSound(I!Idle)
      BY <1>0 DEF AppSound, AppRecords, AppSaving
    <2>2. ASSUME ~crossed', NEW q \in I!Processes PROVE AppSound(cmd'[q])
      BY <1>1, <2>1, <2>2 DEF AppIInv, AppNeedsInv
    <2> QED
      BY <2>2 DEF AppIInv, AppNeedsInv, AppSound, AppMet, I!is_installed
  <1>10. AppLostInv'
    <2>1. ASSUME NEW a \in Others, Catalog[a] = 0, store'[a] = 0, a \notin lost'
          PROVE  ~I!is_installed(installed, a) /\ \A q \in I!Processes : AppUnknown(cmd'[q], a)
      <3>1. a \in I!Apps /\ store[a] = 0 /\ a \notin lost
        BY <1>0, <2>1 DEF I!Apps
      <3>2. ~I!is_installed(installed, a) /\ \A q \in I!Processes : AppUnknown(cmd[q], a)
        BY <2>1, <3>1 DEF AppIInv, AppLostInv
      <3>3. AppUnknown(I!Idle, a)
        BY <1>0, <1>6, <3>1 DEF AppUnknown
      <3> QED
        BY <1>1, <3>2, <3>3
    <2> QED
      BY <2>1 DEF AppLostInv, I!is_installed
  <1> QED
    BY <1>1, <1>2, <1>5, <1>7, <1>8, <1>9, <1>10 DEF AppIInv

\* A command is killed, or ends without having written: what is killed while it writes
\* leaves the file torn.
LEMMA AppEndStep ==
  ASSUME AppIInv, NEW p \in I!Processes, cmd[p].at # "idle", cmd' = [cmd EXCEPT ![p] = I!Idle],
         kills' \in Nat,
         \/ kills' # 0
         \/ kills' = kills /\ cmd[p].at = "load" /\ cmd[p].kind \notin I!Recording,
         \/ crossed' = crossed /\ cmd[p].at # "write"
         \/ crossed' = TRUE,
         UNCHANGED <<installed, torn, store, inTurn, lost, superseded>>
  PROVE  AppIInv'
  <1>0. I!Idle \in AppCommand /\ I!Idle.at = "idle"
    BY AppIdleCommand
  <1>1. AppTypeInv' /\ cmd'[p] = I!Idle /\ \A q \in I!Processes : q # p => cmd'[q] = cmd[q]
    <2>1. cmd' \in [I!Processes -> AppCommand]
      BY <1>0 DEF AppIInv, AppTypeInv
    <2>2. crossed' \in BOOLEAN
      BY DEF AppIInv, AppTypeInv
    <2> QED
      BY <1>0, <2>1, <2>2 DEF AppIInv, AppTypeInv
  <1>2. AppKindInv'
    BY <1>0, <1>1 DEF AppIInv, AppKindInv, AppSane
  <1>5. AppKeptInv'
    <2>1. ASSUME ~crossed' PROVE ~crossed /\ cmd[p].at # "write"
      BY <2>1
    <2>2. \A q \in I!Writers' : q \in I!Writers /\ cmd'[q] = cmd[q]
      BY <1>0, <1>1 DEF I!Writers
    <2>3. ASSUME ~crossed' PROVE \A q \in I!Processes : cmd[q].at = "write" => cmd'[q].at = "write"
      BY <1>1, <2>1, <2>3
    <2> QED
      BY <2>1, <2>2, <2>3 DEF AppIInv, AppKeptInv
  <1>6. \A a \in I!Apps : ~AppRecords(I!Idle, a)
    BY <1>0 DEF AppRecords, AppSaving
  <1>7. AppThereInv'
    <2>1. ASSUME ~crossed', kills' = 0, NEW a \in Others, Catalog[a] = 0, a \notin lost
          PROVE  /\ I!is_installed(installed, a) =>
                      store[a] = installed[a].version \/ \E q \in I!Processes : AppRecords(cmd'[q], a)
                 /\ \A q \in I!Processes : AppRecords(cmd'[q], a) => store[a] = cmd'[q].version
      <3>1. /\ I!is_installed(installed, a) =>
                 store[a] = installed[a].version \/ \E q \in I!Processes : AppRecords(cmd[q], a)
            /\ \A q \in I!Processes : AppRecords(cmd[q], a) => store[a] = cmd[q].version
        BY <2>1 DEF AppIInv, AppThereInv
      <3>2. ~AppRecords(cmd[p], a) /\ ~AppRecords(I!Idle, a)
        BY <1>6, <2>1 DEF AppRecords, I!Apps
      <3> QED
        BY <1>1, <3>1, <3>2
    <2> QED
      BY <2>1 DEF AppThereInv, I!is_installed
  <1>8. AppVersionInv'
    BY DEF AppIInv, AppVersionInv, I!is_installed
  <1>9. AppNeedsInv'
    <2>1. AppSound(I!Idle)
      BY <1>0 DEF AppSound, AppRecords, AppSaving
    <2>2. ASSUME ~crossed', NEW q \in I!Processes PROVE AppSound(cmd'[q])
      BY <1>1, <2>1, <2>2 DEF AppIInv, AppNeedsInv
    <2> QED
      BY <2>2 DEF AppIInv, AppNeedsInv, AppSound, AppMet, I!is_installed
  <1>10. AppLostInv'
    <2>1. ASSUME NEW a \in Others, Catalog[a] = 0, store[a] = 0, a \notin lost
          PROVE  ~I!is_installed(installed, a) /\ \A q \in I!Processes : AppUnknown(cmd'[q], a)
      <3>2. ~I!is_installed(installed, a) /\ \A q \in I!Processes : AppUnknown(cmd[q], a)
        BY <2>1 DEF AppIInv, AppLostInv
      <3>3. AppUnknown(I!Idle, a)
        BY <1>0, <1>6, <2>1 DEF AppUnknown, I!Apps
      <3> QED
        BY <1>1, <3>2, <3>3
    <2> QED
      BY <2>1 DEF AppLostInv, I!is_installed
  <1> QED
    BY <1>1, <1>2, <1>5, <1>7, <1>8, <1>9, <1>10 DEF AppIInv

\* The file is read: whoever is the only one that changes it has what is in it.
LEMMA AppReadStep ==
  ASSUME AppIInv, NEW p \in I!Processes, cmd[p].at = "load",
         cmd' = [cmd EXCEPT ![p].at = "truncate", ![p].seen = I!load_installed],
         crossed' = (crossed \/ I!Writers # {}),
         UNCHANGED <<installed, torn, store, kills, inTurn, lost, superseded>>
  PROVE  AppIInv'
  <1> DEFINE x == [cmd[p] EXCEPT !.at = "truncate", !.seen = I!load_installed]
  <1>0. /\ cmd[p] \in AppCommand /\ x \in AppCommand /\ x.at = "truncate" /\ x.kind = cmd[p].kind
        /\ x.app = cmd[p].app /\ x.version = cmd[p].version /\ x.seen = I!load_installed
        /\ AppSane(cmd[p]) /\ I!Nothing \in I!InstalledSet
    <2>1. cmd[p] \in AppCommand /\ installed \in I!InstalledSet /\ I!Nothing \in I!InstalledSet /\ AppSane(cmd[p])
      BY AppIdleCommand DEF AppIInv, AppTypeInv, AppKindInv
    <2>2. I!load_installed \in I!InstalledSet
      BY <2>1 DEF I!load_installed
    <2> QED
      BY <2>1, <2>2 DEF AppCommand, I!Places
  <1>a. cmd' = [cmd EXCEPT ![p] = x]
    BY DEF AppIInv, AppTypeInv
  <1> HIDE DEF x
  <1>1. AppTypeInv' /\ cmd'[p] = x /\ \A q \in I!Processes : q # p => cmd'[q] = cmd[q]
    <2>1. cmd' \in [I!Processes -> AppCommand]
      BY <1>0, <1>a DEF AppIInv, AppTypeInv
    <2>2. crossed' \in BOOLEAN
      BY DEF AppIInv, AppTypeInv
    <2> QED
      BY <1>a, <2>1, <2>2 DEF AppIInv, AppTypeInv
  <1>2. AppKindInv'
    <2>1. AppSane(x)
      BY <1>0 DEF AppSane
    <2> QED
      BY <1>1, <2>1 DEF AppIInv, AppKindInv
  <1>3. \A a : AppRecords(x, a) <=> AppRecords(cmd[p], a)
    BY <1>0 DEF AppRecords, AppSaving
  <1>4. \A q \in I!Processes, a \in I!Apps :
          (AppRecords(cmd'[q], a) <=> AppRecords(cmd[q], a)) /\ cmd'[q].version = cmd[q].version
    BY <1>0, <1>1, <1>3
  <1>5. AppKeptInv'
    <2>1. ASSUME ~crossed' PROVE ~crossed /\ I!Writers = {} /\ ~torn /\ installed = inTurn
      <3>1. ~crossed /\ I!Writers = {}
        BY <2>1
      <3>2. \A q \in I!Processes : cmd[q].at # "write"
        BY <3>1 DEF I!Writers
      <3> QED
        BY <3>1, <3>2 DEF AppIInv, AppKeptInv
    <2>2. ASSUME ~crossed' PROVE I!Writers' = {p} /\ x.seen = installed
      <3>1. \A q \in I!Processes : q \in I!Writers' <=> q = p
        BY <1>0, <1>1, <2>1, <2>2 DEF I!Writers
      <3>2. I!Writers' \subseteq I!Processes
        BY DEF I!Writers
      <3>3. x.seen = installed
        BY <1>0, <2>1, <2>2 DEF I!load_installed
      <3> QED
        BY <3>1, <3>2, <3>3
    <2> QED
      BY <1>1, <2>1, <2>2 DEF AppKeptInv
  <1>6. AppThereInv'
    <2>1. ASSUME ~crossed', kills = 0, NEW a \in Others, Catalog[a] = 0, a \notin lost
          PROVE  /\ I!is_installed(installed, a) =>
                      store[a] = installed[a].version \/ \E q \in I!Processes : AppRecords(cmd'[q], a)
                 /\ \A q \in I!Processes : AppRecords(cmd'[q], a) => store[a] = cmd'[q].version
      BY <1>4, <2>1 DEF AppIInv, AppThereInv, I!Apps
    <2> QED
      BY <2>1 DEF AppThereInv, I!is_installed
  <1>7. AppVersionInv'
    BY DEF AppIInv, AppVersionInv, I!is_installed
  <1>8. AppNeedsInv'
    <2>1. ASSUME ~crossed', NEW q \in I!Processes PROVE AppSound(cmd'[q])
      <3>1. AppSound(cmd[q])
        BY <2>1 DEF AppIInv, AppNeedsInv
      <3>2. CASE q = p
        BY <1>0, <1>1, <1>3, <3>1, <3>2 DEF AppSound
      <3> QED
        BY <1>1, <3>1, <3>2
    <2> QED
      BY <2>1 DEF AppIInv, AppNeedsInv, AppSound, AppMet, I!is_installed
  <1>9. AppLostInv'
    <2>1. ASSUME NEW a \in Others, Catalog[a] = 0, store[a] = 0, a \notin lost
          PROVE  ~I!is_installed(installed, a) /\ \A q \in I!Processes : AppUnknown(cmd'[q], a)
      <3>1. ~I!is_installed(installed, a) /\ \A q \in I!Processes : AppUnknown(cmd[q], a)
        BY <2>1 DEF AppIInv, AppLostInv
      <3>2. ~I!is_installed(I!load_installed, a) /\ a \in I!Apps
        BY <3>1 DEF I!load_installed, I!is_installed, I!Nothing, I!Apps
      <3>3. AppUnknown(x, a)
        BY <1>0, <1>3, <3>1, <3>2 DEF AppUnknown
      <3> QED
        BY <1>1, <3>1, <3>3
    <2> QED
      BY <2>1 DEF AppLostInv, I!is_installed
  <1> QED
    BY <1>1, <1>2, <1>5, <1>6, <1>7, <1>8, <1>9 DEF AppIInv

\* The file is truncated.
LEMMA AppTruncateStep ==
  ASSUME AppIInv, NEW p \in I!Processes, I!Truncate(p)
  PROVE  AppIInv'
  <1> DEFINE x == [cmd[p] EXCEPT !.at = "write"]
  <1>0. /\ cmd[p] \in AppCommand /\ x \in AppCommand /\ x.at = "write" /\ x.kind = cmd[p].kind
        /\ x.app = cmd[p].app /\ x.version = cmd[p].version /\ x.seen = cmd[p].seen
        /\ AppSane(cmd[p]) /\ cmd[p].at = "truncate"
    BY DEF I!Truncate, AppIInv, AppTypeInv, AppKindInv, AppCommand, I!Places
  <1>a. /\ cmd' = [cmd EXCEPT ![p] = x] /\ torn' = TRUE
        /\ UNCHANGED <<installed, store, kills, inTurn, crossed, lost, superseded>>
    BY DEF I!Truncate, AppIInv, AppTypeInv
  <1> HIDE DEF x
  <1>1. AppTypeInv' /\ cmd'[p] = x /\ \A q \in I!Processes : q # p => cmd'[q] = cmd[q]
    <2>1. cmd' \in [I!Processes -> AppCommand] /\ torn' \in BOOLEAN
      BY <1>0, <1>a DEF AppIInv, AppTypeInv
    <2> QED
      BY <1>a, <2>1 DEF AppIInv, AppTypeInv
  <1>2. AppKindInv'
    <2>1. AppSane(x)
      BY <1>0 DEF AppSane
    <2> QED
      BY <1>1, <2>1 DEF AppIInv, AppKindInv
  <1>3. \A a : AppRecords(x, a) <=> AppRecords(cmd[p], a)
    BY <1>0 DEF AppRecords, AppSaving
  <1>4. \A q \in I!Processes, a \in I!Apps :
          (AppRecords(cmd'[q], a) <=> AppRecords(cmd[q], a)) /\ cmd'[q].version = cmd[q].version
    BY <1>0, <1>1, <1>3
  <1>5. AppKeptInv'
    <2>1. I!Writers' = I!Writers /\ \A q \in I!Writers : cmd'[q].seen = cmd[q].seen
      BY <1>0, <1>1 DEF I!Writers
    <2> QED
      BY <1>0, <1>1, <1>a, <2>1 DEF AppIInv, AppKeptInv
  <1>6. AppThereInv'
    <2>1. ASSUME ~crossed, kills = 0, NEW a \in Others, Catalog[a] = 0, a \notin lost
          PROVE  /\ I!is_installed(installed, a) =>
                      store[a] = installed[a].version \/ \E q \in I!Processes : AppRecords(cmd'[q], a)
                 /\ \A q \in I!Processes : AppRecords(cmd'[q], a) => store[a] = cmd'[q].version
      BY <1>4, <2>1 DEF AppIInv, AppThereInv, I!Apps
    <2> QED
      BY <1>a, <2>1 DEF AppThereInv, I!is_installed
  <1>7. AppVersionInv'
    BY <1>a DEF AppIInv, AppVersionInv, I!is_installed
  <1>8. AppNeedsInv'
    <2>1. ASSUME ~crossed, NEW q \in I!Processes PROVE AppSound(cmd'[q])
      <3>1. AppSound(cmd[q])
        BY <2>1 DEF AppIInv, AppNeedsInv
      <3>2. CASE q = p
        BY <1>0, <1>1, <1>3, <3>1, <3>2 DEF AppSound
      <3> QED
        BY <1>1, <3>1, <3>2
    <2> QED
      BY <1>a, <2>1 DEF AppIInv, AppNeedsInv, AppSound, AppMet, I!is_installed
  <1>9. AppLostInv'
    <2>1. ASSUME NEW a \in Others, Catalog[a] = 0, store[a] = 0, a \notin lost
          PROVE  ~I!is_installed(installed, a) /\ \A q \in I!Processes : AppUnknown(cmd'[q], a)
      <3>1. ~I!is_installed(installed, a) /\ \A q \in I!Processes : AppUnknown(cmd[q], a)
        BY <2>1 DEF AppIInv, AppLostInv
      <3>3. AppUnknown(x, a)
        BY <1>0, <1>3, <3>1 DEF AppUnknown
      <3> QED
        BY <1>1, <3>1, <3>3
    <2> QED
      BY <1>a, <2>1 DEF AppLostInv, I!is_installed
  <1> QED
    BY <1>1, <1>2, <1>5, <1>6, <1>7, <1>8, <1>9 DEF AppIInv

\* What a command makes of a set changes its own application only.
LEMMA AppChangedIs ==
  ASSUME NEW c \in AppCommand, NEW set \in I!InstalledSet
  PROVE  /\ I!Changed(c, set) \in I!InstalledSet
         /\ \A a \in I!Apps : a # c.app => I!Changed(c, set)[a] = set[a]
         /\ c.kind \in I!Recording => I!Changed(c, set)[c.app] = [version |-> c.version, disabled |-> FALSE]
         /\ c.kind = "uninstall" => I!Changed(c, set)[c.app] = I!Absent
         /\ c.kind \notin I!Recording =>
              /\ I!is_installed(I!Changed(c, set), c.app) => I!is_installed(set, c.app)
              /\ I!is_installed(set, c.app) /\ set[c.app].version # 0 /\ c.kind # "uninstall" =>
                   I!is_installed(I!Changed(c, set), c.app)
              /\ I!is_installed(I!Changed(c, set), c.app) =>
                   I!Changed(c, set)[c.app].version = set[c.app].version
  <1>0. c.app \in I!Apps /\ c.version \in I!Versions /\ c.kind \in I!Kinds /\ I!Absent \in I!Record
        /\ set[c.app] \in I!Record
    BY DEF AppCommand, I!Absent, I!Record, I!Versions, I!InstalledSet
  <1>1. CASE c.kind \in I!Recording
    <2>1. I!Changed(c, set) = [set EXCEPT ![c.app] = [version |-> c.version, disabled |-> FALSE]]
      BY <1>1 DEF I!Changed, I!mark_installed, I!Recording
    <2> QED
      BY <1>0, <1>1, <2>1 DEF I!InstalledSet, I!Record, I!Recording
  <1>2. CASE c.kind = "uninstall"
    <2>1. I!Changed(c, set) = [set EXCEPT ![c.app] = I!Absent]
      BY <1>2 DEF I!Changed, I!remove_app
    <2>2. c.kind \notin I!Recording /\ ~I!is_installed(I!Changed(c, set), c.app)
      BY <1>0, <1>2, <2>1 DEF I!Recording, I!InstalledSet, I!is_installed
    <2> QED
      BY <1>0, <1>2, <2>1, <2>2 DEF I!InstalledSet
  <1>3. CASE c.kind \in {"disable", "enable"}
    <2> DEFINE off == c.kind = "disable"
               y == [set[c.app] EXCEPT !.disabled = off]
    <2>0. off \in BOOLEAN
      OBVIOUS
    <2>1. y \in I!Record /\ y.version = set[c.app].version
      BY <1>0, <2>0 DEF I!Record
    <2>2. c.kind \notin I!Recording /\ c.kind # "uninstall"
      BY <1>3 DEF I!Recording
    <2>3. CASE I!is_installed(set, c.app)
      <3>1. I!Changed(c, set) = [set EXCEPT ![c.app] = y]
        BY <1>0, <1>3, <2>3 DEF I!Changed, I!switch_app, I!InstalledSet
      <3> HIDE DEF y, off
      <3>2. I!Changed(c, set)[c.app] = y /\ I!Changed(c, set) \in I!InstalledSet
            /\ \A a \in I!Apps : a # c.app => I!Changed(c, set)[a] = set[a]
        BY <1>0, <2>1, <3>1 DEF I!InstalledSet
      <3>3. y.version # 0 => y # I!Absent
        BY DEF I!Absent
      <3> QED
        BY <2>1, <2>2, <2>3, <3>2, <3>3 DEF I!is_installed
    <2>4. CASE ~I!is_installed(set, c.app)
      <3>1. I!Changed(c, set) = set
        BY <1>3, <2>4 DEF I!Changed
      <3> QED
        BY <2>2, <2>4, <3>1
    <2> QED
      BY <2>3, <2>4
  <1> QED
    BY <1>0, <1>1, <1>2, <1>3 DEF I!Kinds, I!Recording

\* The changed set is written: what it records has been looked at and is there; what it
\* takes away or replaces is counted.
LEMMA AppSaveStep ==
  ASSUME AppIInv, NEW p \in I!Processes, I!save_installed(p)
  PROVE  AppIInv'
  <1> DEFINE c == cmd[p]
             b == cmd[p].app
  <1>0. /\ c \in AppCommand /\ b \in I!Apps /\ AppSane(c) /\ c.at = "write"
        /\ I!Idle \in AppCommand /\ I!Idle.at = "idle"
        /\ installed \in I!InstalledSet /\ inTurn \in I!InstalledSet /\ c.seen \in I!InstalledSet
    BY AppIdleCommand DEF I!save_installed, AppIInv, AppTypeInv, AppKindInv, AppCommand
  <1>a. /\ torn' = FALSE /\ installed' = I!Changed(c, c.seen) /\ inTurn' = I!Changed(c, inTurn)
        /\ superseded' = superseded \cup I!Superseded(c) /\ cmd' = [cmd EXCEPT ![p] = I!Idle]
        /\ UNCHANGED <<store, kills, crossed, lost>>
    BY DEF I!save_installed
  <1>b. /\ \A a \in I!Apps : a # b => inTurn'[a] = inTurn[a] /\ installed'[a] = c.seen[a]
        /\ c.kind \in I!Recording =>
             /\ inTurn'[b] = [version |-> c.version, disabled |-> FALSE]
             /\ installed'[b] = [version |-> c.version, disabled |-> FALSE]
        /\ c.kind = "uninstall" => inTurn'[b] = I!Absent /\ installed'[b] = I!Absent
        /\ c.kind \notin I!Recording =>
             /\ I!is_installed(inTurn', b) => I!is_installed(inTurn, b)
             /\ I!is_installed(inTurn, b) /\ inTurn[b].version # 0 /\ c.kind # "uninstall" =>
                  I!is_installed(inTurn', b)
             /\ I!is_installed(inTurn', b) => inTurn'[b].version = inTurn[b].version
             /\ I!is_installed(installed', b) => I!is_installed(c.seen, b)
             /\ I!is_installed(installed', b) => installed'[b].version = c.seen[b].version
    BY <1>0, <1>a, AppChangedIs
  <1>c. c.kind \in I!Recording => c.version # 0 /\ inTurn'[b].version # 0
    BY <1>0, <1>b DEF AppSane
  <1> HIDE DEF c, b
  <1>1. AppTypeInv' /\ cmd'[p] = I!Idle /\ \A q \in I!Processes : q # p => cmd'[q] = cmd[q]
    <2>1. cmd' \in [I!Processes -> AppCommand] /\ torn' \in BOOLEAN
      BY <1>0, <1>a DEF AppIInv, AppTypeInv
    <2>2. installed' \in I!InstalledSet /\ inTurn' \in I!InstalledSet
      BY <1>0, <1>a, AppChangedIs
    <2>3. superseded' \subseteq I!Apps
      BY <1>0, <1>a DEF I!Superseded, AppIInv, AppTypeInv, b, c
    <2> QED
      BY <1>a, <2>1, <2>2, <2>3 DEF AppIInv, AppTypeInv
  <1>2. AppKindInv'
    BY <1>0, <1>1 DEF AppIInv, AppKindInv, AppSane
  <1>3. c = cmd[p] /\ p \in I!Writers /\ \A a \in I!Apps : ~AppRecords(I!Idle, a)
    BY <1>0 DEF I!Writers, c, AppRecords, AppSaving
  <1>5. AppKeptInv'
    <2>1. ASSUME ~crossed PROVE I!Writers' = {} /\ installed' = inTurn' /\ ~torn'
      <3>1. c.seen = inTurn /\ \A q \in I!Writers : q = p
        BY <1>3, <2>1 DEF AppIInv, AppKeptInv
      <3>2. I!Writers' = {}
        BY <1>0, <1>1, <3>1 DEF I!Writers
      <3> QED
        BY <1>a, <3>1, <3>2
    <2> QED
      BY <1>a, <2>1 DEF AppKeptInv
  <1>6. AppThereInv'
    <2>1. ASSUME ~crossed, kills = 0, NEW a \in Others, Catalog[a] = 0, a \notin lost
          PROVE  /\ I!is_installed(installed', a) =>
                      store[a] = installed'[a].version \/ \E q \in I!Processes : AppRecords(cmd'[q], a)
                 /\ \A q \in I!Processes : AppRecords(cmd'[q], a) => store[a] = cmd'[q].version
      <3>1. /\ I!is_installed(installed, a) =>
                 store[a] = installed[a].version \/ \E q \in I!Processes : AppRecords(cmd[q], a)
            /\ \A q \in I!Processes : AppRecords(cmd[q], a) => store[a] = cmd[q].version
            /\ c.seen = installed /\ a \in I!Apps
        BY <1>3, <2>1 DEF AppIInv, AppThereInv, AppKeptInv, I!Apps
      <3>2. CASE AppRecords(c, a)
        BY <1>0, <1>1, <1>3, <1>b, <3>1, <3>2 DEF AppRecords, b, c
      <3>3. CASE ~AppRecords(c, a)
        <4>1. I!is_installed(installed', a) =>
                I!is_installed(installed, a) /\ installed'[a].version = installed[a].version
          BY <1>0, <1>b, <3>1, <3>3 DEF AppRecords, AppSaving, I!is_installed, b, c
        <4> QED
          BY <1>1, <1>3, <3>1, <3>3, <4>1
      <3> QED
        BY <3>2, <3>3
    <2> QED
      BY <1>a, <2>1 DEF AppThereInv
  <1>7. AppVersionInv'
    <2>1. ASSUME NEW a \in I!Apps, I!is_installed(inTurn', a) PROVE inTurn'[a].version # 0
      BY <1>b, <1>c, <2>1 DEF AppIInv, AppVersionInv, I!is_installed
    <2> QED
      BY <2>1 DEF AppVersionInv
  <1>8. AppNeedsInv'
    <2> SUFFICES ASSUME ~crossed PROVE AppNeedsInv'
      BY <1>a DEF AppNeedsInv
    <2>1. /\ \A a \in I!Apps : I!is_installed(inTurn, a) /\ a \notin superseded =>
               \A need \in Needs[a] : AppMet(need)
          /\ \A q \in I!Processes : AppSound(cmd[q])
          /\ AppVersionInv
      BY DEF AppIInv, AppNeedsInv
    <2>2. /\ superseded \subseteq superseded'
          /\ c.kind \in {"uninstall", "update"} => b \in superseded'
          /\ I!is_installed(inTurn, b) /\ c.kind \in I!Recording => b \in superseded'
      BY <1>a, <1>c DEF I!Superseded, b, c
    <2>3. ASSUME NEW a \in I!Apps, I!is_installed(inTurn, a)
          PROVE  \/ a \in superseded'
                 \/ I!is_installed(inTurn', a) /\ inTurn'[a].version = inTurn[a].version
      BY <1>b, <2>1, <2>2, <2>3 DEF AppVersionInv, I!is_installed
    <2>4. ASSUME NEW need \in I!Apps \X Nat, AppMet(need) PROVE AppMet(need)'
      BY <2>2, <2>3, <2>4 DEF AppMet
    <2>5. \A a \in I!Apps : \A need \in Needs[a] : need \in I!Apps \X Nat
      BY AppsAre DEF I!AppsAssumption
    <2>6. ASSUME NEW a \in I!Apps, I!is_installed(inTurn', a), a \notin superseded', NEW need \in Needs[a]
          PROVE  AppMet(need)
      <3>1. CASE I!is_installed(inTurn, a)
        BY <2>1, <2>2, <2>6, <3>1
      <3>2. CASE ~I!is_installed(inTurn, a)
        <4>1. a = b /\ c.kind \in I!Recording /\ c.kind # "update"
          BY <1>b, <2>2, <2>6, <3>2 DEF I!is_installed
        <4>2. c.kind \in {"install", "builtin", "package", "replace"}
          BY <4>1 DEF I!Recording, I!Kinds
        <4>3. c.kind # "replace"
          BY <1>0, <2>1, <2>2, <2>6, <3>2, <4>1 DEF AppSound, b, c
        <4>4. c.kind # "builtin"
          BY <1>0, <2>6, <4>1, AppsAre DEF AppSane, I!AppsAssumption, b, c
        <4> QED
          BY <1>0, <2>1, <2>6, <4>1, <4>2, <4>3, <4>4 DEF AppSound, AppRecords, AppSaving, b, c
      <3> QED
        BY <3>1, <3>2
    <2>7. ASSUME NEW q \in I!Processes, NEW t, t = cmd'[q] PROVE AppSound(t)'
      <3>1. CASE q = p
        <4>1. t.at = "idle"
          BY <1>0, <1>1, <2>7, <3>1
        <4> QED
          BY <4>1 DEF AppSound, AppRecords, AppSaving
      <3>2. CASE q # p
        <4>1. AppSound(t) /\ t = cmd[q] /\ t \in AppCommand /\ t.app \in I!Apps
          BY <1>1, <2>1, <2>7, <3>2 DEF AppIInv, AppTypeInv, AppCommand
        <4>2. AppRecords(t, t.app) /\ t.kind \in {"install", "package"} =>
                \A need \in Needs[t.app] : AppMet(need)'
          BY <2>4, <2>5, <4>1 DEF AppSound
        <4>3. t.at # "idle" /\ t.kind = "replace" =>
                t.app \in superseded' \/ I!is_installed(inTurn', t.app)
          BY <2>2, <2>3, <4>1 DEF AppSound
        <4> QED
          BY <4>1, <4>2, <4>3 DEF AppSound, I!is_installed
      <3> QED
        BY <3>1, <3>2
    <2>8. \A a \in I!Apps : I!is_installed(inTurn', a) /\ a \notin superseded' =>
            \A need \in Needs[a] : AppMet(need)'
      BY <2>4, <2>5, <2>6
    <2>9. (\A q \in I!Processes : AppSound(cmd[q]))'
      BY <2>7
    <2> QED
      BY <2>8, <2>9 DEF AppNeedsInv, I!is_installed
  <1>9. AppLostInv'
    <2>1. ASSUME NEW a \in Others, Catalog[a] = 0, store[a] = 0, a \notin lost
          PROVE  ~I!is_installed(installed', a) /\ \A q \in I!Processes : AppUnknown(cmd'[q], a)
      <3>1. ~I!is_installed(installed, a) /\ \A q \in I!Processes : AppUnknown(cmd[q], a)
        BY <2>1 DEF AppIInv, AppLostInv
      <3>2. ~I!is_installed(c.seen, a) /\ ~AppRecords(c, a) /\ a \in I!Apps
        BY <1>0, <1>3, <3>1 DEF AppUnknown, I!Apps
      <3>3. ~I!is_installed(installed', a)
        BY <1>0, <1>b, <3>2 DEF I!is_installed, AppRecords, AppSaving, b, c
      <3>4. AppUnknown(I!Idle, a)
        BY <1>0, <1>3, <3>2 DEF AppUnknown
      <3> QED
        BY <1>1, <3>1, <3>3, <3>4
    <2> QED
      BY <1>a, <2>1 DEF AppLostInv
  <1> QED
    BY <1>1, <1>2, <1>5, <1>6, <1>7, <1>8, <1>9 DEF AppIInv

\* The version that is found.
LEMMA AppRootIs ==
  ASSUME AppIInv, NEW a \in I!Apps
  PROVE  I!find_app_root(a) \in I!Versions /\ (Catalog[a] = 0 => I!find_app_root(a) = store[a])
  BY AppsAre DEF I!AppsAssumption, AppIInv, AppTypeInv, I!find_app_root

\* install and update of what has a directory, or is compiled in.
LEMMA AppInstallStep ==
  ASSUME AppIInv, NEW p \in Shells, NEW a \in I!Apps, I!cmd_app_install(p, a) \/ I!cmd_app_update(p, a)
  PROVE  AppIInv'
  <1>0. p \in I!Processes
    BY DEF I!Processes
  <1>1. ASSUME NEW k \in {"install", "update"}, I!find_app_root(a) # 0,
               k = "install" => I!validate_bundle(a),
               I!Begin(p, k, a, I!find_app_root(a), "load"),
               UNCHANGED <<installed, torn, store, kills, inTurn, crossed, lost, superseded>>
        PROVE  AppIInv'
    <2> DEFINE x == [kind |-> k, app |-> a, version |-> I!find_app_root(a), at |-> "load",
                     seen |-> I!Nothing]
    <2>1. x \in AppCommand /\ x.version # 0 /\ x.kind = k /\ x.at = "load" /\ x.app = a
          /\ x.version = I!find_app_root(a)
      BY <1>1, AppRootIs, AppIdleCommand DEF AppCommand, I!Kinds, I!Places
    <2>2. cmd' = [cmd EXCEPT ![p] = x] /\ cmd[p].at = "idle"
      BY <1>1 DEF I!Begin
    <2> HIDE DEF x
    <2>3. AppSane(x)
      BY <2>1 DEF AppSane
    <2>4. crossed \/ AppSound(x)
      BY <1>1, <2>1, AppValidated DEF AppSound
    <2>5. \A o \in Others : AppRecords(x, o) /\ Catalog[o] = 0 => store[o] = x.version /\ store[o] # 0
      BY <2>1, AppRootIs DEF AppRecords
    <2> QED
      BY <1>0, <1>1, <2>1, <2>2, <2>3, <2>4, <2>5, AppBeginStep
  <1>2. ASSUME a \in Builtin, I!Begin(p, "builtin", a, 1, "load"),
               UNCHANGED <<installed, torn, store, kills, inTurn, crossed, lost, superseded>>
        PROVE  AppIInv'
    <2> DEFINE x == [kind |-> "builtin", app |-> a, version |-> 1, at |-> "load", seen |-> I!Nothing]
    <2>1. x \in AppCommand /\ x.version = 1 /\ x.kind = "builtin" /\ x.at = "load" /\ x.app = a
      BY AppIdleCommand DEF AppCommand, I!Kinds, I!Places, I!Versions
    <2>2. cmd' = [cmd EXCEPT ![p] = x] /\ cmd[p].at = "idle"
      BY <1>2 DEF I!Begin
    <2> HIDE DEF x
    <2>3. AppSane(x) /\ AppSound(x)
      BY <1>2, <2>1 DEF AppSane, AppSound
    <2>4. \A o \in Others : ~AppRecords(x, o)
      BY <1>2, <2>1, AppsAre DEF AppRecords, I!AppsAssumption
    <2> QED
      BY <1>0, <1>2, <2>1, <2>2, <2>3, <2>4, AppBeginStep
  <1> QED
    BY <1>1, <1>2 DEF I!cmd_app_install, I!cmd_app_update

\* install and update of a package.
LEMMA AppPackageStep ==
  ASSUME AppIInv, NEW p \in Shells, NEW a \in I!Apps, NEW v \in I!Versions,
         I!install_package(p, a, v) \/ I!update_from_package(p, a, v)
  PROVE  AppIInv'
  <1>0. p \in I!Processes /\ v # 0
    BY AppsAre DEF I!Processes, I!AppsAssumption, I!install_package, I!update_from_package
  <1>1. PICK k \in {"package", "replace"}, l \in {"unpack", "rename"} :
          /\ (k = "package" /\ l = "unpack") \/ (k = "replace" /\ l = "rename")
          /\ I!Begin(p, k, a, v, l)
          /\ k = "replace" => I!is_installed(I!load_installed, a)
    BY DEF I!install_package, I!update_from_package
  <1>2. /\ store' = [store EXCEPT ![a] = 0] /\ lost' = lost \cup {a}
        /\ UNCHANGED <<installed, torn, kills, inTurn, crossed, superseded>>
    BY DEF I!install_package, I!update_from_package
  <1> DEFINE x == [kind |-> k, app |-> a, version |-> v, at |-> l, seen |-> I!Nothing]
  <1>3. x \in AppCommand /\ x.version = v /\ x.kind = k /\ x.at = l /\ x.app = a
    BY <1>1, AppIdleCommand DEF AppCommand, I!Kinds, I!Places
  <1>4. cmd' = [cmd EXCEPT ![p] = x] /\ cmd[p].at = "idle"
    BY <1>1 DEF I!Begin
  <1> HIDE DEF x
  <1>5. AppSane(x)
    BY <1>0, <1>1, <1>3 DEF AppSane
  <1>6. ASSUME ~crossed PROVE AppSound(x)
    <2>1. ~AppRecords(x, x.app)
      BY <1>1, <1>3 DEF AppRecords, AppSaving
    <2>2. ASSUME k = "replace" PROVE I!is_installed(inTurn, a)
      <3>1. installed = inTurn
        BY <1>6 DEF AppIInv, AppKeptInv
      <3>2. ~torn
        BY <1>1, <2>2 DEF I!load_installed, I!is_installed, I!Nothing
      <3> QED
        BY <1>1, <2>2, <3>1, <3>2 DEF I!load_installed
    <2> QED
      BY <1>3, <2>1, <2>2 DEF AppSound
  <1> QED
    BY <1>0, <1>1, <1>2, <1>3, <1>4, <1>5, <1>6, AppUnpackStep

\* disable, enable and uninstall, of either origin.
LEMMA AppSwitchStep ==
  ASSUME AppIInv, NEW p \in I!Processes, NEW k \in {"disable", "enable", "uninstall"},
         NEW a \in I!Apps,
         I!Begin(p, k, a, 0, "load"),
         UNCHANGED <<installed, torn, store, kills, inTurn, crossed, lost, superseded>>
  PROVE  AppIInv'
  <1> DEFINE x == [kind |-> k, app |-> a, version |-> 0, at |-> "load", seen |-> I!Nothing]
  <1>1. x \in AppCommand /\ x.kind = k /\ x.at = "load" /\ x.app = a
    BY AppIdleCommand DEF AppCommand, I!Kinds, I!Places, I!Versions
  <1>2. cmd' = [cmd EXCEPT ![p] = x] /\ cmd[p].at = "idle"
    BY DEF I!Begin
  <1> HIDE DEF x
  <1>3. AppSane(x) /\ AppSound(x) /\ \A o : ~AppRecords(x, o)
    BY <1>1 DEF AppSane, AppSound, AppRecords, I!Recording
  <1> QED
    BY <1>1, <1>2, <1>3, AppBeginStep

\* What the server does changes neither file nor store.
LEMMA AppIdleStep ==
  ASSUME AppIInv,
         UNCHANGED <<installed, torn, store, cmd, kills, inTurn, crossed, lost, superseded>>
  PROVE  AppIInv'
  BY DEF AppIInv, AppTypeInv, AppKindInv, AppKeptInv, I!Writers, AppThereInv, AppVersionInv,
    AppNeedsInv, AppLostInv,
         AppSound, AppMet, I!is_installed

\* Every step preserves the invariant.
LEMMA AppNextStep == AppIInv /\ [I!Next]_(I!vars) => AppIInv'
  <1> SUFFICES ASSUME AppIInv, [I!Next]_(I!vars) PROVE AppIInv'
    OBVIOUS
  <1>1. ASSUME NEW p \in Shells, NEW a \in I!Apps,
               \/ I!cmd_app_install(p, a) \/ I!cmd_app_update(p, a)
               \/ \E v \in I!Versions : I!install_package(p, a, v) \/ I!update_from_package(p, a, v)
               \/ \E k \in I!Kinds : I!cmd_app_switch(p, k, a)
        PROVE  AppIInv'
    <2>1. p \in I!Processes
      BY DEF I!Processes
    <2>2. ASSUME NEW k \in I!Kinds, I!cmd_app_switch(p, k, a) PROVE AppIInv'
      BY <2>1, <2>2, AppSwitchStep DEF I!cmd_app_switch
    <2> QED
      BY <1>1, <2>2, AppInstallStep, AppPackageStep
  <1>2. ASSUME NEW k \in I!Kinds, NEW a \in I!Apps, I!studio_switch(k, a) PROVE AppIInv'
    <2>1. InStudio \in I!Processes
      BY DEF I!Processes
    <2> QED
      BY <1>2, <2>1, AppSwitchStep DEF I!studio_switch
  <1>3. ASSUME NEW p \in I!Processes, I!extract_package(p) PROVE AppIInv'
    <2>1. CASE I!validate_bundle(cmd[p].app)
      BY <1>3, <2>1, AppPlaceStep DEF I!extract_package
    <2>2. CASE ~I!validate_bundle(cmd[p].app)
      BY <1>3, <2>2, AppRefuseStep DEF I!extract_package
    <2> QED
      BY <2>1, <2>2
  <1>4. ASSUME NEW p \in I!Processes, I!RenamePackage(p) PROVE AppIInv'
    BY <1>4, AppPlaceStep DEF I!RenamePackage
  <1>5. ASSUME NEW p \in I!Processes, I!LoadInstalled(p) PROVE AppIInv'
    <2>1. CASE cmd[p].kind \in {"disable", "enable"} /\ ~I!is_installed(I!load_installed, cmd[p].app)
      <3>1. kills \in Nat /\ cmd[p].kind \notin I!Recording /\ (crossed' = crossed \/ crossed' = TRUE)
        BY <1>5, <2>1 DEF I!LoadInstalled, AppIInv, AppTypeInv, I!Recording
      <3> QED
        BY <1>5, <2>1, <3>1, AppEndStep DEF I!LoadInstalled
    <2>2. CASE ~(cmd[p].kind \in {"disable", "enable"} /\ ~I!is_installed(I!load_installed, cmd[p].app))
      BY <1>5, <2>2, AppReadStep DEF I!LoadInstalled
    <2> QED
      BY <2>1, <2>2
  <1>6. ASSUME NEW p \in I!Processes, I!Kill(p) PROVE AppIInv'
    <2>1. kills' \in Nat /\ kills' # 0 /\ crossed' = (crossed \/ cmd[p].at = "write") /\ crossed \in BOOLEAN
      BY <1>6 DEF I!Kill, AppIInv, AppTypeInv
    <2>2. (crossed' = crossed /\ cmd[p].at # "write") \/ crossed' = TRUE
      BY <2>1
    <2> QED
      BY <1>6, <2>1, <2>2, AppEndStep DEF I!Kill
  <1>7. CASE I!runtime_for \/ I!build \/ I!Stop
    BY <1>7, AppIdleStep DEF I!runtime_for, I!build, I!Stop
  <1>8. CASE UNCHANGED I!vars
    BY <1>8, AppIdleStep DEF I!vars
  <1> QED
    BY <1>1, <1>2, <1>3, <1>4, <1>5, <1>6, <1>7, <1>8, AppTruncateStep, AppSaveStep DEF I!Next

\* The three properties, between commands.
LEMMA AppHoldsThen == AppIInv => I!AppsHold
  <1> SUFFICES ASSUME AppIInv, I!Quiet, ~crossed
               PROVE  /\ installed = inTurn /\ ~torn
                      /\ kills = 0 =>
                           \A a \in Others : I!is_installed(installed, a) /\ Catalog[a] = 0 =>
                             a \in lost \/ store[a] = installed[a].version
                      /\ \A a \in I!Apps : I!is_installed(installed, a) /\ a \notin superseded =>
                           \A need \in Needs[a] :
                             \/ need[1] \in superseded
                             \/ /\ I!is_installed(installed, need[1])
                                /\ installed[need[1]].version >= need[2]
    BY DEF I!AppsHold, I!CommandsKept, I!RecordedIsThere, I!DependenciesInstalled
  <1>1. installed = inTurn /\ ~torn
    BY DEF AppIInv, AppKeptInv, I!Quiet
  <1>2. ASSUME kills = 0, NEW a \in Others, I!is_installed(installed, a), Catalog[a] = 0, a \notin lost
        PROVE  store[a] = installed[a].version
    BY <1>2 DEF AppIInv, AppThereInv, I!Quiet, AppRecords, AppSaving
  <1>3. \A a \in I!Apps : I!is_installed(installed, a) /\ a \notin superseded =>
          \A need \in Needs[a] :
            need[1] \in superseded
            \/ (I!is_installed(installed, need[1]) /\ installed[need[1]].version >= need[2])
    BY <1>1 DEF AppIInv, AppNeedsInv, AppMet
  <1> QED
    BY <1>1, <1>2, <1>3

\* For any applications, packages, needs and processes of the command line: commands that
\* do not overlap leave what they leave one after another; what is recorded then has its
\* directory, and what it needed when it was installed.
THEOREM AppStand == I!Spec => []I!AppsHold
  BY AppInitStep, AppNextStep, AppHoldsThen, PTL DEF I!Spec

\* The server is a record of the three.
AppServerInv ==
  server \in [state : {"down", "building", "up", "failed"}, loaded : [I!Apps -> I!Versions],
              active : SUBSET I!Apps]

\* Every step keeps the type of the server.
LEMMA AppServerStep == AppIInv /\ AppServerInv /\ [I!Next]_(I!vars) => AppServerInv'
  <1> SUFFICES ASSUME AppIInv, AppServerInv, [I!Next]_(I!vars) PROVE AppServerInv'
    OBVIOUS
  <1>1. 0 \in I!Versions /\ 1 \in I!Versions
    BY DEF I!Versions
  <1>2. \A a \in I!Apps : I!find_app_root(a) \in I!Versions
    BY AppRootIs
  <1>3. CASE server' = server
    BY <1>3 DEF AppServerInv
  <1>4. CASE server' = I!Down
    BY <1>1, <1>4 DEF I!Down, AppServerInv
  <1>5. CASE I!runtime_for
    BY <1>1, <1>2, <1>5 DEF I!runtime_for, I!Down, AppServerInv
  <1>6. CASE I!build
    <2>1. CASE I!install_entities
      <3> DEFINE on == {a \in I!Loaded : ~I!is_disabled(I!load_installed, a)}
      <3>1. on \in SUBSET I!Apps
        BY DEF I!Loaded
      <3>2. server' = [server EXCEPT !.state = "up", !.active = on]
        BY <1>6, <2>1 DEF I!build
      <3> HIDE DEF on
      <3> QED
        BY <3>1, <3>2 DEF AppServerInv
    <2>2. CASE ~I!install_entities
      <3>1. server' = [I!Down EXCEPT !.state = "failed"]
        BY <1>6, <2>2 DEF I!build
      <3> QED
        BY <1>1, <3>1 DEF I!Down, AppServerInv
    <2> QED
      BY <2>1, <2>2
  <1>7. ASSUME NEW p \in I!Processes, I!Kill(p) PROVE server' = server \/ server' = I!Down
    BY <1>7 DEF I!Kill
  <1> QED
    BY <1>3, <1>4, <1>5, <1>6, <1>7
       DEF I!Next, I!vars, I!cmd_app_install, I!cmd_app_update, I!install_package,
       I!update_from_package,
           I!cmd_app_switch, I!studio_switch, I!extract_package, I!RenamePackage, I!LoadInstalled,
           I!Truncate, I!save_installed, I!Stop

\* For any applications: a server whose start fails has found a directory missing which a
\* command removed, or two applications with the same entity.
THEOREM AppStart == I!Spec => StartsUnlessLost
  <1>1. ASSUME AppIInv, AppServerInv, [I!Next]_(I!vars), server.state # "failed", server'.state = "failed"
        PROVE  \/ I!missing # {} /\ I!missing \subseteq lost
               \/ \E a, b \in I!Loaded : a # b /\ Declares[a] \cap Declares[b] # {}
    <2>1. I!runtime_for \/ I!build
      <3>1. ASSUME NEW p \in I!Processes, I!Kill(p) PROVE FALSE
        BY <1>1, <3>1 DEF I!Kill, I!Down
      <3>2. ~I!Stop
        BY <1>1 DEF I!Stop, I!Down
      <3>3. server' # server
        BY <1>1
      <3> QED
        BY <1>1, <3>1, <3>2, <3>3
           DEF I!Next, I!vars, I!cmd_app_install, I!cmd_app_update, I!install_package,
           I!update_from_package,
               I!cmd_app_switch, I!studio_switch, I!extract_package, I!RenamePackage,
               I!LoadInstalled,
               I!Truncate, I!save_installed
    <2>2. CASE I!runtime_for
      <3>1. I!missing # {}
        BY <1>1, <2>2 DEF I!runtime_for, I!Down
      <3>2. ASSUME NEW a \in I!missing PROVE a \in lost
        <4>1. a \in I!resolve_apps /\ a \notin Builtin /\ I!find_app_root(a) = 0
          BY DEF I!missing
        <4>2. a \in I!Apps /\ I!is_installed(I!load_installed, a) /\ I!load_installed # I!Nothing
          BY <4>1 DEF I!resolve_apps
        <4>3. a \in Others /\ I!is_installed(installed, a)
          BY <4>1, <4>2 DEF I!Apps, I!load_installed
        <4>4. Catalog[a] = 0 /\ store[a] = 0
          BY <4>1 DEF I!find_app_root
        <4> QED
          BY <1>1, <4>3, <4>4 DEF AppIInv, AppLostInv
      <3> QED
        BY <3>1, <3>2
    <2>3. CASE I!build
      <3>1. ~I!install_entities
        BY <1>1, <2>3 DEF I!build, AppServerInv
      <3> QED
        BY <3>1 DEF I!install_entities
    <2> QED
      BY <2>1, <2>2, <2>3
  <1>2. AppIInv /\ AppServerInv /\ [I!Next]_(I!vars) =>
          [ server.state # "failed" /\ server'.state = "failed" =>
              \/ I!missing # {} /\ I!missing \subseteq lost
              \/ \E a, b \in I!Loaded : a # b /\ Declares[a] \cap Declares[b] # {} ]_(I!vars)
    BY <1>1
  <1>3. I!Init => AppServerInv
    BY DEF I!Init, I!Down, AppServerInv, I!Versions
  <1> QED
    BY <1>2, <1>3, AppInitStep, AppNextStep, AppServerStep, PTL DEF I!Spec, I!StartsUnlessLost,
      StartsUnlessLost

-----------------------------------------------------------------------------
(* Which applications a tenant may use (TenantApps). *)

\* Every variable that the properties look at keeps its type.
ChoiceChange == [at : {"idle", "write"}, kind : T!Kinds, apps : SUBSET AppNames, seen : T!Config]
ChoiceTypeInv ==
  /\ settings \in T!Config /\ cached \in T!Config /\ kept \in T!Config
  /\ op \in [T!Processes -> ChoiceChange]
  /\ wanted \subseteq AppNames
  /\ fresh \in BOOLEAN /\ crossing \in BOOLEAN /\ emptied \in BOOLEAN

\* Unless changes overlapped, at most one is under way and has read the row as it is.
ChoiceEnabled(config) == IF config.enabled = {} THEN Active ELSE config.enabled
ChoiceAloneInv ==
  \/ crossing
  \/ /\ \A p, q \in T!Processes : op[p].at = "write" /\ op[q].at = "write" => p = q
     /\ settings = kept
     /\ fresh => cached = settings
     /\ \A p \in T!Processes : op[p].at = "write" /\ op[p].kind # "tenant" => op[p].seen = settings

\* What the tenant has been given is what its list stands for, unless the last
\* application was taken away.
ChoiceWantedInv == crossing \/ emptied \/ wanted = ChoiceEnabled(settings)

ChoiceIInv == ChoiceTypeInv /\ ChoiceAloneInv /\ ChoiceWantedInv

\* What the assumption says of the constants.
LEMMA ChoiceConstants ==
  /\ Active \subseteq AppNames /\ MaxEdits \in Nat
  /\ T!Default \in T!Config /\ T!Default.enabled = {}
  <1>1. Active \subseteq AppNames /\ MaxEdits \in Nat
    BY ChoicesAre DEF T!ChoicesAssumption
  <1>2. (CHOOSE p \in Plans : PlanApps[p] = {}) \in Plans
    BY ChoicesAre DEF T!ChoicesAssumption
  <1>3. 0 \in 0..MaxEdits
    BY <1>1
  <1> QED
    BY <1>1, <1>2, <1>3 DEF T!Default, T!Config

\* A process without a change.
LEMMA ChoiceIdleChange == T!Idle \in ChoiceChange /\ T!Idle.at = "idle"
  BY ChoiceConstants DEF T!Idle, ChoiceChange, T!Kinds

\* The invariant holds at first.
LEMMA ChoiceInitStep == T!Init => ChoiceIInv
  <1> SUFFICES ASSUME T!Init PROVE ChoiceIInv
    OBVIOUS
  <1>1. op \in [T!Processes -> ChoiceChange] /\ \A p \in T!Processes : op[p].at = "idle"
    BY ChoiceIdleChange DEF T!Init
  <1>2. settings = T!Default /\ cached = T!Default /\ kept = T!Default /\ wanted = Active
    BY DEF T!Init
  <1>3. fresh \in BOOLEAN /\ crossing \in BOOLEAN /\ emptied \in BOOLEAN
    BY DEF T!Init
  <1> QED
    BY <1>1, <1>2, <1>3, ChoiceConstants DEF ChoiceIInv, ChoiceTypeInv, ChoiceAloneInv,
      ChoiceWantedInv, ChoiceEnabled

\* What a change makes of a configuration is a configuration.
LEMMA ChoiceEditedIs ==
  ASSUME NEW o \in ChoiceChange, NEW config \in T!Config
  PROVE  T!Edited(o, config) \in T!Config
  <1>1. /\ config.enabled \in SUBSET AppNames /\ config.plan \in Plans /\ config.branding \in 0..MaxEdits
        /\ o.apps \in SUBSET AppNames /\ o.seen \in T!Config /\ o.kind \in T!Kinds
    BY DEF ChoiceChange, T!Config
  <1>2. (config.branding + 1) % (MaxEdits + 1) \in 0..MaxEdits
    <2>1. config.branding + 1 \in Nat /\ MaxEdits + 1 \in Nat /\ MaxEdits + 1 > 0
      BY <1>1, ChoiceConstants
    <2>2. \A x \in Nat, n \in Nat : n > 0 => x % n \in 0..(n - 1)
      OBVIOUS
    <2> QED
      BY <2>1, <2>2, ChoiceConstants
  <1>3. CASE o.kind = "apps"
    BY <1>1, <1>3 DEF T!Edited, T!Config
  <1>4. CASE o.kind = "branding"
    BY <1>1, <1>2, <1>4 DEF T!Edited, T!Config
  <1>5. CASE o.kind = "tenant"
    BY <1>1, <1>5 DEF T!Edited
  <1>6. CASE o.kind \in {"enable", "disable"}
    <2> DEFINE base == IF config.enabled = {} THEN Active ELSE config.enabled
    <2>1. base \cup o.apps \in SUBSET AppNames /\ base \ o.apps \in SUBSET AppNames
      BY <1>1, ChoiceConstants
    <2>2. T!Edited(o, config) \in
            {[config EXCEPT !.enabled = base \cup o.apps], [config EXCEPT !.enabled = base \ o.apps]}
      BY <1>6 DEF T!Edited
    <2> HIDE DEF base
    <2> QED
      BY <1>1, <2>1, <2>2 DEF T!Config
  <1> QED
    BY <1>1, <1>3, <1>4, <1>5, <1>6 DEF T!Kinds

\* A change begins, with what it has read.
LEMMA ChoiceBeginStep ==
  ASSUME ChoiceIInv, NEW p \in T!Processes, NEW k \in T!Kinds, NEW apps \in SUBSET AppNames,
         NEW seen \in T!Config,
         T!Begin(p, k, apps, seen),
         crossing \/ k = "tenant" \/ seen = settings,
         \/ UNCHANGED <<cached, fresh>>
         \/ cached' = settings /\ fresh' = TRUE
  PROVE  ChoiceIInv'
  <1> DEFINE x == [at |-> "write", kind |-> k, apps |-> apps, seen |-> seen]
  <1>1. x \in ChoiceChange /\ x.at = "write" /\ x.kind = k /\ x.seen = seen
    BY DEF ChoiceChange
  <1>2. /\ op' = [op EXCEPT ![p] = x]
        /\ crossing' = (crossing \/ \E q \in T!Processes : op[q].at = "write")
        /\ UNCHANGED <<settings, kept, wanted, emptied>>
    BY DEF T!Begin
  <1> HIDE DEF x
  <1>3. op' \in [T!Processes -> ChoiceChange] /\ op'[p] = x /\ \A q \in T!Processes : q # p => op'[q] = op[q]
    BY <1>1, <1>2 DEF ChoiceIInv, ChoiceTypeInv
  <1>4. crossing' \in BOOLEAN
    BY <1>2 DEF ChoiceIInv, ChoiceTypeInv
  <1>5. cached' \in T!Config /\ fresh' \in BOOLEAN
    BY DEF ChoiceIInv, ChoiceTypeInv
  <1>6. ChoiceTypeInv'
    BY <1>2, <1>3, <1>4, <1>5 DEF ChoiceIInv, ChoiceTypeInv
  <1>7. ChoiceAloneInv'
    BY <1>1, <1>2, <1>3 DEF ChoiceIInv, ChoiceAloneInv
  <1>8. ChoiceWantedInv'
    BY <1>2 DEF ChoiceIInv, ChoiceWantedInv, ChoiceEnabled
  <1> QED
    BY <1>6, <1>7, <1>8 DEF ChoiceIInv

\* What is read is the row, unless changes overlapped.
LEMMA ChoiceReadIs ==
  ASSUME ChoiceIInv, NEW p
  PROVE  T!get_config(p) \in T!Config /\ (crossing \/ T!get_config(p) = settings)
  BY DEF ChoiceIInv, ChoiceTypeInv, ChoiceAloneInv, T!get_config

\* The row is written.
LEMMA ChoiceWriteStep ==
  ASSUME ChoiceIInv, NEW p \in T!Processes, T!upsert_config(p)
  PROVE  ChoiceIInv'
  <1> DEFINE o == op[p]
  <1>1. /\ o \in ChoiceChange /\ o.at = "write" /\ o.seen \in T!Config /\ o.apps \in SUBSET AppNames
        /\ o.kind \in T!Kinds
    BY DEF T!upsert_config, ChoiceIInv, ChoiceTypeInv, ChoiceChange
  <1>2. /\ settings' = T!Edited(o, o.seen) /\ kept' = T!Edited(o, kept)
        /\ op' = [op EXCEPT ![p] = T!Idle] /\ wanted' = T!Given(o)
        /\ emptied' = (emptied \/ T!Given(o) = {}) /\ crossing' = (crossing \/ (p \in Shells /\ fresh))
    BY DEF T!upsert_config
  <1>3. (cached' = settings' /\ fresh' = TRUE) \/ (p \in Shells /\ cached' = cached /\ fresh' = fresh)
    BY DEF T!upsert_config, T!Processes
  <1>a. op' \in [T!Processes -> ChoiceChange] /\ op'[p].at = "idle" /\ \A q \in T!Processes : q # p => op'[q] = op[q]
    BY <1>2, ChoiceIdleChange DEF ChoiceIInv, ChoiceTypeInv
  <1> HIDE DEF o
  <1>4. settings' \in T!Config /\ kept' \in T!Config
    BY <1>1, <1>2, ChoiceEditedIs DEF ChoiceIInv, ChoiceTypeInv
  <1>5. T!Given(o) \subseteq AppNames
    <2>1. T!Edited(o, o.seen).enabled \subseteq AppNames
      BY <1>1, ChoiceEditedIs DEF T!Config
    <2> QED
      BY <1>1, <2>1, ChoiceConstants DEF T!Given, ChoiceIInv, ChoiceTypeInv, T!Kinds
  <1>6. ChoiceTypeInv'
    <2>1. crossing' \in BOOLEAN
      BY <1>2 DEF ChoiceIInv, ChoiceTypeInv
    <2>2. emptied' \in BOOLEAN
      BY <1>2 DEF ChoiceIInv, ChoiceTypeInv
    <2>3. cached' \in T!Config /\ fresh' \in BOOLEAN
      BY <1>3, <1>4 DEF ChoiceIInv, ChoiceTypeInv
    <2> QED
      BY <1>2, <1>a, <1>4, <1>5, <2>1, <2>2, <2>3 DEF ChoiceTypeInv
  <1>7. ASSUME ~crossing' PROVE /\ o.kind # "tenant" => o.seen = settings
                                /\ settings = kept /\ ~crossing
                                /\ \A q \in T!Processes : op[q].at = "write" => q = p
    BY <1>1, <1>2, <1>7 DEF ChoiceIInv, ChoiceAloneInv, o
  <1>8. ChoiceAloneInv'
    <2> SUFFICES ASSUME ~crossing' PROVE ChoiceAloneInv'
      BY DEF ChoiceAloneInv
    <2>1. settings' = kept'
      BY <1>2, <1>7 DEF T!Edited
    <2>2. \A q \in T!Processes : op'[q].at # "write"
      BY <1>7, <1>a
    <2>3. fresh' => cached' = settings'
      BY <1>2, <1>3
    <2> QED
      BY <2>1, <2>2, <2>3 DEF ChoiceAloneInv
  <1>9. ChoiceWantedInv'
    <2> SUFFICES ASSUME ~crossing', ~emptied' PROVE wanted' = ChoiceEnabled(settings')
      BY DEF ChoiceWantedInv, ChoiceEnabled
    <2>1. ~emptied /\ T!Given(o) # {}
      BY <1>2
    <2>2. wanted = ChoiceEnabled(settings) /\ settings \in T!Config
      BY <1>7, <2>1 DEF ChoiceIInv, ChoiceTypeInv, ChoiceWantedInv
    <2>3. CASE o.kind \in {"apps", "tenant"}
      BY <1>2, <2>3 DEF T!Given, ChoiceEnabled
    <2>4. CASE o.kind = "branding"
      <3>1. settings'.enabled = settings.enabled /\ wanted' = wanted
        BY <1>2, <1>7, <2>2, <2>4 DEF T!Edited, T!Given, T!Config
      <3> QED
        BY <2>2, <3>1 DEF ChoiceEnabled
    <2>5. CASE o.kind = "enable"
      <3>1. settings' = [settings EXCEPT !.enabled = ChoiceEnabled(settings) \cup o.apps]
        BY <1>2, <1>7, <2>5 DEF T!Edited, ChoiceEnabled
      <3>2. settings'.enabled = ChoiceEnabled(settings) \cup o.apps
        BY <2>2, <3>1 DEF T!Config
      <3>3. T!Given(o) = wanted \cup o.apps
        BY <2>5 DEF T!Given
      <3> QED
        BY <1>2, <2>1, <2>2, <3>2, <3>3 DEF ChoiceEnabled
    <2>6. CASE o.kind = "disable"
      <3>1. settings' = [settings EXCEPT !.enabled = ChoiceEnabled(settings) \ o.apps]
        BY <1>2, <1>7, <2>6 DEF T!Edited, ChoiceEnabled
      <3>2. settings'.enabled = ChoiceEnabled(settings) \ o.apps
        BY <2>2, <3>1 DEF T!Config
      <3>3. T!Given(o) = wanted \ o.apps
        BY <2>6 DEF T!Given
      <3> QED
        BY <1>2, <2>1, <2>2, <3>2, <3>3 DEF ChoiceEnabled
    <2> QED
      BY <1>1, <2>3, <2>4, <2>5, <2>6 DEF T!Kinds
  <1> QED
    BY <1>6, <1>8, <1>9 DEF ChoiceIInv

\* Every step preserves the invariant.
LEMMA ChoiceNextStep == ChoiceIInv /\ [T!Next]_(T!vars) => ChoiceIInv'
  <1> SUFFICES ASSUME ChoiceIInv, [T!Next]_(T!vars) PROVE ChoiceIInv'
    OBVIOUS
  <1>0. \A p \in Requests : p \in T!Processes
    BY DEF T!Processes
  <1>1. ASSUME NEW p \in Requests, NEW apps \in SUBSET AppNames, T!patch_apps(p, apps) PROVE ChoiceIInv'
    BY <1>0, <1>1, ChoiceReadIs, ChoiceBeginStep DEF T!patch_apps, T!CacheAfterRead, T!Kinds
  <1>2. ASSUME NEW p \in Requests, T!patch_branding(p) PROVE ChoiceIInv'
    BY <1>0, <1>2, ChoiceReadIs, ChoiceBeginStep DEF T!patch_branding, T!CacheAfterRead, T!Kinds
  <1>3. ASSUME NEW p \in Requests, NEW list \in SUBSET AppNames, NEW plan \in Plans,
               T!patch_tenant(p, [enabled |-> list, plan |-> plan, branding |-> 0])
        PROVE  ChoiceIInv'
    <2>1. [enabled |-> list, plan |-> plan, branding |-> 0] \in T!Config
      BY ChoiceConstants DEF T!Config
    <2> QED
      BY <1>0, <1>3, <2>1, ChoiceBeginStep DEF T!patch_tenant, T!CacheAfterRead, T!Kinds
  <1>4. ASSUME NEW p \in Shells, NEW k \in {"enable", "disable"}, NEW a \in AppNames,
               T!cmd_tenant_app(p, k, a)
        PROVE  ChoiceIInv'
    <2>1. p \in T!Processes /\ k \in T!Kinds /\ {a} \in SUBSET AppNames /\ settings \in T!Config
      BY DEF T!Processes, T!Kinds, ChoiceIInv, ChoiceTypeInv
    <2> QED
      BY <1>4, <2>1, ChoiceBeginStep DEF T!cmd_tenant_app
  <1>5. CASE T!Expire \/ UNCHANGED T!vars
    <2>1. /\ UNCHANGED <<settings, cached, op, kept, wanted, crossing, emptied>>
          /\ fresh' = fresh \/ fresh' = FALSE
      BY <1>5 DEF T!Expire, T!vars
    <2>2. ChoiceTypeInv'
      BY <2>1 DEF ChoiceIInv, ChoiceTypeInv
    <2>3. ChoiceAloneInv'
      BY <2>1 DEF ChoiceIInv, ChoiceAloneInv
    <2> QED
      BY <2>1, <2>2, <2>3 DEF ChoiceIInv, ChoiceWantedInv, ChoiceEnabled
  <1> QED
    BY <1>1, <1>2, <1>3, <1>4, <1>5, ChoiceWriteStep DEF T!Next

\* The three properties, between changes.
LEMMA ChoiceHoldsThen == ChoiceIInv => T!TenantAppsHold
  <1> SUFFICES ASSUME ChoiceIInv, T!Quiet, ~crossing PROVE T!TenantAppsHold
    BY DEF T!TenantAppsHold, T!ChangesKept, T!GivenIsAllowed, T!JobsMayFinish
  <1>1. settings = kept
    BY DEF ChoiceIInv, ChoiceAloneInv
  <1>2. T!Auth = {a \in ChoiceEnabled(settings) : a \in Active /\ T!plan_allows(settings.plan, a)}
    <2>1. T!get_config(CHOOSE p \in Requests : TRUE) = settings
      BY ChoiceReadIs
    <2> QED
      BY <2>1 DEF T!Auth, T!resolve_apps, ChoiceEnabled
  <1>3. ASSUME ~emptied
        PROVE  LET given == {a \in wanted \cap Active : T!plan_allows(settings.plan, a)} IN
               T!allows_app(T!Auth) = IF given = {} THEN AppNames ELSE given
    <2>1. wanted = ChoiceEnabled(settings)
      BY <1>3 DEF ChoiceIInv, ChoiceWantedInv
    <2>2. T!Auth = {a \in wanted \cap Active : T!plan_allows(settings.plan, a)}
      BY <1>2, <2>1
    <2> QED
      BY <2>2 DEF T!allows_app
  <1>4. T!Auth \subseteq T!allows_app(T!JobApps)
    BY <1>2, ChoiceConstants DEF T!allows_app, T!JobApps, ChoiceEnabled
  <1> QED
    BY <1>1, <1>3, <1>4 DEF T!TenantAppsHold, T!ChangesKept, T!GivenIsAllowed, T!JobsMayFinish

\* For any applications, plans and changes: changes that do not overlap keep each other's
\* parts, requests may use what the tenant has been given, and so may jobs.
THEOREM ChoiceChoose == T!Spec => []T!TenantAppsHold
  BY ChoiceInitStep, ChoiceNextStep, ChoiceHoldsThen, PTL DEF T!Spec

\* The two together, as a server and a tenant have them.
THEOREM AppsAreKept == A!Spec /\ I!Spec /\ T!Spec => []AppsHold
  <1>1. A!MigrationsOnce /\ I!AppsHold /\ T!TenantAppsHold => AppsHold
    BY DEF AppsHold
  <1> QED
    BY <1>1, MigratedOnce, AppStand, ChoiceChoose, PTL

-----------------------------------------------------------------------------
(* Slots of the calendar (Slots). *)

\* The configuration and the bookings are some.
SlotIInv == calendar \in L!Configs /\ booked \subseteq L!Bookings

\* What the assumption and the types say of the numbers.
LEMMA SlotNumbers ==
  ASSUME SlotIInv
  PROVE  /\ Day \in Nat /\ Day > 0
         /\ calendar.duration \in Nat /\ calendar.duration > 0
         /\ calendar.before \in Nat /\ calendar.after \in Nat
         /\ \A b \in booked : b.start \in Int /\ b.end \in Int /\ b.start <= b.end
         /\ \A w \in L!WorkingWindows : w[1] \in 0..(Day - 1) /\ w[2] \in 0..(Day - 1)
  <1>1. /\ calendar.hours \in Hours /\ calendar.duration \in Lengths
        /\ calendar.before \in Buffers /\ calendar.after \in Buffers
    BY DEF SlotIInv, L!Configs
  <1>2. ASSUME NEW b \in booked PROVE b.start \in Int /\ b.end \in Int /\ b.start <= b.end
    <2>1. PICK s \in Starts, n \in {k \in 1..Longest : k % 2 = 0}, i \in BOOLEAN :
            b = [start |-> s, end |-> s + n, ignored |-> i]
      BY <1>2 DEF SlotIInv, L!Bookings
    <2>2. s \in Int /\ n \in Nat
      BY SlotsAre DEF L!SlotsAssumption
    <2> QED
      BY <2>1, <2>2
  <1>3. ASSUME NEW w \in L!WorkingWindows PROVE w[1] \in 0..(Day - 1) /\ w[2] \in 0..(Day - 1)
    <2>1. CASE calendar.hours = {}
      <3>1. w = <<0, Day - 1>>
        BY <1>3, <2>1 DEF L!WorkingWindows
      <3> QED
        BY <3>1, SlotsAre DEF L!SlotsAssumption
    <2>2. CASE calendar.hours # {}
      <3>1. w \in (0..(Day - 1)) \X (0..(Day - 1))
        BY <1>1, <1>3, <2>2, SlotsAre DEF L!WorkingWindows, L!SlotsAssumption
      <3> QED
        BY <3>1
    <2> QED
      BY <2>1, <2>2
  <1>4. /\ Day \in Nat /\ Day > 0
        /\ calendar.duration \in Nat /\ calendar.duration > 0
        /\ calendar.before \in Nat /\ calendar.after \in Nat
    <2>1. Day \in Nat \ {0} /\ Lengths \subseteq Nat \ {0} /\ Buffers \subseteq Nat
      BY SlotsAre, Zenon DEF L!SlotsAssumption
    <2>2. calendar.duration \in Nat \ {0} /\ calendar.before \in Nat /\ calendar.after \in Nat
      BY <1>1, <2>1, Zenon
    <2>3. \A x \in Nat \ {0} : x \in Nat /\ x > 0
      OBVIOUS
    <2> QED
      BY <2>1, <2>2, <2>3, Zenon
  <1> QED
    BY <1>2, <1>3, <1>4

\* A time of the day is on the date.
LEMMA SlotOneDate == ASSUME NEW d \in Nat, NEW t \in Int, 0 <= t, t < d PROVE t \div d = 0
  OBVIOUS

\* A slot lies in a working window.
LEMMA SlotSlotLies ==
  ASSUME SlotIInv, NEW s \in L!SlotStarts
  PROVE  /\ ~calendar.blackout
         /\ \E w \in L!WorkingWindows :
              /\ s \in Int /\ 0 <= w[1] /\ w[1] <= s
              /\ s + calendar.duration <= w[2] /\ w[2] < Day
  <1>1. PICK w \in L!WorkingWindows : s \in L!Steps(w)
    BY DEF L!SlotStarts
  <1>2. w[1] \in 0..(Day - 1) /\ w[2] \in 0..(Day - 1) /\ Day \in Nat
    BY SlotNumbers
  <1>3. s \in w[1]..w[2] /\ s + calendar.duration <= w[2]
    BY <1>1 DEF L!Steps, L!Fits
  <1> QED
    BY <1>2, <1>3 DEF L!SlotStarts

\* What a booking is granted, the calendar shows as free.
LEMMA SlotGrantedIsFree ==
  ASSUME SlotIInv, NEW s \in L!SlotStarts, L!Shorter(Day - calendar.after),
         calendar.before <= Day,
         L!Accepts(L!Slot(s))
  PROVE  L!Available(L!Slot(s))
  <1> DEFINE n == calendar.duration
             x == calendar.before
             y == calendar.after
  <1>1. s \in Int /\ n \in Nat /\ x \in Nat /\ y \in Nat /\ Day \in Nat
    BY SlotSlotLies, SlotNumbers
  <1> SUFFICES ASSUME NEW b \in booked, ~b.ignored
               PROVE  ~L!Overlaps(L!Slot(s), L!WithBuffer(b))
    BY DEF L!Available, L!Counted, L!Candidates
  <1>2. b.start \in Int /\ b.end \in Int /\ b.end - b.start <= Day - y
    BY SlotNumbers DEF L!Shorter
  <1>3. /\ L!Slot(s).start = s /\ L!Slot(s).end = s + n
        /\ L!WithBuffer(b).start = b.start - x /\ L!WithBuffer(b).end = b.end + y
        /\ L!WithBuffer(L!Slot(s)).start = s - x /\ L!WithBuffer(L!Slot(s)).end = s + n + y
    BY DEF L!Slot, L!Window, L!WithBuffer
  <1>4. b \in L!Candidates(L!WithBuffer(L!Slot(s))) => ~L!Overlaps(L!WithBuffer(L!Slot(s)), L!WithBuffer(b))
    BY DEF L!Accepts, L!NoConflict, L!Counted
  <1>5. SUFFICES ASSUME s < b.end + y, b.start - x < s + n PROVE FALSE
    BY <1>3 DEF L!Overlaps
  <1>6. s - x - Day <= b.start /\ b.start < s + n + y + Day
    BY <1>1, <1>2, <1>5
  <1>7. b \in L!Candidates(L!WithBuffer(L!Slot(s)))
    BY <1>3, <1>6 DEF L!Candidates
  <1>8. s - x < b.end + y /\ b.start - x < s + n + y
    BY <1>1, <1>2, <1>5
  <1> QED
    BY <1>3, <1>4, <1>7, <1>8 DEF L!Overlaps

\* What the calendar shows as free, a booking is granted.
LEMMA SlotFreeIsGranted ==
  ASSUME SlotIInv, NEW s \in L!SlotStarts, L!Shorter(Day \div 2), calendar.before = 0,
         calendar.after = 0,
         L!Available(L!Slot(s))
  PROVE  L!Accepts(L!Slot(s))
  <1> DEFINE n == calendar.duration
             h == Day \div 2
  <1>1. PICK w \in L!WorkingWindows :
          s \in Int /\ 0 <= w[1] /\ w[1] <= s /\ s + n <= w[2] /\ w[2] < Day
    BY SlotSlotLies
  <1>2. /\ n \in Nat /\ n > 0 /\ Day \in Nat /\ h \in Nat /\ 2 * h <= Day
        /\ w[1] \in Nat /\ w[2] \in Nat
    BY SlotNumbers
  <1>3. /\ L!Slot(s).start = s /\ L!Slot(s).end = s + n
        /\ L!WithBuffer(L!Slot(s)).start = s /\ L!WithBuffer(L!Slot(s)).end = s + n
        /\ L!Noon.start = h /\ L!Noon.end = h + n
    BY <1>1, <1>2 DEF L!Slot, L!Window, L!WithBuffer, L!Noon
  <1> HIDE DEF h
  <1>4. L!WithinHours(L!Slot(s))
    <2>1. CASE calendar.hours = {}
      BY <2>1 DEF L!WithinHours
    <2>2. CASE calendar.hours # {}
      <3>1. s + n \in Int /\ 0 <= s + n /\ s + n < Day /\ s < Day
        BY <1>1, <1>2
      <3>2. s \div Day = 0 /\ (s + n) \div Day = 0
        BY <1>1, <1>2, <3>1, SlotOneDate
      <3> QED
        BY <1>1, <1>3, <3>2 DEF L!WithinHours, L!Date
    <2> QED
      BY <2>1, <2>2
  <1>5. L!NoConflict(L!Slot(s))
    <2> SUFFICES ASSUME NEW b \in booked, ~b.ignored, b \in L!Candidates(L!WithBuffer(L!Slot(s)))
                 PROVE  ~L!Overlaps(L!WithBuffer(L!Slot(s)), L!WithBuffer(b))
      BY DEF L!NoConflict, L!Counted, L!Candidates
    <2>1. b.start \in Int /\ b.end \in Int /\ b.end - b.start <= h
      BY SlotNumbers DEF L!Shorter, h
    <2>2. L!WithBuffer(b).start = b.start /\ L!WithBuffer(b).end = b.end
      BY <2>1 DEF L!WithBuffer, L!Window
    <2>3. SUFFICES ASSUME s < b.end, b.start < s + n PROVE FALSE
      BY <1>3, <2>2 DEF L!Overlaps
    <2>4. h - Day <= b.start /\ b.start < h + n + Day
      BY <1>1, <1>2, <2>1, <2>3
    <2>5. b \in L!Candidates(L!Noon)
      BY <1>3, <2>4 DEF L!Candidates
    <2>6. ~L!Overlaps(L!Slot(s), L!WithBuffer(b))
      BY <2>5 DEF L!Available, L!Counted
    <2> QED
      BY <1>3, <2>2, <2>3, <2>6 DEF L!Overlaps
  <1> QED
    BY <1>4, <1>5, SlotSlotLies DEF L!Accepts

\* Every step preserves the invariant.
LEMMA SlotNextStep == SlotIInv /\ [L!Next]_(L!slotVars) => SlotIInv'
  <1>1. ASSUME SlotIInv, L!Book \/ L!Configure \/ UNCHANGED L!slotVars PROVE SlotIInv'
    BY <1>1 DEF SlotIInv, L!Book, L!Configure, L!slotVars, L!Configs, L!Bookings
  <1> QED
    BY <1>1 DEF L!Next

\* For any working hours, lengths, buffers and bookings: a slot that is shown as taken would
\* be refused, and one that is shown as free would be accepted, each as far as the rows that
\* are looked at reach.
THEOREM SlotAgree == L!Spec => []L!SlotsAgree
  <1>1. L!Init => SlotIInv
    BY DEF L!Init, SlotIInv
  <1>2. SlotIInv => L!SlotsAgree
    BY SlotGrantedIsFree, SlotFreeIsGranted DEF L!SlotsAgree
  <1> QED
    BY <1>1, <1>2, SlotNextStep, PTL DEF L!Spec

\* Both at once: the property of the run.
THEOREM SchedulesAreKept == E!Spec /\ L!Spec => []ScheduleKept
  <1>1. E!ScheduleKept /\ L!SlotsAgree => ScheduleKept
    BY DEF ScheduleKept
  <1> QED
    BY <1>1, SchStays, SlotAgree, PTL

-----------------------------------------------------------------------------
(* Documents, their child rows and totals (Documents). *)

\* Every variable keeps its type; there are finitely many rows.
DocRowSet == [id : Nat, of : Docs, amount : 1..2]
DocSums == {0} \cup {D!Total(n, X) : n \in 0..1, X \in SUBSET DocRowSet}
DocDoc == [state : {"unborn", "live", "deleted"}, own : 0..1, total : DocSums]
DocPatch == [op : {"none", "update", "delete", "copy", "create"}, own : BOOLEAN, list : BOOLEAN,
          keep : SUBSET Nat, add : 0..1]
DocPoints == {"new", "row", "list", "children", "total", "sweep", "erase", "done"}
DocTableInv ==
  /\ doc \in [Docs -> DocDoc]
  /\ rows \in SUBSET DocRowSet /\ IsFiniteSet(rows) /\ made \in Nat
DocRequestInv ==
  /\ docPc \in [Writes -> DocPoints] /\ todo \in [Writes -> Seq(Docs)]
  /\ patch \in [Writes -> DocPatch] /\ docBase \in [Writes -> 0..1]
  /\ docSeen \in [Writes -> SUBSET DocRowSet] /\ docStored \in [Writes -> SUBSET DocRowSet]
  /\ held \in [Writes -> SUBSET Docs]
  /\ \A r \in Writes :
       /\ IsFiniteSet(patch[r].keep) /\ IsFiniteSet(docStored[r])
       /\ docPc[r] \notin {"new", "done"} => todo[r] # <<>>
DocTypeInv == DocTableInv /\ DocRequestInv

\* A row belongs to one document, in the table as in what requests have listed; its number
\* has been given out, and its document is there or has been.
DocKnown == rows \cup UNION {docSeen[r] \cup docStored[r] : r \in Writes}
DocOwnerInv ==
  /\ \A x \in DocKnown : x.id <= made /\ doc[x.of].state # "unborn"
  /\ \A x, y \in DocKnown : x.id = y.id => x.of = y.of
  /\ \A r \in Writes : \A x \in docSeen[r] \cup docStored[r] :
       /\ docPc[r] \in {"children", "total", "erase"}
       /\ x.of = D!Here(r)

\* A request under way has found its document; those that PATCH its columns hold it.
DocFoundInv ==
  \A r \in Writes :
    /\ D!InTransaction(r) => /\ doc[D!Here(r)].state # "unborn"
                             /\ patch[r].own => held[r] = {D!Here(r)}
    /\ docPc[r] = "children" => patch[r].list /\ patch[r].keep \subseteq D!Ids(docSeen[r])
    /\ docPc[r] \in {"sweep", "erase"} => doc[D!Here(r)].state = "deleted"

\* A PATCH that overlaps none of child rows alone is the only one of its document, and has
\* read it as it is.
DocFresh(r) ==
  /\ docBase[r] = IF patch[r].own THEN 1 ELSE doc[D!Here(r)].own
  /\ docPc[r] \in {"children", "total"} => docSeen[r] = D!RowsOf(D!Here(r))
  /\ docPc[r] = "total" /\ ~ patch[r].list => docStored[r] = docSeen[r]
DocAloneInv ==
  /\ \A q, r \in Writes :
       q # r /\ D!InTransaction(q) /\ D!InTransaction(r) /\ D!Here(q) = D!Here(r) => q \in clash
  /\ \A r \in Writes :
       D!InTransaction(r) /\ r \notin clash /\ D!Present(D!Here(r)) => DocFresh(r)

\* The rows of a deleted document are those that its sweep has still to delete.
DocSweeps(r, d) ==
  /\ docPc[r] = "sweep" \/ (docPc[r] = "erase" /\ D!RowsOf(d) \subseteq docSeen[r])
  /\ D!Here(r) = d
DocSweptInv ==
  \A d \in Docs \ left :
    doc[d].state = "deleted" => D!RowsOf(d) = {} \/ \E r \in Writes : DocSweeps(r, d)

DocIInv == DocTypeInv /\ DocOwnerInv /\ DocFoundInv /\ DocAloneInv /\ D!TotalsAddUp /\ DocSweptInv

-----------------------------------------------------------------------------
\* The values of a function on a finite set are finitely many.
LEMMA DocImageFinite ==
  ASSUME NEW X, IsFiniteSet(X), NEW f, DOMAIN f = X, f = [x \in X |-> f[x]]
  PROVE  IsFiniteSet({f[x] : x \in X})
  <1>1. f \in Surjection(X, {f[x] : x \in X})
    BY DEF Surjection
  <1> QED
    BY <1>1, FS_Surjection

\* A finite set is put into a sequence of its elements.
LEMMA DocSequenced ==
  ASSUME NEW X, IsFiniteSet(X)
  PROVE  /\ D!SetToSeq(X) \in [1..Cardinality(X) -> X]
         /\ D!SetToSeq(X) \in Seq(X) /\ Len(D!SetToSeq(X)) \in Nat
         /\ X # {} => D!SetToSeq(X) # <<>>
  <1>1. Cardinality(X) \in Nat /\ ExistsBijection(1..Cardinality(X), X)
    BY FS_CardinalityType
  <1>2. \E f \in [1..Cardinality(X) -> X] : IsInjective(f)
    BY <1>1 DEF ExistsBijection, Bijection, Injection
  <1>3. D!SetToSeq(X) \in [1..Cardinality(X) -> X]
    BY <1>2 DEF D!SetToSeq, D!IsInjective, IsInjective, D!Cardinality, Cardinality
  <1>4. X # {} => Cardinality(X) # 0
    BY FS_EmptySet
  <1> DEFINE q == D!SetToSeq(X)
             n == Cardinality(X)
  <1>5. q \in [1..n -> X] /\ n \in Nat /\ (X # {} => n # 0)
    BY <1>1, <1>3, <1>4
  <1> HIDE DEF q, n
  <1>6. q \in Seq(X) /\ Len(q) = n
    BY <1>5
  <1> QED
    BY <1>5, <1>6 DEF q, n

\* Rows made from finitely many numbers are finitely many.
LEMMA DocRowsFinite ==
  ASSUME NEW d
  PROVE  /\ \A K : IsFiniteSet(K) => IsFiniteSet({D!Row(i, d, 2) : i \in K})
         /\ \A n \in Nat : \A m : IsFiniteSet({D!Row(m + i, d, 1) : i \in 1..n})
         /\ \A X : IsFiniteSet(X) => IsFiniteSet(D!Ids(X))
  <1>1. ASSUME NEW K, IsFiniteSet(K) PROVE IsFiniteSet({D!Row(i, d, 2) : i \in K})
    <2> DEFINE f == [i \in K |-> D!Row(i, d, 2)]
    <2>1. IsFiniteSet({f[i] : i \in K})
      BY <1>1, DocImageFinite
    <2> QED
      BY <2>1
  <1>2. ASSUME NEW n \in Nat, NEW m PROVE IsFiniteSet({D!Row(m + i, d, 1) : i \in 1..n})
    <2> DEFINE f == [i \in 1..n |-> D!Row(m + i, d, 1)]
    <2>1. IsFiniteSet(1..n)
      BY FS_Interval
    <2>2. IsFiniteSet({f[i] : i \in 1..n})
      BY <2>1, DocImageFinite
    <2> QED
      BY <2>2
  <1>3. ASSUME NEW X, IsFiniteSet(X) PROVE IsFiniteSet(D!Ids(X))
    <2> DEFINE f == [x \in X |-> x.id]
    <2>1. IsFiniteSet({f[x] : x \in X})
      BY <1>3, DocImageFinite
    <2> QED
      BY <2>1 DEF D!Ids
  <1> QED
    BY <1>1, <1>2, <1>3

\* Rows of a copy.
LEMMA DocCopyFinite ==
  ASSUME NEW d \in Docs, DocTableInv, NEW X \in SUBSET rows
  PROVE  LET from == D!SetToSeq(X)
             new == {D!Row(made + i, d, from[i].amount) : i \in DOMAIN from}
         IN /\ Len(from) \in Nat /\ IsFiniteSet(new) /\ new \subseteq DocRowSet
            /\ \A x \in new : made < x.id /\ x.id <= made + Len(from) /\ x.of = d
  <1> DEFINE from == D!SetToSeq(X)
             f == [i \in DOMAIN from |-> D!Row(made + i, d, from[i].amount)]
  <1>1. IsFiniteSet(X)
    BY FS_Subset DEF DocTableInv
  <1>2. from \in Seq(X) /\ Len(from) \in Nat
    BY <1>1, DocSequenced
  <1> HIDE DEF from
  <1>3. DOMAIN from = 1..Len(from) /\ \A i \in DOMAIN from : from[i] \in DocRowSet
    BY <1>2 DEF DocTableInv
  <1>4. IsFiniteSet(DOMAIN from)
    BY <1>2, <1>3, FS_Interval
  <1>5. IsFiniteSet({f[i] : i \in DOMAIN from})
    BY <1>4, DocImageFinite
  <1>6. {f[i] : i \in DOMAIN from} = {D!Row(made + i, d, from[i].amount) : i \in DOMAIN from}
    OBVIOUS
  <1>7. ASSUME NEW i \in DOMAIN from
        PROVE  /\ D!Row(made + i, d, from[i].amount) \in DocRowSet
               /\ D!Row(made + i, d, from[i].amount).id = made + i
               /\ D!Row(made + i, d, from[i].amount).of = d
    BY <1>3 DEF D!Row, DocRowSet, DocTableInv
  <1> QED
    <2>1. \A x \in {D!Row(made + i, d, from[i].amount) : i \in DOMAIN from} :
            made < x.id /\ x.id <= made + Len(from) /\ x.of = d /\ x \in DocRowSet
      BY <1>2, <1>3, <1>7 DEF DocTableInv
    <2> QED
      BY <1>2, <1>5, <1>6, <2>1 DEF from

-----------------------------------------------------------------------------
\* A step of one request leaves the others alone.
DocAlone(r) ==
  \A q \in Writes \ {r} :
    /\ docPc'[q] = docPc[q] /\ todo'[q] = todo[q] /\ patch'[q] = patch[q] /\ docBase'[q] = docBase[q]
    /\ docSeen'[q] = docSeen[q] /\ docStored'[q] = docStored[q] /\ held'[q] = held[q]

\* A request that is under way has a document.
LEMMA DocHereIs ==
  ASSUME DocRequestInv, NEW r \in Writes, docPc[r] \notin {"new", "done"}
  PROVE  D!Here(r) \in Docs /\ Tail(todo[r]) \in Seq(Docs) /\ Len(todo[r]) \in Nat
         /\ (Len(todo[r]) # 1 => Tail(todo[r]) # <<>>)
  <1>1. todo[r] \in Seq(Docs) /\ todo[r] # <<>>
    BY DEF DocRequestInv
  <1>2. \A q \in Seq(Docs) : q # <<>> => /\ Head(q) \in Docs /\ Tail(q) \in Seq(Docs)
                                        /\ Len(q) \in Nat /\ (Len(q) # 1 => Len(Tail(q)) # 0)
    OBVIOUS
  <1>3. Len(<<>>) = 0
    OBVIOUS
  <1> QED
    BY <1>1, <1>2, <1>3, Zenon DEF D!Here

\* At the end of a document.
LEMMA DocEndStep ==
  ASSUME DocRequestInv, NEW r \in Writes, docPc[r] \notin {"new", "done"}, D!NextDocument(r)
  PROVE  /\ DocRequestInv' /\ DocAlone(r) /\ docPc'[r] \in {"done", "row"}
         /\ docSeen'[r] = {} /\ docStored'[r] = {} /\ clash' = clash \ {r}
  <1>1. Tail(todo[r]) \in Seq(Docs) /\ (Len(todo[r]) # 1 => Tail(todo[r]) # <<>>)
    BY DocHereIs
  <1>2. todo' \in [Writes -> Seq(Docs)] /\ todo'[r] = Tail(todo[r])
    BY <1>1 DEF D!NextDocument, DocRequestInv
  <1>3. docPc' \in [Writes -> DocPoints] /\ docPc'[r] = IF Len(todo[r]) = 1 THEN "done" ELSE "row"
    BY DEF D!NextDocument, DocRequestInv, DocPoints
  <1>4. D!NoPatch \in DocPatch /\ IsFiniteSet(D!NoPatch.keep)
    BY FS_EmptySet DEF D!NoPatch, DocPatch
  <1>5. patch' \in [Writes -> DocPatch] /\ IsFiniteSet(patch'[r].keep)
    BY <1>4 DEF D!NextDocument, DocRequestInv
  <1>6. DocAlone(r) /\ docSeen'[r] = {} /\ docStored'[r] = {} /\ clash' = clash \ {r}
    BY DEF D!NextDocument, DocRequestInv, DocAlone
  <1>7. /\ docBase' \in [Writes -> 0..1] /\ held' \in [Writes -> SUBSET Docs]
        /\ docSeen' \in [Writes -> SUBSET DocRowSet] /\ docStored' \in [Writes -> SUBSET DocRowSet]
    BY DEF D!NextDocument, DocRequestInv
  <1>8. ASSUME NEW q \in Writes
        PROVE  /\ IsFiniteSet(patch'[q].keep) /\ IsFiniteSet(docStored'[q])
               /\ docPc'[q] \notin {"new", "done"} => todo'[q] # <<>>
    BY <1>1, <1>2, <1>3, <1>5, <1>6, FS_EmptySet DEF DocRequestInv, DocAlone
  <1> QED
    BY <1>2, <1>3, <1>5, <1>6, <1>7, <1>8 DEF DocRequestInv

\* A step that writes nothing, with which r ends a document.
LEMMA DocEndKeeps ==
  ASSUME DocIInv, NEW r \in Writes, docPc[r] \notin {"new", "done"}, D!NextDocument(r),
         UNCHANGED <<D!tableVars, raced, copied>>
  PROVE  DocTypeInv' /\ DocOwnerInv' /\ DocFoundInv' /\ DocAloneInv' /\ D!TotalsAddUp'
  <1>1. /\ DocRequestInv' /\ DocAlone(r) /\ docPc'[r] \in {"done", "row"}
        /\ docSeen'[r] = {} /\ docStored'[r] = {} /\ clash' = clash \ {r}
    BY DocEndStep DEF DocIInv, DocTypeInv
  <1>2. DocTypeInv'
    BY <1>1 DEF DocIInv, DocTypeInv, DocTableInv, D!tableVars
  <1>3. doc' = doc /\ rows' = rows /\ made' = made /\ raced' = raced /\ copied' = copied
    BY DEF D!tableVars
  <1>4. DocKnown' \subseteq DocKnown
    BY <1>1, <1>3 DEF DocKnown, DocAlone
  <1>5. DocOwnerInv'
    BY <1>1, <1>3, <1>4 DEF DocIInv, DocOwnerInv, DocAlone, D!Here
  <1>6. DocFoundInv'
    BY <1>1, <1>3 DEF DocIInv, DocFoundInv, DocAlone, D!Here, D!InTransaction
  <1>7. DocAloneInv'
    BY <1>1, <1>3 DEF DocIInv, DocAloneInv, DocFresh, DocAlone, D!Here, D!InTransaction,
       D!Present,
      D!RowsOf
  <1>8. D!TotalsAddUp'
    BY <1>3 DEF DocIInv, D!TotalsAddUp, D!Present, D!RowsOf
  <1> QED
    BY <1>2, <1>5, <1>6, <1>7, <1>8

\* Rollback preserves the invariant.
LEMMA DocRollbackStep ==
  ASSUME DocIInv, NEW r \in Writes, D!NotFound(r) \/ D!Fails(r) PROVE DocIInv'
  <1>1. /\ docPc[r] \in {"row", "list", "children", "total"} /\ D!NextDocument(r)
        /\ UNCHANGED <<D!tableVars, raced, copied, left>>
    BY DEF D!NotFound, D!Fails, D!Rollback, D!InTransaction
  <1>2. DocTypeInv' /\ DocOwnerInv' /\ DocFoundInv' /\ DocAloneInv' /\ D!TotalsAddUp'
    BY <1>1, DocEndKeeps
  <1>3. DocAlone(r)
    BY <1>1, DocEndStep DEF DocIInv, DocTypeInv
  <1>4. DocSweptInv'
    BY <1>1, <1>3 DEF DocIInv, DocSweptInv, DocSweeps, DocAlone, D!Here, D!RowsOf, D!tableVars
  <1> QED
    BY <1>2, <1>4 DEF DocIInv

\* Swept preserves the invariant.
LEMMA DocSweptStep ==
  ASSUME DocIInv, NEW r \in Writes, D!Swept(r) PROVE DocIInv'
  <1>1. /\ docPc[r] = "erase" /\ docSeen[r] = {} /\ D!NextDocument(r)
        /\ UNCHANGED <<D!tableVars, raced, copied, left>>
    BY DEF D!Swept
  <1>2. DocTypeInv' /\ DocOwnerInv' /\ DocFoundInv' /\ DocAloneInv' /\ D!TotalsAddUp'
    BY <1>1, DocEndKeeps
  <1>3. DocAlone(r)
    BY <1>1, DocEndStep DEF DocIInv, DocTypeInv
  <1>4. DocSweptInv'
    BY <1>1, <1>3 DEF DocIInv, DocSweptInv, DocSweeps, DocAlone, D!Here, D!RowsOf, D!tableVars
  <1> QED
    BY <1>2, <1>4 DEF DocIInv

\* SweepFails preserves the invariant.
LEMMA DocSweepFailsStep ==
  ASSUME DocIInv, NEW r \in Writes, D!SweepFails(r) PROVE DocIInv'
  <1>1. /\ docPc[r] \in {"sweep", "erase"} /\ D!NextDocument(r) /\ left' = left \cup {D!Here(r)}
        /\ UNCHANGED <<D!tableVars, raced, copied>>
    BY DEF D!SweepFails
  <1>2. DocTypeInv' /\ DocOwnerInv' /\ DocFoundInv' /\ DocAloneInv' /\ D!TotalsAddUp'
    BY <1>1, DocEndKeeps
  <1>3. DocAlone(r)
    BY <1>1, DocEndStep DEF DocIInv, DocTypeInv
  <1>4. DocSweptInv'
    BY <1>1, <1>3 DEF DocIInv, DocSweptInv, DocSweeps, DocAlone, D!Here, D!RowsOf, D!tableVars
  <1> QED
    BY <1>2, <1>4 DEF DocIInv

\* Begin preserves the invariant.
LEMMA DocBeginStep ==
  ASSUME DocIInv, NEW r \in Writes, D!Begin(r) PROVE DocIInv'
  <1>1. PICK t \in D!Targets :
          /\ todo' = [todo EXCEPT ![r] = t]
          /\ \E p \in D!Patches(t) \cup {D!Only("delete")}
                   \cup (IF Len(t) = 1 THEN {D!Only("copy"), D!Only("create")} ELSE {}) :
               patch' = [patch EXCEPT ![r] = p]
    BY DEF D!Begin
  <1>2. PICK p : /\ patch' = [patch EXCEPT ![r] = p]
                 /\ p \in D!Patches(t) \/ p \in {D!Only("delete"), D!Only("copy"), D!Only("create")}
    BY <1>1
  <1>3. t \in Seq(Docs) /\ t # <<>>
    <2>1. D!SetToSeq(Docs) \in Seq(Docs) /\ D!SetToSeq(Docs) # <<>>
      BY DocumentsAre, DocSequenced DEF D!DocumentsAssumption, D!IsFiniteSet, IsFiniteSet
    <2>2. \A d \in Docs : <<d>> \in Seq(Docs) /\ <<d>> # <<>>
      OBVIOUS
    <2> QED
      BY <2>1, <2>2 DEF D!Targets
  <1>4. IsFiniteSet(p.keep) /\ p \in DocPatch
    <2>1. CASE p \in D!Patches(t)
      <3>1. IsFiniteSet(D!RowsOf(Head(t)))
        BY FS_Subset DEF DocIInv, DocTypeInv, DocTableInv, D!RowsOf
      <3>2. IsFiniteSet(D!Ids(D!RowsOf(Head(t)))) /\ D!Ids(D!RowsOf(Head(t))) \subseteq Nat
        BY <3>1, DocRowsFinite DEF D!Ids, D!RowsOf, DocIInv, DocTypeInv, DocTableInv, DocRowSet
      <3>3. p \in [op : {"update"}, own : BOOLEAN, list : BOOLEAN,
                   keep : SUBSET D!Ids(D!RowsOf(Head(t))), add : 0..1]
        BY <2>1 DEF D!Patches
      <3> HIDE DEF D!RowsOf, D!Ids
      <3>4. p.keep \in SUBSET D!Ids(D!RowsOf(Head(t))) /\ p \in DocPatch
        BY <3>2, <3>3 DEF DocPatch
      <3> QED
        BY <3>2, <3>4, FS_Subset
    <2>2. CASE p \in {D!Only("delete"), D!Only("copy"), D!Only("create")}
      <3>1. D!NoPatch \in DocPatch /\ D!NoPatch.keep = {}
        BY DEF D!NoPatch, DocPatch
      <3>2. \A o \in {"delete", "copy", "create"} : D!Only(o) \in DocPatch /\ D!Only(o).keep = {}
        BY <3>1 DEF D!Only, DocPatch
      <3>3. p \in DocPatch /\ p.keep = {}
        BY <2>2, <3>2
      <3> QED
        BY <3>3, FS_EmptySet
    <2> QED
      BY <1>2, <2>1, <2>2
  <1>5. /\ docPc[r] = "new" /\ docPc' = [docPc EXCEPT ![r] = "row"]
        /\ UNCHANGED <<D!tableVars, docBase, docSeen, docStored, D!lockVars, D!histVars>>
    BY DEF D!Begin, D!Goto
  <1>6. DocAlone(r) /\ docPc'[r] = "row" /\ docSeen'[r] = docSeen[r] /\ docStored'[r] = docStored[r]
    BY <1>1, <1>2, <1>5 DEF DocIInv, DocTypeInv, DocRequestInv, DocAlone, D!lockVars
  <1>7. /\ doc' = doc /\ rows' = rows /\ made' = made /\ raced' = raced /\ copied' = copied
        /\ clash' = clash /\ left' = left
    BY <1>5 DEF D!tableVars, D!histVars
  <1>8. DocTypeInv'
    <2>1. todo' \in [Writes -> Seq(Docs)] /\ patch' \in [Writes -> DocPatch]
          /\ docPc' \in [Writes -> DocPoints] /\ todo'[r] # <<>> /\ IsFiniteSet(patch'[r].keep)
      BY <1>1, <1>2, <1>3, <1>4, <1>5 DEF DocIInv, DocTypeInv, DocRequestInv, DocPoints
    <2> QED
      BY <1>5, <1>6, <2>1 DEF DocIInv, DocTypeInv, DocTableInv, DocRequestInv, D!tableVars,
        D!lockVars, DocAlone
  <1>9. docSeen[r] = {} /\ docStored[r] = {}
    BY <1>5 DEF DocIInv, DocOwnerInv
  <1>10. DocKnown' = DocKnown
    BY <1>5 DEF DocKnown, D!tableVars
  <1>11. DocOwnerInv'
    BY <1>6, <1>7, <1>9, <1>10 DEF DocIInv, DocOwnerInv, DocAlone, D!Here
  <1>12. DocFoundInv'
    BY <1>6, <1>7 DEF DocIInv, DocFoundInv, DocAlone, D!Here, D!InTransaction
  <1>13. DocAloneInv'
    BY <1>6, <1>7 DEF DocIInv, DocAloneInv, DocFresh, DocAlone, D!Here, D!InTransaction,
       D!Present,
      D!RowsOf
  <1>14. D!TotalsAddUp'
    BY <1>7 DEF DocIInv, D!TotalsAddUp, D!Present, D!RowsOf
  <1>15. DocSweptInv'
    BY <1>5, <1>6, <1>7 DEF DocIInv, DocSweptInv, DocSweeps, DocAlone, D!Here, D!RowsOf
  <1> QED
    BY <1>8, <1>11, <1>12, <1>13, <1>14, <1>15 DEF DocIInv

-----------------------------------------------------------------------------
\* UpdateRow preserves the invariant.
LEMMA DocUpdateRowStep ==
  ASSUME DocIInv, NEW r \in Writes, D!UpdateRow(r) PROVE DocIInv'
  <1> DEFINE d == D!Here(r)
  <1>1. /\ docPc[r] = "row" /\ docPc' = [docPc EXCEPT ![r] = "list"] /\ D!Present(d)
        /\ UNCHANGED <<D!tableVars, todo, patch, docSeen, docStored, heldRows, raced, copied, left>>
    BY DEF D!UpdateRow, D!Goto
  <1>2. d \in Docs
    BY <1>1, DocHereIs DEF DocIInv, DocTypeInv
  <1>3. /\ held' \in [Writes -> SUBSET Docs] /\ docBase' \in [Writes -> 0..1]
        /\ patch[r].own => held'[r] = {d} /\ \A q \in Writes \ {r} : d \notin held[q]
        /\ docBase'[r] = IF patch[r].own THEN 1 ELSE doc[d].own
        /\ DocAlone(r)
    <2>1. doc[d].own \in 0..1
      BY <1>2 DEF DocIInv, DocTypeInv, DocTableInv, DocDoc
    <2>2. docBase' \in [Writes -> 0..1] /\ docBase'[r] = IF patch[r].own THEN 1 ELSE doc[d].own
      BY <2>1 DEF D!UpdateRow, DocIInv, DocTypeInv, DocRequestInv
    <2>3. /\ held' \in [Writes -> SUBSET Docs]
          /\ patch[r].own => held'[r] = {d} /\ \A q \in Writes \ {r} : d \notin held[q]
      <3>1. /\ held \in [Writes -> SUBSET Docs]
            /\ \/ /\ D!CanLock(r, d) /\ held' = [held EXCEPT ![r] = {d}]
               \/ ~patch[r].own /\ held' = held
        BY DEF D!UpdateRow, D!LocksRow, DocIInv, DocTypeInv, DocRequestInv
      <3>2. D!CanLock(r, d) => \A q \in Writes \ {r} : d \notin held[q]
        BY DEF D!CanLock
      <3> QED
        BY <1>2, <3>1, <3>2
    <2>4. \A q \in Writes \ {r} : held'[q] = held[q] /\ docBase'[q] = docBase[q] /\ docPc'[q] = docPc[q]
      BY DEF D!UpdateRow, D!Goto, DocIInv, DocTypeInv, DocRequestInv
    <2>5. DocAlone(r)
      BY <1>1, <2>4 DEF DocAlone
    <2> QED
      BY <2>2, <2>3, <2>5
  <1>4. /\ doc' = doc /\ rows' = rows /\ made' = made /\ raced' = raced /\ copied' = copied
        /\ left' = left /\ todo' = todo /\ patch' = patch /\ docSeen' = docSeen /\ docStored' = docStored
        /\ docPc'[r] = "list" /\ docPc' \in [Writes -> DocPoints]
    BY <1>1 DEF D!tableVars, DocIInv, DocTypeInv, DocRequestInv, DocPoints
  <1>5. DocTypeInv'
    BY <1>1, <1>3, <1>4 DEF DocIInv, DocTypeInv, DocTableInv, DocRequestInv, DocAlone, DocPoints
  <1>6. docSeen[r] = {} /\ docStored[r] = {}
    BY <1>1 DEF DocIInv, DocOwnerInv
  <1>7. DocOwnerInv'
    BY <1>3, <1>4, <1>6 DEF DocIInv, DocOwnerInv, DocAlone, D!Here, DocKnown
  <1>8. DocFoundInv'
    BY <1>1, <1>3, <1>4 DEF DocIInv, DocFoundInv, DocAlone, D!Here, D!InTransaction, D!Present
  <1>9. DocAloneInv'
    <2>1. /\ clash \subseteq clash' /\ D!Unlocked(r) \subseteq clash'
          /\ D!Unlocked(r) # {} => r \in clash'
      BY DEF D!UpdateRow
    <2>2. ASSUME NEW q \in Writes \ {r}, D!InTransaction(q), D!Here(q) = d
          PROVE  q \in clash' /\ r \in clash'
      <3>1. ~ (patch[q].own /\ patch[r].own)
        BY <1>3, <2>2 DEF DocIInv, DocFoundInv
      <3> QED
        BY <2>1, <2>2, <3>1 DEF D!Unlocked
    <2>3. ASSUME NEW q \in Writes, NEW s \in Writes, q # s, D!InTransaction(q)', D!InTransaction(s)',
                 D!Here(q)' = D!Here(s)'
          PROVE  q \in clash'
      BY <1>3, <1>4, <2>1, <2>2, <2>3 DEF DocIInv, DocAloneInv, DocAlone, D!Here, D!InTransaction
    <2>4. ASSUME NEW q \in Writes, D!InTransaction(q)', q \notin clash', D!Present(D!Here(q))'
          PROVE  DocFresh(q)'
      <3>1. CASE q = r
        BY <1>3, <1>4, <3>1 DEF DocFresh, D!Here
      <3>2. CASE q # r
        BY <1>3, <1>4, <2>1, <2>4, <3>2 DEF DocIInv, DocAloneInv, DocFresh, DocAlone, D!Here,
          D!InTransaction,
           D!Present, D!RowsOf
      <3> QED
        BY <3>1, <3>2
    <2> QED
      BY <2>3, <2>4 DEF DocAloneInv
  <1>10. D!TotalsAddUp'
    BY <1>4 DEF DocIInv, D!TotalsAddUp, D!Present, D!RowsOf
  <1>11. DocSweptInv'
    BY <1>1, <1>3, <1>4 DEF DocIInv, DocSweptInv, DocSweeps, DocAlone, D!Here, D!RowsOf
  <1> QED
    BY <1>5, <1>7, <1>8, <1>9, <1>10, <1>11 DEF DocIInv

\* ListChildren preserves the invariant.
LEMMA DocListChildrenStep ==
  ASSUME DocIInv, NEW r \in Writes, D!ListChildren(r) PROVE DocIInv'
  <1> DEFINE d == D!Here(r)
  <1>1. /\ docPc[r] = "list"
        /\ docPc' = [docPc EXCEPT ![r] = IF patch[r].list THEN "children" ELSE "total"]
        /\ patch[r].keep \subseteq D!Ids(D!RowsOf(d))
        /\ UNCHANGED <<D!tableVars, todo, patch, docBase, D!lockVars, D!histVars>>
    BY DEF D!ListChildren, D!Goto
  <1>2. D!RowsOf(d) \subseteq rows /\ D!RowsOf(d) \in SUBSET DocRowSet /\ IsFiniteSet(D!RowsOf(d))
    BY FS_Subset DEF DocIInv, DocTypeInv, DocTableInv, D!RowsOf
  <1>3. /\ docSeen'[r] = D!RowsOf(d) /\ docStored'[r] = D!RowsOf(d) /\ DocAlone(r)
        /\ docSeen' \in [Writes -> SUBSET DocRowSet] /\ docStored' \in [Writes -> SUBSET DocRowSet]
    BY <1>1, <1>2 DEF D!ListChildren, D!lockVars, DocAlone, DocIInv, DocTypeInv, DocRequestInv
  <1>4. /\ doc' = doc /\ rows' = rows /\ made' = made /\ raced' = raced /\ copied' = copied
        /\ left' = left /\ clash' = clash /\ todo' = todo /\ patch' = patch /\ docBase' = docBase
        /\ held' = held /\ docPc' \in [Writes -> DocPoints]
        /\ docPc'[r] = (IF patch[r].list THEN "children" ELSE "total")
    BY <1>1 DEF D!tableVars, D!lockVars, D!histVars, DocIInv, DocTypeInv, DocRequestInv, DocPoints
  <1>5. DocTypeInv'
    BY <1>1, <1>2, <1>3, <1>4 DEF DocIInv, DocTypeInv, DocTableInv, DocRequestInv, DocAlone,
      DocPoints
  <1>6. DocKnown' \subseteq DocKnown
    BY <1>2, <1>3, <1>4 DEF DocKnown, DocAlone
  <1>7. DocOwnerInv'
    BY <1>3, <1>4, <1>6 DEF DocIInv, DocOwnerInv, DocAlone, D!Here, D!RowsOf
  <1>8. DocFoundInv'
    BY <1>1, <1>3, <1>4 DEF DocIInv, DocFoundInv, DocAlone, D!Here, D!InTransaction
  <1>9. DocAloneInv'
    <2>1. \A q \in Writes : D!InTransaction(q)' => D!InTransaction(q)
      BY <1>1, <1>3, <1>4 DEF DocAlone, D!InTransaction
    <2>2. \A q \in Writes : D!Here(q)' = D!Here(q) /\ D!Present(D!Here(q))' = D!Present(D!Here(q))
                               /\ D!RowsOf(D!Here(q))' = D!RowsOf(D!Here(q))
      BY <1>4 DEF D!Here, D!Present, D!RowsOf
    <2>3. \A q \in Writes \ {r} : DocFresh(q) => DocFresh(q)'
      BY <1>3, <1>4, <2>2 DEF DocAlone, DocFresh, D!Here
    <2>4. DocFresh(r) => DocFresh(r)'
      BY <1>3, <1>4, <2>2 DEF DocFresh, D!Here
    <2> QED
      BY <1>4, <2>1, <2>2, <2>3, <2>4 DEF DocIInv, DocAloneInv
  <1>10. D!TotalsAddUp'
    BY <1>4 DEF DocIInv, D!TotalsAddUp, D!Present, D!RowsOf
  <1>11. DocSweptInv'
    BY <1>1, <1>3, <1>4 DEF DocIInv, DocSweptInv, DocSweeps, DocAlone, D!Here, D!RowsOf
  <1> QED
    BY <1>5, <1>7, <1>8, <1>9, <1>10, <1>11 DEF DocIInv

\* WriteChildren preserves the invariant.
LEMMA DocWriteChildrenStep ==
  ASSUME DocIInv, NEW r \in Writes, D!WriteChildren(r) PROVE DocIInv'
  <1> DEFINE d == D!Here(r)
             edited == {D!Row(i, d, 2) : i \in patch[r].keep}
             new == {D!Row(made + i, d, 1) : i \in 1..patch[r].add}
  <1>1. /\ docPc[r] = "children" /\ docPc' = [docPc EXCEPT ![r] = "total"]
        /\ docStored' = [docStored EXCEPT ![r] = edited \cup new]
        /\ made' = made + patch[r].add
        /\ UNCHANGED <<doc, rows, todo, patch, docBase, docSeen, held, D!histVars>>
    BY DEF D!WriteChildren, D!Goto
  <1>2. d \in Docs /\ patch[r] \in DocPatch /\ IsFiniteSet(patch[r].keep) /\ made \in Nat
    BY <1>1, DocHereIs DEF DocIInv, DocTypeInv, DocTableInv, DocRequestInv
  <1>3. patch[r].add \in 0..1 /\ patch[r].keep \subseteq Nat
    BY <1>2 DEF DocPatch
  <1>4. IsFiniteSet(edited) /\ IsFiniteSet(new)
    <2>1. patch[r].add \in Nat
      BY <1>3
    <2>2. /\ \A K : IsFiniteSet(K) => IsFiniteSet({D!Row(i, d, 2) : i \in K})
          /\ \A n \in Nat : \A m : IsFiniteSet({D!Row(m + i, d, 1) : i \in 1..n})
      BY DocRowsFinite
    <2> QED
      BY <1>2, <2>1, <2>2
  <1>5. IsFiniteSet(edited \cup new)
    BY <1>4, FS_Union
  <1>6. /\ \A x \in edited : x \in DocRowSet /\ x.of = d /\ x.id \in patch[r].keep
        /\ \A x \in new : x \in DocRowSet /\ x.of = d /\ made < x.id /\ x.id <= made + patch[r].add
    BY <1>2, <1>3 DEF D!Row, DocRowSet
  <1> HIDE DEF edited, new
  <1>7. /\ docStored'[r] = edited \cup new /\ docStored' \in [Writes -> SUBSET DocRowSet]
        /\ DocAlone(r) /\ docPc' \in [Writes -> DocPoints] /\ docPc'[r] = "total"
    BY <1>1, <1>6 DEF DocAlone, DocIInv, DocTypeInv, DocRequestInv, DocPoints
  <1>8. /\ doc' = doc /\ rows' = rows /\ raced' = raced /\ copied' = copied /\ clash' = clash
        /\ left' = left /\ todo' = todo /\ patch' = patch /\ docBase' = docBase /\ docSeen' = docSeen
        /\ held' = held /\ made' \in Nat /\ made <= made'
    BY <1>1, <1>2, <1>3 DEF D!histVars
  <1>9. DocTypeInv'
    BY <1>1, <1>5, <1>7, <1>8 DEF DocIInv, DocTypeInv, DocTableInv, DocRequestInv, DocAlone
  <1>10. patch[r].list /\ \A x \in edited : \E y \in docSeen[r] : y.id = x.id
    BY <1>1, <1>6 DEF DocIInv, DocFoundInv, D!Ids
  <1>11. DocOwnerInv'
    <2>1. DocKnown' \subseteq DocKnown \cup edited \cup new /\ docSeen[r] \subseteq DocKnown
      BY <1>7, <1>8 DEF DocKnown, DocAlone
    <2>2. \A x \in DocKnown : x.id \in Nat /\ x.id <= made /\ doc[x.of].state # "unborn"
      BY DEF DocIInv, DocOwnerInv, DocKnown, DocTypeInv, DocTableInv, DocRequestInv, DocRowSet
    <2>3. doc[d].state # "unborn"
      BY <1>1 DEF DocIInv, DocFoundInv, D!InTransaction
    <2>4. \A x \in docSeen[r] : x.of = d
      BY DEF DocIInv, DocOwnerInv
    <2>5. \A x, y \in DocKnown : x.id = y.id => x.of = y.of
      BY DEF DocIInv, DocOwnerInv
    <2>6. \A x \in edited : \A y \in DocKnown : x.id <= made /\ (x.id = y.id => x.of = y.of)
      BY <1>6, <1>10, <2>1, <2>2, <2>4, <2>5
    <2>7. \A x \in new : x.id \in Nat /\ made < x.id /\ x.id <= made' /\ x.of = d
      BY <1>1, <1>6 DEF DocRowSet
    <2>8. \A x \in DocKnown' : x.id <= made' /\ doc'[x.of].state # "unborn"
      <3>1. \A x \in DocKnown : x.id <= made' /\ doc'[x.of].state # "unborn"
        BY <1>2, <1>8, <2>2
      <3>2. \A x \in edited : x.id \in Nat /\ x.id <= made' /\ doc'[x.of].state # "unborn"
        <4>1. \A x \in edited : \E y \in DocKnown : y.id = x.id
          BY <1>10, <2>1
        <4> QED
          BY <1>2, <1>6, <1>8, <2>2, <2>3, <4>1
      <3>3. \A x \in new : x.id <= made' /\ doc'[x.of].state # "unborn"
        BY <1>8, <2>3, <2>7
      <3> QED
        BY <2>1, <3>1, <3>2, <3>3
    <2>9. \A x, y \in DocKnown \cup edited \cup new : x.id = y.id => x.of = y.of
      <3>1. \A x \in DocKnown \cup edited : x.id \in Nat /\ x.id <= made
        BY <1>3, <1>6, <1>10, <2>1, <2>2
      <3>2. \A x \in DocKnown \cup edited, y \in new : x.id # y.id
        BY <1>2, <2>7, <3>1
      <3>3. \A x \in edited \cup new : x.of = d
        BY <1>6
      <3> QED
        BY <2>5, <2>6, <3>2, <3>3
    <2>10. \A q \in Writes : \A x \in docSeen'[q] \cup docStored'[q] :
             docPc'[q] \in {"children", "total", "erase"} /\ x.of = D!Here(q)'
      BY <1>6, <1>7, <1>8 DEF DocIInv, DocOwnerInv, DocAlone, D!Here
    <2> QED
      BY <2>1, <2>8, <2>9, <2>10 DEF DocOwnerInv
  <1>12. DocFoundInv'
    BY <1>1, <1>7, <1>8 DEF DocIInv, DocFoundInv, DocAlone, D!Here, D!InTransaction
  <1>13. DocAloneInv'
    BY <1>1, <1>7, <1>8, <1>10 DEF DocIInv, DocAloneInv, DocFresh, DocAlone, D!Here,
      D!InTransaction, D!Present, D!RowsOf
  <1>14. D!TotalsAddUp'
    BY <1>8 DEF DocIInv, D!TotalsAddUp, D!Present, D!RowsOf
  <1>15. DocSweptInv'
    BY <1>1, <1>7, <1>8 DEF DocIInv, DocSweptInv, DocSweeps, DocAlone, D!Here, D!RowsOf
  <1> QED
    BY <1>9, <1>11, <1>12, <1>13, <1>14, <1>15 DEF DocIInv

\* DeleteRow preserves the invariant.
LEMMA DocDeleteRowStep ==
  ASSUME DocIInv, NEW r \in Writes, D!DeleteRow(r) PROVE DocIInv'
  <1> DEFINE d == D!Here(r)
  <1>1. /\ docPc[r] = "row" /\ docPc' = [docPc EXCEPT ![r] = "sweep"] /\ D!Present(d)
        /\ doc' = [doc EXCEPT ![d].state = "deleted"]
        /\ UNCHANGED <<rows, made, todo, patch, docBase, docSeen, docStored, D!lockVars, D!histVars>>
    BY DEF D!DeleteRow, D!Goto
  <1>2. d \in Docs
    BY <1>1, DocHereIs DEF DocIInv, DocTypeInv
  <1>3. /\ rows' = rows /\ made' = made /\ raced' = raced /\ copied' = copied /\ clash' = clash
        /\ left' = left /\ todo' = todo /\ patch' = patch /\ docBase' = docBase /\ docSeen' = docSeen
        /\ held' = held /\ docStored' = docStored
        /\ docPc'[r] = "sweep" /\ docPc' \in [Writes -> DocPoints] /\ DocAlone(r)
    BY <1>1 DEF D!histVars, D!lockVars, DocAlone, DocIInv, DocTypeInv, DocRequestInv, DocPoints
  <1>4. /\ doc' \in [Docs -> DocDoc] /\ doc'[d].state = "deleted"
        /\ \A e \in Docs \ {d} : doc'[e] = doc[e]
    BY <1>1, <1>2 DEF DocIInv, DocTypeInv, DocTableInv, DocDoc
  <1>5. DocTypeInv'
    BY <1>1, <1>3, <1>4 DEF DocIInv, DocTypeInv, DocTableInv, DocRequestInv, DocAlone
  <1>6. DocKnown' = DocKnown /\ \A x \in DocKnown : x.of \in Docs
    BY <1>3 DEF DocKnown, DocIInv, DocTypeInv, DocTableInv, DocRequestInv, DocRowSet
  <1>7. docSeen[r] = {} /\ docStored[r] = {}
    BY <1>1 DEF DocIInv, DocOwnerInv
  <1>8. DocOwnerInv'
    BY <1>2, <1>3, <1>4, <1>6, <1>7 DEF DocIInv, DocOwnerInv, DocAlone, D!Here
  <1>9. \A q \in Writes : docPc[q] \notin {"new", "done"} => D!Here(q) \in Docs
    BY DocHereIs DEF DocIInv, DocTypeInv
  <1>10. DocFoundInv'
    BY <1>1, <1>2, <1>3, <1>4, <1>9 DEF DocIInv, DocFoundInv, DocAlone, D!Here, D!InTransaction
  <1>11. DocAloneInv'
    <2>1. \A q \in Writes : D!InTransaction(q)' => q # r /\ D!InTransaction(q) /\ D!Here(q) \in Docs
      BY <1>3, <1>9 DEF DocAlone, D!InTransaction
    <2>2. \A q \in Writes : D!InTransaction(q) /\ D!Present(D!Here(q))' => doc'[D!Here(q)] = doc[D!Here(q)]
      BY <1>3, <1>4, <1>9 DEF D!InTransaction, D!Present, D!Here
    <2> QED
      BY <1>3, <2>1, <2>2 DEF DocIInv, DocAloneInv, DocFresh, DocAlone, D!Here, D!InTransaction,
        D!Present, D!RowsOf
  <1>12. D!TotalsAddUp'
    BY <1>3, <1>4 DEF DocIInv, D!TotalsAddUp, D!Present, D!RowsOf
  <1>13. DocSweptInv'
    BY <1>1, <1>2, <1>3, <1>4 DEF DocIInv, DocSweptInv, DocSweeps, DocAlone, D!Here, D!RowsOf
  <1> QED
    BY <1>5, <1>8, <1>10, <1>11, <1>12, <1>13 DEF DocIInv

\* ListSwept preserves the invariant.
LEMMA DocListSweptStep ==
  ASSUME DocIInv, NEW r \in Writes, D!ListSwept(r) PROVE DocIInv'
  <1> DEFINE d == D!Here(r)
  <1>1. /\ docPc[r] = "sweep" /\ docPc' = [docPc EXCEPT ![r] = "erase"]
        /\ UNCHANGED <<D!tableVars, todo, patch, docBase, docStored, D!lockVars, D!histVars>>
    BY DEF D!ListSwept, D!Goto
  <1>2. D!RowsOf(d) \subseteq rows /\ D!RowsOf(d) \in SUBSET DocRowSet
    BY DEF DocIInv, DocTypeInv, DocTableInv, D!RowsOf
  <1>3. /\ docSeen'[r] = D!RowsOf(d) /\ DocAlone(r) /\ docSeen' \in [Writes -> SUBSET DocRowSet]
    BY <1>1, <1>2 DEF D!ListSwept, D!lockVars, DocAlone, DocIInv, DocTypeInv, DocRequestInv
  <1>4. /\ doc' = doc /\ rows' = rows /\ made' = made /\ raced' = raced /\ copied' = copied
        /\ left' = left /\ clash' = clash /\ todo' = todo /\ patch' = patch /\ docBase' = docBase
        /\ held' = held /\ docStored' = docStored /\ docPc' \in [Writes -> DocPoints] /\ docPc'[r] = "erase"
    BY <1>1 DEF D!tableVars, D!lockVars, D!histVars, DocIInv, DocTypeInv, DocRequestInv, DocPoints
  <1>5. DocTypeInv'
    BY <1>1, <1>2, <1>3, <1>4 DEF DocIInv, DocTypeInv, DocTableInv, DocRequestInv, DocAlone,
      DocPoints
  <1>6. DocKnown' \subseteq DocKnown
    BY <1>2, <1>3, <1>4 DEF DocKnown, DocAlone
  <1>7. DocOwnerInv'
    BY <1>3, <1>4, <1>6 DEF DocIInv, DocOwnerInv, DocAlone, D!Here, D!RowsOf
  <1>8. DocFoundInv'
    BY <1>1, <1>3, <1>4 DEF DocIInv, DocFoundInv, DocAlone, D!Here, D!InTransaction
  <1>9. DocAloneInv'
    BY <1>1, <1>3, <1>4 DEF DocIInv, DocAloneInv, DocFresh, DocAlone, D!Here, D!InTransaction,
      D!Present, D!RowsOf
  <1>10. D!TotalsAddUp'
    BY <1>4 DEF DocIInv, D!TotalsAddUp, D!Present, D!RowsOf
  <1>11. DocSweptInv'
    BY <1>1, <1>3, <1>4 DEF DocIInv, DocSweptInv, DocSweeps, DocAlone, D!Here, D!RowsOf
  <1> QED
    BY <1>5, <1>7, <1>8, <1>9, <1>10, <1>11 DEF DocIInv

\* EraseRow preserves the invariant.
LEMMA DocEraseRowStep ==
  ASSUME DocIInv, NEW r \in Writes, NEW x \in docSeen[r], D!EraseRow(r, x) PROVE DocIInv'
  <1> DEFINE d == D!Here(r)
  <1>1. /\ docPc[r] = "erase"
        /\ rows' = {y \in rows : y.id # x.id} /\ docSeen' = [docSeen EXCEPT ![r] = @ \ {x}]
        /\ UNCHANGED <<doc, made, docPc, todo, patch, docBase, docStored, D!lockVars, D!histVars>>
    BY DEF D!EraseRow
  <1>2. doc[d].state = "deleted" /\ x.of = d /\ x \in DocKnown
    BY <1>1 DEF DocIInv, DocFoundInv, DocOwnerInv, DocKnown
  <1>3. \A y \in rows : y.id = x.id => y.of = d
    BY <1>2 DEF DocIInv, DocOwnerInv, DocKnown
  <1>4. /\ doc' = doc /\ made' = made /\ raced' = raced /\ copied' = copied /\ clash' = clash
        /\ left' = left /\ todo' = todo /\ patch' = patch /\ docBase' = docBase /\ docPc' = docPc
        /\ held' = held /\ docStored' = docStored
        /\ docSeen'[r] = docSeen[r] \ {x} /\ docSeen' \in [Writes -> SUBSET DocRowSet] /\ DocAlone(r)
    BY <1>1 DEF D!histVars, D!lockVars, DocAlone, DocIInv, DocTypeInv, DocRequestInv
  <1>5. rows' \subseteq rows /\ \A e : e # d => D!RowsOf(e)' = D!RowsOf(e)
    BY <1>1, <1>3 DEF D!RowsOf
  <1>6. DocTypeInv'
    BY <1>1, <1>4, <1>5, FS_Subset DEF DocIInv, DocTypeInv, DocTableInv, DocRequestInv, DocAlone
  <1>7. DocKnown' \subseteq DocKnown
    BY <1>4, <1>5 DEF DocKnown, DocAlone
  <1>8. DocOwnerInv'
    BY <1>4, <1>7 DEF DocIInv, DocOwnerInv, DocAlone, D!Here
  <1>9. DocFoundInv'
    BY <1>1, <1>4 DEF DocIInv, DocFoundInv, DocAlone, D!Here, D!InTransaction
  <1>10. DocAloneInv'
    BY <1>1, <1>2, <1>4, <1>5 DEF DocIInv, DocAloneInv, DocFresh, DocAlone, D!Here,
      D!InTransaction, D!Present
  <1>11. D!TotalsAddUp'
    BY <1>2, <1>4, <1>5 DEF DocIInv, D!TotalsAddUp, D!Present
  <1>12. DocSweptInv'
    <2>1. \A e : D!RowsOf(e)' \subseteq D!RowsOf(e) \ {x}
      BY <1>1 DEF D!RowsOf
    <2> QED
      BY <1>1, <1>4, <2>1 DEF DocIInv, DocSweptInv, DocSweeps, DocAlone, D!Here
  <1> QED
    BY <1>6, <1>8, <1>9, <1>10, <1>11, <1>12 DEF DocIInv

-----------------------------------------------------------------------------
\* A request that makes a document with rows of its own: they are new, and so is it.
LEMMA DocBirthStep ==
  ASSUME DocIInv, NEW r \in Writes, docPc[r] = "row", D!NextDocument(r),
         NEW d \in Docs, doc[d].state = "unborn",
         NEW x \in DocDoc, x.state = "live", doc' = [doc EXCEPT ![d] = x],
         NEW new \in SUBSET DocRowSet, IsFiniteSet(new), rows' = rows \cup new,
         NEW n \in Nat, made' = made + n,
         \A y \in new : made < y.id /\ y.id <= made + n /\ y.of = d,
         raced' = raced, left' = left, copied \subseteq copied', copied' \subseteq copied \cup {d},
         d \in copied' \/ x.total = D!Total(x.own, new)
  PROVE  DocIInv'
  <1>1. /\ DocRequestInv' /\ DocAlone(r) /\ docPc'[r] \in {"done", "row"}
        /\ docSeen'[r] = {} /\ docStored'[r] = {} /\ clash' = clash \ {r}
    BY DocEndStep DEF DocIInv, DocTypeInv
  <1>2. /\ doc' \in [Docs -> DocDoc] /\ doc'[d] = x /\ \A e \in Docs \ {d} : doc'[e] = doc[e]
        /\ made \in Nat /\ rows \in SUBSET DocRowSet
    BY DEF DocIInv, DocTypeInv, DocTableInv
  <1>3. DocTypeInv'
    <2>1. IsFiniteSet(rows')
      BY FS_Union DEF DocIInv, DocTypeInv, DocTableInv
    <2> QED
      BY <1>1, <1>2, <2>1 DEF DocTypeInv, DocTableInv
  <1>4. \A y \in DocKnown : y.id \in Nat /\ y.id <= made /\ y.of \in Docs /\ doc[y.of].state # "unborn"
    BY DEF DocIInv, DocOwnerInv, DocKnown, DocTypeInv, DocTableInv, DocRequestInv, DocRowSet
  <1>5. DocKnown' \subseteq DocKnown \cup new
    BY <1>1 DEF DocKnown, DocAlone
  <1>6. \A y \in new : y.id \in Nat
    BY DEF DocRowSet
  <1>7. DocOwnerInv'
    <2>1. \A y \in DocKnown \cup new : y.id <= made' /\ doc'[y.of].state # "unborn"
      BY <1>2, <1>4, <1>6
    <2>2. \A y, z \in DocKnown : y.id = z.id => y.of = z.of
      BY DEF DocIInv, DocOwnerInv
    <2>3. \A y \in DocKnown, z \in new : y.id # z.id
      BY <1>2, <1>4, <1>6
    <2>4. \A y, z \in DocKnown \cup new : y.id = z.id => y.of = z.of
      BY <2>2, <2>3
    <2>5. \A q \in Writes : \A y \in docSeen'[q] \cup docStored'[q] :
            docPc'[q] \in {"children", "total", "erase"} /\ y.of = D!Here(q)'
      BY <1>1 DEF DocIInv, DocOwnerInv, DocAlone, D!Here
    <2> QED
      BY <1>5, <2>1, <2>4, <2>5 DEF DocOwnerInv
  <1>8. \A q \in Writes : docPc[q] \notin {"new", "done"} => D!Here(q) \in Docs
    BY DocHereIs DEF DocIInv, DocTypeInv
  <1>9. \A q \in Writes : docPc[q] \in {"sweep", "erase"} \/ D!InTransaction(q) =>
          D!Here(q) # d /\ doc'[D!Here(q)] = doc[D!Here(q)]
    BY <1>2, <1>8 DEF DocIInv, DocFoundInv, D!InTransaction
  <1>10. \A e \in Docs \ {d} : D!RowsOf(e)' = D!RowsOf(e)
    BY DEF D!RowsOf
  <1>11. DocFoundInv'
    BY <1>1, <1>9 DEF DocIInv, DocFoundInv, DocAlone, D!Here, D!InTransaction
  <1>12. DocAloneInv'
    <2>1. \A q \in Writes : D!InTransaction(q)' => q # r /\ D!InTransaction(q)
      BY <1>1 DEF DocAlone, D!InTransaction
    <2>2. \A q \in Writes : D!InTransaction(q) => D!RowsOf(D!Here(q))' = D!RowsOf(D!Here(q))
      <3>1. \A q \in Writes : D!InTransaction(q) => D!Here(q)' = D!Here(q) /\ D!Here(q) \in Docs \ {d}
        BY <1>1, <1>8, <1>9 DEF D!InTransaction, D!Here, DocAlone
      <3> QED
        BY <1>10, <3>1 DEF D!RowsOf
    <2> QED
      BY <1>1, <1>9, <2>1, <2>2 DEF DocIInv, DocAloneInv, DocFresh, DocAlone, D!Here, D!Present
  <1>13. D!TotalsAddUp'
    <2>1. D!RowsOf(d)' = new
      BY <1>4 DEF D!RowsOf, DocKnown
    <2>2. ASSUME NEW e \in Docs \ {d}, e \notin raced', e \notin copied', D!Present(e)'
          PROVE  doc'[e].total = D!Total(doc'[e].own, D!RowsOf(e)')
      BY <1>2, <1>10, <2>2 DEF DocIInv, D!TotalsAddUp, D!Present
    <2>3. d \in copied' \/ doc'[d].total = D!Total(doc'[d].own, D!RowsOf(d)')
      BY <1>2, <2>1
    <2> QED
      BY <2>2, <2>3 DEF D!TotalsAddUp
  <1>14. DocSweptInv'
    BY <1>1, <1>2, <1>10 DEF DocIInv, DocSweptInv, DocSweeps, DocAlone, D!Here
  <1> QED
    BY <1>3, <1>7, <1>11, <1>12, <1>13, <1>14 DEF DocIInv

\* Create preserves the invariant.
LEMMA DocCreateStep ==
  ASSUME DocIInv, NEW r \in Writes, NEW d \in Docs, NEW n \in 0..1,
         D!Create(r, d, n) PROVE DocIInv'
  <1> DEFINE new == {D!Row(made + i, d, 1) : i \in 1..n}
             x == [state |-> "live", own |-> 0, total |-> D!Total(0, new)]
  <1>1. /\ docPc[r] = "row" /\ D!NextDocument(r) /\ doc[d].state = "unborn"
        /\ doc' = [doc EXCEPT ![d] = x] /\ rows' = rows \cup new /\ made' = made + n
        /\ raced' = raced /\ left' = left /\ copied' = copied
    BY DEF D!Create
  <1>2. n \in Nat /\ made \in Nat
    BY DEF DocIInv, DocTypeInv, DocTableInv
  <1>3. IsFiniteSet(new)
    <2>1. \A k \in Nat : \A m : IsFiniteSet({D!Row(m + i, d, 1) : i \in 1..k})
      BY DocRowsFinite
    <2> QED
      BY <1>2, <2>1
  <1>4. \A y \in new : y \in DocRowSet /\ made < y.id /\ y.id <= made + n /\ y.of = d
    BY <1>2 DEF D!Row, DocRowSet
  <1> HIDE DEF new
  <1>5. x \in DocDoc /\ x.state = "live" /\ x.total = D!Total(x.own, new)
    BY <1>4 DEF DocDoc, DocSums
  <1> HIDE DEF x
  <1> QED
    BY <1>1, <1>2, <1>3, <1>4, <1>5, DocBirthStep

\* Copy preserves the invariant.
LEMMA DocCopyStep ==
  ASSUME DocIInv, NEW r \in Writes, NEW d \in Docs, D!Copy(r, d) PROVE DocIInv'
  <1> DEFINE src == D!Here(r)
             from == D!SetToSeq(D!RowsOf(src))
             new == {D!Row(made + i, d, from[i].amount) : i \in DOMAIN from}
             x == [state |-> "live", own |-> doc[src].own, total |-> 0]
             n == Len(from)
  <1>1. /\ docPc[r] = "row" /\ D!NextDocument(r) /\ doc[d].state = "unborn"
        /\ doc' = [doc EXCEPT ![d] = x] /\ rows' = rows \cup new /\ made' = made + n
        /\ raced' = raced /\ left' = left /\ copied' = copied \cup {d}
    BY DEF D!Copy
  <1>2. src \in Docs /\ D!RowsOf(src) \in SUBSET rows
    BY <1>1, DocHereIs DEF DocIInv, DocTypeInv, D!RowsOf
  <1>3. /\ n \in Nat /\ IsFiniteSet(new) /\ new \subseteq DocRowSet
        /\ \A y \in new : made < y.id /\ y.id <= made + n /\ y.of = d
    BY <1>2, DocCopyFinite DEF DocIInv, DocTypeInv
  <1> HIDE DEF new, from, n
  <1>4. x \in DocDoc /\ x.state = "live"
    BY <1>2 DEF DocDoc, DocSums, DocIInv, DocTypeInv, DocTableInv
  <1> HIDE DEF x, src
  <1> QED
    BY <1>1, <1>3, <1>4, DocBirthStep

\* Commit preserves the invariant.
LEMMA DocCommitStep ==
  ASSUME DocIInv, NEW r \in Writes, D!Commit(r) PROVE DocIInv'
  <1>0. PICK d : d = D!Here(r)
    OBVIOUS
  <1> DEFINE x == [state |-> "live", own |-> IF patch[r].own THEN docBase[r] ELSE doc[d].own,
                   total |-> D!Total(docBase[r], docStored[r])]
  <1>1. /\ docPc[r] = "total" /\ D!Present(d) /\ D!NextDocument(r)
        /\ rows' = IF patch[r].list
                   THEN {y \in rows : y.id \notin D!Ids(docSeen[r])} \cup docStored[r] ELSE rows
        /\ raced' = IF r \in clash THEN raced \cup {d} ELSE raced \ {d}
        /\ copied' = copied \ {d} /\ made' = made /\ left' = left
    BY <1>0 DEF D!Commit
  <1>2. d \in Docs /\ D!InTransaction(r) /\ doc[d] \in DocDoc /\ patch[r] \in DocPatch
        /\ docBase[r] \in 0..1 /\ docStored[r] \in SUBSET DocRowSet /\ IsFiniteSet(docStored[r])
    BY <1>0, <1>1, DocHereIs DEF DocIInv, DocTypeInv, DocTableInv, DocRequestInv, D!InTransaction
  <1>3. doc' = [doc EXCEPT ![d] = x] /\ x \in DocDoc
    <2>1. doc' = [doc EXCEPT ![d].own = IF patch[r].own THEN docBase[r] ELSE @,
                              ![d].total = D!Total(docBase[r], docStored[r])]
      BY <1>0 DEF D!Commit
    <2>2. x \in DocDoc
      BY <1>2 DEF DocDoc, DocSums
    <2>3. doc[d].state = "live"
      BY <1>1 DEF D!Present
    <2> QED
      <3>1. x = [doc[d] EXCEPT !.own = IF patch[r].own THEN docBase[r] ELSE @,
                               !.total = D!Total(docBase[r], docStored[r])]
        <4> DEFINE o == IF patch[r].own THEN docBase[r] ELSE doc[d].own
                   t == D!Total(docBase[r], docStored[r])
                   y == [doc[d] EXCEPT !.own = o, !.total = t]
        <4>1. o \in 0..1 /\ t \in DocSums
          BY <1>2 DEF DocDoc, DocSums, DocPatch
        <4> HIDE DEF o, t
        <4>2. y \in DocDoc /\ y.state = "live" /\ y.own = o /\ y.total = t
          BY <1>2, <2>3, <4>1 DEF DocDoc
        <4> HIDE DEF y
        <4>3. y = [state |-> "live", own |-> o, total |-> t]
          BY <4>2 DEF DocDoc
        <4> QED
          BY <4>3 DEF y, o, t
      <3>2. doc \in [Docs -> DocDoc]
        BY DEF DocIInv, DocTypeInv, DocTableInv
      <3> QED
        BY <1>2, <2>1, <2>2, <3>1, <3>2
  <1>4. x.state = "live" /\ x.total = D!Total(docBase[r], docStored[r])
        /\ x.own = IF patch[r].own THEN docBase[r] ELSE doc[d].own
    OBVIOUS
  <1> HIDE DEF x
  <1>5. doc' \in [Docs -> DocDoc] /\ doc'[d] = x /\ \A e \in Docs \ {d} : doc'[e] = doc[e]
    BY <1>2, <1>3 DEF DocIInv, DocTypeInv, DocTableInv
  <1>6. \A e \in Docs : doc'[e].state = doc[e].state
    BY <1>1, <1>4, <1>5 DEF D!Present
  <1>7. /\ DocRequestInv' /\ DocAlone(r) /\ docPc'[r] \in {"done", "row"}
        /\ docSeen'[r] = {} /\ docStored'[r] = {} /\ clash' = clash \ {r}
    BY <1>1, DocEndStep DEF DocIInv, DocTypeInv
  <1>8. rows' \in SUBSET DocRowSet /\ IsFiniteSet(rows')
    <2>1. IsFiniteSet({y \in rows : y.id \notin D!Ids(docSeen[r])})
      BY FS_Subset DEF DocIInv, DocTypeInv, DocTableInv
    <2> QED
      BY <1>1, <1>2, <2>1, FS_Union DEF DocIInv, DocTypeInv, DocTableInv
  <1>9. DocTypeInv'
    BY <1>1, <1>5, <1>7, <1>8 DEF DocIInv, DocTypeInv, DocTableInv
  <1>10. DocKnown' \subseteq DocKnown
    BY <1>1, <1>7 DEF DocKnown, DocAlone
  <1>11. DocOwnerInv'
    <2>1. \A y \in DocKnown : y.id <= made /\ doc[y.of].state # "unborn" /\ y.of \in Docs
      BY DEF DocIInv, DocOwnerInv, DocKnown, DocTypeInv, DocTableInv, DocRequestInv, DocRowSet
    <2>2. \A y \in DocKnown' : y.id <= made' /\ doc'[y.of].state # "unborn"
      BY <1>1, <1>6, <1>10, <2>1
    <2>3. \A y, z \in DocKnown' : y.id = z.id => y.of = z.of
      BY <1>10 DEF DocIInv, DocOwnerInv
    <2>4. \A q \in Writes : \A y \in docSeen'[q] \cup docStored'[q] :
            docPc'[q] \in {"children", "total", "erase"} /\ y.of = D!Here(q)'
      BY <1>7 DEF DocIInv, DocOwnerInv, DocAlone, D!Here
    <2> QED
      BY <2>2, <2>3, <2>4 DEF DocOwnerInv
  <1>12. \A q \in Writes : docPc[q] \notin {"new", "done"} => D!Here(q) \in Docs
    BY DocHereIs DEF DocIInv, DocTypeInv
  <1>13. DocFoundInv'
    BY <1>6, <1>7, <1>12 DEF DocIInv, DocFoundInv, DocAlone, D!Here, D!InTransaction
  <1>14. \A e \in Docs \ {d} : D!RowsOf(e)' = D!RowsOf(e)
    <2>1. \A y \in docSeen[r] : y.of = d /\ y \in DocKnown
      BY <1>0 DEF DocIInv, DocOwnerInv, DocKnown
    <2>2. \A y \in docStored[r] : y.of = d
      BY <1>0 DEF DocIInv, DocOwnerInv
    <2>3. \A y \in rows : y.id \in D!Ids(docSeen[r]) => y.of = d
      BY <2>1 DEF DocIInv, DocOwnerInv, DocKnown, D!Ids
    <2> QED
      BY <1>1, <2>2, <2>3 DEF D!RowsOf
  <1>15. DocAloneInv'
    <2>1. \A q \in Writes : D!InTransaction(q)' => q # r /\ D!InTransaction(q)
      BY <1>7 DEF DocAlone, D!InTransaction
    <2>2. \A q \in Writes : q # r /\ D!InTransaction(q) /\ q \notin clash => D!Here(q) # d
      BY <1>0, <1>2 DEF DocIInv, DocAloneInv
    <2>3. \A q \in Writes : q # r /\ D!InTransaction(q) /\ q \notin clash =>
            D!RowsOf(D!Here(q))' = D!RowsOf(D!Here(q)) /\ doc'[D!Here(q)] = doc[D!Here(q)]
      <3>1. \A q \in Writes : q # r /\ D!InTransaction(q) /\ q \notin clash =>
              D!Here(q)' = D!Here(q) /\ D!Here(q) \in Docs \ {d}
        BY <1>7, <1>12, <2>2 DEF D!InTransaction, D!Here, DocAlone
      <3> QED
        BY <1>5, <1>14, <3>1 DEF D!RowsOf
    <2>4. \A q \in Writes : q # r => D!Here(q)' = D!Here(q)
      BY <1>7 DEF DocAlone, D!Here
    <2>5. ASSUME NEW q \in Writes, D!InTransaction(q)', q \notin clash', D!Present(D!Here(q))'
          PROVE  DocFresh(q)'
      <3>1. q # r /\ D!InTransaction(q) /\ q \notin clash
        BY <1>7, <2>1, <2>5
      <3>2. DocFresh(q)
        BY <2>3, <2>4, <2>5, <3>1 DEF DocIInv, DocAloneInv, D!Present
      <3> QED
        BY <1>7, <2>3, <2>4, <3>1, <3>2 DEF DocFresh, DocAlone, D!Here
    <2>6. ASSUME NEW q \in Writes, NEW s \in Writes, q # s, D!InTransaction(q)', D!InTransaction(s)',
                 D!Here(q)' = D!Here(s)'
          PROVE  q \in clash'
      BY <1>7, <2>1, <2>4, <2>6 DEF DocIInv, DocAloneInv
    <2> QED
      BY <2>5, <2>6 DEF DocAloneInv
  <1>16. D!TotalsAddUp'
    <2>1. ASSUME r \notin clash PROVE x.total = D!Total(x.own, D!RowsOf(d)')
      <3>1. DocFresh(r)
        BY <1>0, <1>1, <1>2, <2>1 DEF DocIInv, DocAloneInv
      <3>2. x.own = docBase[r] /\ docSeen[r] = D!RowsOf(d)
        BY <1>0, <1>1, <1>4, <3>1 DEF DocFresh
      <3>3. \A y \in docStored[r] : y.of = d
        BY <1>0 DEF DocIInv, DocOwnerInv
      <3>4. D!RowsOf(d)' = docStored[r]
        <4>1. CASE patch[r].list
          BY <1>1, <3>2, <3>3, <4>1 DEF D!RowsOf, D!Ids
        <4>2. CASE ~ patch[r].list
          <5>1. docStored[r] = D!RowsOf(d)
            BY <1>1, <3>1, <3>2, <4>2 DEF DocFresh
          <5> QED
            BY <1>1, <4>2, <5>1 DEF D!RowsOf
        <4> QED
          BY <4>1, <4>2
      <3> QED
        BY <1>4, <3>2, <3>4
    <2>2. ASSUME NEW e \in Docs \ {d}, e \notin raced', e \notin copied', D!Present(e)'
          PROVE  doc'[e].total = D!Total(doc'[e].own, D!RowsOf(e)')
      <3>1. e \notin raced /\ e \notin copied
        BY <1>1, <2>2
      <3> QED
        BY <1>5, <1>14, <2>2, <3>1 DEF DocIInv, D!TotalsAddUp, D!Present
    <2>3. d \in raced' \/ doc'[d].total = D!Total(doc'[d].own, D!RowsOf(d)')
      BY <1>1, <1>5, <2>1
    <2> QED
      BY <2>2, <2>3 DEF D!TotalsAddUp
  <1>17. DocSweptInv'
    <2>1. \A e \in Docs : doc'[e].state = "deleted" => D!RowsOf(e)' = D!RowsOf(e)
      BY <1>1, <1>6, <1>14 DEF D!Present
    <2> QED
      BY <1>1, <1>6, <1>7, <2>1 DEF DocIInv, DocSweptInv, DocSweeps, DocAlone, D!Here
  <1> QED
    BY <1>9, <1>11, <1>13, <1>15, <1>16, <1>17 DEF DocIInv

-----------------------------------------------------------------------------
\* The invariant holds at first.
LEMMA DocInitStep == D!Init => DocIInv
  <1> SUFFICES ASSUME D!Init PROVE DocIInv
    OBVIOUS
  <1> DEFINE first == {D!Row(1, FirstDoc, 1)}
  <1>1. FirstDoc \in Docs /\ D!Row(1, FirstDoc, 1) \in DocRowSet /\ rows = first /\ made = 1
        /\ D!Row(1, FirstDoc, 1).of = FirstDoc /\ D!Row(1, FirstDoc, 1).id = 1
    BY DocumentsAre DEF D!DocumentsAssumption, D!Row, DocRowSet, D!Init
  <1>2. IsFiniteSet(rows) /\ rows \in SUBSET DocRowSet
    BY <1>1, FS_Singleton
  <1>3. D!Total(0, first) \in DocSums /\ 0 \in DocSums
    BY <1>1 DEF DocSums
  <1>4. doc = [d \in Docs |-> IF d = FirstDoc THEN [state |-> "live", own |-> 0, total |-> D!Total(0, first)]
                              ELSE D!Unborn]
    BY DEF D!Init
  <1> HIDE DEF first
  <1>5. doc \in [Docs -> DocDoc]
    BY <1>3, <1>4 DEF D!Unborn, DocDoc
  <1>6. D!NoPatch \in DocPatch /\ IsFiniteSet(D!NoPatch.keep)
    BY FS_EmptySet DEF D!NoPatch, DocPatch
  <1>7. <<>> \in Seq(Docs) /\ IsFiniteSet({})
    BY FS_EmptySet
  <1>8. DocTypeInv
    <2>1. DocTableInv
      BY <1>1, <1>2, <1>5 DEF DocTableInv
    <2>2. DocRequestInv
      BY <1>6, <1>7 DEF D!Init, DocRequestInv, DocPoints
    <2> QED
      BY <2>1, <2>2 DEF DocTypeInv
  <1>9. DocKnown = first
    BY <1>1 DEF D!Init, DocKnown
  <1>10. DocOwnerInv
    BY <1>1, <1>4, <1>9 DEF D!Init, DocOwnerInv, first
  <1>11. DocFoundInv /\ DocAloneInv
    BY DEF D!Init, DocFoundInv, DocAloneInv, D!InTransaction
  <1>12. D!RowsOf(FirstDoc) = first
    BY <1>1 DEF D!RowsOf, first
  <1>13. D!TotalsAddUp
    BY <1>1, <1>4, <1>12 DEF D!TotalsAddUp, D!Present, D!Unborn
  <1>14. DocSweptInv
    BY <1>4 DEF DocSweptInv, D!Unborn
  <1> QED
    BY <1>8, <1>10, <1>11, <1>13, <1>14 DEF DocIInv

\* Every step preserves the invariant.
LEMMA DocNextStep == DocIInv /\ [D!Next]_(D!documentVars) => DocIInv'
  <1>1. ASSUME DocIInv, UNCHANGED D!documentVars PROVE DocIInv'
    <2>1. UNCHANGED <<doc, rows, made, docPc, todo, patch, docBase, docSeen, docStored, held, clash, raced,
                      copied, left>>
      BY <1>1 DEF D!documentVars, D!tableVars, D!requestVars, D!lockVars, D!histVars
    <2>2. DocTypeInv' /\ DocOwnerInv'
      BY <1>1, <2>1 DEF DocIInv, DocTypeInv, DocTableInv, DocRequestInv, DocOwnerInv, DocKnown,
        D!Here
    <2>3. DocFoundInv'
      BY <1>1, <2>1 DEF DocIInv, DocFoundInv, D!InTransaction, D!Here
    <2>4. DocAloneInv'
      BY <1>1, <2>1 DEF DocIInv, DocAloneInv, DocFresh, D!InTransaction, D!Here, D!Present,
         D!RowsOf
    <2>5. D!TotalsAddUp' /\ DocSweptInv'
      BY <1>1, <2>1 DEF DocIInv, D!Here, D!Present, D!RowsOf, D!TotalsAddUp, DocSweptInv,
         DocSweeps
    <2> QED
      BY <2>2, <2>3, <2>4, <2>5 DEF DocIInv
  <1>2. ASSUME DocIInv, D!Next PROVE DocIInv'
    <2>1. PICK r \in Writes :
            \/ D!Begin(r)
            \/ \E d \in Docs : D!Copy(r, d) \/ \E n \in 0..1 : D!Create(r, d, n)
            \/ D!UpdateRow(r) \/ D!ListChildren(r) \/ D!WriteChildren(r) \/ D!Commit(r)
            \/ D!NotFound(r) \/ D!Fails(r)
            \/ D!DeleteRow(r) \/ D!ListSwept(r) \/ D!Swept(r) \/ D!SweepFails(r)
            \/ \E x \in docSeen[r] : D!EraseRow(r, x)
      BY <1>2, Zenon DEF D!Next
    <2> QED
      BY <1>2, <2>1, DocBeginStep, DocCopyStep, DocCreateStep, DocUpdateRowStep,
        DocListChildrenStep,
         DocWriteChildrenStep, DocCommitStep, DocRollbackStep, DocDeleteRowStep, DocListSweptStep,
         DocSweptStep,
         DocSweepFailsStep, DocEraseRowStep
  <1> QED
    BY <1>1, <1>2

\* For any documents and requests: the stored total of a document is that of its columns and
\* its child rows, but for the two cases the code leaves open.
THEOREM DocAddUp == D!Spec => []D!TotalsAddUp
  <1>1. DocIInv => D!TotalsAddUp
    BY DEF DocIInv
  <1> QED
    BY <1>1, DocInitStep, DocNextStep, PTL DEF D!Spec

\* For any documents and requests: child rows go with their document.
THEOREM DocGo == D!Spec => []D!ChildrenGo
  <1>1. DocIInv => D!ChildrenGo
    BY DEF DocIInv, DocSweptInv, DocSweeps, D!ChildrenGo
  <1> QED
    BY <1>1, DocInitStep, DocNextStep, PTL DEF D!Spec

\* Both at once: the property of the run.
THEOREM DocsAreKept == D!Spec => []DocumentsAddUp
  <1>1. D!TotalsAddUp /\ D!ChildrenGo => DocumentsAddUp
    BY DEF DocumentsAddUp
  <1> QED
    BY <1>1, DocAddUp, DocGo, PTL

-----------------------------------------------------------------------------
(* Offers.                                                                  *)

\* What is found under a name is a transition that leaves the state, and nothing else is.
LEMMA OfferFinds ==
  ASSUME NEW name, NEW t \in O!find_transition(name)
  PROVE  /\ \E i \in O!Leaving : t = Transitions[i] /\ name \in {t.name, t.to}
         /\ O!find_transition(name) = {t}
  <1> DEFINE found == {i \in O!Leaving : name \in {Transitions[i].name, Transitions[i].to}}
  <1>1. found # {} /\ O!find_transition(name) = {Transitions[O!First(found)]}
    BY DEF O!find_transition
  <1>2. found \in SUBSET Nat
    BY OffersAre DEF O!OffersAssumption, O!Leaving
  <1>3. O!First(found) \in found
    <2>1. E!Min(found) \in found /\ \A j \in found : E!Min(found) <= j
      BY <1>1, <1>2, SchLeast
    <2> HIDE DEF found
    <2> QED
      BY <2>1 DEF O!First
  <1> QED
    BY <1>1, <1>3

\* A transition that the record offers, and that its name finds, may be made.
LEMMA OfferApplies ==
  ASSUME NEW i \in O!Leaving, O!has_role(Transitions[i].reserved), workflow,
         ~O!Shadowed(Transitions[i].name)
  PROVE  /\ O!apply(Transitions[i].name)
         /\ ~O!Withheld({Transitions[i].name}) => O!apply_transition(Transitions[i].name)
  <1>1. Transitions[i] \in O!find_transition(Transitions[i].name)
    BY DEF O!Shadowed
  <1> QED
    BY <1>1 DEF O!apply, O!apply_transition, O!Withheld

\* An operation that is available, and that nothing hinders, is executed under every name
\* it is found by.
LEMMA OfferRuns ==
  ASSUME NEW x \in O!available_for_record, NEW name, x \in O!try_get(name),
         O!allows_app(EntityApp[Subject]), workflow, ~O!Hindered(x)
  PROVE  O!execute(name)
  <1>1. x \in Operations /\ O!operation_allowed(x)
    BY DEF O!available_for_record
  <1>2. x.transition # "none" => O!apply(x.transition)
    BY DEF O!available_for_record
  <1>3. ASSUME x.handler = "applies" PROVE O!apply_transition(x.transition)
    <2>1. x.transition # "none"
      BY <1>1, <1>3, OffersAre DEF O!OffersAssumption
    <2>2. ~O!Withheld({x.transition})
      BY <1>3 DEF O!Hindered, O!Tried
    <2> QED
      BY <1>2, <2>1, <2>2 DEF O!apply_transition, O!Withheld
  <1>4. ASSUME x.handler = "cancels" PROVE \E n \in O!Cancelling : O!apply_transition(n)
    <2>1. x.name = "cancel" /\ x.transition = "none"
      BY <1>1, <1>4, OffersAre DEF O!OffersAssumption
    <2>2. PICK u \in O!allowed_from : u.name \in O!Cancelling
      BY <2>1 DEF O!available_for_record
    <2>3. PICK i \in O!Leaving : u = Transitions[i] /\ O!has_role(u.reserved)
      BY DEF O!allowed_from
    <2>4. ~O!Shadowed(u.name) /\ ~O!Withheld(O!Cancelling)
      BY <1>4, <2>2 DEF O!Hindered, O!Tried
    <2>5. ~O!Withheld({u.name})
      BY <2>2, <2>4 DEF O!Withheld
    <2> QED
      BY <2>2, <2>3, <2>4, <2>5, OfferApplies
  <1> QED
    BY <1>1, <1>2, <1>3, <1>4 DEF O!execute

\* An operation that is executed is available, but for one that cancels otherwise.
LEMMA OfferShown ==
  ASSUME NEW x \in Operations, O!operation_allowed(x),
         x.transition # "none" => O!apply(x.transition),
         x.handler = "cancels" => \E n \in O!Cancelling : O!apply_transition(n)
  PROVE  x \in O!available_for_record \/ O!CancelsOtherwise(x)
  <1> SUFFICES ASSUME ~O!CancelsOtherwise(x), x.transition = "none", x.name = "cancel"
               PROVE  \E u \in O!allowed_from : u.name \in O!Cancelling
    BY DEF O!available_for_record
  <1>1. x.handler = "cancels" /\ O!States \cap O!Cancelling = {}
    BY DEF O!CancelsOtherwise
  <1>2. PICK n \in O!Cancelling : O!apply_transition(n)
    BY <1>1
  <1>3. PICK t \in O!find_transition(n) : O!has_role(t.reserved)
    BY <1>2 DEF O!apply_transition, O!apply
  <1>4. PICK i \in O!Leaving : t = Transitions[i] /\ n \in {t.name, t.to}
    BY OfferFinds
  <1>5. i \in DOMAIN Transitions
    BY DEF O!Leaving
  <1>6. t.to \in O!States
    BY <1>4, <1>5 DEF O!States
  <1>7. n = t.name
    BY <1>1, <1>2, <1>4, <1>6
  <1>8. t \in O!allowed_from
    BY <1>3, <1>4 DEF O!allowed_from
  <1> QED
    BY <1>2, <1>7, <1>8

\* The calls on an entity that its grants allow are answered: as requests and as tools.
LEMMA OfferCalls ==
  ASSUME NEW e \in EntityNames, O!allows_app(EntityApp[e]),
         NEW pair \in O!Granting \cup ({"read"} \X {"activity", "comment", "attachments"}),
         O!allows(e, pair[1])
  PROVE  /\ O!Answered(O!Call(pair[2], e, "none"))
         /\ agents => O!invoke_tool(O!Call(pair[2], e, "none"))
  <1> DEFINE c == O!Call(pair[2], e, "none")
  <1>1. c.to = pair[2] /\ c.entity = e /\ c.name = "none"
    BY DEF O!Call
  <1>2. ASSUME pair = <<"create", "create">> PROVE O!Answered(c)
    BY <1>1, <1>2 DEF O!Answered
  <1>3. ASSUME pair = <<"list", "list">> PROVE O!Answered(c)
    BY <1>1, <1>3 DEF O!Answered, O!list
  <1>4. ASSUME pair = <<"read", "get">> PROVE O!Answered(c)
    BY <1>1, <1>4 DEF O!Answered, O!get
  <1>5. ASSUME pair \in {<<"update", "update">>, <<"delete", "delete">>} PROVE O!Answered(c)
    BY <1>1, <1>5 DEF O!Answered
  <1>6. ASSUME pair \in {"read"} \X {"activity", "comment", "attachments"} PROVE O!Answered(c)
    BY <1>1, <1>6 DEF O!Answered, O!get
  <1>7. O!Answered(c)
    BY <1>2, <1>3, <1>4, <1>5, <1>6 DEF O!Granting
  <1>8. \A x \in Operations : x.name # c.name
    BY <1>1, OffersAre DEF O!OffersAssumption
  <1> QED
    BY <1>1, <1>7, <1>8 DEF O!invoke_tool

\* What the workspace offers.
LEMMA OfferWorkspace ==
  ASSUME NEW o \in O!workspace_payload
  PROVE  O!LeftToTheCall(o) \/ (o.via # "tool" /\ O!Answered(o.call))
  <1>1. CASE \E e \in EntityNames : O!nav_item_visible(e) /\ o = O!Offer("navigation", O!Call("list", e, "none"))
    BY <1>1 DEF O!nav_item_visible, O!Offer, O!Call, O!Answered, O!list
  <1>2. CASE \E e \in EntityNames : /\ O!nav_item_visible(e) /\ O!allows(e, "create")
                              /\ o = O!Offer("shortcut", O!Call("create", e, "none"))
    BY <1>2 DEF O!nav_item_visible, O!Offer, O!Call, O!Answered
  <1>3. CASE \E p \in DOMAIN Pages : O!page_allowed(p) /\ o = O!Offer("navigation", O!Call("page", Subject, p))
    BY <1>3 DEF O!Offer, O!Call, O!Answered
  <1>4. CASE \E r \in DOMAIN Reports : /\ O!allows_app(Reports[r].app)
                                       /\ o = O!Offer("reports", O!Call("report", Reports[r].entity, r))
    BY <1>4 DEF O!Offer, O!Call, O!Answered, O!run_report, O!list, O!LeftToTheCall
  <1>5. CASE \E a \in OwnApps : O!allows_app(a) /\ o = O!Offer("dashboards", O!Call("dashboard", Subject, a))
    BY <1>5 DEF O!Offer, O!Call, O!Answered
  <1> QED
    BY <1>1, <1>2, <1>3, <1>4, <1>5 DEF O!workspace_payload

\* What pages offer.
LEMMA OfferSections ==
  ASSUME NEW o \in O!visible_page
  PROVE  O!LeftToTheCall(o) \/ (o.via # "tool" /\ O!Answered(o.call))
  <1>1. PICK p \in DOMAIN Pages :
          /\ O!section_allowed(p)
          /\ o = O!Offer("section", O!section_shows(p))
    BY DEF O!visible_page
  <1>2. o.via = "section"
    BY <1>1 DEF O!Offer
  <1>3. CASE Pages[p].shows = "report"
    <2>1. o.call = O!Call("report", Reports[Pages[p].of].entity, Pages[p].of)
      BY <1>1, <1>3 DEF O!Offer, O!section_shows
    <2> QED
      BY <1>1, <1>2, <1>3, <2>1 DEF O!Call, O!Answered, O!run_report, O!list, O!section_allowed,
        O!LeftToTheCall
  <1>4. CASE Pages[p].shows = "action"
    <2>1. o.call = O!Call("execute", Pages[p].of, Pages[p].name)
      BY <1>1, <1>4 DEF O!Offer, O!section_shows
    <2> QED
      BY <1>2, <2>1 DEF O!Call, O!LeftToTheCall
  <1>5. CASE Pages[p].shows \notin {"report", "action"}
    <2>1. o.call = O!Call("list", Pages[p].of, "none")
      BY <1>1, <1>5 DEF O!Offer, O!section_shows
    <2> QED
      BY <1>1, <1>2, <1>5, <2>1 DEF O!Call, O!Answered, O!list, O!section_allowed, O!LeftToTheCall
  <1> QED
    BY <1>3, <1>4, <1>5

\* What is offered of entities and of operations to clients and to agents.
LEMMA OfferLists ==
  ASSUME NEW o \in O!meta_ui \cup O!list_tools \cup O!list_operations
  PROVE  \/ O!LeftToTheCall(o)
         \/ o.via # "tool" /\ O!Answered(o.call)
         \/ o.via = "tool" /\ O!invoke_tool(o.call)
  <1> DEFINE calls == O!Granting \cup ({"read"} \X {"activity", "comment", "attachments"})
  <1>1. ASSUME NEW via \in {"permissions", "operations", "tool"}, NEW e \in EntityNames,
               O!allows_app(EntityApp[e]), NEW pair \in calls, O!allows(e, pair[1]),
               o = O!Offer(via, O!Call(pair[2], e, "none"))
        PROVE  \/ O!LeftToTheCall(o)
               \/ o.via # "tool" /\ O!Answered(o.call)
               \/ o.via = "tool" /\ O!invoke_tool(o.call)
    <2>1. o.via = via /\ o.call = O!Call(pair[2], e, "none")
      BY <1>1 DEF O!Offer
    <2>2. ~agents /\ via = "tool" => O!LeftToTheCall(o)
      BY <2>1 DEF O!LeftToTheCall
    <2> QED
      BY <1>1, <2>1, <2>2, OfferCalls
  <1>2. ASSUME NEW via \in {"operations", "tool"}, NEW x \in Operations,
               o = O!Offer(via, O!Call("execute", Subject, x.name))
        PROVE  O!LeftToTheCall(o)
    BY <1>2 DEF O!Offer, O!Call, O!LeftToTheCall
  <1>3. ASSUME NEW via, NEW some \in SUBSET calls, o \in O!OfEntities(via, some)
        PROVE  \E e \in EntityNames, pair \in calls :
                 /\ O!allows_app(EntityApp[e]) /\ O!allows(e, pair[1])
                 /\ o = O!Offer(via, O!Call(pair[2], e, "none"))
    <2>1. PICK e \in EntityNames : O!allows_app(EntityApp[e]) /\ o \in O!OfEntity(via, some, e)
      BY <1>3 DEF O!OfEntities
    <2>2. PICK pair \in some : O!allows(e, pair[1]) /\ o = O!Offer(via, O!Call(pair[2], e, "none"))
      BY <2>1 DEF O!OfEntity
    <2> QED
      BY <2>1, <2>2
  <1>4. O!Granting \in SUBSET calls /\ calls \in SUBSET calls
    OBVIOUS
  <1>5. CASE o \in O!meta_ui
    BY <1>1, <1>3, <1>4, <1>5 DEF O!meta_ui
  <1>6. CASE o \in O!list_tools
    <2>1. CASE o \in O!OfEntities("tool", calls)
      BY <1>1, <1>3, <1>4, <2>1
    <2>2. CASE o \in O!OfOperations("tool")
      BY <1>2, <2>2 DEF O!OfOperations
    <2> QED
      BY <1>6, <2>1, <2>2 DEF O!list_tools
  <1>7. CASE o \in O!list_operations
    <2>1. CASE o \in O!OfEntities("operations", O!Granting)
      BY <1>1, <1>3, <1>4, <2>1
    <2>2. CASE o \in O!OfOperations("operations")
      BY <1>2, <2>2 DEF O!OfOperations
    <2> QED
      BY <1>7, <2>1, <2>2 DEF O!list_operations
  <1> QED
    BY <1>5, <1>6, <1>7

\* What the record offers.
LEMMA OfferRecord ==
  ASSUME NEW o \in O!present
  PROVE  O!LeftToTheCall(o) \/ (o.via # "tool" /\ O!Answered(o.call))
  <1>1. /\ O!get(Subject) /\ O!allows_app(EntityApp[Subject])
        /\ o \in O!attach_actions \cup O!workflow_json \cup O!attach_permissions \cup O!attach_links
    BY DEF O!present, O!get
  <1>2. ASSUME NEW x \in O!available_for_record,
               o = O!Offer("action", O!Call("execute", Subject, x.name))
        PROVE  O!LeftToTheCall(o) \/ O!execute(x.name)
    <2>1. x \in Operations /\ x \in O!try_get(x.name)
      BY DEF O!available_for_record, O!try_get
    <2>2. o.via = "action" /\ o.call.name = x.name
      BY <1>2 DEF O!Offer, O!Call
    <2>3. CASE ~workflow \/ O!Hindered(x)
      BY <2>1, <2>2, <2>3 DEF O!LeftToTheCall
    <2>4. CASE workflow /\ ~O!Hindered(x)
      BY <1>1, <2>1, <2>4, OfferRuns
    <2> QED
      BY <2>3, <2>4
  <1>3. CASE o \in O!attach_actions
    <2>1. CASE o = O!Offer("action", O!Call("print", Subject, "none"))
      BY <1>1, <2>1 DEF O!Offer, O!Call, O!Answered
    <2>2. CASE \E x \in O!available_for_record : o = O!Offer("action", O!Call("execute", Subject, x.name))
      BY <1>2, <2>2 DEF O!Offer, O!Call, O!Answered
    <2> QED
      BY <1>3, <2>1, <2>2 DEF O!attach_actions
  <1>4. CASE o \in O!workflow_json
    <2>1. PICK i \in O!Leaving :
            /\ workflow /\ O!has_role(Transitions[i].reserved)
            /\ o = O!Offer("workflow", O!Call("transition", Subject, Transitions[i].name))
      BY <1>4 DEF O!workflow_json, O!allowed_from
    <2> DEFINE n == Transitions[i].name
    <2>2. o.via = "workflow" /\ o.call.to = "transition" /\ o.call.name = n
      BY <2>1 DEF O!Offer, O!Call
    <2> SUFFICES ASSUME ~O!LeftToTheCall(o) PROVE O!transition(n)
      BY <2>2 DEF O!Answered
    <2>3. O!allows(Subject, "update") /\ ~O!Withheld({n}) /\ ~O!Shadowed(n)
      BY <2>2 DEF O!LeftToTheCall
    <2>4. \A x \in O!try_get(n) : x \in O!available_for_record /\ ~O!Hindered(x)
      BY <2>2 DEF O!LeftToTheCall
    <2>5. O!apply_transition(n)
      BY <2>1, <2>3, OfferApplies
    <2>6. O!try_get(n) # {} => O!execute(n)
      BY <1>1, <2>1, <2>4, OfferRuns
    <2> QED
      BY <1>1, <2>3, <2>5, <2>6 DEF O!transition
  <1>5. CASE o \in O!attach_permissions
    <2>1. PICK a \in {"update", "delete"} :
            O!allows(Subject, a) /\ o = O!Offer("record", O!Call(a, Subject, "none"))
      BY <1>5 DEF O!attach_permissions
    <2> QED
      BY <1>1, <2>1 DEF O!Offer, O!Call, O!Answered
  <1>6. CASE o \in O!attach_links
    <2>1. PICK e \in EntityNames : O!allows(e, "list") /\ o = O!Offer("links", O!Call("list", e, "none"))
      BY <1>6 DEF O!attach_links
    <2> QED
      BY <2>1 DEF O!Offer, O!Call, O!Answered, O!list, O!LeftToTheCall
  <1> QED
    BY <1>1, <1>3, <1>4, <1>5, <1>6

\* Whatever a user is granted and a record is in: what is offered is answered.
LEMMA OfferAnswered == O!OfferedIsAnswered
  BY OfferWorkspace, OfferSections, OfferLists, OfferRecord DEF O!OfferedIsAnswered, O!Offered

\* An operation that is executed is one that the name finds, which the record has offered
\* unless it cancels otherwise.
LEMMA OfferExecuted ==
  ASSUME NEW name, O!execute(name)
  PROVE  \E x \in O!try_get(name) :
           /\ x \in Operations
           /\ x \in O!available_for_record \/ O!CancelsOtherwise(x)
           /\ x.handler = "applies" => O!apply_transition(x.transition)
           /\ x.handler = "cancels" => \E n \in O!Cancelling : O!apply_transition(n)
  <1>1. PICK x \in O!try_get(name) :
          /\ O!operation_allowed(x)
          /\ x.transition # "none" => O!apply(x.transition)
          /\ x.handler = "applies" => O!apply_transition(x.transition)
          /\ x.handler = "cancels" => \E n \in O!Cancelling : O!apply_transition(n)
    BY DEF O!execute
  <1>2. x \in Operations
    BY DEF O!try_get
  <1> QED
    BY <1>1, <1>2, OfferShown

\* What is done to a record has been offered.
LEMMA OfferWasMade == O!AnsweredIsOffered
  <1> SUFFICES ASSUME O!get(Subject)
               PROVE  /\ \A x \in Operations : O!execute(x.name) =>
                           x \in O!available_for_record \/ O!CancelsOtherwise(x)
                      /\ \A i \in O!Leaving : O!transition(Transitions[i].name) =>
                           \/ \E x \in O!try_get(Transitions[i].name) :
                                x \in O!available_for_record \/ O!CancelsOtherwise(x)
                           \/ O!Offer("workflow", O!Call("transition", Subject, Transitions[i].name))
                                \in O!present
                           \/ O!Shadowed(Transitions[i].name)
    BY DEF O!AnsweredIsOffered
  <1>1. ASSUME NEW x \in Operations, O!execute(x.name)
        PROVE  x \in O!available_for_record \/ O!CancelsOtherwise(x)
    <2>1. O!try_get(x.name) = {x}
      BY OffersAre DEF O!try_get, O!OffersAssumption
    <2> QED
      BY <1>1, <2>1, OfferExecuted
  <1>2. ASSUME NEW i \in O!Leaving, O!transition(Transitions[i].name),
               O!try_get(Transitions[i].name) = {}, ~O!Shadowed(Transitions[i].name)
        PROVE  O!Offer("workflow", O!Call("transition", Subject, Transitions[i].name)) \in O!present
    <2>1. O!apply_transition(Transitions[i].name)
      BY <1>2 DEF O!transition
    <2>2. PICK t \in O!find_transition(Transitions[i].name) : O!has_role(t.reserved) /\ workflow
      BY <2>1 DEF O!apply_transition, O!apply
    <2>3. t = Transitions[i]
      BY <1>2, OfferFinds DEF O!Shadowed
    <2>4. Transitions[i] \in O!allowed_from
      BY <2>2, <2>3 DEF O!allowed_from
    <2> QED
      BY <2>2, <2>4 DEF O!present, O!workflow_json
  <1>3. ASSUME NEW i \in O!Leaving, O!transition(Transitions[i].name),
               O!try_get(Transitions[i].name) # {}
        PROVE  \E x \in O!try_get(Transitions[i].name) :
                 x \in O!available_for_record \/ O!CancelsOtherwise(x)
    <2>1. O!execute(Transitions[i].name)
      BY <1>3 DEF O!transition
    <2> QED
      BY <2>1, OfferExecuted
  <1> QED
    BY <1>1, <1>2, <1>3

\* Guarded transitions wait.
LEMMA OfferGuards == O!GuardsHold
  <1> SUFFICES ASSUME NEW i \in O!Leaving, O!transition(Transitions[i].name),
                      Transitions[i].guarded, ~filled, ~O!Shadowed(Transitions[i].name)
               PROVE  \E x \in O!try_get(Transitions[i].name) :
                        \/ x.handler = "neither"
                        \/ \E other \in O!Tried(x) \ {Transitions[i].name} :
                             O!apply_transition(other)
    BY DEF O!GuardsHold
  <1>1. ~O!apply_transition(Transitions[i].name)
    <2>1. Transitions[i] \in O!find_transition(Transitions[i].name)
      BY DEF O!Shadowed
    <2> QED
      BY <2>1 DEF O!apply_transition, O!guard_allows
  <1>2. O!execute(Transitions[i].name)
    BY <1>1 DEF O!transition
  <1>3. PICK x \in O!try_get(Transitions[i].name) :
          /\ x \in Operations
          /\ x.handler = "applies" => O!apply_transition(x.transition)
          /\ x.handler = "cancels" => \E n \in O!Cancelling : O!apply_transition(n)
    BY <1>2, OfferExecuted
  <1>4. x.handler \in {"applies", "cancels", "neither"}
    BY <1>3, OffersAre DEF O!OffersAssumption
  <1>5. CASE x.handler = "applies"
    BY <1>1, <1>3, <1>5 DEF O!Tried
  <1>6. CASE x.handler = "cancels"
    BY <1>1, <1>3, <1>6 DEF O!Tried
  <1> QED
    BY <1>4, <1>5, <1>6

\* The type of what offers depend on.
LEMMA OfferTyped == O!Spec => []O!TypeOK
  <1>1. O!Init => O!TypeOK
    <2> SUFFICES ASSUME O!Init PROVE O!TypeOK
      OBVIOUS
    <2>1. (CHOOSE g \in GrantSets : TRUE) \in GrantSets
      BY OffersAre DEF O!OffersAssumption
    <2>2. granted \in [EntityNames -> GrantSets]
      BY <2>1 DEF O!Init
    <2> QED
      BY <2>2 DEF O!Init, O!TypeOK, O!States
  <1>2. O!TypeOK /\ [O!Next]_(O!vars) => O!TypeOK'
    <2> SUFFICES ASSUME O!TypeOK, [O!Next]_(O!vars) PROVE O!TypeOK'
      OBVIOUS
    <2>1. CASE UNCHANGED O!vars
      BY <2>1 DEF O!TypeOK, O!vars, O!States
    <2>2. ASSUME NEW e \in EntityNames, NEW g \in GrantSets, O!Grant(e, g) PROVE O!TypeOK'
      BY <2>2 DEF O!Grant, O!TypeOK, O!States
    <2>3. ASSUME NEW set \in SUBSET OwnApps, O!Enable(set) PROVE O!TypeOK'
      BY <2>3 DEF O!Enable, O!TypeOK, O!States
    <2>4. ASSUME NEW a \in BOOLEAN, NEW b \in BOOLEAN, O!Join(a, b) \/ O!Configure(a, b)
          PROVE  O!TypeOK'
      BY <2>4 DEF O!Join, O!Configure, O!TypeOK, O!States
    <2>5. ASSUME NEW s \in O!States, NEW f \in BOOLEAN, O!Change(s, f) PROVE O!TypeOK'
      BY <2>5 DEF O!Change, O!TypeOK, O!States
    <2> QED
      BY <2>1, <2>2, <2>3, <2>4, <2>5 DEF O!Next
  <1> QED
    BY <1>1, <1>2, PTL DEF O!Spec

\* For any grants, workflow, operations and pages, whatever they change to: what is offered
\* is answered, what is done has been offered, and guards hold, with the exceptions named.
THEOREM OffersAreAnswered == O!Spec => []OffersHold
  <1>1. OffersHold
    BY OfferAnswered, OfferWasMade, OfferGuards DEF OffersHold, O!OffersHold
  <1> QED
    BY <1>1, PTL

-----------------------------------------------------------------------------
(* Rules.                                                                   *)

\* A value of a column, as its table has it.
RulRight(f, v) ==
  /\ v # U!Bad
  /\ FieldDefs[f].type = "decimal" => ~U!IsString(v)
  /\ FieldDefs[f].type = "enum" => v \in FieldDefs[f].options \cup {U!Null}

\* A row of the table: all of its columns, with such values.
RulRow(x) ==
  /\ U!IsRecord(x)
  /\ DOMAIN table \subseteq DOMAIN x /\ DOMAIN x \subseteq DOMAIN FieldDefs
  /\ edition = 1 => DOMAIN x \subseteq FieldEditions[1]
  /\ \A f \in DOMAIN x \ U!Custom : RulRight(f, x[f])
  /\ \A f \in DOMAIN table : table[f] => x[f] # U!Null

\* The table has the columns of the edition, and a NOT NULL column is required in it.
RulTableInv ==
  /\ edition \in 1..2
  /\ \A u \in rules : U!RuleShape(u) /\ U!ValidRule(u)
  /\ U!Columns(edition) \subseteq DOMAIN table
  /\ DOMAIN table \subseteq DOMAIN FieldDefs \ U!Custom
  /\ edition = 1 => DOMAIN table \subseteq FieldEditions[1]
  /\ \A f \in DOMAIN table : table[f] =>
       f \in FieldEditions[edition] /\ FieldDefs[f].required /\ ~FieldDefs[f].computed

\* The record is a row once it is there, and only then it is being changed.
RulRowInv ==
  /\ U!Live => RulRow(rec)
  /\ patching.open \/ by \in {"create", "update", "operation"} => U!Live
  /\ patching.open \in BOOLEAN

\* A PATCH carries what its checks have seen, and they hold of a record that nothing has
\* changed since.
RulPatchInv ==
  /\ U!IsRecord(patching.top) /\ U!IsRecord(patching.nested)
  /\ patching.open =>
       /\ DOMAIN patching.top \cap (U!Computed \cup U!Managed) = {}
       /\ ~U!RecordErrors(patching.top, TRUE)
       /\ ~outrun =>
            /\ ~U!EntityErrors(U!Over(patching.top, rec), TRUE)
            /\ ~U!ReadonlyErrors(rec, patching.top)
            /\ ~U!LockedErrors(patching.top)

RulIInv == RulTableInv /\ RulRowInv /\ RulPatchInv /\ U!RulesHold

-----------------------------------------------------------------------------
\* What a decimal becomes when it is stored: the number that it reads as.
LEMMA RulNormal ==
  ASSUME NEW f, NEW v \in U!Values
  PROVE  /\ U!Normal(f, v) \in U!Values
         /\ U!Normal(f, v) = v
              \/ /\ FieldDefs[f].type = "decimal" /\ v >= 100 /\ U!Normal(f, v) = v - 100
         /\ U!IsEmpty(U!Normal(f, v)) <=> U!IsEmpty(v)
         /\ U!Normal(f, v) = U!Null <=> v = U!Null
         /\ U!HasNumber(U!Normal(f, v)) <=> U!HasNumber(v)
         /\ U!HasNumber(v) => U!Number(U!Normal(f, v)) = U!Number(v)
         /\ U!ValueRight(f, v) => U!ValueRight(f, U!Normal(f, v))
  <1>1. v \in Int /\ v >= -3 /\ v <= 199
    BY DEF U!Values, U!Null
  <1>2. U!Normal(f, v) = v
          \/ /\ FieldDefs[f].type = "decimal" /\ v >= 100 /\ U!Normal(f, v) = v - 100
    BY <1>1 DEF U!Normal, U!Number, U!HasNumber
  <1>3. U!Normal(f, v) \in U!Values
    BY <1>1, <1>2 DEF U!Values, U!Null
  <1>4. U!IsEmpty(U!Normal(f, v)) <=> U!IsEmpty(v)
    BY <1>1, <1>2 DEF U!IsEmpty, U!Null, U!Blank
  <1>5. U!Normal(f, v) = U!Null <=> v = U!Null
    BY <1>1, <1>2 DEF U!Null
  <1>6. U!HasNumber(U!Normal(f, v)) <=> U!HasNumber(v)
    BY <1>1, <1>2 DEF U!HasNumber
  <1>7. U!HasNumber(v) => U!Number(U!Normal(f, v)) = U!Number(v)
    BY <1>1, <1>2 DEF U!HasNumber, U!Number
  <1>8. U!ValueRight(f, v) => U!ValueRight(f, U!Normal(f, v))
    BY <1>1, <1>2 DEF U!ValueRight, U!HasNumber, U!Number, U!Null
  <1> QED
    BY <1>2, <1>3, <1>4, <1>5, <1>6, <1>7, <1>8

\* A column that is stored takes no quoted number.
LEMMA RulNormalRight ==
  ASSUME NEW f, f \notin U!Custom, NEW v \in U!Values, v # U!Bad,
         FieldDefs[f].type = "decimal" => v # U!Blank,
         FieldDefs[f].type = "enum" => U!Normal(f, v) \in FieldDefs[f].options \cup {U!Null}
  PROVE  RulRight(f, U!Normal(f, v))
  <1>1. v \in Int /\ v >= -3 /\ v <= 199
    BY DEF U!Values, U!Null
  <1>2. U!Normal(f, v) # U!Bad
    BY <1>1 DEF U!Normal, U!Number, U!HasNumber, U!Bad
  <1>3. FieldDefs[f].type = "decimal" => ~U!IsString(U!Normal(f, v))
    BY <1>1 DEF U!Normal, U!Number, U!HasNumber, U!Bad, U!Blank, U!IsString
  <1> QED
    BY <1>2, <1>3 DEF RulRight

\* What equals a stored value has equalled the one that was given.
LEMMA RulEqual ==
  ASSUME NEW f, NEW v \in U!Values, NEW e \in U!Values
  PROVE  /\ U!ValuesEqual(U!Normal(f, v), e) => U!ValuesEqual(v, e)
         /\ U!ValuesEqual(v, e) =>
              U!ValuesEqual(U!Normal(f, v), e) \/ U!ValuesEqual(e, U!Normal(f, v))
         /\ ~(U!IsString(e) /\ FieldDefs[f].type = "decimal") /\ U!ValuesEqual(v, e) =>
              U!ValuesEqual(U!Normal(f, v), e)
  <1>1. v \in Int /\ v >= -3 /\ v <= 199 /\ e \in Int /\ e >= -3 /\ e <= 199
    BY DEF U!Values, U!Null
  <1>2. CASE U!Normal(f, v) = v
    BY <1>2
  <1>3. CASE FieldDefs[f].type = "decimal" /\ v >= 100 /\ U!Normal(f, v) = v - 100
    BY <1>1, <1>3 DEF U!ValuesEqual, U!IsString, U!HasNumber, U!Number, U!Blank
  <1> QED
    BY <1>2, <1>3, RulNormal

\* The records that the operators of Rules make.
LEMMA RulOver ==
  ASSUME NEW p, NEW x, U!IsRecord(p), U!IsRecord(x)
  PROVE  /\ U!IsRecord(U!Over(p, x))
         /\ DOMAIN U!Over(p, x) = DOMAIN p \cup DOMAIN x
         /\ \A f \in DOMAIN p : U!Over(p, x)[f] = p[f]
         /\ \A f \in DOMAIN x \ DOMAIN p : U!Over(p, x)[f] = x[f]
  BY DEF U!Over, U!IsRecord

\* and a row, which has its values.
LEMMA RulRowOf ==
  ASSUME NEW x, U!IsRecord(x)
  PROVE  /\ U!IsRecord(U!Row(x)) /\ DOMAIN U!Row(x) = DOMAIN x
         /\ \A f \in DOMAIN x : U!Row(x)[f] = U!Normal(f, x[f])
         /\ \A f : U!Lookup(x, f) \in U!Values
                   /\ U!Lookup(U!Row(x), f) = U!Normal(f, U!Lookup(x, f))
  <1>1. /\ DOMAIN U!Row(x) = DOMAIN x
        /\ \A f \in DOMAIN x : U!Row(x)[f] = U!Normal(f, x[f]) /\ x[f] \in U!Values
    BY DEF U!Row, U!IsRecord
  <1>2. \A f \in DOMAIN x : U!Normal(f, x[f]) \in U!Values
    BY <1>1, RulNormal
  <1>3. U!IsRecord(U!Row(x))
    BY <1>1, <1>2 DEF U!Row, U!IsRecord
  <1>4. \A f : U!Normal(f, U!Null) = U!Null /\ U!Null \in U!Values
    BY DEF U!Normal, U!HasNumber, U!Null, U!Values
  <1>5. \A f : U!Lookup(x, f) \in U!Values
               /\ U!Lookup(U!Row(x), f) = U!Normal(f, U!Lookup(x, f))
    BY <1>1, <1>4 DEF U!Lookup
  <1> QED
    BY <1>1, <1>3, <1>5

\* Keys that are stripped.
LEMMA RulWithout ==
  ASSUME NEW p, NEW G, U!IsRecord(p)
  PROVE  /\ U!IsRecord(U!Without(p, G)) /\ DOMAIN U!Without(p, G) = DOMAIN p \ G
         /\ \A f \in DOMAIN p \ G : U!Without(p, G)[f] = p[f]
  BY DEF U!Without, U!IsRecord

\* The keys of the alias are added, if they are of custom fields and not there.
LEMMA RulFlatten ==
  ASSUME NEW p, NEW n, U!IsRecord(p), U!IsRecord(n)
  PROVE  /\ U!IsRecord(U!Flatten(p, n))
         /\ DOMAIN U!Flatten(p, n) = DOMAIN p \cup (DOMAIN n \cap U!Custom \cap U!Fields)
         /\ \A f \in DOMAIN p : U!Flatten(p, n)[f] = p[f]
         /\ DOMAIN n \subseteq DOMAIN p => U!Flatten(p, n) = p
         /\ DOMAIN U!Flatten(p, n) \ DOMAIN p = {} => U!Flatten(p, n) = p
  <1> DEFINE nest == [f \in DOMAIN n \cap U!Custom \cap U!Fields |-> n[f]]
  <1>1. U!IsRecord(nest) /\ DOMAIN nest = DOMAIN n \cap U!Custom \cap U!Fields
    BY DEF U!IsRecord
  <1>2. U!Flatten(p, n) = U!Over(p, nest)
    BY DEF U!Flatten
  <1> HIDE DEF nest
  <1>3. DOMAIN nest \subseteq DOMAIN p => U!Over(p, nest) = p
    BY <1>1 DEF U!Over, U!IsRecord
  <1>4. /\ DOMAIN U!Over(p, nest) = DOMAIN p \cup DOMAIN nest
        /\ U!IsRecord(U!Over(p, nest))
        /\ \A f \in DOMAIN p : U!Over(p, nest)[f] = p[f]
    BY <1>1, RulOver
  <1>5. DOMAIN n \subseteq DOMAIN p => U!Flatten(p, n) = p
    BY <1>1, <1>2, <1>3
  <1>6. DOMAIN U!Flatten(p, n) \ DOMAIN p = {} => U!Flatten(p, n) = p
    BY <1>2, <1>3, <1>4
  <1> QED
    BY <1>1, <1>2, <1>4, <1>5, <1>6

\* A declared default is a value.
LEMMA RulDefaults ==
  ASSUME U!RulesAssumption, NEW p, NEW G, U!IsRecord(p), G \subseteq DOMAIN FieldDefs
  PROVE  /\ U!IsRecord(U!Defaults(p, G))
         /\ DOMAIN p \subseteq DOMAIN U!Defaults(p, G)
         /\ DOMAIN U!Defaults(p, G) \subseteq
              DOMAIN p \cup {f \in G : ~FieldDefs[f].computed}
  <1>1. \A f \in DOMAIN FieldDefs : FieldDefs[f].default \in U!Values
    BY DEF U!RulesAssumption, U!FieldShape
  <1> QED
    BY <1>1 DEF U!Defaults, U!IsRecord

\* The fields of an edition are declared; computed ones are decimal columns.
LEMMA RulFields ==
  ASSUME U!RulesAssumption, RulTableInv
  PROVE  /\ U!Fields \subseteq DOMAIN FieldDefs /\ "" \notin DOMAIN FieldDefs
         /\ U!Computed = {f \in U!Fields : FieldDefs[f].computed}
         /\ U!Computed \subseteq DOMAIN table
         /\ \A f \in U!Computed : FieldDefs[f].type = "decimal" /\ f \notin U!Custom
         /\ StateField \in U!Fields \cap DOMAIN table /\ StateField \notin U!Computed
         /\ StateField \notin U!Custom
         /\ \A u \in rules : U!Touched(u) \subseteq U!Fields
  <1>1. U!Fields \subseteq DOMAIN FieldDefs
    BY DEF U!RulesAssumption, RulTableInv, U!Fields
  <1>2. \A f \in U!Computed : FieldDefs[f].type = "decimal" /\ f \notin U!Custom
    BY <1>1 DEF U!RulesAssumption, U!Computed, U!DefsValid, U!ValidCustom
  <1>3. U!Computed \subseteq DOMAIN table
    BY <1>1, <1>2 DEF RulTableInv, U!Columns, U!Computed, U!Custom, U!Fields
  <1>4. /\ StateField \in U!Fields \cap DOMAIN table /\ StateField \notin U!Computed
        /\ StateField \notin U!Custom
    <2>1. edition = 1 \/ edition = 2
      BY DEF RulTableInv
    <2>2. StateField \in U!Columns(edition) /\ ~FieldDefs[StateField].computed
      BY <2>1 DEF U!RulesAssumption
    <2> QED
      BY <1>1, <2>2 DEF RulTableInv, U!Columns, U!Computed, U!Custom, U!Fields
  <1>5. \A u \in rules : U!Touched(u) \subseteq U!Fields
    BY DEF RulTableInv, U!ValidRule, U!RulesAssumption, U!Fields
  <1> QED
    BY <1>1, <1>2, <1>3, <1>4, <1>5 DEF U!Computed, U!RulesAssumption

\* What the table takes is a row of it.
LEMMA RulTaken ==
  ASSUME U!RulesAssumption, RulTableInv, NEW x, U!IsRecord(x),
         DOMAIN table \subseteq DOMAIN x, DOMAIN x \subseteq DOMAIN FieldDefs,
         edition = 1 => DOMAIN x \subseteq FieldEditions[1], U!Takes(U!Row(x))
  PROVE  RulRow(U!Row(x))
  <1>1. /\ U!IsRecord(U!Row(x)) /\ DOMAIN U!Row(x) = DOMAIN x
        /\ \A f \in DOMAIN x : U!Row(x)[f] = U!Normal(f, x[f])
    BY RulRowOf
  <1>2. ASSUME NEW f \in DOMAIN x \ U!Custom
        PROVE  RulRight(f, U!Row(x)[f])
    <2>1. x[f] \in U!Values
      BY DEF U!IsRecord
    <2>2. /\ U!Row(x)[f] # U!Bad
          /\ FieldDefs[f].type = "decimal" => U!Row(x)[f] # U!Blank
          /\ FieldDefs[f].type = "enum" =>
               U!Row(x)[f] \in FieldDefs[f].options \cup {U!Null}
      BY <1>1 DEF U!Takes
    <2>3. U!Normal(f, U!Bad) = U!Bad /\ U!Normal(f, U!Blank) = U!Blank
      BY DEF U!Normal, U!HasNumber, U!Bad, U!Blank
    <2>4. x[f] # U!Bad /\ (FieldDefs[f].type = "decimal" => x[f] # U!Blank)
      BY <1>1, <2>2, <2>3
    <2> QED
      BY <1>1, <2>1, <2>2, <2>4, RulNormalRight
  <1>3. \A f \in DOMAIN table : table[f] => U!Row(x)[f] # U!Null
    BY <1>1 DEF U!Takes, U!Lookup
  <1> QED
    BY <1>1, <1>2, <1>3 DEF RulRow

\* Computed values do not change what is a row, nor its other fields.
LEMMA RulComputed ==
  ASSUME U!RulesAssumption, RulTableInv, NEW x, RulRow(x),
         NEW v \in [U!Computed -> 0..99 \cup {U!Null}]
  PROVE  /\ RulRow(U!Over(v, x)) /\ DOMAIN U!Over(v, x) = DOMAIN x
         /\ \A f \in U!Computed : U!Over(v, x)[f] = v[f]
         /\ \A f : f \notin U!Computed => U!Lookup(U!Over(v, x), f) = U!Lookup(x, f)
         /\ \A f \in DOMAIN x \ U!Computed : U!Over(v, x)[f] = x[f]
  <1>1. U!IsRecord(v) /\ DOMAIN v = U!Computed
    <2>1. 0..99 \cup {U!Null} \subseteq U!Values
      BY DEF U!Values, U!Null
    <2> QED
      BY <2>1 DEF U!IsRecord
  <1>2. U!IsRecord(x) /\ U!Computed \subseteq DOMAIN x
    BY RulFields DEF RulRow
  <1>3. /\ U!IsRecord(U!Over(v, x)) /\ DOMAIN U!Over(v, x) = DOMAIN x
        /\ \A f \in U!Computed : U!Over(v, x)[f] = v[f]
        /\ \A f \in DOMAIN x \ U!Computed : U!Over(v, x)[f] = x[f]
    <2>1. /\ U!IsRecord(U!Over(v, x)) /\ DOMAIN U!Over(v, x) = DOMAIN v \cup DOMAIN x
          /\ \A f \in DOMAIN v : U!Over(v, x)[f] = v[f]
          /\ \A f \in DOMAIN x \ DOMAIN v : U!Over(v, x)[f] = x[f]
      BY <1>1, <1>2, RulOver
    <2> QED
      BY <1>1, <1>2, <2>1
  <1>4. \A f \in U!Computed : RulRight(f, v[f])
    <2>1. ASSUME NEW f \in U!Computed
          PROVE  RulRight(f, v[f])
      <3>1. v[f] \in 0..99 \cup {U!Null} /\ FieldDefs[f].type = "decimal"
        BY RulFields
      <3> QED
        BY <3>1 DEF RulRight, U!IsString, U!Bad, U!Null, U!Blank
    <2> QED
      BY <2>1
  <1>5. \A f \in DOMAIN table : table[f] => U!Over(v, x)[f] # U!Null
    BY <1>2, <1>3 DEF RulTableInv, RulRow, U!Computed
  <1>6. \A f \in DOMAIN x \ U!Custom : RulRight(f, U!Over(v, x)[f])
    BY <1>3, <1>4 DEF RulRow
  <1>7. RulRow(U!Over(v, x))
    BY <1>3, <1>5, <1>6 DEF RulRow
  <1>8. \A f : f \notin U!Computed => U!Lookup(U!Over(v, x), f) = U!Lookup(x, f)
    BY <1>3 DEF U!Lookup
  <1> QED
    BY <1>3, <1>7, <1>8

\* A formula gives a number, and the same one after computing.
LEMMA RulFormula ==
  ASSUME U!RulesAssumption, RulTableInv, NEW x, RulRow(x), NEW z, U!IsRecord(z)
  PROVE  /\ U!Computing(x, z) = U!Over([f \in U!Computed |-> U!Formula(f, z)], x)
         /\ [f \in U!Computed |-> U!Formula(f, z)] \in [U!Computed -> 0..99 \cup {U!Null}]
         /\ \A f \in U!Computed : U!Formula(f, z) \in 0..99
         /\ \A f \in U!Computed : U!Formula(f, U!Computing(x, x)) = U!Formula(f, x)
  <1>1. \A f : U!Lookup(z, f) \in U!Values
    BY DEF U!Lookup, U!IsRecord, U!Values, U!Null
  <1>2. \A f \in U!Computed : U!Formula(f, z) \in 0..99
    BY <1>1 DEF U!Formula, U!HasNumber, U!Number, U!Values, U!Null
  <1>3. U!Computing(x, x) = U!Over([f \in U!Computed |-> U!Formula(f, x)], x)
    BY DEF U!Computing
  <1>4. [f \in U!Computed |-> U!Formula(f, x)] \in [U!Computed -> 0..99 \cup {U!Null}]
    <2>1. \A f : U!Lookup(x, f) \in U!Values
      BY DEF U!Lookup, U!IsRecord, U!Values, U!Null, RulRow
    <2>2. \A f \in U!Computed : U!Formula(f, x) \in 0..99
      BY <2>1 DEF U!Formula, U!HasNumber, U!Number, U!Values, U!Null
    <2> QED
      BY <2>2
  <1>5. \A f \in U!Computed : FieldDefs[f].formula \notin U!Computed
    BY RulFields DEF U!RulesAssumption
  <1>6. \A f : f \notin U!Computed => U!Lookup(U!Computing(x, x), f) = U!Lookup(x, f)
    BY <1>3, <1>4, RulComputed
  <1>7. \A f \in U!Computed : U!Formula(f, U!Computing(x, x)) = U!Formula(f, x)
    BY <1>5, <1>6 DEF U!Formula
  <1> QED
    BY <1>2, <1>7 DEF U!Computing

-----------------------------------------------------------------------------
\* A value that its checks have seen is right, but for quoted decimals.
LEMMA RulSeen ==
  ASSUME U!RulesAssumption, RulTableInv, NEW p, U!IsRecord(p), NEW partial \in BOOLEAN,
         ~U!RecordErrors(p, partial),
         NEW f \in (DOMAIN p \cap U!Fields) \ (U!Computed \cup U!Quoted(p))
  PROVE  U!ValueRight(f, p[f])
  <1>1. p[f] \in Int /\ p[f] >= -3 /\ p[f] <= 199
    BY DEF U!IsRecord, U!Values, U!Null
  <1>2. FieldDefs[f] \in U!FieldShape /\ ~FieldDefs[f].computed
    BY RulFields DEF U!RulesAssumption
  <1>3. p[f] = U!Null \/ (~U!TypeError(f, p[f]) /\ ~U!ValueErrors(f, p[f]))
    <2>1. U!Lookup(p, f) = p[f] /\ f \in U!Fields
      BY DEF U!Lookup
    <2> QED
      BY <1>2, <2>1 DEF U!RecordErrors
  <1>4. ~(FieldDefs[f].type = "decimal" /\ U!IsString(p[f]))
    BY DEF U!Quoted
  <1>5. FieldDefs[f].type \in {"text", "enum", "decimal"} /\ FieldDefs[f].min \in Int
    BY <1>2 DEF U!FieldShape
  <1>6. CASE FieldDefs[f].type = "text"
    BY <1>3, <1>6 DEF U!TypeError, U!ValueRight
  <1>7. CASE FieldDefs[f].type = "enum"
    BY <1>3, <1>7 DEF U!TypeError, U!ValueErrors, U!ValueRight
  <1>8. CASE FieldDefs[f].type = "decimal"
    BY <1>1, <1>3, <1>4, <1>5, <1>8 DEF U!TypeError, U!ValueErrors, U!ValueRight, U!HasNumber,
       U!Number, U!IsString, U!Blank
  <1> QED
    BY <1>5, <1>6, <1>7, <1>8

\* Where the record has what its checks have seen, a condition that holds has held.
LEMMA RulWhen ==
  ASSUME U!RulesAssumption, RulTableInv, NEW x, NEW q, U!IsRecord(x), U!IsRecord(q),
         \A f \in U!Fields \ U!Computed :
           U!Lookup(x, f) = U!Normal(f, U!Lookup(q, f))
  PROVE  /\ \A u \in U!Applying(x) : U!When(u.when, q)
         /\ \A f \in U!Fields :
              FieldDefs[f].required_when.field \in U!Fields \ U!Computed
              /\ U!UiWhen(FieldDefs[f].required_when, x)
                => U!UiWhen(FieldDefs[f].required_when, q)
  <1>1. \A f : U!Lookup(q, f) \in U!Values
    BY RulRowOf
  <1>2. ASSUME NEW u \in U!Applying(x)
        PROVE  U!When(u.when, q)
    <2>1. /\ u \in rules /\ U!Settled(u) /\ U!When(u.when, x) /\ U!RuleShape(u)
          /\ u.when.value \in U!Values
      BY DEF U!Applying, RulTableInv, U!RuleShape
    <2>2. CASE u.when.test = "always"
      BY <2>2 DEF U!When
    <2>3. CASE u.when.test # "always"
      <3>1. u.when.field \in U!Fields \ U!Computed
        BY <2>1, <2>3, RulFields DEF U!Touched, U!Settled, U!RuleShape
      <3>2. U!Lookup(x, u.when.field) = U!Normal(u.when.field, U!Lookup(q, u.when.field))
        BY <3>1
      <3> DEFINE g == u.when.field
                 w == U!Lookup(q, g)
      <3>3. /\ U!ValuesEqual(U!Normal(g, w), u.when.value) => U!ValuesEqual(w, u.when.value)
            /\ ~(U!IsString(u.when.value) /\ FieldDefs[g].type = "decimal")
               /\ U!ValuesEqual(w, u.when.value)
                 => U!ValuesEqual(U!Normal(g, w), u.when.value)
            /\ U!IsEmpty(U!Normal(g, w)) <=> U!IsEmpty(w)
        BY <1>1, <2>1, RulEqual, RulNormal
      <3> HIDE DEF g, w
      <3>4. /\ U!When(u.when, x) <=>
                 \/ u.when.test = "equals" /\ U!ValuesEqual(U!Normal(g, w), u.when.value)
                 \/ u.when.test = "not_equals" /\ ~U!ValuesEqual(U!Normal(g, w), u.when.value)
                 \/ u.when.test = "filled" /\ ~U!IsEmpty(U!Normal(g, w))
            /\ U!When(u.when, q) <=>
                 \/ u.when.test = "equals" /\ U!ValuesEqual(w, u.when.value)
                 \/ u.when.test = "not_equals" /\ ~U!ValuesEqual(w, u.when.value)
                 \/ u.when.test = "filled" /\ ~U!IsEmpty(w)
        BY <2>3, <3>2 DEF U!When, g, w
      <3>5. u.when.test = "not_equals" =>
              ~(U!IsString(u.when.value) /\ FieldDefs[g].type = "decimal")
        BY <2>1 DEF U!Settled, g
      <3> QED
        BY <2>1, <3>3, <3>4, <3>5
    <2> QED
      BY <2>2, <2>3
  <1>3. ASSUME NEW f \in U!Fields,
               FieldDefs[f].required_when.field \in U!Fields \ U!Computed,
               U!UiWhen(FieldDefs[f].required_when, x)
        PROVE  U!UiWhen(FieldDefs[f].required_when, q)
    <2> DEFINE w == FieldDefs[f].required_when
    <2>1. w.equals \in U!Values
      <3>1. FieldDefs[f] \in U!FieldShape
        BY RulFields DEF U!RulesAssumption
      <3> QED
        BY <3>1 DEF U!FieldShape
    <2>2. U!Lookup(x, w.field) = U!Normal(w.field, U!Lookup(q, w.field))
      BY <1>3
    <2>3. w # U!Never /\ U!ValuesEqual(U!Lookup(x, w.field), w.equals)
      BY <1>3 DEF U!UiWhen
    <2> HIDE DEF w
    <2>4. U!ValuesEqual(U!Lookup(q, w.field), w.equals)
      BY <1>1, <2>1, <2>2, <2>3, RulEqual
    <2> QED
      BY <2>3, <2>4 DEF U!UiWhen, w
  <1> QED
    BY <1>2, <1>3

\* What two values compare as does not depend on how they are written.
LEMMA RulOrdered ==
  ASSUME NEW by_op \in U!Comparisons, NEW v \in U!Values, NEW w \in U!Values
  PROVE  U!Compares(by_op, v, w) <=>
           U!HasNumber(v) /\ U!HasNumber(w) /\ U!Ordered(by_op, U!Number(v), U!Number(w))
  <1>1. v \in Int /\ w \in Int
    BY DEF U!Values, U!Null
  <1>2. U!Number(v) \in Int /\ U!Number(w) \in Int
    BY <1>1 DEF U!Number
  <1> QED
    BY <1>2 DEF U!Compares, U!Ordered, U!Greater, U!Same, U!Comparisons

\* A record whose checks have passed satisfies its rules, once it is stored.
LEMMA RulLaw ==
  ASSUME U!RulesAssumption, RulTableInv, NEW x, NEW q, U!IsRecord(x), U!IsRecord(q),
         NEW partial \in BOOLEAN, ~U!EntityErrors(q, partial), NEW lax,
         \A f \in U!Fields \ U!Computed :
           U!Lookup(x, f) = U!Normal(f, U!Lookup(q, f)),
         \A f \in U!Fields \ U!Computed : partial /\ f \notin DOMAIN q => f \in lax
  PROVE  U!Lawful(x, lax)
  <1>1. \A f : U!Lookup(q, f) \in U!Values /\ U!Lookup(x, f) \in U!Values
    BY RulRowOf
  <1>2. \A f \in U!Fields \ U!Computed :
          /\ U!IsEmpty(U!Lookup(x, f)) <=> U!IsEmpty(U!Lookup(q, f))
          /\ U!HasNumber(U!Lookup(x, f)) <=> U!HasNumber(U!Lookup(q, f))
          /\ U!HasNumber(U!Lookup(q, f)) =>
               U!Number(U!Lookup(x, f)) = U!Number(U!Lookup(q, f))
    BY <1>1, RulNormal
  <1>3. \A f : U!Filled(x, f) <=> ~U!IsEmpty(U!Lookup(x, f))
    BY DEF U!Filled, U!IsEmpty, U!Lookup
  <1>4. \A f : U!Filled(x, f) => U!Lookup(x, f) = x[f]
    BY DEF U!Filled, U!Lookup
  <1>5. \A f \in U!Fields \ (U!Computed \cup lax) :
          ~U!Missing(q, f, partial) => U!Filled(x, f)
    BY <1>2, <1>3 DEF U!Missing
  <1>6. ASSUME NEW u \in U!Applying(x)
        PROVE  /\ ~U!CompareError(u.compare, q) /\ ~U!NamedError(u.named, q)
               /\ \A f \in u.require : ~U!Missing(q, f, partial)
               /\ u \in rules /\ U!Touched(u) \subseteq U!Fields \ U!Computed
               /\ U!RuleShape(u)
    <2>1. U!When(u.when, q)
      BY RulWhen
    <2>2. u \in rules /\ U!Settled(u)
      BY DEF U!Applying
    <2>3. U!Touched(u) \subseteq U!Fields
      BY <2>2, RulFields
    <2> QED
      BY <2>1, <2>2, <2>3 DEF U!EntityErrors, U!Settled, RulTableInv
  <1>7. ASSUME NEW f \in U!Demanded(x) \ lax
        PROVE  U!Filled(x, f)
    <2>1. CASE /\ f \in U!Fields \ U!Computed
               /\ FieldDefs[f].required_when.field \in U!Fields \ U!Computed
               /\ U!UiWhen(FieldDefs[f].required_when, x)
      <3>1. U!UiWhen(FieldDefs[f].required_when, q)
        BY <2>1, RulWhen
      <3>2. ~FieldDefs[f].computed
        BY <2>1 DEF U!Computed
      <3>3. ~U!Missing(q, f, partial)
        BY <2>1, <3>1, <3>2 DEF U!EntityErrors, U!FieldRuleErrors
      <3> QED
        BY <1>5, <2>1, <3>3
    <2>2. CASE \E u \in U!Applying(x) :
                 f \in u.require \cup (IF u.named.op = "required" THEN {u.named.field} ELSE {})
      <3>1. PICK u \in U!Applying(x) :
              f \in u.require \/ (u.named.op = "required" /\ f = u.named.field)
        BY <2>2
      <3>2. CASE f \in u.require
        BY <1>5, <1>6, <3>2 DEF U!Touched
      <3>3. CASE u.named.op = "required" /\ f = u.named.field
        <4>1. f \in U!Fields \ U!Computed
          BY <1>6, <3>3 DEF U!Touched, U!RuleShape
        <4>2. ~U!IsEmpty(U!Lookup(q, f))
          BY <1>6, <3>3 DEF U!NamedError
        <4> QED
          BY <1>2, <1>3, <4>1, <4>2
      <3> QED
        BY <3>1, <3>2, <3>3
    <2> QED
      BY <2>1, <2>2 DEF U!Demanded
  <1>8. ASSUME NEW u \in U!Applying(x)
        PROVE  U!Compared(u.compare, x)
    <2> DEFINE f == u.compare.field
               g == u.compare.other
    <2>1. u.compare.op \in U!Comparisons \cup {"equals", "none"}
      BY <1>6 DEF U!RuleShape
    <2>2. u.compare.op # "none" => {f, g} \subseteq U!Fields \ U!Computed
      BY <1>6 DEF U!RuleShape, U!Touched
    <2>3. ~U!CompareError(u.compare, q)
      BY <1>6
    <2>4. u.compare.op \in U!Comparisons =>
            \/ U!IsEmpty(U!Lookup(q, f)) \/ U!IsEmpty(U!Lookup(q, g))
            \/ U!Compares(u.compare.op, U!Lookup(q, f), U!Lookup(q, g))
      BY <2>3 DEF U!CompareError
    <2>5. u.compare.op = "equals" =>
            U!IsEmpty(U!Lookup(q, f)) \/ U!ValuesEqual(U!Lookup(q, f), U!Lookup(q, g))
      BY <2>3 DEF U!CompareError, U!Comparisons
    <2> HIDE DEF f, g
    <2>6. ASSUME u.compare.op \in U!Comparisons, U!Filled(x, f), U!Filled(x, g)
          PROVE  U!Ordered(u.compare.op, U!Number(x[f]), U!Number(x[g]))
      <3>1. {f, g} \subseteq U!Fields \ U!Computed
        BY <2>2, <2>6 DEF U!Comparisons
      <3>2. U!Compares(u.compare.op, U!Lookup(q, f), U!Lookup(q, g))
        BY <1>2, <1>3, <2>4, <2>6, <3>1
      <3>3. /\ U!HasNumber(U!Lookup(q, f)) /\ U!HasNumber(U!Lookup(q, g))
            /\ U!Ordered(u.compare.op, U!Number(U!Lookup(q, f)), U!Number(U!Lookup(q, g)))
        BY <1>1, <2>6, <3>2, RulOrdered
      <3> QED
        BY <1>2, <1>4, <2>6, <3>1, <3>3
    <2>7. ASSUME u.compare.op = "equals", U!Filled(x, f)
          PROVE  U!Filled(x, g) /\ U!Number(x[f]) = U!Number(x[g])
      <3>1. {f, g} \subseteq U!Fields \ U!Computed
        BY <2>2, <2>7
      <3> DEFINE v == U!Lookup(q, f)
                 w == U!Lookup(q, g)
      <3>2. U!ValuesEqual(v, w) /\ ~U!IsEmpty(v) /\ v \in U!Values /\ w \in U!Values
        BY <1>1, <1>2, <1>3, <2>5, <2>7, <3>1
      <3>3. /\ U!Lookup(x, f) = U!Normal(f, v) /\ U!Lookup(x, g) = U!Normal(g, w)
            /\ U!IsEmpty(U!Lookup(x, g)) <=> U!IsEmpty(w)
            /\ U!HasNumber(v) => U!Number(U!Lookup(x, f)) = U!Number(v)
            /\ U!HasNumber(w) => U!Number(U!Lookup(x, g)) = U!Number(w)
        BY <1>2, <3>1
      <3> HIDE DEF v, w
      <3>4. ~U!IsEmpty(w)
        BY <3>2 DEF U!ValuesEqual, U!IsEmpty, U!HasNumber, U!Null, U!Blank
      <3>5. U!Filled(x, g)
        BY <1>3, <3>3, <3>4
      <3>6. CASE U!HasNumber(v)
        <4>1. U!HasNumber(w) /\ U!Number(v) = U!Number(w)
          BY <3>2, <3>6 DEF U!ValuesEqual
        <4> QED
          BY <1>4, <2>7, <3>3, <3>5, <3>6, <4>1
      <3>7. CASE ~U!HasNumber(v)
        <4>1. v = w
          BY <3>2, <3>7 DEF U!ValuesEqual
        <4>2. U!Normal(f, v) = v /\ U!Normal(g, w) = w
          BY <3>7, <4>1 DEF U!Normal
        <4> QED
          BY <1>4, <2>7, <3>3, <3>5, <4>1, <4>2
      <3> QED
        BY <3>5, <3>6, <3>7
    <2> QED
      BY <2>6, <2>7 DEF U!Compared, f, g
  <1>9. ASSUME NEW u \in U!Applying(x)
        PROVE  U!Bounded(u.named, x)
    <2> DEFINE f == u.named.field
    <2>1. u.named.op # "none" => f \in U!Fields \ U!Computed
      BY <1>6 DEF U!RuleShape, U!Touched
    <2>2. ~U!NamedError(u.named, q) /\ u.named.value \in U!Values
      BY <1>6 DEF U!RuleShape
    <2>3. /\ u.named.op \in U!Comparisons /\ U!Lookup(q, f) # U!Null =>
               U!Compares(u.named.op, U!Lookup(q, f), u.named.value)
          /\ u.named.op = "range" /\ U!HasNumber(U!Lookup(q, f)) =>
               ~(U!Number(U!Lookup(q, f)) < u.named.value)
      BY <2>2 DEF U!NamedError
    <2> HIDE DEF f
    <2>4. ASSUME u.named.op \in U!Comparisons, U!Filled(x, f)
          PROVE  U!Ordered(u.named.op, U!Number(x[f]), U!Number(u.named.value))
      <3>1. f \in U!Fields \ U!Computed
        BY <2>1, <2>4 DEF U!Comparisons
      <3>2. U!Lookup(q, f) # U!Null
        BY <1>2, <1>3, <2>4, <3>1 DEF U!IsEmpty
      <3>3. /\ U!HasNumber(U!Lookup(q, f))
            /\ U!Ordered(u.named.op, U!Number(U!Lookup(q, f)), U!Number(u.named.value))
        BY <1>1, <2>2, <2>3, <2>4, <3>2, RulOrdered
      <3> QED
        BY <1>2, <1>4, <2>4, <3>1, <3>3
    <2>5. ASSUME u.named.op = "range", U!HasNumber(U!Lookup(x, f))
          PROVE  U!Number(x[f]) >= u.named.value
      <3>1. f \in U!Fields \ U!Computed
        BY <2>1, <2>5
      <3>2. U!HasNumber(U!Lookup(q, f)) /\ U!Number(U!Lookup(x, f)) = U!Number(U!Lookup(q, f))
        BY <1>2, <2>5, <3>1
      <3>3. U!Lookup(x, f) = x[f]
        BY <2>5 DEF U!Lookup, U!HasNumber, U!Null
      <3>4. U!Number(U!Lookup(q, f)) \in Int /\ u.named.value \in Int
        BY <1>1, <2>2 DEF U!Number, U!Values, U!Null
      <3> QED
        BY <2>3, <2>5, <3>2, <3>3, <3>4
    <2> QED
      BY <2>4, <2>5 DEF U!Bounded, f
  <1> QED
    BY <1>7, <1>8, <1>9 DEF U!Lawful

\* A request without blame passes the checks of its entity.
LEMMA RulPass ==
  ASSUME U!RulesAssumption, RulTableInv, NEW x, NEW q, U!IsRecord(x), U!IsRecord(q),
         NEW partial \in BOOLEAN, U!Clear, U!Lawful(x, {}),
         \A f \in U!Fields \ U!Computed :
           U!Lookup(x, f) = U!Lookup(q, f) /\ U!Proper(f, U!Lookup(x, f))
  PROVE  ~U!EntityErrors(q, partial)
  <1>1. \A f : U!Lookup(q, f) \in U!Values
    BY RulRowOf
  <1>2. \A f : U!Filled(x, f) <=> ~U!IsEmpty(U!Lookup(x, f))
    BY DEF U!Filled, U!IsEmpty, U!Lookup
  <1>3. \A f : U!Filled(x, f) => U!Lookup(x, f) = x[f]
    BY DEF U!Filled, U!Lookup
  <1>4. \A f \in U!Fields \ U!Computed :
          ~U!IsEmpty(U!Lookup(q, f)) => U!HasNumber(U!Lookup(q, f))
    <2>1. ASSUME NEW f \in U!Fields \ U!Computed, ~U!IsEmpty(U!Lookup(q, f))
          PROVE  U!HasNumber(U!Lookup(q, f))
      <3>1. U!Lookup(q, f) \in Int
        BY <1>1 DEF U!Values, U!Null
      <3>2. FieldDefs[f].options \subseteq 100..199
        BY RulFields DEF U!RulesAssumption, U!FieldShape
      <3> QED
        BY <2>1, <3>1, <3>2 DEF U!Proper, U!ValueRight, U!HasNumber, U!IsString, U!IsEmpty
    <2> QED
      BY <2>1
  <1>5. \A f \in U!Demanded(x) : U!Filled(x, f)
    BY DEF U!Lawful
  <1>6. ~U!FieldRuleErrors(q, partial)
    <2>1. ASSUME NEW f \in U!Fields, ~FieldDefs[f].computed,
                 U!UiWhen(FieldDefs[f].required_when, q)
          PROVE  ~U!Missing(q, f, partial)
      <3>1. FieldDefs[f].required_when.field \in U!Fields \ U!Computed
        BY <2>1 DEF U!Clear, U!UiWhen
      <3>2. U!UiWhen(FieldDefs[f].required_when, x)
        BY <2>1, <3>1 DEF U!UiWhen
      <3>3. f \in U!Fields \ U!Computed
        BY <2>1 DEF U!Computed
      <3>4. U!Filled(x, f)
        BY <1>5, <3>1, <3>2, <3>3 DEF U!Demanded
      <3> QED
        BY <1>2, <3>3, <3>4 DEF U!Missing
    <2> QED
      BY <2>1 DEF U!FieldRuleErrors
  <1>7. ASSUME NEW u \in rules, U!When(u.when, q)
        PROVE  /\ ~U!CompareError(u.compare, q) /\ ~U!NamedError(u.named, q)
               /\ \A f \in u.require : ~U!Missing(q, f, partial)
    <2>1. /\ U!Settled(u) /\ U!Touched(u) \subseteq U!Fields \ U!Computed /\ U!RuleShape(u)
          /\ u.named.op \in U!Comparisons => U!HasNumber(u.named.value)
          /\ u.named.op \in U!Comparisons \cup {"none", "required", "range"}
      BY RulFields DEF U!Clear, U!Settled, U!Unknown, RulTableInv
    <2>2. U!When(u.when, x)
      <3>1. CASE u.when.test = "always"
        BY <3>1 DEF U!When
      <3>2. CASE u.when.test # "always"
        <4>1. U!Lookup(x, u.when.field) = U!Lookup(q, u.when.field)
          BY <2>1, <3>2 DEF U!Touched, U!RuleShape
        <4> QED
          BY <1>7, <3>2, <4>1 DEF U!When
      <3> QED
        BY <3>1, <3>2
    <2>3. u \in U!Applying(x)
      BY <2>1, <2>2 DEF U!Applying
    <2>4. U!Compared(u.compare, x) /\ U!Bounded(u.named, x)
      BY <2>3 DEF U!Lawful
    <2>5. ASSUME NEW f \in u.require
          PROVE  ~U!Missing(q, f, partial)
      <3>1. f \in U!Demanded(x)
        BY <2>3 DEF U!Demanded
      <3>2. f \in U!Fields \ U!Computed
        BY <2>1 DEF U!Touched
      <3> QED
        BY <1>2, <1>5, <3>1, <3>2 DEF U!Missing
    <2>6. ~U!CompareError(u.compare, q)
      <3> DEFINE f == u.compare.field
                 g == u.compare.other
                 by_op == u.compare.op
      <3>1. by_op \in U!Comparisons \cup {"equals", "none"}
        BY <2>1 DEF U!RuleShape
      <3>2. by_op # "none" => {f, g} \subseteq U!Fields \ U!Computed
        BY <2>1 DEF U!RuleShape, U!Touched
      <3>3. /\ by_op \in U!Comparisons /\ U!Filled(x, f) /\ U!Filled(x, g) =>
                 U!Ordered(by_op, U!Number(x[f]), U!Number(x[g]))
            /\ by_op = "equals" /\ U!Filled(x, f) =>
                 U!Filled(x, g) /\ U!Number(x[f]) = U!Number(x[g])
        BY <2>4 DEF U!Compared
      <3>4. by_op = "equals" => FieldDefs[f].type = FieldDefs[g].type
        BY <2>1 DEF RulTableInv, U!ValidRule, U!Comparable
      <3>5. U!CompareError(u.compare, q) <=>
              \/ /\ by_op \in U!Comparisons
                 /\ ~U!IsEmpty(U!Lookup(q, f)) /\ ~U!IsEmpty(U!Lookup(q, g))
                 /\ ~U!Compares(by_op, U!Lookup(q, f), U!Lookup(q, g))
              \/ /\ by_op = "equals" /\ ~U!IsEmpty(U!Lookup(q, f))
                 /\ ~U!ValuesEqual(U!Lookup(q, f), U!Lookup(q, g))
        BY DEF U!CompareError
      <3> HIDE DEF f, g, by_op
      <3>6. ASSUME by_op \in U!Comparisons, ~U!IsEmpty(U!Lookup(q, f)),
                   ~U!IsEmpty(U!Lookup(q, g))
            PROVE  U!Compares(by_op, U!Lookup(q, f), U!Lookup(q, g))
        <4>1. {f, g} \subseteq U!Fields \ U!Computed
          BY <3>2, <3>6 DEF U!Comparisons
        <4>2. U!Filled(x, f) /\ U!Filled(x, g)
          BY <1>2, <3>6, <4>1
        <4>3. U!Ordered(by_op, U!Number(U!Lookup(q, f)), U!Number(U!Lookup(q, g)))
          BY <1>3, <3>3, <3>6, <4>1, <4>2
        <4> QED
          BY <1>1, <1>4, <3>6, <4>1, <4>3, RulOrdered
      <3>7. ASSUME by_op = "equals", ~U!IsEmpty(U!Lookup(q, f))
            PROVE  U!ValuesEqual(U!Lookup(q, f), U!Lookup(q, g))
        <4>1. {f, g} \subseteq U!Fields \ U!Computed
          BY <3>2, <3>7
        <4>2. U!Filled(x, f) /\ U!Filled(x, g)
          BY <1>2, <3>3, <3>7, <4>1
        <4>3. U!Number(U!Lookup(q, f)) = U!Number(U!Lookup(q, g))
          BY <1>3, <3>3, <3>7, <4>1, <4>2
        <4>4. /\ U!HasNumber(U!Lookup(q, f)) /\ U!HasNumber(U!Lookup(q, g))
              /\ U!Proper(f, U!Lookup(q, f)) /\ U!Proper(g, U!Lookup(q, g))
              /\ ~U!IsEmpty(U!Lookup(q, g))
          BY <1>2, <1>4, <4>1, <4>2
        <4>5. U!Lookup(q, f) \in Int /\ U!Lookup(q, g) \in Int
          BY <1>1 DEF U!Values, U!Null
        <4>6. U!Lookup(q, f) = U!Lookup(q, g) \/ U!IsString(U!Lookup(q, f))
          <5>1. CASE FieldDefs[f].type = "decimal"
            BY <3>4, <3>7, <4>3, <4>4, <4>5, <5>1 DEF U!Proper, U!IsString, U!Number
          <5>2. CASE FieldDefs[f].type # "decimal"
            <6>1. FieldDefs[f].options \subseteq 100..199
              BY <4>1, RulFields DEF U!RulesAssumption, U!FieldShape
            <6> QED
              BY <4>4, <4>5, <5>2, <6>1 DEF U!Proper, U!ValueRight, U!IsString, U!HasNumber,
                 U!Null
          <5> QED
            BY <5>1, <5>2
        <4> QED
          BY <4>3, <4>4, <4>6 DEF U!ValuesEqual
      <3> QED
        BY <3>5, <3>6, <3>7
    <2>7. ~U!NamedError(u.named, q)
      <3> DEFINE f == u.named.field
                 by_op == u.named.op
      <3>1. by_op # "none" => f \in U!Fields \ U!Computed
        BY <2>1 DEF U!RuleShape, U!Touched
      <3>2. /\ by_op \in U!Comparisons /\ U!Filled(x, f) =>
                 U!Ordered(by_op, U!Number(x[f]), U!Number(u.named.value))
            /\ by_op = "range" /\ U!HasNumber(U!Lookup(x, f)) => U!Number(x[f]) >= u.named.value
            /\ by_op \in U!Comparisons => U!HasNumber(u.named.value)
            /\ u.named.value \in U!Values
            /\ by_op \in U!Comparisons \cup {"none", "required", "range"}
        BY <2>1, <2>4 DEF U!Bounded, U!RuleShape
      <3>3. by_op = "required" => ~U!IsEmpty(U!Lookup(q, f))
        <4>1. ASSUME by_op = "required"
              PROVE  f \in U!Demanded(x)
          BY <2>3, <4>1 DEF U!Demanded
        <4> QED
          BY <1>2, <1>5, <3>1, <4>1
      <3> HIDE DEF f
      <3>4. ASSUME by_op \in U!Comparisons, U!Lookup(q, f) # U!Null
            PROVE  U!Compares(by_op, U!Lookup(q, f), u.named.value)
        <4>1. f \in U!Fields \ U!Computed
          BY <3>1, <3>4 DEF U!Comparisons
        <4>2. ~U!IsEmpty(U!Lookup(q, f))
          BY <3>4, <4>1 DEF U!Proper, U!IsEmpty
        <4>3. U!Ordered(by_op, U!Number(U!Lookup(q, f)), U!Number(u.named.value))
          BY <1>2, <1>3, <3>2, <3>4, <4>1, <4>2
        <4> QED
          BY <1>1, <1>4, <3>2, <3>4, <4>1, <4>2, <4>3, RulOrdered
      <3>5. ASSUME by_op = "range", U!HasNumber(U!Lookup(q, f))
            PROVE  ~(U!Number(U!Lookup(q, f)) < u.named.value)
        <4>1. U!Lookup(x, f) = U!Lookup(q, f)
          BY <3>1, <3>5
        <4>2. U!Lookup(x, f) = x[f]
          BY <3>5, <4>1 DEF U!Lookup, U!HasNumber, U!Null
        <4>3. U!Number(U!Lookup(q, f)) \in Int /\ u.named.value \in Int
          BY <1>1, <3>2 DEF U!Number, U!Values, U!Null
        <4> QED
          BY <3>2, <3>5, <4>1, <4>2, <4>3
      <3> QED
        BY <3>2, <3>3, <3>4, <3>5 DEF U!NamedError, f
    <2> QED
      BY <2>5, <2>6, <2>7
  <1> QED
    BY <1>6, <1>7 DEF U!EntityErrors

\* Nor does it fail the checks of its values and the table.
LEMMA RulProper ==
  ASSUME U!RulesAssumption, RulTableInv, NEW f \in DOMAIN FieldDefs, NEW v \in U!Values,
         U!Proper(f, v)
  PROVE  /\ U!Normal(f, v) = v
         /\ v # U!Null => ~U!TypeError(f, v) /\ ~U!ValueErrors(f, v)
         /\ v # U!Bad
         /\ FieldDefs[f].type = "decimal" => v # U!Blank
         /\ FieldDefs[f].type = "enum" => v \in FieldDefs[f].options \cup {U!Null}
  <1>1. v \in Int /\ v >= -3 /\ v <= 199
    BY DEF U!Values, U!Null
  <1>2. FieldDefs[f].options \subseteq 100..199 /\ FieldDefs[f].min \in Int
    BY DEF U!RulesAssumption, U!FieldShape
  <1>3. U!Normal(f, v) = v
    BY <1>1, RulNormal DEF U!Proper, U!IsString
  <1>4. v # U!Null => ~U!TypeError(f, v)
    BY <1>1, <1>2 DEF U!Proper, U!ValueRight, U!TypeError, U!IsString, U!HasNumber
  <1>5. v # U!Null => ~U!ValueErrors(f, v)
    BY <1>1, <1>2 DEF U!Proper, U!ValueRight, U!ValueErrors, U!IsString, U!HasNumber, U!Number,
       U!Null, U!Blank
  <1>6. /\ v # U!Bad
        /\ FieldDefs[f].type = "decimal" => v # U!Blank
        /\ FieldDefs[f].type = "enum" => v \in FieldDefs[f].options \cup {U!Null}
    BY <1>1, <1>2 DEF U!Proper, U!ValueRight, U!IsString, U!HasNumber, U!Null, U!Bad, U!Blank
  <1> QED
    BY <1>3, <1>4, <1>5, <1>6

-----------------------------------------------------------------------------
\* A value that is stored as such is not changed by storing it once more.
LEMMA RulAgain ==
  ASSUME U!RulesAssumption, NEW f, NEW v \in U!Values, f \in U!Custom \/ RulRight(f, v)
  PROVE  U!Normal(f, v) = v
  <1>1. v \in Int
    BY DEF U!Values, U!Null
  <1> QED
    BY <1>1 DEF U!Normal, RulRight, U!IsString, U!Number

\* What an INSERT stores.
LEMMA RulInsert ==
  ASSUME U!RulesAssumption, RulTableInv, NEW p, U!IsRecord(p)
  PROVE  /\ U!IsRecord(U!Insert(p)) /\ DOMAIN U!Insert(p) = (DOMAIN p \cap U!Fields) \cup DOMAIN table
         /\ \A f \in DOMAIN p \cap U!Fields : U!Insert(p)[f] = U!Normal(f, p[f])
         /\ \A f \in DOMAIN table \ (DOMAIN p \cap U!Fields) : U!Insert(p)[f] = U!Null
         /\ \A f \in U!Fields : U!Lookup(U!Insert(p), f) = U!Normal(f, U!Lookup(p, f))
         /\ U!Takes(U!Insert(p)) => RulRow(U!Insert(p))
  <1> DEFINE given == [f \in DOMAIN p \cap U!Fields |-> p[f]]
             none == [f \in DOMAIN table |-> U!Null]
             q == U!Over(given, none)
  <1>1. U!IsRecord(given) /\ U!IsRecord(none)
    BY DEF U!IsRecord, U!Values, U!Null
  <1>2. /\ DOMAIN given = DOMAIN p \cap U!Fields /\ DOMAIN none = DOMAIN table
        /\ \A f \in DOMAIN p \cap U!Fields : given[f] = p[f]
        /\ \A f \in DOMAIN table : none[f] = U!Null
    OBVIOUS
  <1>3. U!Insert(p) = U!Row(q)
    BY DEF U!Insert
  <1> HIDE DEF given, none
  <1>4. /\ U!IsRecord(q) /\ DOMAIN q = (DOMAIN p \cap U!Fields) \cup DOMAIN table
        /\ \A f \in DOMAIN p \cap U!Fields : q[f] = p[f]
        /\ \A f \in DOMAIN table \ (DOMAIN p \cap U!Fields) : q[f] = U!Null
    <2>1. /\ U!IsRecord(q) /\ DOMAIN q = DOMAIN given \cup DOMAIN none
          /\ \A f \in DOMAIN given : q[f] = given[f]
          /\ \A f \in DOMAIN none \ DOMAIN given : q[f] = none[f]
      BY <1>1, RulOver
    <2> HIDE DEF q
    <2> QED
      BY <1>2, <2>1
  <1> HIDE DEF q
  <1>5. \A f : U!Normal(f, U!Null) = U!Null
    BY DEF U!Normal, U!HasNumber, U!Null
  <1>6. /\ U!IsRecord(U!Row(q)) /\ DOMAIN U!Row(q) = DOMAIN q
        /\ \A f \in DOMAIN q : U!Row(q)[f] = U!Normal(f, q[f])
        /\ \A f : U!Lookup(U!Row(q), f) = U!Normal(f, U!Lookup(q, f))
    BY <1>4, RulRowOf
  <1>7. \A f \in U!Fields : U!Lookup(q, f) = U!Lookup(p, f)
    BY <1>4 DEF U!Lookup
  <1>8. U!Takes(U!Row(q)) => RulRow(U!Row(q))
    <2>1. DOMAIN q \subseteq DOMAIN FieldDefs /\ (edition = 1 => DOMAIN q \subseteq FieldEditions[1])
      BY <1>4, RulFields DEF RulTableInv, U!Fields
    <2> QED
      BY <1>4, <2>1, RulTaken
  <1> QED
    BY <1>3, <1>4, <1>5, <1>6, <1>7, <1>8

\* What an UPDATE leaves.
LEMMA RulMerge ==
  ASSUME U!RulesAssumption, RulTableInv, RulRow(rec), NEW p, U!IsRecord(p),
         DOMAIN p \subseteq U!Fields
  PROVE  /\ U!IsRecord(U!Merge(rec, p)) /\ DOMAIN U!Merge(rec, p) = DOMAIN p \cup DOMAIN rec
         /\ \A f \in DOMAIN p : U!Merge(rec, p)[f] = U!Normal(f, p[f])
         /\ \A f \in DOMAIN rec \ DOMAIN p : U!Merge(rec, p)[f] = rec[f]
         /\ \A f : U!Lookup(U!Merge(rec, p), f) = U!Normal(f, U!Lookup(U!Over(p, rec), f))
         /\ U!IsRecord(U!Over(p, rec)) /\ DOMAIN U!Over(p, rec) = DOMAIN p \cup DOMAIN rec
         /\ U!Takes(U!Merge(rec, p)) => RulRow(U!Merge(rec, p))
  <1> DEFINE q == U!Over(p, rec)
  <1>1. U!Merge(rec, p) = U!Row(q)
    BY DEF U!Merge
  <1>2. U!IsRecord(rec)
    BY DEF RulRow
  <1>3. /\ U!IsRecord(q) /\ DOMAIN q = DOMAIN p \cup DOMAIN rec
        /\ \A f \in DOMAIN p : q[f] = p[f]
        /\ \A f \in DOMAIN rec \ DOMAIN p : q[f] = rec[f]
    BY <1>2, RulOver
  <1> HIDE DEF q
  <1>4. /\ U!IsRecord(U!Row(q)) /\ DOMAIN U!Row(q) = DOMAIN q
        /\ \A f \in DOMAIN q : U!Row(q)[f] = U!Normal(f, q[f])
        /\ \A f : U!Lookup(U!Row(q), f) = U!Normal(f, U!Lookup(q, f))
    BY <1>3, RulRowOf
  <1>5. \A f \in DOMAIN rec : U!Normal(f, rec[f]) = rec[f]
    BY RulAgain DEF RulRow, U!IsRecord
  <1>6. U!Takes(U!Row(q)) => RulRow(U!Row(q))
    <2>1. /\ DOMAIN q \subseteq DOMAIN FieldDefs /\ (edition = 1 => DOMAIN q \subseteq FieldEditions[1])
          /\ DOMAIN table \subseteq DOMAIN q
      BY <1>3, RulFields DEF RulRow, U!Fields
    <2> QED
      BY <1>3, <2>1, RulTaken
  <1>7. /\ U!IsRecord(U!Merge(rec, p)) /\ DOMAIN U!Merge(rec, p) = DOMAIN p \cup DOMAIN rec
        /\ \A f \in DOMAIN p : U!Merge(rec, p)[f] = U!Normal(f, p[f])
        /\ \A f \in DOMAIN rec \ DOMAIN p : U!Merge(rec, p)[f] = rec[f]
    BY <1>1, <1>3, <1>4, <1>5
  <1> QED
    BY <1>1, <1>3, <1>4, <1>6, <1>7 DEF q

\* The record of a request to create one.
LEMMA RulCreated ==
  ASSUME U!RulesAssumption, RulTableInv, NEW top, NEW nested, U!IsRecord(top), U!IsRecord(nested),
         NEW G, NEW H, G \subseteq DOMAIN FieldDefs, U!Computed \subseteq H
  PROVE  LET flat == U!Flatten(U!Without(top, H), nested)
             p == U!Over([f \in {StateField} |-> FirstState], U!Defaults(flat, G))
             pure == U!Over([f \in {StateField} |-> FirstState], U!Defaults(U!Without(top, H), G))
         IN  /\ U!IsRecord(p) /\ DOMAIN p \cap U!Computed = {}
             /\ U!IsRecord(pure) /\ DOMAIN pure \cap U!Computed = {}
             /\ StateField \in DOMAIN p \cap DOMAIN pure
  <1> DEFINE flat == U!Flatten(U!Without(top, H), nested)
             first == [f \in {StateField} |-> FirstState]
  <1>1. U!IsRecord(first) /\ DOMAIN first = {StateField}
    BY DEF U!IsRecord, U!RulesAssumption
  <1>2. U!IsRecord(U!Without(top, H)) /\ DOMAIN U!Without(top, H) \cap U!Computed = {}
    <2>1. U!IsRecord(U!Without(top, H)) /\ DOMAIN U!Without(top, H) = DOMAIN top \ H
      BY RulWithout
    <2> QED
      BY <2>1
  <1>3. U!IsRecord(flat) /\ DOMAIN flat \subseteq DOMAIN U!Without(top, H) \cup U!Custom
    <2>1. /\ U!IsRecord(flat)
          /\ DOMAIN flat = DOMAIN U!Without(top, H) \cup (DOMAIN nested \cap U!Custom \cap U!Fields)
      BY <1>2, RulFlatten
    <2> QED
      BY <2>1
  <1>4. DOMAIN flat \cap U!Computed = {}
    BY <1>2, <1>3, RulFields
  <1>5. \A f \in DOMAIN FieldDefs : ~FieldDefs[f].computed => f \notin U!Computed
    BY DEF U!Computed
  <1> HIDE DEF flat, first
  <1>6. U!IsRecord(U!Defaults(flat, G)) /\ DOMAIN U!Defaults(flat, G) \cap U!Computed = {}
    <2>1. /\ U!IsRecord(U!Defaults(flat, G))
          /\ DOMAIN U!Defaults(flat, G) \subseteq DOMAIN flat \cup {f \in G : ~FieldDefs[f].computed}
      BY <1>3, RulDefaults
    <2> QED
      BY <1>4, <1>5, <2>1
  <1>7. /\ U!IsRecord(U!Defaults(U!Without(top, H), G))
        /\ DOMAIN U!Defaults(U!Without(top, H), G) \cap U!Computed = {}
    <2>1. /\ U!IsRecord(U!Defaults(U!Without(top, H), G))
          /\ DOMAIN U!Defaults(U!Without(top, H), G) \subseteq
               DOMAIN U!Without(top, H) \cup {f \in G : ~FieldDefs[f].computed}
      BY <1>2, RulDefaults
    <2> QED
      BY <1>2, <1>5, <2>1
  <1>8. StateField \notin U!Computed
    BY RulFields
  <1>9. ASSUME NEW y, U!IsRecord(y), DOMAIN y \cap U!Computed = {}
        PROVE  /\ U!IsRecord(U!Over(first, y)) /\ DOMAIN U!Over(first, y) \cap U!Computed = {}
               /\ StateField \in DOMAIN U!Over(first, y)
    <2>1. U!IsRecord(U!Over(first, y)) /\ DOMAIN U!Over(first, y) = {StateField} \cup DOMAIN y
      BY <1>1, <1>9, RulOver
    <2> QED
      BY <1>8, <1>9, <2>1
  <1> QED
    BY <1>6, <1>7, <1>9 DEF flat, first

\* Whoever has no blame may create the record,
LEMMA RulMayCreate ==
  ASSUME U!RulesAssumption, RulTableInv, NEW p, U!IsRecord(p), DOMAIN p \cap U!Computed = {},
         U!Blameless(p, U!Insert(p))
  PROVE  ~U!RecordErrors(p, FALSE) /\ ~U!EntityErrors(p, FALSE) /\ U!Takes(U!Insert(p))
  <1> DEFINE x == U!Insert(p)
  <1>1. /\ U!IsRecord(x) /\ DOMAIN x = (DOMAIN p \cap U!Fields) \cup DOMAIN table
        /\ \A f \in DOMAIN p \cap U!Fields : x[f] = U!Normal(f, p[f])
        /\ \A f \in DOMAIN table \ (DOMAIN p \cap U!Fields) : x[f] = U!Null
        /\ \A f \in U!Fields : U!Lookup(x, f) = U!Normal(f, U!Lookup(p, f))
    BY RulInsert
  <1>2. /\ U!Clear /\ U!Lawful(x, {})
        /\ \A f \in DOMAIN p \cap U!Fields : U!Proper(f, p[f])
        /\ \A f \in U!Fields \ U!Computed :
             U!Proper(f, U!Lookup(x, f)) /\ (FieldDefs[f].required => U!Lookup(x, f) # U!Null)
    BY DEF U!Blameless
  <1> HIDE DEF x
  <1>3. \A f : U!Lookup(p, f) \in U!Values /\ U!Lookup(x, f) \in U!Values
    BY <1>1, RulRowOf
  <1>4. \A f \in U!Fields : U!Lookup(x, f) = U!Lookup(p, f)
    <2>1. ASSUME NEW f \in U!Fields
          PROVE  U!Lookup(x, f) = U!Lookup(p, f)
      <3>1. CASE f \in DOMAIN p
        <4>1. U!Lookup(p, f) = p[f] /\ f \in DOMAIN FieldDefs /\ U!Proper(f, p[f])
          BY <1>2, <3>1, RulFields DEF U!Lookup
        <4> QED
          BY <1>1, <1>3, <4>1, RulProper
      <3>2. CASE f \notin DOMAIN p
        BY <1>1, <3>2 DEF U!Lookup, U!Normal, U!HasNumber, U!Null
      <3> QED
        BY <3>1, <3>2
    <2> QED
      BY <2>1
  <1>5. ~U!EntityErrors(p, FALSE)
    BY <1>1, <1>2, <1>4, RulPass
  <1>6. ~U!RecordErrors(p, FALSE)
    <2>1. ASSUME NEW f \in U!Fields, ~FieldDefs[f].computed
          PROVE  /\ U!Lookup(p, f) = U!Null =>
                      ~FieldDefs[f].required /\ ~U!UiWhen(FieldDefs[f].required_when, p)
                 /\ U!Lookup(p, f) # U!Null =>
                      ~U!TypeError(f, U!Lookup(p, f)) /\ ~U!ValueErrors(f, U!Lookup(p, f))
      <3>1. f \in U!Fields \ U!Computed /\ f \in DOMAIN FieldDefs
        BY <2>1, RulFields
      <3>2. ASSUME U!UiWhen(FieldDefs[f].required_when, p)
            PROVE  U!Lookup(p, f) # U!Null
        <4>1. FieldDefs[f].required_when.field \in U!Fields \ U!Computed
          BY <1>2, <3>2 DEF U!Clear, U!UiWhen
        <4>2. f \in U!Demanded(x)
          BY <1>4, <3>1, <3>2, <4>1 DEF U!UiWhen, U!Demanded
        <4>3. U!Filled(x, f)
          BY <1>2, <4>2 DEF U!Lawful
        <4> QED
          BY <1>4, <4>3 DEF U!Filled, U!Lookup
      <3>3. U!Lookup(p, f) # U!Null =>
              ~U!TypeError(f, U!Lookup(p, f)) /\ ~U!ValueErrors(f, U!Lookup(p, f))
        BY <1>2, <1>3, <1>4, <3>1, RulProper
      <3>4. FieldDefs[f].required => U!Lookup(p, f) # U!Null
        BY <1>2, <1>4, <3>1
      <3> QED
        BY <3>2, <3>3, <3>4
    <2> QED
      BY <2>1 DEF U!RecordErrors
  <1>7. U!Takes(x)
    <2>1. ASSUME NEW f \in DOMAIN table, table[f]
          PROVE  U!Lookup(x, f) # U!Null
      <3>1. f \in U!Fields \ U!Computed /\ FieldDefs[f].required
        BY <2>1 DEF RulTableInv, U!Fields, U!Computed
      <3> QED
        BY <1>2, <3>1
    <2>2. ASSUME NEW f \in DOMAIN x \ U!Custom
          PROVE  /\ x[f] # U!Bad
                 /\ FieldDefs[f].type = "decimal" => x[f] # U!Blank
                 /\ FieldDefs[f].type = "enum" => x[f] \in FieldDefs[f].options \cup {U!Null}
      <3>1. CASE f \in DOMAIN p \cap U!Fields
        <4>1. f \in U!Fields \ U!Computed /\ f \in DOMAIN FieldDefs
          BY <3>1, RulFields
        <4>2. U!Lookup(x, f) = x[f]
          BY DEF U!Lookup
        <4> QED
          BY <1>2, <1>3, <4>1, <4>2, RulProper
      <3>2. CASE f \in DOMAIN table \ (DOMAIN p \cap U!Fields)
        BY <1>1, <3>2 DEF U!Null, U!Bad, U!Blank
      <3> QED
        BY <1>1, <3>1, <3>2
    <2> QED
      BY <2>1, <2>2 DEF U!Takes
  <1> QED
    BY <1>5, <1>6, <1>7 DEF x

\* and change it.
LEMMA RulMayChange ==
  ASSUME U!RulesAssumption, RulTableInv, RulRow(rec), NEW p, U!IsRecord(p),
         DOMAIN p \cap (U!Computed \cup U!Managed) = {}, U!Known(p),
         U!Blameless(p, U!Merge(rec, p)),
         \A f \in DOMAIN p : ~U!FieldReadonly(f, rec), rec[StateField] \notin LockStates
  PROVE  ~U!ReadonlyErrors(rec, p) /\ ~U!LockedErrors(p) /\ U!Checked(p)
  <1> DEFINE x == U!Merge(rec, p)
             q == U!Over(p, rec)
  <1>1. DOMAIN p \subseteq U!Fields
    BY DEF U!Known
  <1>2. /\ U!IsRecord(x) /\ DOMAIN x = DOMAIN p \cup DOMAIN rec
        /\ \A f \in DOMAIN p : x[f] = U!Normal(f, p[f])
        /\ \A f \in DOMAIN rec \ DOMAIN p : x[f] = rec[f]
        /\ U!IsRecord(q) /\ DOMAIN q = DOMAIN p \cup DOMAIN rec
    BY <1>1, RulMerge
  <1>3. /\ \A f \in DOMAIN p : q[f] = p[f]
        /\ \A f \in DOMAIN rec \ DOMAIN p : q[f] = rec[f]
    <2>1. U!IsRecord(rec)
      BY DEF RulRow
    <2> QED
      BY <2>1, RulOver
  <1>4. /\ U!Clear /\ U!Lawful(x, {})
        /\ \A f \in DOMAIN p : U!Proper(f, p[f])
        /\ \A f \in U!Fields \ U!Computed : U!Proper(f, U!Lookup(x, f))
    BY <1>1 DEF U!Blameless
  <1> HIDE DEF x, q
  <1>5. \A f \in DOMAIN p : p[f] \in U!Values /\ f \in DOMAIN FieldDefs
    BY <1>1, RulFields DEF U!IsRecord
  <1>6. \A f : U!Lookup(x, f) = U!Lookup(q, f)
    <2>1. \A f \in DOMAIN p : U!Normal(f, p[f]) = p[f]
      BY <1>4, <1>5, RulProper
    <2> QED
      BY <1>2, <1>3, <2>1 DEF U!Lookup
  <1>7. ~U!EntityErrors(q, TRUE)
    BY <1>2, <1>4, <1>6, RulPass
  <1>8. ~U!RecordErrors(p, TRUE)
    <2>1. ASSUME NEW f \in U!Fields, U!Lookup(p, f) # U!Null
          PROVE  ~U!TypeError(f, U!Lookup(p, f)) /\ ~U!ValueErrors(f, U!Lookup(p, f))
      <3>1. f \in DOMAIN p /\ U!Lookup(p, f) = p[f]
        BY <2>1 DEF U!Lookup
      <3> QED
        BY <1>4, <1>5, <2>1, <3>1, RulProper
    <2> QED
      BY <2>1 DEF U!RecordErrors
  <1> QED
    BY <1>7, <1>8 DEF U!ReadonlyErrors, U!LockedErrors, U!Checked, q

-----------------------------------------------------------------------------
\* The record is written: y is the row that is stored.
LEMMA RulStores ==
  ASSUME U!RulesAssumption, RulIInv, NEW y, RulRow(y), U!Live \/ ~patching.open,
         rec' = y, edition' = edition, table' = table, rules' = rules,
         forced' = {}, ~wronged',
         patching' = U!Idle \/ (patching' = patching /\ (patching.open => outrun')),
         \A f \in (DOMAIN y \cap U!Fields) \ (unchecked' \cup U!Computed) : U!ValueRight(f, y[f]),
         by' = "create" => U!Lawful(y, {})
                           /\ \A f \in U!Fields : FieldDefs[f].required => U!Lookup(y, f) # U!Null,
         by' \in {"update", "operation"} => U!Lawful(y, U!Custom \ DOMAIN y),
         by' \in {"create", "update"} => \A f \in U!Computed : y[f] = U!Formula(f, y)
  PROVE  RulIInv'
  <1> USE DEF RulIInv
  <1>1. /\ U!Fields' = U!Fields /\ U!Computed' = U!Computed /\ U!Managed' = U!Managed
        /\ U!Lawful(rec, {})' = U!Lawful(y, {})
        /\ U!Lawful(rec, U!Custom \ DOMAIN rec)' = U!Lawful(y, U!Custom \ DOMAIN y)
    BY DEF U!Fields, U!Computed, U!Managed, U!Lawful, U!Demanded, U!Applying, U!Settled
  <1>2. RulTableInv'
    BY DEF RulTableInv, U!Columns
  <1>3. U!Live'
    <2>1. StateField \in DOMAIN y
      BY RulFields DEF RulRow
    <2> QED
      BY <2>1 DEF U!Live, U!NoFields
  <1>4. RulRow(rec)'
    BY DEF RulRow
  <1>5. patching'.open \in BOOLEAN
    <2>1. U!Idle.open \in BOOLEAN
      BY DEF U!Idle
    <2>2. patching.open \in BOOLEAN
      BY DEF RulRowInv
    <2> QED
      BY <2>1, <2>2
  <1>6. RulRowInv'
    BY <1>3, <1>4, <1>5 DEF RulRowInv
  <1>7. RulPatchInv'
    <2>1. CASE patching' = U!Idle
      BY <2>1 DEF RulPatchInv, U!Idle, U!IsRecord, U!NoFields
    <2>2. CASE patching' = patching /\ (patching.open => outrun')
      <3>1. U!RecordErrors(patching.top, TRUE)' = U!RecordErrors(patching.top, TRUE)
        BY <1>1, <2>2 DEF U!RecordErrors
      <3>2. CASE patching.open
        BY <1>1, <2>2, <3>1, <3>2 DEF RulPatchInv
      <3>3. CASE ~patching.open
        BY <2>2, <3>3 DEF RulPatchInv
      <3> QED
        BY <3>2, <3>3 DEF RulRowInv
    <2> QED
      BY <2>1, <2>2
  <1>8. U!ValuesKept'
    BY <1>1 DEF U!ValuesKept, RulRow
  <1>9. U!RulesKept'
    BY <1>1 DEF U!RulesKept
  <1>10. U!ComputedKept'
    BY <1>1 DEF U!ComputedKept
  <1>11. U!NothingForced'
    BY DEF U!NothingForced
  <1> QED
    BY <1>2, <1>6, <1>7, <1>8, <1>9, <1>10, <1>11 DEF U!RulesHold

\* The record stays as it is.
LEMMA RulStays ==
  ASSUME U!RulesAssumption, RulIInv, UNCHANGED <<edition, table, rules, rec, by, unchecked>>,
         forced' = {}, ~wronged', patching'.open \in BOOLEAN, patching'.open => U!Live,
         RulPatchInv'
  PROVE  RulIInv'
  <1> USE DEF RulIInv
  <1>1. /\ U!Fields' = U!Fields /\ U!Computed' = U!Computed /\ U!Live' = U!Live
        /\ U!Lawful(rec, {})' = U!Lawful(rec, {})
        /\ U!Lawful(rec, U!Custom \ DOMAIN rec)' = U!Lawful(rec, U!Custom \ DOMAIN rec)
    BY DEF U!Fields, U!Computed, U!Lawful, U!Demanded, U!Applying, U!Settled, U!Live
  <1>2. RulTableInv'
    BY DEF RulTableInv, U!Columns
  <1>3. RulRowInv'
    BY <1>1 DEF RulRowInv, RulRow
  <1>4. U!ValuesKept' /\ U!RulesKept' /\ U!ComputedKept'
    BY <1>1 DEF U!ValuesKept, U!RulesKept, U!ComputedKept, U!RulesHold
  <1>5. U!NothingForced'
    BY DEF U!NothingForced
  <1> QED
    BY <1>2, <1>3, <1>4, <1>5 DEF U!RulesHold

\* Every step keeps the invariant.  It holds at first;
LEMMA RulInitStep == U!RulesAssumption /\ U!Init => RulIInv
  <1> SUFFICES ASSUME U!RulesAssumption, U!Init PROVE RulIInv
    OBVIOUS
  <1> USE DEF U!Init
  <1>1. ~U!Live /\ ~patching.open /\ by = "nobody"
    BY DEF U!Live, U!Idle
  <1>2. RulTableInv
    <2>1. \A u \in rules : U!RuleShape(u) /\ U!ValidRule(u)
      BY DEF U!RulesAssumption
    <2>2. table = [f \in U!Columns(1) |-> FieldDefs[f].required /\ ~FieldDefs[f].computed]
      BY DEF U!CreateTable
    <2>3. FieldEditions[1] \subseteq DOMAIN FieldDefs
      <3>1. 1 \in 1..2
        OBVIOUS
      <3> QED
        BY <3>1 DEF U!RulesAssumption
    <2>4. DOMAIN table = U!Columns(1) /\ U!Columns(1) \subseteq FieldEditions[1] \ U!Custom
      BY <2>2, <2>3 DEF U!Columns, U!Custom
    <2>5. \A f \in DOMAIN table : table[f] => FieldDefs[f].required /\ ~FieldDefs[f].computed
      BY <2>2
    <2> QED
      BY <2>1, <2>3, <2>4, <2>5 DEF RulTableInv
  <1>3. RulRowInv /\ RulPatchInv
    BY <1>1 DEF RulRowInv, RulPatchInv, U!Idle, U!NoFields, U!IsRecord
  <1>4. U!RulesHold
    BY <1>1 DEF U!RulesHold, U!ValuesKept, U!RulesKept, U!ComputedKept, U!NothingForced
  <1> QED
    BY <1>2, <1>3, <1>4 DEF RulIInv

\* a request creates the record,
LEMMA RulCreateStep ==
  ASSUME U!RulesAssumption, RulIInv, NEW top, NEW nested, U!IsRecord(top), U!IsRecord(nested),
         U!Create(top, nested)
  PROVE  RulIInv'
  <1> DEFINE given == U!Defaults(U!Flatten(U!Without(top, U!Computed \cup U!Managed), nested),
                                 U!Fields)
             p == U!Over([f \in {StateField} |-> FirstState], given)
             x == U!Insert(p)
  <1>1. RulTableInv /\ ~U!Live /\ ~patching.open /\ U!NothingForced
    BY DEF RulIInv, RulRowInv, U!Create, U!RulesHold
  <1>2. U!IsRecord(p) /\ DOMAIN p \cap U!Computed = {}
    BY <1>1, RulCreated, RulFields
  <1>3. /\ patching' = patching /\ outrun' = outrun /\ edition' = edition /\ table' = table
        /\ rules' = rules /\ forced' = forced
        /\ IF U!Moved(given) \/ U!RecordErrors(p, FALSE) \/ U!EntityErrors(p, FALSE)
              \/ ~U!Takes(x)
           THEN U!Refuse(~U!Moved(given) /\ U!Blameless(p, x))
           ELSE /\ U!Stored(U!Computing(x, x), "create")
                /\ unchecked' = U!Wrong(U!Quoted(p), x)
                /\ wronged' = wronged
    BY DEF U!Create, U!Quiet
  <1> HIDE DEF given, p
  <1>4. CASE U!Moved(given) \/ U!RecordErrors(p, FALSE) \/ U!EntityErrors(p, FALSE)
             \/ ~U!Takes(x)
    <2>1. U!Moved(given) \/ ~U!Blameless(p, x)
      BY <1>1, <1>2, <1>4, RulMayCreate
    <2>2. UNCHANGED <<rec, by, unchecked>> /\ ~wronged'
      BY <1>1, <1>3, <1>4, <2>1 DEF U!Refuse, U!NothingForced
    <2>3. RulPatchInv'
      BY <1>1, <1>3 DEF RulPatchInv, RulIInv
    <2>4. patching.open \in BOOLEAN /\ forced' = {}
      BY <1>1, <1>3 DEF RulIInv, RulRowInv, U!NothingForced
    <2> QED
      BY <1>1, <1>3, <2>2, <2>3, <2>4, RulStays
  <1>5. CASE ~(U!Moved(given) \/ U!RecordErrors(p, FALSE) \/ U!EntityErrors(p, FALSE)
               \/ ~U!Takes(x))
    <2> DEFINE y == U!Computing(x, x)
    <2>1. /\ U!IsRecord(x) /\ DOMAIN x = (DOMAIN p \cap U!Fields) \cup DOMAIN table
          /\ \A f \in DOMAIN p \cap U!Fields : x[f] = U!Normal(f, p[f])
          /\ \A f \in DOMAIN table \ (DOMAIN p \cap U!Fields) : x[f] = U!Null
          /\ \A f \in U!Fields : U!Lookup(x, f) = U!Normal(f, U!Lookup(p, f))
          /\ RulRow(x)
      BY <1>1, <1>2, <1>5, RulInsert
    <2> HIDE DEF x
    <2>2. /\ y = U!Over([f \in U!Computed |-> U!Formula(f, x)], x)
          /\ [f \in U!Computed |-> U!Formula(f, x)] \in [U!Computed -> 0..99 \cup {U!Null}]
          /\ \A f \in U!Computed : U!Formula(f, x) \in 0..99
          /\ \A f \in U!Computed : U!Formula(f, y) = U!Formula(f, x)
      BY <1>1, <2>1, RulFormula
    <2> HIDE DEF y
    <2>3. /\ RulRow(y) /\ DOMAIN y = DOMAIN x
          /\ \A f \in U!Computed : y[f] = U!Formula(f, x)
          /\ \A f : f \notin U!Computed => U!Lookup(y, f) = U!Lookup(x, f)
          /\ \A f \in DOMAIN x \ U!Computed : y[f] = x[f]
      BY <1>1, <2>1, <2>2, RulComputed
    <2>4. rec' = y /\ by' = "create" /\ unchecked' = U!Wrong(U!Quoted(p), x) /\ ~wronged' /\ forced' = {}
      BY <1>1, <1>3, <1>5 DEF U!Stored, U!NothingForced, y
    <2>5. ASSUME NEW f \in (DOMAIN y \cap U!Fields) \ (unchecked' \cup U!Computed)
          PROVE  U!ValueRight(f, y[f])
      <3>1. y[f] = x[f] /\ f \in DOMAIN x
        BY <2>3
      <3>2. CASE f \in DOMAIN p
        <4>1. CASE f \in U!Quoted(p)
          BY <2>4, <3>1, <4>1 DEF U!Wrong
        <4>2. CASE f \notin U!Quoted(p)
          <5>1. U!ValueRight(f, p[f]) /\ p[f] \in U!Values
            BY <1>1, <1>2, <1>5, <3>2, <4>2, RulSeen DEF U!IsRecord
          <5> QED
            BY <2>1, <3>1, <3>2, <5>1, RulNormal
        <4> QED
          BY <4>1, <4>2
      <3>3. CASE f \notin DOMAIN p
        BY <2>1, <3>1, <3>3 DEF U!ValueRight
      <3> QED
        BY <3>2, <3>3
    <2>6. U!Lawful(y, {})
      <3>1. \A f \in U!Fields \ U!Computed : U!Lookup(y, f) = U!Normal(f, U!Lookup(p, f))
        BY <2>1, <2>3
      <3>2. U!IsRecord(y) /\ ~U!EntityErrors(p, FALSE)
        BY <1>5, <2>3 DEF RulRow
      <3> QED
        BY <1>1, <1>2, <3>1, <3>2, RulLaw
    <2>7. ASSUME NEW f \in U!Fields, FieldDefs[f].required
          PROVE  U!Lookup(y, f) # U!Null
      <3>1. CASE f \in U!Computed
        <4>1. f \in DOMAIN y /\ y[f] \in 0..99
          BY <1>1, <2>2, <2>3, <3>1, RulFields DEF RulRow
        <4> QED
          BY <4>1 DEF U!Lookup, U!Null
      <3>2. CASE f \notin U!Computed
        <4>1. ~FieldDefs[f].computed
          BY <3>2 DEF U!Computed
        <4>2. U!Lookup(p, f) # U!Null
          BY <1>5, <2>7, <4>1 DEF U!RecordErrors
        <4>3. U!Lookup(p, f) \in U!Values
          BY <1>2, RulRowOf
        <4> QED
          BY <2>1, <2>3, <3>2, <4>2, <4>3, RulNormal
      <3> QED
        BY <3>1, <3>2
    <2>8. \A f \in U!Computed : y[f] = U!Formula(f, y)
      BY <2>2, <2>3
    <2> QED
      BY <1>1, <1>3, <2>3, <2>4, <2>5, <2>6, <2>7, <2>8, RulStores
  <1> QED
    BY <1>4, <1>5

\* or an operation;
LEMMA RulOperationCreateStep ==
  ASSUME U!RulesAssumption, RulIInv, NEW top, NEW nested, U!IsRecord(top), U!IsRecord(nested),
         U!OperationCreate(top, nested)
  PROVE  RulIInv'
  <1> DEFINE p == U!Over([f \in {StateField} |-> FirstState],
                         U!Defaults(U!Without(top, U!Computed), U!Columns(edition)))
             z == U!Flatten(p, nested)
             x == U!Insert(z)
             y == U!Over([f \in U!Computed |-> U!Null], x)
  <1>1. RulTableInv /\ ~U!Live /\ ~patching.open /\ U!NothingForced
    BY DEF RulIInv, RulRowInv, U!OperationCreate, U!RulesHold
  <1>2. U!IsRecord(p) /\ DOMAIN p \cap U!Computed = {}
    <2>1. U!Columns(edition) \subseteq DOMAIN FieldDefs
      BY <1>1 DEF RulTableInv
    <2> QED
      BY <1>1, <2>1, RulCreated
  <1>3. /\ patching' = patching /\ outrun' = outrun /\ edition' = edition /\ table' = table
        /\ rules' = rules /\ forced' = forced /\ wronged' = wronged
        /\ ~U!RecordErrors(p, FALSE) /\ ~U!EntityErrors(p, FALSE) /\ U!Takes(x)
        /\ rec' = y /\ by' = IF DOMAIN nested \subseteq DOMAIN p THEN "operation" ELSE "other"
        /\ unchecked' = U!Wrong(U!Quoted(p) \cup (DOMAIN nested \ DOMAIN p), x)
    BY DEF U!OperationCreate, U!Quiet, U!Stored
  <1> HIDE DEF p
  <1>4. /\ U!IsRecord(z) /\ DOMAIN z = DOMAIN p \cup (DOMAIN nested \cap U!Custom \cap U!Fields)
        /\ \A f \in DOMAIN p : z[f] = p[f]
        /\ DOMAIN nested \subseteq DOMAIN p => z = p
    BY <1>2, RulFlatten
  <1> HIDE DEF z
  <1>5. /\ U!IsRecord(x) /\ DOMAIN x = (DOMAIN z \cap U!Fields) \cup DOMAIN table
        /\ \A f \in DOMAIN z \cap U!Fields : x[f] = U!Normal(f, z[f])
        /\ \A f \in DOMAIN table \ (DOMAIN z \cap U!Fields) : x[f] = U!Null
        /\ \A f \in U!Fields : U!Lookup(x, f) = U!Normal(f, U!Lookup(z, f))
        /\ RulRow(x)
    BY <1>1, <1>3, <1>4, RulInsert
  <1> HIDE DEF x
  <1>6. /\ RulRow(y) /\ DOMAIN y = DOMAIN x
        /\ \A f : f \notin U!Computed => U!Lookup(y, f) = U!Lookup(x, f)
        /\ \A f \in DOMAIN x \ U!Computed : y[f] = x[f]
    <2>1. [f \in U!Computed |-> U!Null] \in [U!Computed -> 0..99 \cup {U!Null}]
      OBVIOUS
    <2> QED
      BY <1>1, <1>5, <2>1, RulComputed
  <1> HIDE DEF y
  <1>7. ASSUME NEW f \in (DOMAIN y \cap U!Fields) \ (unchecked' \cup U!Computed)
        PROVE  U!ValueRight(f, y[f])
    <2>1. y[f] = x[f] /\ f \in DOMAIN x
      BY <1>6
    <2>2. CASE f \in U!Quoted(p) \cup (DOMAIN nested \ DOMAIN p)
      BY <1>3, <2>1, <2>2 DEF U!Wrong
    <2>3. CASE f \in DOMAIN p \ U!Quoted(p)
      <3>1. U!ValueRight(f, p[f]) /\ p[f] \in U!Values
        BY <1>1, <1>2, <1>3, <2>3, RulSeen DEF U!IsRecord
      <3>2. x[f] = U!Normal(f, p[f])
        BY <1>4, <1>5, <2>3
      <3> QED
        BY <2>1, <3>1, <3>2, RulNormal
    <2>4. CASE f \notin DOMAIN p \cup DOMAIN nested
      BY <1>4, <1>5, <2>1, <2>4 DEF U!ValueRight
    <2> QED
      BY <2>2, <2>3, <2>4
  <1>8. ASSUME by' \in {"update", "operation"}
        PROVE  U!Lawful(y, U!Custom \ DOMAIN y)
    <2>1. z = p
      BY <1>3, <1>4, <1>8
    <2>2. \A f \in U!Fields \ U!Computed : U!Lookup(y, f) = U!Normal(f, U!Lookup(p, f))
      BY <1>5, <1>6, <2>1
    <2>3. U!IsRecord(y)
      BY <1>6 DEF RulRow
    <2> QED
      BY <1>1, <1>2, <1>3, <2>2, <2>3, RulLaw
  <1>9. by' \notin {"create", "update"} /\ forced' = {} /\ ~wronged' /\ rec' = y
    BY <1>1, <1>3 DEF U!NothingForced
  <1> QED
    BY <1>1, <1>3, <1>6, <1>7, <1>8, <1>9, RulStores

\* the checks of a PATCH;
LEMMA RulBeginPatchStep ==
  ASSUME U!RulesAssumption, RulIInv, NEW top, NEW nested, U!IsRecord(top), U!IsRecord(nested),
         U!BeginPatch(top, nested)
  PROVE  RulIInv'
  <1> DEFINE p == U!Without(top, U!Computed \cup U!Managed)
  <1>1. RulTableInv /\ U!Live /\ ~patching.open /\ U!NothingForced /\ RulRow(rec)
    BY DEF RulIInv, RulRowInv, U!BeginPatch, U!RulesHold
  <1>2. U!IsRecord(p) /\ DOMAIN p \cap (U!Computed \cup U!Managed) = {}
    <2>1. U!IsRecord(p) /\ DOMAIN p = DOMAIN top \ (U!Computed \cup U!Managed)
      BY RulWithout
    <2> QED
      BY <2>1
  <1>3. /\ outrun' = FALSE /\ edition' = edition /\ table' = table
        /\ rules' = rules /\ forced' = forced
        /\ IF U!ReadonlyErrors(rec, p) \/ U!LockedErrors(p) \/ StateField \in DOMAIN p
              \/ ~U!Checked(p)
           THEN /\ U!Refuse(/\ StateField \notin DOMAIN p /\ U!Known(p)
                            /\ U!Blameless(p, U!Merge(rec, p))
                            /\ \A f \in DOMAIN p : ~U!FieldReadonly(f, rec)
                            /\ rec[StateField] \notin LockStates)
                /\ patching' = patching
           ELSE /\ patching' = [top |-> p, nested |-> nested, open |-> TRUE]
                /\ UNCHANGED <<rec, by, unchecked, wronged>>
    BY DEF U!BeginPatch, U!Quiet
  <1> HIDE DEF p
  <1>4. CASE U!ReadonlyErrors(rec, p) \/ U!LockedErrors(p) \/ StateField \in DOMAIN p
             \/ ~U!Checked(p)
    <2>1. ~(/\ StateField \notin DOMAIN p /\ U!Known(p)
            /\ U!Blameless(p, U!Merge(rec, p))
            /\ \A f \in DOMAIN p : ~U!FieldReadonly(f, rec)
            /\ rec[StateField] \notin LockStates)
      BY <1>1, <1>2, <1>4, RulMayChange
    <2>2. UNCHANGED <<rec, by, unchecked, patching>> /\ ~wronged'
      BY <1>1, <1>3, <1>4, <2>1 DEF U!Refuse, U!NothingForced
    <2>3. RulPatchInv'
      BY <1>1, <2>2 DEF RulPatchInv, RulIInv
    <2>4. patching'.open \in BOOLEAN /\ ~patching'.open /\ forced' = {}
      BY <1>1, <1>3, <2>2 DEF RulIInv, RulRowInv, U!NothingForced
    <2> QED
      BY <1>1, <1>3, <2>2, <2>3, <2>4, RulStays
  <1>5. CASE ~(U!ReadonlyErrors(rec, p) \/ U!LockedErrors(p) \/ StateField \in DOMAIN p
               \/ ~U!Checked(p))
    <2>1. /\ patching' = [top |-> p, nested |-> nested, open |-> TRUE]
          /\ UNCHANGED <<rec, by, unchecked, wronged>>
      BY <1>3, <1>5
    <2>2. U!Computed' = U!Computed /\ U!Managed' = U!Managed /\ U!Fields' = U!Fields
      BY <1>3 DEF U!Computed, U!Managed, U!Fields
    <2>3. U!RecordErrors(patching.top, TRUE)' = U!RecordErrors(p, TRUE)
      BY <2>1, <2>2 DEF U!RecordErrors
    <2>4. U!EntityErrors(U!Over(patching.top, rec), TRUE)' = U!EntityErrors(U!Over(p, rec), TRUE)
      BY <1>3, <2>1, <2>2 DEF U!EntityErrors, U!FieldRuleErrors
    <2>5. /\ U!ReadonlyErrors(rec, patching.top)' = U!ReadonlyErrors(rec, p)
          /\ U!LockedErrors(patching.top)' = U!LockedErrors(p)
      BY <2>1, <2>2 DEF U!ReadonlyErrors, U!LockedErrors
    <2>6. RulPatchInv'
      BY <1>2, <1>5, <2>1, <2>2, <2>3, <2>4, <2>5 DEF RulPatchInv, U!Checked
    <2>7. forced' = {} /\ ~wronged'
      BY <1>1, <1>3, <2>1 DEF U!NothingForced
    <2> QED
      BY <1>1, <1>3, <2>1, <2>6, <2>7, RulStays
  <1> QED
    BY <1>4, <1>5

\* What a change leaves is right, if what it brings is.
LEMMA RulChanged ==
  ASSUME U!RulesAssumption, RulTableInv, RulRow(rec), U!Live, U!ValuesKept,
         NEW p, U!IsRecord(p), DOMAIN p \subseteq U!Fields, NEW W, NEW gone,
         unchecked' = (unchecked \ gone) \cup U!Wrong(W, U!Merge(rec, p)),
         \A f \in (DOMAIN p \cup gone) \ (W \cup U!Computed) :
           f \in DOMAIN p /\ U!ValueRight(f, p[f])
  PROVE  \A f \in (DOMAIN U!Merge(rec, p) \cap U!Fields) \ (unchecked' \cup U!Computed) :
           U!ValueRight(f, U!Merge(rec, p)[f])
  <1> DEFINE x == U!Merge(rec, p)
  <1>1. /\ DOMAIN x = DOMAIN p \cup DOMAIN rec
        /\ \A f \in DOMAIN p : x[f] = U!Normal(f, p[f])
        /\ \A f \in DOMAIN rec \ DOMAIN p : x[f] = rec[f]
    BY RulMerge
  <1> HIDE DEF x
  <1>2. ASSUME NEW f \in (DOMAIN x \cap U!Fields) \ (unchecked' \cup U!Computed)
        PROVE  U!ValueRight(f, x[f])
    <2>1. CASE f \in W
      BY <2>1 DEF U!Wrong, x
    <2>2. CASE f \notin W /\ f \in DOMAIN p \cup gone
      <3>1. f \in DOMAIN p /\ U!ValueRight(f, p[f]) /\ p[f] \in U!Values
        BY <2>2 DEF U!IsRecord
      <3> QED
        BY <1>1, <3>1, RulNormal
    <2>3. CASE f \notin DOMAIN p \cup gone
      BY <1>1, <2>3 DEF U!ValuesKept
    <2> QED
      BY <2>1, <2>2, <2>3
  <1> QED
    BY <1>2 DEF x

\* What a change leaves satisfies the rules, if they have been asked of all of it.
LEMMA RulChangedLaw ==
  ASSUME U!RulesAssumption, RulTableInv, RulRow(rec), NEW p, U!IsRecord(p),
         DOMAIN p \subseteq U!Fields, ~U!EntityErrors(U!Over(p, rec), TRUE),
         NEW y, U!IsRecord(y), DOMAIN y = DOMAIN p \cup DOMAIN rec,
         \A f : f \notin U!Computed => U!Lookup(y, f) = U!Lookup(U!Merge(rec, p), f)
  PROVE  U!Lawful(y, U!Custom \ DOMAIN y)
  <1>1. /\ \A f : U!Lookup(U!Merge(rec, p), f) = U!Normal(f, U!Lookup(U!Over(p, rec), f))
        /\ U!IsRecord(U!Over(p, rec)) /\ DOMAIN U!Over(p, rec) = DOMAIN p \cup DOMAIN rec
    BY RulMerge
  <1>2. \A f \in U!Fields \ U!Computed :
          U!Lookup(y, f) = U!Normal(f, U!Lookup(U!Over(p, rec), f))
    BY <1>1
  <1>3. \A f \in U!Fields : f \in U!Custom \/ f \in DOMAIN rec
    BY RulFields DEF RulTableInv, RulRow, U!Columns, U!Custom, U!Fields
  <1>4. \A f \in U!Fields \ U!Computed :
          f \notin DOMAIN U!Over(p, rec) => f \in U!Custom \ DOMAIN y
    BY <1>1, <1>3
  <1> QED
    BY <1>1, <1>2, <1>4, RulLaw

\* its transaction;
LEMMA RulWritePatchStep ==
  ASSUME U!RulesAssumption, RulIInv, U!WritePatch
  PROVE  RulIInv'
  <1> DEFINE given == patching.top
             p == U!Flatten(given, patching.nested)
             x == U!Merge(rec, p)
             y == U!Computing(x, x)
             slipped == DOMAIN p \ DOMAIN given
  <1>1. /\ RulTableInv /\ patching.open /\ U!Live /\ RulRow(rec) /\ U!NothingForced
        /\ U!ValuesKept
    BY DEF RulIInv, RulRowInv, U!WritePatch, U!RulesHold
  <1>2. /\ U!IsRecord(given) /\ U!IsRecord(patching.nested)
        /\ DOMAIN given \cap (U!Computed \cup U!Managed) = {}
        /\ ~U!RecordErrors(given, TRUE)
        /\ ~outrun => /\ ~U!EntityErrors(U!Over(given, rec), TRUE)
                      /\ ~U!ReadonlyErrors(rec, given) /\ ~U!LockedErrors(given)
    BY <1>1 DEF RulIInv, RulPatchInv
  <1>3. /\ patching' = U!Idle /\ outrun' = FALSE /\ UNCHANGED <<edition, table, rules, wronged>>
        /\ IF U!Known(p) /\ U!Takes(x)
           THEN /\ rec' = y
                /\ by' = IF outrun \/ slipped # {} THEN "other" ELSE "update"
                /\ unchecked' = (unchecked \ DOMAIN p) \cup U!Wrong(U!Quoted(p) \cup slipped, x)
                /\ forced' = IF outrun THEN forced
                             ELSE forced \cup {f \in DOMAIN p \ slipped :
                                    /\ \/ U!FieldReadonly(f, rec)
                                       \/ FieldDefs[f].managed
                                       \/ /\ rec[StateField] \in LockStates
                                          /\ ~FieldDefs[f].allow_on_submit
                                    /\ ~U!ValuesEqual(x[f], U!Lookup(rec, f))
                                    /\ ~U!ValuesEqual(U!Lookup(rec, f), x[f])}
           ELSE UNCHANGED <<rec, by, unchecked, forced>>
    BY DEF U!WritePatch, U!Stored
  <1> HIDE DEF given
  <1>4. CASE ~(U!Known(p) /\ U!Takes(x))
    <2>1. UNCHANGED <<edition, table, rules, rec, by, unchecked>> /\ forced' = {} /\ ~wronged'
      BY <1>1, <1>3, <1>4 DEF U!NothingForced
    <2>2. ~patching'.open /\ patching'.open \in BOOLEAN
      BY <1>3 DEF U!Idle
    <2>3. RulPatchInv'
      BY <1>3, <2>2 DEF RulPatchInv, U!Idle, U!IsRecord, U!NoFields
    <2> QED
      BY <2>1, <2>2, <2>3, RulStays
  <1>5. CASE U!Known(p) /\ U!Takes(x)
    <2>1. /\ U!IsRecord(p) /\ DOMAIN p \subseteq U!Fields
          /\ DOMAIN given \subseteq DOMAIN p /\ \A f \in DOMAIN given : p[f] = given[f]
          /\ slipped = {} => p = given
      <3>1. /\ U!IsRecord(p)
            /\ DOMAIN p = DOMAIN given \cup (DOMAIN patching.nested \cap U!Custom \cap U!Fields)
            /\ \A f \in DOMAIN given : p[f] = given[f]
            /\ DOMAIN p \ DOMAIN given = {} => p = given
        BY <1>2, RulFlatten
      <3>2. DOMAIN p \subseteq U!Fields
        BY <1>5 DEF U!Known
      <3> QED
        BY <3>1, <3>2
    <2> HIDE DEF p
    <2>2. /\ U!IsRecord(x) /\ DOMAIN x = DOMAIN p \cup DOMAIN rec
          /\ \A f \in DOMAIN p : x[f] = U!Normal(f, p[f])
          /\ RulRow(x)
      BY <1>1, <1>5, <2>1, RulMerge
    <2>3. \A f \in (DOMAIN x \cap U!Fields) \ (unchecked' \cup U!Computed) : U!ValueRight(f, x[f])
      <3>1. ASSUME NEW f \in (DOMAIN p \cup DOMAIN p) \ ((U!Quoted(p) \cup slipped) \cup U!Computed)
            PROVE  f \in DOMAIN p /\ U!ValueRight(f, p[f])
        <4>1. f \in DOMAIN given /\ p[f] = given[f] /\ f \notin U!Quoted(given) /\ f \in U!Fields
          BY <2>1 DEF U!Quoted
        <4>2. U!ValueRight(f, given[f])
          BY <1>1, <1>2, <4>1, RulSeen
        <4> QED
          BY <4>1, <4>2
      <3> QED
        BY <1>1, <1>3, <1>5, <2>1, <3>1, RulChanged
    <2> HIDE DEF x
    <2>4. /\ y = U!Over([f \in U!Computed |-> U!Formula(f, x)], x)
          /\ [f \in U!Computed |-> U!Formula(f, x)] \in [U!Computed -> 0..99 \cup {U!Null}]
          /\ \A f \in U!Computed : U!Formula(f, y) = U!Formula(f, x)
      BY <1>1, <2>2, RulFormula
    <2> HIDE DEF y
    <2>5. /\ RulRow(y) /\ DOMAIN y = DOMAIN x
          /\ \A f \in U!Computed : y[f] = U!Formula(f, x)
          /\ \A f : f \notin U!Computed => U!Lookup(y, f) = U!Lookup(x, f)
          /\ \A f \in DOMAIN x \ U!Computed : y[f] = x[f]
      BY <1>1, <2>2, <2>4, RulComputed
    <2>6. rec' = y /\ by' = (IF outrun \/ slipped # {} THEN "other" ELSE "update") /\ ~wronged'
      BY <1>1, <1>3, <1>5 DEF U!NothingForced
    <2>7. ASSUME by' \in {"update", "operation"}
          PROVE  U!Lawful(y, U!Custom \ DOMAIN y)
      <3>1. ~outrun /\ p = given
        BY <2>1, <2>6, <2>7
      <3>2. U!IsRecord(y) /\ ~U!EntityErrors(U!Over(p, rec), TRUE)
        BY <1>2, <2>5, <3>1 DEF RulRow
      <3> QED
        BY <1>1, <2>1, <2>2, <2>5, <3>2, RulChangedLaw DEF x
    <2>8. forced' = {}
      <3>1. ASSUME ~outrun, NEW f \in DOMAIN p \ slipped,
                   \/ U!FieldReadonly(f, rec)
                   \/ FieldDefs[f].managed
                   \/ rec[StateField] \in LockStates /\ ~FieldDefs[f].allow_on_submit
            PROVE  U!ValuesEqual(x[f], U!Lookup(rec, f)) \/ U!ValuesEqual(U!Lookup(rec, f), x[f])
        <4>1. f \in DOMAIN given /\ f \in U!Fields /\ p[f] = given[f] /\ x[f] = U!Normal(f, given[f])
          BY <2>1, <2>2
        <4>2. ~FieldDefs[f].computed /\ ~FieldDefs[f].managed
          BY <1>2, <4>1 DEF U!Computed, U!Managed
        <4>3. ~(rec[StateField] \in LockStates /\ ~FieldDefs[f].allow_on_submit)
          BY <1>2, <3>1, <4>1, <4>2 DEF U!LockedErrors
        <4>4. U!ValuesEqual(given[f], U!Lookup(rec, f))
          BY <1>2, <3>1, <4>1, <4>2, <4>3 DEF U!ReadonlyErrors
        <4>5. given[f] \in U!Values /\ U!Lookup(rec, f) \in U!Values
          BY <1>1, <1>2, <4>1, RulRowOf DEF U!IsRecord, RulRow
        <4> QED
          BY <4>1, <4>4, <4>5, RulEqual
      <3>2. forced = {}
        BY <1>1 DEF U!NothingForced
      <3>3. CASE outrun
        BY <1>3, <1>5, <3>2, <3>3
      <3>4. CASE ~outrun
        BY <1>3, <1>5, <3>1, <3>2, <3>4
      <3> QED
        BY <3>3, <3>4
    <2>9. \A f \in (DOMAIN y \cap U!Fields) \ (unchecked' \cup U!Computed) : U!ValueRight(f, y[f])
      BY <2>3, <2>5
    <2>10. \A f \in U!Computed : y[f] = U!Formula(f, y)
      BY <2>4, <2>5
    <2>11. by' # "create"
      BY <2>6
    <2> QED
      BY <1>1, <1>3, <2>5, <2>6, <2>7, <2>8, <2>9, <2>10, <2>11, RulStores
  <1> QED
    BY <1>4, <1>5

\* an operation changes the record.
LEMMA RulOperationUpdateStep ==
  ASSUME U!RulesAssumption, RulIInv, NEW top, NEW nested, U!IsRecord(top), U!IsRecord(nested),
         U!OperationUpdate(top, nested)
  PROVE  RulIInv'
  <1> DEFINE given == U!Without(top, U!Computed)
             p == U!Flatten(given, nested)
             x == U!Merge(rec, p)
  <1>1. /\ RulTableInv /\ U!Live /\ RulRow(rec) /\ U!NothingForced /\ U!ValuesKept
    BY DEF RulIInv, RulRowInv, U!OperationUpdate, U!RulesHold
  <1>2. U!IsRecord(given)
    BY RulWithout
  <1>3. /\ patching' = patching /\ outrun' = patching.open
        /\ UNCHANGED <<edition, table, rules, forced, wronged>>
        /\ U!Checked(given) /\ U!Known(given) /\ U!Takes(x) /\ rec' = x
        /\ by' = IF DOMAIN nested \subseteq DOMAIN given THEN "operation" ELSE "other"
        /\ unchecked' = (unchecked \ (DOMAIN given \cup DOMAIN nested))
                         \cup U!Wrong(U!Quoted(given) \cup (DOMAIN nested \ DOMAIN given), x)
    BY DEF U!OperationUpdate, U!Quiet, U!Stored
  <1> HIDE DEF given
  <1>4. /\ U!IsRecord(p) /\ DOMAIN p = DOMAIN given \cup (DOMAIN nested \cap U!Custom \cap U!Fields)
        /\ \A f \in DOMAIN given : p[f] = given[f]
        /\ DOMAIN nested \subseteq DOMAIN given => p = given
    BY <1>2, RulFlatten
  <1>5. DOMAIN p \subseteq U!Fields
    BY <1>3, <1>4 DEF U!Known
  <1> HIDE DEF p
  <1>6. U!IsRecord(x) /\ DOMAIN x = DOMAIN p \cup DOMAIN rec /\ RulRow(x)
    BY <1>1, <1>3, <1>4, <1>5, RulMerge
  <1>7. \A f \in (DOMAIN x \cap U!Fields) \ (unchecked' \cup U!Computed) : U!ValueRight(f, x[f])
    <2> DEFINE W == U!Quoted(given) \cup (DOMAIN nested \ DOMAIN given)
               gone == DOMAIN given \cup DOMAIN nested
    <2>1. ASSUME NEW f \in (DOMAIN p \cup gone) \ (W \cup U!Computed)
          PROVE  f \in DOMAIN p /\ U!ValueRight(f, p[f])
      <3>1. f \in DOMAIN given /\ p[f] = given[f] /\ f \notin U!Quoted(given) /\ f \in U!Fields
        BY <1>4, <1>5
      <3>2. U!ValueRight(f, given[f])
        BY <1>1, <1>2, <1>3, <3>1, RulSeen DEF U!Checked
      <3> QED
        BY <1>4, <3>1, <3>2
    <2>2. unchecked' = (unchecked \ gone) \cup U!Wrong(W, x)
      BY <1>3
    <2> HIDE DEF W, gone
    <2> QED
      BY <1>1, <1>4, <1>5, <2>1, <2>2, RulChanged
  <1>8. ASSUME by' \in {"update", "operation"}
        PROVE  U!Lawful(x, U!Custom \ DOMAIN x)
    <2>1. p = given
      BY <1>3, <1>4, <1>8
    <2>2. ~U!EntityErrors(U!Over(p, rec), TRUE)
      BY <1>3, <2>1 DEF U!Checked
    <2> QED
      BY <1>1, <1>4, <1>5, <1>6, <2>2, RulChangedLaw
  <1>9. by' \notin {"create", "update"} /\ forced' = {} /\ ~wronged'
    BY <1>1, <1>3 DEF U!NothingForced
  <1> QED
    BY <1>1, <1>3, <1>6, <1>7, <1>8, <1>9, RulStores

\* The handler of an operation.
LEMMA RulHandlerStep ==
  ASSUME U!RulesAssumption, RulIInv, NEW f, NEW v \in U!Values, U!HandlerSets(f, v)
  PROVE  RulIInv'
  <1> DEFINE p == [g \in {f} |-> v]
             x == U!Merge(rec, p)
  <1>1. /\ RulTableInv /\ U!Live /\ RulRow(rec) /\ U!NothingForced /\ U!ValuesKept
    BY DEF RulIInv, RulRowInv, U!HandlerSets, U!RulesHold
  <1>2. /\ patching' = patching /\ outrun' = patching.open
        /\ UNCHANGED <<edition, table, rules, forced, wronged>>
        /\ f \in U!Columns(edition) \ U!Computed /\ U!Takes(x) /\ rec' = x /\ by' = "other"
        /\ unchecked' = (unchecked \ {f}) \cup U!Wrong({f}, x)
    BY DEF U!HandlerSets, U!Quiet, U!Stored
  <1>3. U!IsRecord(p) /\ DOMAIN p = {f} /\ f \in U!Fields
    BY <1>2 DEF U!IsRecord, U!Columns, U!Fields
  <1> HIDE DEF p
  <1>4. U!IsRecord(x) /\ DOMAIN x = DOMAIN p \cup DOMAIN rec /\ RulRow(x)
    BY <1>1, <1>2, <1>3, RulMerge
  <1>5. \A g \in (DOMAIN x \cap U!Fields) \ (unchecked' \cup U!Computed) : U!ValueRight(g, x[g])
    <2>1. \A g \in (DOMAIN p \cup {f}) \ ({f} \cup U!Computed) :
            g \in DOMAIN p /\ U!ValueRight(g, p[g])
      BY <1>3
    <2>2. DOMAIN p \subseteq U!Fields
      BY <1>3
    <2> QED
      BY <1>1, <1>2, <1>3, <2>1, <2>2, RulChanged
  <1>6. by' \notin {"create", "update", "operation"} /\ forced' = {} /\ ~wronged'
    BY <1>1, <1>2 DEF U!NothingForced
  <1> QED
    BY <1>1, <1>2, <1>4, <1>5, <1>6, RulStores

\* A transition: a state of the workflow is one its field allows.
LEMMA RulTransitionStep ==
  ASSUME U!RulesAssumption, RulIInv, NEW m \in StateMoves, U!Transition(m)
  PROVE  RulIInv'
  <1> DEFINE x == [rec EXCEPT ![StateField] = m.to]
  <1>1. /\ RulTableInv /\ U!Live /\ RulRow(rec) /\ U!NothingForced /\ U!ValuesKept
    BY DEF RulIInv, RulRowInv, U!Transition, U!RulesHold
  <1>2. /\ patching' = patching /\ outrun' = patching.open
        /\ UNCHANGED <<edition, table, rules, forced, wronged, unchecked>>
        /\ rec' = x /\ by' = "other"
    BY DEF U!Transition, U!Quiet, U!Stored
  <1>3. /\ m.to \in U!Values \ {U!Null} /\ U!ValueRight(StateField, m.to)
        /\ FieldDefs[StateField].type # "decimal"
    BY DEF U!RulesAssumption
  <1>4. U!IsRecord(x)
    BY <1>1, <1>3 DEF U!IsRecord, RulRow
  <1>5. /\ DOMAIN x = DOMAIN rec
        /\ \A f \in DOMAIN rec \ {StateField} : x[f] = rec[f]
        /\ StateField \in DOMAIN rec => x[StateField] = m.to
    BY <1>1 DEF RulRow, U!IsRecord
  <1> HIDE DEF x
  <1>6. RulRight(StateField, m.to)
    <2>1. FieldDefs[StateField] \in U!FieldShape
      BY <1>1, RulFields DEF U!RulesAssumption
    <2>2. FieldDefs[StateField].options \subseteq 100..199
      BY <2>1 DEF U!FieldShape
    <2> QED
      BY <1>3, <2>2 DEF RulRight, U!ValueRight, U!IsString, U!Bad, U!Blank
  <1>7. RulRow(x)
    BY <1>1, <1>3, <1>4, <1>5, <1>6 DEF RulRow
  <1>8. \A f \in (DOMAIN x \cap U!Fields) \ (unchecked' \cup U!Computed) : U!ValueRight(f, x[f])
    BY <1>1, <1>2, <1>3, <1>5 DEF U!ValuesKept
  <1>9. by' \notin {"create", "update", "operation"} /\ forced' = {} /\ ~wronged'
    BY <1>1, <1>2 DEF U!NothingForced
  <1> QED
    BY <1>1, <1>2, <1>7, <1>8, <1>9, RulStores

\* A child row: its checks have seen what is written of it.
LEMMA RulChildPatchStep ==
  ASSUME U!RulesAssumption, RulIInv, NEW top, U!IsRecord(top), U!ChildPatch(top)
  PROVE  RulIInv'
  <1> DEFINE p == U!Without(top, U!Computed \cup U!Managed)
             x == U!Merge(rec, p)
             y == U!Computing(x, p)
             v == [f \in U!Computed |-> U!Formula(f, p)]
  <1>1. /\ RulTableInv /\ U!Live /\ RulRow(rec) /\ U!NothingForced /\ U!ValuesKept
    BY DEF RulIInv, RulRowInv, U!ChildPatch, U!RulesHold
  <1>2. /\ patching' = patching /\ outrun' = patching.open
        /\ UNCHANGED <<edition, table, rules, forced, wronged>>
        /\ ~U!RecordErrors(p, TRUE) /\ U!Known(p) /\ U!Takes(x)
        /\ rec' = y /\ by' = "other"
        /\ unchecked' = (unchecked \ DOMAIN p) \cup U!Wrong(U!Quoted(p), x)
    BY DEF U!ChildPatch, U!Quiet, U!Stored
  <1>3. U!IsRecord(p) /\ DOMAIN p \subseteq U!Fields
    BY <1>2, RulWithout DEF U!Known
  <1> HIDE DEF p
  <1>4. U!IsRecord(x) /\ DOMAIN x = DOMAIN p \cup DOMAIN rec /\ RulRow(x)
    BY <1>1, <1>2, <1>3, RulMerge
  <1>5. \A f \in (DOMAIN x \cap U!Fields) \ (unchecked' \cup U!Computed) : U!ValueRight(f, x[f])
    <2>1. \A f \in (DOMAIN p \cup DOMAIN p) \ (U!Quoted(p) \cup U!Computed) :
            f \in DOMAIN p /\ U!ValueRight(f, p[f])
      BY <1>1, <1>2, <1>3, RulSeen
    <2> QED
      BY <1>1, <1>2, <1>3, <2>1, RulChanged
  <1> HIDE DEF x
  <1>6. y = U!Over(v, x) /\ v \in [U!Computed -> 0..99 \cup {U!Null}]
    BY <1>1, <1>3, <1>4, RulFormula
  <1> HIDE DEF y, v
  <1>7. /\ RulRow(y) /\ DOMAIN y = DOMAIN x
        /\ \A f \in DOMAIN x \ U!Computed : y[f] = x[f]
    BY <1>1, <1>4, <1>6, RulComputed
  <1>8. by' \notin {"create", "update", "operation"} /\ forced' = {} /\ ~wronged'
    BY <1>1, <1>2 DEF U!NothingForced
  <1>9. \A f \in (DOMAIN y \cap U!Fields) \ (unchecked' \cup U!Computed) : U!ValueRight(f, y[f])
    BY <1>5, <1>7
  <1> QED
    BY <1>1, <1>2, <1>7, <1>8, <1>9, RulStores

\* The upgrade: new columns are empty, and NOT NULL is kept of no column that goes.
LEMMA RulUpgradeStep ==
  ASSUME U!RulesAssumption, RulIInv, U!Upgrade
  PROVE  RulIInv'
  <1> DEFINE none == [f \in U!Columns(2) |-> U!Null]
             x == U!Over(rec, none)
  <1>1. /\ RulTableInv /\ (U!Live => RulRow(rec)) /\ U!NothingForced /\ U!ValuesKept
    BY DEF RulIInv, RulRowInv, U!RulesHold
  <1>2. /\ edition = 1 /\ edition' = 2 /\ table' = U!ApplySchema(2)
        /\ rec' = (IF U!Live THEN x ELSE rec) /\ by' = "other" /\ patching' = U!Idle
        /\ UNCHANGED <<rules, unchecked, forced, wronged>>
    BY DEF U!Upgrade
  <1>3. U!Columns(2) \subseteq DOMAIN FieldDefs \ U!Custom
    <2>1. 2 \in 1..2
      OBVIOUS
    <2>2. FieldEditions[2] \subseteq DOMAIN FieldDefs
      BY <2>1 DEF U!RulesAssumption
    <2> QED
      BY <2>2 DEF U!Columns, U!Custom
  <1>4. /\ DOMAIN table' = DOMAIN table \cup U!Columns(2)
        /\ \A f \in DOMAIN table' : table'[f] =>
             f \in DOMAIN table /\ table[f] /\ f \in U!Columns(2) /\ ~FieldDefs[f].computed
    BY <1>2 DEF U!ApplySchema
  <1>5. RulTableInv'
    <2>1. U!Columns(edition)' = U!Columns(2)
      BY <1>2 DEF U!Columns
    <2>2. DOMAIN table' \subseteq DOMAIN FieldDefs \ U!Custom
      BY <1>1, <1>3, <1>4 DEF RulTableInv
    <2>3. \A f \in DOMAIN table' : table'[f] =>
            f \in FieldEditions[2] /\ FieldDefs[f].required /\ ~FieldDefs[f].computed
      BY <1>1, <1>4 DEF RulTableInv, U!Columns
    <2> QED
      BY <1>1, <1>2, <1>4, <2>1, <2>2, <2>3 DEF RulTableInv
  <1>6. U!IsRecord(none) /\ DOMAIN none = U!Columns(2) /\ \A f \in U!Columns(2) : none[f] = U!Null
    BY DEF U!IsRecord, U!Values, U!Null
  <1> HIDE DEF none
  <1>7. ASSUME U!Live PROVE RulRow(rec)' /\ U!ValuesKept'
    <2>1. /\ U!IsRecord(x) /\ DOMAIN x = DOMAIN rec \cup U!Columns(2)
          /\ \A f \in DOMAIN rec : x[f] = rec[f]
          /\ \A f \in U!Columns(2) \ DOMAIN rec : x[f] = U!Null
      <3>1. U!IsRecord(rec)
        BY <1>1, <1>7 DEF RulRow
      <3>2. /\ U!IsRecord(x) /\ DOMAIN x = DOMAIN rec \cup DOMAIN none
            /\ \A f \in DOMAIN rec : x[f] = rec[f]
            /\ \A f \in DOMAIN none \ DOMAIN rec : x[f] = none[f]
        BY <1>6, <3>1, RulOver
      <3> HIDE DEF x
      <3> QED
        BY <1>6, <3>2
    <2> HIDE DEF x
    <2>2. \A f : RulRight(f, U!Null)
      BY DEF RulRight, U!IsString, U!Null, U!Bad, U!Blank
    <2>3. RulRow(rec)'
      <3>1. \A f \in DOMAIN x \ U!Custom : RulRight(f, x[f])
        BY <1>1, <1>7, <2>1, <2>2 DEF RulRow
      <3>2. DOMAIN table' \subseteq DOMAIN x /\ DOMAIN x \subseteq DOMAIN FieldDefs
        BY <1>1, <1>3, <1>4, <1>7, <2>1 DEF RulRow
      <3>3. \A f \in DOMAIN table' : table'[f] => x[f] # U!Null
        BY <1>1, <1>4, <1>7, <2>1 DEF RulRow
      <3> QED
        BY <1>2, <1>7, <2>1, <3>1, <3>2, <3>3 DEF RulRow
    <2>4. \A f \in (DOMAIN x \cap FieldEditions[2]) \ unchecked :
            ~FieldDefs[f].computed => U!ValueRight(f, x[f])
      <3>1. ASSUME NEW f \in (DOMAIN x \cap FieldEditions[2]) \ unchecked, ~FieldDefs[f].computed
            PROVE  U!ValueRight(f, x[f])
        <4>1. CASE f \in DOMAIN rec
          <5>1. f \in U!Fields /\ f \notin U!Computed
            BY <1>1, <1>2, <1>7, <3>1, <4>1 DEF RulRow, U!Fields, U!Computed
          <5>2. U!ValueRight(f, rec[f])
            BY <1>1, <1>7, <3>1, <4>1, <5>1 DEF U!ValuesKept
          <5> QED
            BY <2>1, <4>1, <5>2
        <4>2. CASE f \notin DOMAIN rec
          BY <2>1, <4>2 DEF U!ValueRight
        <4> QED
          BY <4>1, <4>2
      <3> QED
        BY <3>1
    <2>5. rec' = x /\ U!Fields' = FieldEditions[2] /\ unchecked' = unchecked
      BY <1>2, <1>7 DEF U!Fields
    <2>6. \A f \in U!Fields' \ U!Computed' : ~FieldDefs[f].computed
      BY DEF U!Computed
    <2>7. U!ValuesKept'
      BY <2>3, <2>4, <2>5, <2>6 DEF U!ValuesKept, RulRow
    <2> QED
      BY <2>3, <2>7
  <1>8. ~U!Live => ~U!Live'
    BY <1>2 DEF U!Live
  <1>9. RulRowInv'
    <2>1. U!Live' => RulRow(rec)'
      BY <1>7, <1>8
    <2> QED
      BY <1>2, <2>1 DEF RulRowInv, U!Idle
  <1>10. RulPatchInv'
    BY <1>2 DEF RulPatchInv, U!Idle, U!IsRecord, U!NoFields
  <1>11. U!RulesHold'
    <2>1. U!ValuesKept'
      BY <1>7, <1>8 DEF U!ValuesKept
    <2>2. U!RulesKept' /\ U!ComputedKept' /\ U!NothingForced'
      BY <1>1, <1>2 DEF U!RulesKept, U!ComputedKept, U!NothingForced
    <2> QED
      BY <2>1, <2>2 DEF U!RulesHold
  <1> QED
    BY <1>5, <1>9, <1>10, <1>11 DEF RulIInv

\* So does any step.
LEMMA RulNextStep ==
  ASSUME U!RulesAssumption, RulIInv, [U!Next]_U!vars
  PROVE  RulIInv'
  <1>1. ASSUME NEW q \in CreateBodies, U!Create(q.top, q.nested) \/ U!OperationCreate(q.top, q.nested)
        PROVE  RulIInv'
    BY <1>1, RulCreateStep, RulOperationCreateStep DEF U!RulesAssumption
  <1>2. ASSUME NEW q \in PatchBodies,
               U!BeginPatch(q.top, q.nested) \/ U!OperationUpdate(q.top, q.nested)
        PROVE  RulIInv'
    BY <1>2, RulBeginPatchStep, RulOperationUpdateStep DEF U!RulesAssumption
  <1>3. CASE U!WritePatch
    BY <1>3, RulWritePatchStep
  <1>4. ASSUME NEW q \in PatchBodies, U!ChildPatch(q.top)
        PROVE  RulIInv'
    BY <1>4, RulChildPatchStep DEF U!RulesAssumption
  <1>5. ASSUME NEW h \in Handled, U!HandlerSets(h[1], h[2])
        PROVE  RulIInv'
    BY <1>5, RulHandlerStep DEF U!RulesAssumption
  <1>6. ASSUME NEW m \in StateMoves, U!Transition(m)
        PROVE  RulIInv'
    BY <1>6, RulTransitionStep
  <1>7. CASE U!Upgrade
    BY <1>7, RulUpgradeStep
  <1>8. CASE UNCHANGED U!vars
    <2>1. /\ UNCHANGED <<edition, table, rules, rec, by, unchecked, patching, outrun>>
          /\ forced' = {} /\ ~wronged'
      BY <1>8 DEF U!vars, RulIInv, U!RulesHold, U!NothingForced
    <2>2. RulPatchInv'
      BY <2>1 DEF RulIInv, RulPatchInv, U!RecordErrors, U!EntityErrors, U!FieldRuleErrors,
         U!ReadonlyErrors, U!LockedErrors, U!Computed, U!Managed, U!Fields
    <2>3. patching'.open \in BOOLEAN /\ (patching'.open => U!Live)
      BY <2>1 DEF RulIInv, RulRowInv
    <2> QED
      BY <2>1, <2>2, <2>3, RulStays
  <1> QED
    BY <1>1, <1>2, <1>3, <1>4, <1>5, <1>6, <1>7, <1>8 DEF U!Next

\* A stored record has the values that its fields allow, and after a create or a PATCH that
\* nothing has overtaken it satisfies the rules of its entity and has the computed values
\* of its formulas; no PATCH changes a field that it may not, and no request is refused
\* without a reason: validate_record, apply_entity_rules, apply_schema.
THEOREM RecordsKeepRules == U!Spec => []RulesHold
  <1>1. U!Init => RulIInv
    BY RulInitStep, RulesAre
  <1>2. RulIInv /\ [U!Next]_U!vars => RulIInv'
    BY RulNextStep, RulesAre
  <1>3. RulIInv => RulesHold
    BY DEF RulIInv, RulesHold
  <1> QED
    BY <1>1, <1>2, <1>3, PTL DEF U!Spec
=============================================================================
