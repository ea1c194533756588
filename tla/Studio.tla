------------------------------- MODULE Studio -------------------------------
(***************************************************************************)
(* Publishing an entity from the studio                                     *)
(* (crates/qefro-db/src/studio.rs).  A publication is analysed against the  *)
(* live registry, put over it, written to the YAML file of its application, *)
(* migrated when it adds columns, and recorded as a version; nothing is     *)
(* locked in between.  The registry is memory of the process and is read    *)
(* from the files when it starts; versions and columns are in the database. *)
(*                                                                         *)
(* One entity is modelled by the names of its fields, with two kinds of     *)
(* payload: one field ("entity.field") and a whole entity ("entity"), which *)
(* is also what a rollback restores.  A publication that the analysis       *)
(* refuses changes nothing and is not modelled.                             *)
(***************************************************************************)
EXTENDS Naturals, FiniteSetsExt

CONSTANTS
  Fields,      \* fields that can be published
  Publishers   \* one request each

VARIABLES
  registry,  \* fields of the live entity
  file,      \* fields in the YAML file
  sourced,   \* whether the entity's module has an application directory
  columns,   \* columns of the table
  versions,  \* rows of qefro_studio_versions: number and fields
  pc, op, base, number,  \* where each publisher is and what it has read
  met,       \* history: publishers that overlapped another one
  unsure     \* history: fields of failed publications and of overlapping ones

tableVars == <<file, columns, versions>>
studioVars == <<registry, tableVars, sourced, pc, op, base, number, met, unsure>>

NoOp == [kind |-> "none", fields |-> {}, migrates |-> FALSE]

Init ==
  /\ registry = {} /\ file = {} /\ columns = {}
  /\ sourced \in BOOLEAN
  /\ versions = {}
  /\ pc = [p \in Publishers |-> "new"]
  /\ op = [p \in Publishers |-> NoOp]
  /\ base = [p \in Publishers |-> {}]
  /\ number = [p \in Publishers |-> 0]
  /\ met = {} /\ unsure = {}

Busy == {p \in Publishers : pc[p] \notin {"new", "done"}}

-----------------------------------------------------------------------------
(* Analysis: classify_entity_change. *)

Applied(o, fields) == IF o.kind = "field" THEN fields \cup o.fields ELSE o.fields

\* Removing a field is destructive.
Destructive(o, fields) == fields \ Applied(o, fields) # {}

\* Mutant of Additive: only a payload of one field adds columns.
AdditiveField(o, fields) == o.kind = "field" /\ Applied(o, fields) \ fields # {}

Additive(o, fields) == Applied(o, fields) \ fields # {}

\* Mutant of Allowed: a rollback is not analysed.
AllowedRollback(o) == o.kind = "rollback" \/ ~Destructive(o, registry)

\* What publish and rollback accept.
Allowed(o) ==
  /\ ~Destructive(o, registry)
  /\ o.kind = "rollback" => ~Additive(o, registry)

Start(p, o) ==
  /\ pc[p] = "new"
  /\ Allowed(o)
  /\ op' = [op EXCEPT ![p] = [kind |-> o.kind, fields |-> o.fields,
                              migrates |-> Additive(o, registry)]]
  /\ pc' = [pc EXCEPT ![p] = "read"]
  /\ met' = IF Busy = {} THEN met ELSE met \cup Busy \cup {p}
  /\ UNCHANGED <<registry, tableVars, sourced, base, number, unsure>>

PublishField(p, f) == Start(p, [kind |-> "field", fields |-> {f}])
PublishEntity(p, fields) == Start(p, [kind |-> "entity", fields |-> fields])
RollbackTo(p, v) == Start(p, [kind |-> "rollback", fields |-> v.fields])

-----------------------------------------------------------------------------
(* apply. *)

\* The next step; what was read is dropped when it is not used any more.
Go(p, step) ==
  /\ pc' = [pc EXCEPT ![p] = step]
  /\ op' = IF step = "done" THEN [op EXCEPT ![p] = NoOp] ELSE op
  /\ base' = IF step \in {"put", "file", "insert"} THEN base ELSE [base EXCEPT ![p] = {}]

\* The entity is cloned from the registry and the payload applied to it.
Read(p) ==
  /\ pc[p] = "read"
  /\ base' = [base EXCEPT ![p] = Applied(op[p], registry)]
  /\ pc' = [pc EXCEPT ![p] = "put"]
  /\ UNCHANGED <<registry, tableVars, sourced, op, number, met, unsure>>

\* overlay_put.
Put(p) ==
  /\ pc[p] = "put"
  /\ registry' = base[p]
  /\ pc' = [pc EXCEPT ![p] = "file"]
  /\ unsure' = IF p \in met THEN unsure \cup (base[p] \ registry) ELSE unsure
  /\ UNCHANGED <<tableVars, sourced, op, base, number, met>>

\* What follows the file: a rollback records nothing.
AfterFile(p) ==
  IF op[p].kind = "rollback" THEN "done"
  ELSE IF op[p].migrates THEN "migrate"
  ELSE "version"

\* maybe_write_yaml.
WriteFile(p) ==
  /\ pc[p] = "file"
  /\ file' = IF sourced THEN base[p] ELSE file
  /\ Go(p, AfterFile(p))
  /\ UNCHANGED <<registry, columns, versions, sourced, number, met, unsure>>

\* apply_schema adds the columns of all fields of the registry.
Migrate(p) ==
  /\ pc[p] = "migrate"
  /\ columns' = columns \cup registry
  /\ Go(p, "version")
  /\ UNCHANGED <<registry, file, versions, sourced, number, met, unsure>>

\* The file or the schema cannot be written: the overlay stays where it is.
Fails(p) ==
  /\ pc[p] \in {"file", "migrate"}
  /\ Go(p, "done")
  /\ unsure' = unsure \cup (registry \ columns)
  /\ UNCHANGED <<registry, tableVars, sourced, number, met>>

\* COALESCE(MAX(version), 0) + 1.
NextNumber == Max({v.number : v \in versions} \cup {0}) + 1

\* record_version reads the last number.
ReadNumber(p) ==
  /\ pc[p] = "version"
  /\ number' = [number EXCEPT ![p] = NextNumber]
  /\ base' = [base EXCEPT ![p] = registry]
  /\ pc' = [pc EXCEPT ![p] = "insert"]
  /\ UNCHANGED <<registry, tableVars, sourced, op, met, unsure>>

\* It inserts the entity as it was in the registry.
InsertVersion(p) ==
  /\ pc[p] = "insert"
  /\ versions' = versions \cup {[number |-> number[p], fields |-> base[p]]}
  /\ Go(p, "done")
  /\ number' = [number EXCEPT ![p] = 0]
  /\ UNCHANGED <<registry, file, columns, sourced, met, unsure>>

\* The process starts again: from the files, with their schema applied.
Restart ==
  /\ Busy # {}
  /\ registry' = file
  /\ columns' = columns \cup file
  /\ pc' = [p \in Publishers |-> IF p \in Busy THEN "done" ELSE pc[p]]
  /\ op' = [p \in Publishers |-> NoOp]
  /\ base' = [p \in Publishers |-> {}]
  /\ number' = [p \in Publishers |-> 0]
  /\ UNCHANGED <<file, versions, sourced, met, unsure>>

Next ==
  \/ \E p \in Publishers :
       \/ \E f \in Fields : PublishField(p, f)
       \/ \E fields \in SUBSET Fields : PublishEntity(p, fields)
       \/ \E v \in versions : RollbackTo(p, v)
       \/ Read(p) \/ Put(p) \/ WriteFile(p) \/ Migrate(p) \/ Fails(p)
       \/ ReadNumber(p) \/ InsertVersion(p)
  \/ Restart

Spec == Init /\ [][Next]_studioVars

-----------------------------------------------------------------------------
(* Properties. *)

\* A published field has its column when nobody is publishing, unless its file
\* or its migration failed or its publisher overlapped another one.
ColumnsFollow == Busy = {} => registry \ columns \subseteq unsure

\* Only a publisher that overlapped another one takes a published field away.
FieldsStay ==
  [][\A f \in registry \ registry' :
       \/ Restart
       \/ \E p \in met : pc[p] = "put" /\ pc'[p] = "file"]_studioVars
=============================================================================
