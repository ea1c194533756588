---------------------------- MODULE CustomFields ----------------------------
(***************************************************************************)
(* A tenant's custom field and the caches of field definitions              *)
(* (qefro-db/src/custom_fields.rs).  Each process keeps the definitions it  *)
(* has read, without a limit in time; the process that stores a field       *)
(* forgets its own copy afterwards, the others are not told.  One field of  *)
(* one entity; a definition is abstracted to its type (types that convert   *)
(* into each other count as one) and the version of its row.                *)
(***************************************************************************)
EXTENDS Naturals

CONSTANTS Types,      \* incompatible types of the field
          Absent,     \* there is no such field
          Unknown,    \* nothing cached
          Processes,  \* processes with a cache of their own
          Http,       \* the one that serves Studio, and so stores fields
          Requests,   \* requests in flight at a time
          MaxVersion  \* bound: changes of the field

\* Absent and Unknown are no types, and differ; Http is one of the processes.
FieldsAssumption ==
    /\ Http \in Processes /\ MaxVersion \in Nat
    /\ Absent \notin Types /\ Unknown \notin Types /\ Absent # Unknown

VARIABLES row,      \* qefro_custom_fields: the type and the version of the field
          cache,    \* CustomFieldStore::cache of each process
          req,      \* the requests in flight
          changed,  \* history: a stored field changed its type
          excused   \* history: a change overlapped a request, or was abandoned

fieldVars == <<row, cache, req, changed, excused>>

Idle == [pc |-> "idle", upsert |-> FALSE, at |-> Http, want |-> Absent,
         version |-> 0, seen |-> Unknown]

TypeOK ==
    /\ row \in [type : Types \union {Absent}, version : 0..MaxVersion]
    /\ cache \in [Processes -> Types \union {Absent, Unknown}]
    /\ req \in [Requests ->
            [pc : {"idle", "fetch", "insert", "check", "version", "write", "forget"},
             upsert : BOOLEAN, at : Processes, want : Types \union {Absent},
             version : 0..MaxVersion, seen : Types \union {Absent, Unknown}]]
    /\ changed \in BOOLEAN /\ excused \in BOOLEAN

Init ==
    /\ row = [type |-> Absent, version |-> 0]
    /\ cache = [p \in Processes |-> Unknown]
    /\ req = [r \in Requests |-> Idle]
    /\ changed = FALSE /\ excused = FALSE

-----------------------------------------------------------------------------
End(r) == req' = [req EXCEPT ![r] = Idle]

\* Another request of this process is under way, and one of the two stores.
Overlap(r, p, upsert) ==
    \E q \in Requests \ {r} :
        req[q].pc # "idle" /\ req[q].at = p /\ (upsert \/ req[q].upsert)

\* list_effective: from the cache if there is an entry, else from the table.
Listed(q, p) ==
    IF cache[p] = Unknown THEN [q EXCEPT !.pc = "fetch"]
    ELSE IF q.upsert THEN [q EXCEPT !.pc = "check", !.seen = cache[p]]
    ELSE Idle

\* Any request that merges the custom fields into its entity.
List(r, p) ==
    /\ req[r].pc = "idle"
    /\ req' = [req EXCEPT ![r] = Listed([Idle EXCEPT !.at = p], p)]
    /\ excused' = (excused \/ Overlap(r, p, FALSE))
    /\ UNCHANGED <<row, cache, changed>>

\* upsert of Studio's publish, for a version or for any (0).
Upsert(r, want, version) ==
    /\ req[r].pc = "idle"
    /\ req' = [req EXCEPT ![r] = Listed([Idle EXCEPT !.upsert = TRUE, !.want = want,
                                                    !.version = version], Http)]
    /\ excused' = (excused \/ Overlap(r, Http, TRUE))
    /\ UNCHANGED <<row, cache, changed>>

Fetch(r) ==
    /\ req[r].pc = "fetch"
    /\ req' = [req EXCEPT ![r].pc = "insert", ![r].seen = row.type]
    /\ UNCHANGED <<row, cache, changed, excused>>

Insert(r) ==
    /\ req[r].pc = "insert"
    /\ cache' = [cache EXCEPT ![req[r].at] = req[r].seen]
    /\ IF req[r].upsert THEN req' = [req EXCEPT ![r].pc = "check"] ELSE End(r)
    /\ UNCHANGED <<row, changed, excused>>

\* "cannot change custom field ... from ... to ...".
Compatible(r) == req[r].seen \in Types => req[r].seen = req[r].want

Check(r) ==
    /\ req[r].pc = "check"
    /\ IF ~Compatible(r) THEN End(r)
       ELSE req' = [req EXCEPT ![r].pc =
                IF req[r].seen \in Types /\ req[r].version # 0 THEN "version" ELSE "write"]
    /\ UNCHANGED <<row, cache, changed, excused>>

\* "custom field ... was modified concurrently".
CheckVersion(r) ==
    /\ req[r].pc = "version"
    /\ IF row.version # req[r].version THEN End(r)
       ELSE req' = [req EXCEPT ![r].pc = "write"]
    /\ UNCHANGED <<row, cache, changed, excused>>

\* INSERT ... ON CONFLICT DO UPDATE: whatever is stored by now.
Stored(r) ==
    /\ row.version < MaxVersion
    /\ row' = [type |-> req[r].want, version |-> row.version + 1]
    /\ changed' = (changed \/ row.type \notin {Absent, req[r].want})

Write(r) ==
    /\ req[r].pc = "write"
    /\ Stored(r)
    /\ req' = [req EXCEPT ![r].pc = "forget"]
    /\ UNCHANGED <<cache, excused>>

\* Mutant of Forgotten: a field that is new to the cache is not forgotten.
ForgottenKnown(r) == IF req[r].seen = Absent THEN cache[Http] ELSE Unknown
\* invalidate removes the entry of the entity.
Forgotten(r) == Unknown

Invalidate(r) ==
    /\ req[r].pc = "forget"
    /\ cache' = [cache EXCEPT ![Http] = Forgotten(r)]
    /\ End(r)
    /\ UNCHANGED <<row, changed, excused>>

\* The client goes away and its request is dropped where it waits; a statement
\* that is under way may still be executed, its entry is then not forgotten.
Abandon(r) ==
    /\ req[r].pc \in {"fetch", "version", "write"}
    /\ End(r)
    /\ \/ UNCHANGED <<row, changed, excused>>
       \/ req[r].pc = "write" /\ Stored(r) /\ excused' = TRUE
    /\ UNCHANGED cache

\* A process restarts with an empty cache.
Restart(p) ==
    /\ cache' = [cache EXCEPT ![p] = Unknown]
    /\ req' = [r \in Requests |-> IF req[r].at = p THEN Idle ELSE req[r]]
    /\ UNCHANGED <<row, changed, excused>>

Next ==
    \/ \E r \in Requests :
        \/ \E p \in Processes : List(r, p)
        \/ \E want \in Types, version \in 0..MaxVersion : Upsert(r, want, version)
        \/ Fetch(r) \/ Insert(r) \/ Check(r) \/ CheckVersion(r) \/ Write(r)
        \/ Invalidate(r) \/ Abandon(r)
    \/ \E p \in Processes : Restart(p)

Spec == Init /\ [][Next]_fieldVars

-----------------------------------------------------------------------------
(* The type of a stored custom field, in which its values are kept, never   *)
(* changes into an incompatible one, although the check is made against the *)
(* cache of the process: unless a change overlapped another request of the  *)
(* process, or was stored for a client that had gone.                       *)
TypeKept == changed => excused
=============================================================================
