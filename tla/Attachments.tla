---------------------------- MODULE Attachments ----------------------------
(***************************************************************************)
(* The life of one attachment (crates/qefro-db/src/attachments.rs): its row *)
(* in qefro_attachments, the blobs of the tenant's BlobStore, and the       *)
(* attachment.purge jobs that remove the blobs a request could not remove.  *)
(*                                                                         *)
(* A storage key is made of the attachment's id and a file name, so with    *)
(* one attachment a key is a name.  The store and the database share no     *)
(* transaction.  Who may do what, and which names, types and sizes are      *)
(* accepted, is decided before anything is written.                         *)
(***************************************************************************)
EXTENDS Integers, FiniteSets

CONSTANTS
  Names,      \* file names: storage keys
  Callers,    \* requests, one each
  MaxTries,   \* max_attempts of a job
  MaxFaults   \* bound: calls that fail, processes that die

Unborn == "unborn"
Gone == "gone"
NoName == "no name"

\* Keys of the store are not confused with the absence of one.
NamesAssumption == Names \cap {Unborn, Gone, NoName} = {}

VARIABLES
  row,        \* storage key of the row; Unborn before create, Gone after delete
  blobs,      \* keys the store has an object for
  purge,      \* status of the purge job of each key
  tries,      \* its failed attempts
  pc,         \* where a request is
  op, name,   \* what it does, with which file name
  cur,        \* storage key it has read
  faults,
  raced,      \* history: two requests overlapped
  reused,     \* history: keys written while a removal of them was due
  leaked      \* history: keys whose removal was lost

storeVars   == <<row, blobs>>
jobVars     == <<purge, tries>>
requestVars == <<pc, op, name, cur>>
histVars    == <<raced, reused, leaked>>
attachmentVars == <<storeVars, jobVars, requestVars, faults, histVars>>

Init ==
  /\ row = Unborn
  /\ blobs = {}
  /\ purge = [k \in Names |-> "absent"]
  /\ tries = [k \in Names |-> 0]
  /\ pc = [c \in Callers |-> "new"]
  /\ op = [c \in Callers |-> "none"]
  /\ name = [c \in Callers |-> NoName]
  /\ cur = [c \in Callers |-> NoName]
  /\ faults = 0
  /\ raced = FALSE
  /\ reused = {}
  /\ leaked = {}

AtWork(c) == pc[c] \notin {"new", "done"}
Others(c) == {d \in Callers \ {c} : AtWork(d)}

Fault ==
  /\ faults < MaxFaults
  /\ faults' = faults + 1

Goto(c, from, to) ==
  /\ pc[c] = from
  /\ pc' = [pc EXCEPT ![c] = to]

-----------------------------------------------------------------------------
(* Requests. *)

\* A request arrives: create makes the id; the others read the row first and
\* answer "attachment not found" when there is none.
Begin(c, o, n) ==
  /\ IF o = "create" THEN row = Unborn /\ \A d \in Callers : op[d] # "create" ELSE row \in Names
  /\ Goto(c, "new", CASE o \in {"create", "replace"} -> "put"
                      [] o = "describe" -> "meta"
                      [] o = "delete" -> "delete")
  /\ op' = [op EXCEPT ![c] = o]
  /\ name' = [name EXCEPT ![c] = n]
  /\ cur' = [cur EXCEPT ![c] = row]
  /\ raced' = (raced \/ Others(c) # {})
  /\ reused' = IF \E d \in Others(c) : name[d] = row THEN reused \cup {row} ELSE reused
  /\ UNCHANGED <<storeVars, jobVars, faults, leaked>>

\* put_blob: over an object of the same key.
PutBlob(c) ==
  /\ Goto(c, "put", "row")
  /\ blobs' = blobs \cup {name[c]}
  /\ reused' = IF \/ purge[name[c]] # "absent"
                  \/ \E d \in Others(c) : name[c] \in {cur[d], name[d]}
               THEN reused \cup {name[c]} ELSE reused
  /\ UNCHANGED <<row, jobVars, op, name, cur, faults, raced, leaked>>

\* A replace has a blob to remove before the event is recorded.
AfterRow(c) == IF op[c] = "replace" THEN "old" ELSE "emit"

\* insert of create_attachment; replace_blob, which says nothing when the row is
\* gone.
WriteRow(c) ==
  /\ Goto(c, "row", AfterRow(c))
  /\ \/ /\ op[c] = "create" \/ row \in Names
        /\ row' = name[c]
     \/ /\ op[c] = "replace" /\ row = Gone
        /\ UNCHANGED row
  /\ UNCHANGED <<blobs, jobVars, op, name, cur, faults, histVars>>

\* Mutant of OldKey: the blob that was read is removed, whatever its key.
OldKeyAlways(c) == cur[c]

\* The blob a replace leaves behind.
OldKey(c) == IF cur[c] = name[c] THEN NoName ELSE cur[c]

\* Mutant of EnqueuePurge: no job.
EnqueueNothing(k) == purge' = purge /\ leaked' = leaked

\* enqueue_blob_purge: one job per key, ever.
EnqueuePurge(k) ==
  /\ purge' = [purge EXCEPT ![k] = IF @ = "absent" THEN "pending" ELSE @]
  /\ leaked' = IF purge[k] \in {"absent", "pending"} THEN leaked ELSE leaked \cup {k}

\* The row is not written: the new blob goes, by a job.
RowFails(c) ==
  /\ Goto(c, "row", "done")
  /\ Fault
  /\ EnqueuePurge(name[c])
  /\ reused' = IF row = name[c] THEN reused \cup {name[c]} ELSE reused
  /\ UNCHANGED <<storeVars, tries, op, name, cur, raced>>

\* replace_attachment removes the old blob, reads the row again and goes on.
RemoveOld(c) ==
  /\ Goto(c, "old", IF row \in Names THEN "emit" ELSE "done")
  /\ blobs' = blobs \ {OldKey(c)}
  /\ UNCHANGED <<row, jobVars, op, name, cur, faults, histVars>>

\* The removal fails: by a job.
RemoveOldFails(c) ==
  /\ OldKey(c) # NoName
  /\ Goto(c, "old", IF row \in Names THEN "emit" ELSE "done")
  /\ Fault
  /\ EnqueuePurge(OldKey(c))
  /\ UNCHANGED <<storeVars, tries, op, name, cur, raced, reused>>

\* update_attachment_meta: file name and description, never the storage key.
UpdateMeta(c) ==
  /\ Goto(c, "meta", IF row \in Names THEN "emit" ELSE "done")
  /\ UNCHANGED <<storeVars, jobVars, op, name, cur, faults, histVars>>

\* delete_attachment: the row ...
DeleteRow(c) ==
  /\ Goto(c, "delete", "blob")
  /\ row' = Gone
  /\ UNCHANGED <<blobs, jobVars, op, name, cur, faults, histVars>>

\* ... then the blob of the row that was read.
DeleteBlob(c) ==
  /\ Goto(c, "blob", "emit")
  /\ blobs' = blobs \ {cur[c]}
  /\ UNCHANGED <<row, jobVars, op, name, cur, faults, histVars>>

DeleteBlobFails(c) ==
  /\ Goto(c, "blob", "emit")
  /\ Fault
  /\ EnqueuePurge(cur[c])
  /\ UNCHANGED <<storeVars, tries, op, name, cur, raced, reused>>

\* record_file_side_effects, after the change and outside of any transaction.
Emit(c) ==
  /\ Goto(c, "emit", "done")
  /\ UNCHANGED <<storeVars, jobVars, op, name, cur, faults, histVars>>

\* The keys the request would still have removed.
Due(c) ==
  CASE pc[c] = "row" -> {name[c]} \ {row}
    [] pc[c] = "old" -> {OldKey(c)} \ {NoName}
    [] pc[c] = "blob" -> {cur[c]}
    [] OTHER -> {}

\* The process dies, or a call of the request fails that nothing is done about:
\* the purge job could not be enqueued either.
Dies(c) ==
  /\ AtWork(c)
  /\ Fault
  /\ pc' = [pc EXCEPT ![c] = "done"]
  /\ leaked' = leaked \cup Due(c)
  /\ UNCHANGED <<storeVars, jobVars, op, name, cur, raced, reused>>

Request(c) ==
  \/ PutBlob(c) \/ WriteRow(c) \/ RemoveOld(c) \/ UpdateMeta(c)
  \/ DeleteRow(c) \/ DeleteBlob(c) \/ Emit(c)

-----------------------------------------------------------------------------
(* AttachmentPurgeJob, run by the worker. *)

ClaimPurge(k) ==
  /\ purge[k] = "pending"
  /\ purge' = [purge EXCEPT ![k] = "running"]
  /\ UNCHANGED <<storeVars, tries, requestVars, faults, histVars>>

\* The object goes, whatever row may have its key by now.
PurgeBlob(k) ==
  /\ purge[k] = "running"
  /\ purge' = [purge EXCEPT ![k] = "purged"]
  /\ blobs' = blobs \ {k}
  /\ UNCHANGED <<row, tries, requestVars, faults, histVars>>

CompletePurge(k) ==
  /\ purge[k] = "purged"
  /\ purge' = [purge EXCEPT ![k] = "succeeded"]
  /\ UNCHANGED <<storeVars, tries, requestVars, faults, histVars>>

\* The store fails: the job is retried, MaxTries times.
PurgeFails(k) ==
  /\ purge[k] = "running"
  /\ Fault
  /\ tries' = [tries EXCEPT ![k] = @ + 1]
  /\ purge' = [purge EXCEPT ![k] = IF tries[k] + 1 < MaxTries THEN "pending" ELSE "failed"]
  /\ UNCHANGED <<storeVars, requestVars, histVars>>

\* The worker process starts again.
Restart ==
  /\ \E k \in Names : purge[k] \in {"running", "purged"}
  /\ Fault
  /\ purge' = [k \in Names |-> IF purge[k] \in {"running", "purged"} THEN "pending" ELSE purge[k]]
  /\ UNCHANGED <<storeVars, tries, requestVars, histVars>>

Worker(k) == ClaimPurge(k) \/ PurgeBlob(k) \/ CompletePurge(k)

Ops == {"create", "replace", "describe", "delete"}

Next ==
  \/ \E c \in Callers :
       \/ \E o \in Ops, n \in Names : Begin(c, o, n)
       \/ Request(c)
       \/ RowFails(c) \/ RemoveOldFails(c) \/ DeleteBlobFails(c) \/ Dies(c)
  \/ \E k \in Names : Worker(k) \/ PurgeFails(k)
  \/ Restart

Spec == Init /\ [][Next]_attachmentVars

\* A request that is served goes on; so does the worker loop.
Fairness ==
  /\ \A c \in Callers : WF_attachmentVars(Request(c))
  /\ \A k \in Names : WF_attachmentVars(Worker(k))

FairSpec == Spec /\ Fairness

-----------------------------------------------------------------------------
(* Properties. *)

\* A row has its blob, whatever fails or overlaps, as long as its key was not
\* written again while a removal of that key was due.
RowKeepsBlob == row \in Names => row \in blobs \/ row \in reused

\* In the end no blob is left without a row, unless its removal was lost with a
\* process, its job was used up, or requests overlapped.
OrphansPurged ==
  <>[](\A k \in blobs : k = row \/ k \in leaked \/ purge[k] = "failed" \/ raced)
=============================================================================
