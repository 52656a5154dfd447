---------------------------- MODULE FileRetention -----------------------------
(* The uploaded payment files: one physical object per content, rows that say  *)
(* whether it is kept, a reference per batch with an expiry of its own, and    *)
(* the cleanup sweep of the worker.  Upload and rerun requests of the API run  *)
(* beside the sweep on the same volume and database; a step is one file        *)
(* operation, one read, or one commit.                                         *)
EXTENDS Naturals, FiniteSets

CONSTANTS
    Files,      \* file contents (their SHA-256)
    Uploads,    \* upload requests; a request's batch goes by its name
    Reruns,     \* rerun requests, likewise
    NoFile,     \* names no content
    NoBatch,    \* names no batch
    FileOf,     \* the content each upload carries
    Aging,      \* batches whose results expire within the history looked at
    MaxCrashes  \* bound: interrupted sweeps and requests

Batches == Uploads \cup Reruns

ASSUME RetentionAssumption ==
    /\ Uploads \cap Reruns = {}
    /\ NoFile \notin Files
    /\ NoBatch \notin Batches
    /\ FileOf \in [Uploads -> Files]
    /\ Aging \subseteq Batches
    /\ MaxCrashes \in Nat

VARIABLES
    disk,     \* contents in the storage directory
    object,   \* stored_file_objects: none, live, or deleted (deleted_at set)
    batch,    \* reconciliation_batches: none, open, ended, or dead (failed or
              \* cancelled: no bar to a new batch for the same comparison)
    ref,      \* stored_file_references: none, valid, or expired
    file,     \* the content a batch's reference names
    aged,     \* batches past result_expires_at
    pc,       \* where each request stands
    mem,      \* the object row as an upload read it
    from,     \* the batch a rerun in flight copies and holds a lock on
    sweep,    \* the sweep in progress: its step, the references and the batches
              \* it deletes, the orphans it found, those it has still to unlink
    crashes,
    tainted   \* history: requests that ran beside a sweep, or copied from one

rows == <<object, batch, ref, file, aged>>
requests == <<pc, mem, from>>
vars == <<disk, object, batch, ref, file, aged, pc, mem, from, sweep,
          crashes, tainted>>

ObjectState == {"none", "live", "deleted"}
NoSweep == [step |-> "idle", gone |-> {}, dropped |-> {},
            orphans |-> {}, left |-> {}]

TypeOK ==
    /\ disk \subseteq Files
    /\ object \in [Files -> ObjectState]
    /\ batch \in [Batches -> {"none", "open", "ended", "dead"}]
    /\ ref \in [Batches -> {"none", "valid", "expired"}]
    /\ file \in [Batches -> Files \cup {NoFile}]
    /\ \A b \in Batches :
          ref[b] # "none" => batch[b] # "none" /\ file[b] \in Files
    /\ aged \subseteq Batches
    /\ pc \in [Batches -> {"start", "stored", "unmatched", "read", "done"}]
    /\ mem \in [Batches -> ObjectState]
    /\ from \in [Batches -> Batches \cup {NoBatch}]
    /\ sweep \in [step : {"idle", "expired", "unlinking"}, gone : SUBSET Batches,
                  dropped : SUBSET Batches, orphans : SUBSET Files,
                  left : SUBSET Files]
    /\ crashes \in 0..MaxCrashes
    /\ tainted \subseteq Batches

Init ==
    /\ disk = {}
    /\ object = [f \in Files |-> "none"]
    /\ batch = [b \in Batches |-> "none"]
    /\ ref = [b \in Batches |-> "none"]
    /\ file = [b \in Batches |-> NoFile]
    /\ aged = {}
    /\ pc = [b \in Batches |-> "start"]
    /\ mem = [b \in Batches |-> "none"]
    /\ from = [b \in Batches |-> NoBatch]
    /\ sweep = NoSweep
    /\ crashes = 0
    /\ tainted = {}

InFlight(b) == pc[b] \notin {"start", "done"}
Goto(b, step) == pc' = [pc EXCEPT ![b] = step]

\* The request has answered, or failed, and keeps nothing.
Leave(b) ==
    /\ Goto(b, "done")
    /\ mem' = [mem EXCEPT ![b] = "none"]
    /\ from' = [from EXCEPT ![b] = NoBatch]

\* Bookkeeping for the history: a request step beside a sweep.
Note(b) == tainted' = IF sweep.step = "idle" THEN tainted ELSE tainted \cup {b}

-------------------------------------------------------------------------------
(* Upload requests: create_batch_from_upload.                                  *)

\* store_upload keeps the copy that is there, or moves the new one into place.
Store(u) ==
    /\ u \in Uploads
    /\ pc[u] = "start"
    /\ disk' = disk \cup {FileOf[u]}
    /\ Goto(u, "stored")
    /\ Note(u)
    /\ UNCHANGED <<rows, mem, from, sweep, crashes>>

\* The same comparison exists and did not fail: its batch is the answer, and the
\* file just stored gets no reference.  A comparison of the same content with
\* other parameters is another one.
AnswerExisting(u) ==
    /\ pc[u] = "stored"
    /\ \E b \in Batches : batch[b] \in {"open", "ended"} /\ file[b] = FileOf[u]
    /\ Leave(u)
    /\ UNCHANGED <<disk, rows, sweep, crashes, tainted>>

FindNone(u) ==
    /\ pc[u] = "stored"
    /\ Goto(u, "unmatched")
    /\ Note(u)
    /\ UNCHANGED <<disk, rows, mem, from, sweep, crashes>>

ReadObject(u) ==
    /\ pc[u] = "unmatched"
    /\ mem' = [mem EXCEPT ![u] = object[FileOf[u]]]
    /\ Goto(u, "read")
    /\ Note(u)
    /\ UNCHANGED <<disk, rows, from, sweep, crashes>>

\* Mutation: an object marked deleted is taken as it is.
AdoptedAsRead(u) == IF mem[u] = "none" THEN "live" ELSE object[FileOf[u]]

\* What the commit makes of the object row, from the copy that was read: insert
\* it, clear deleted_at, or leave it as it is.
Adopted(u) == IF mem[u] = "live" THEN object[FileOf[u]] ELSE "live"

AddBatch(b, f) ==
    /\ batch' = [batch EXCEPT ![b] = "open"]
    /\ ref' = [ref EXCEPT ![b] = "valid"]
    /\ file' = [file EXCEPT ![b] = f]
    /\ Leave(b)

CommitUpload(u) ==
    /\ u \in Uploads
    /\ pc[u] = "read"
    /\ mem[u] = "none" => object[FileOf[u]] = "none"
    /\ object' = [object EXCEPT ![FileOf[u]] = Adopted(u)]
    /\ AddBatch(u, FileOf[u])
    /\ Note(u)
    /\ UNCHANGED <<disk, aged, sweep, crashes>>

\* Another upload inserted the object first: content_sha256 is unique.
RefuseUpload(u) ==
    /\ u \in Uploads
    /\ pc[u] = "read"
    /\ mem[u] = "none" /\ object[FileOf[u]] # "none"
    /\ Leave(u)
    /\ UNCHANGED <<disk, rows, sweep, crashes, tainted>>

-------------------------------------------------------------------------------
(* Rerun requests: rerun_batch copies the reference of an ended batch, if it   *)
(* has not expired.                                                            *)

\* The new batch, inserted before the reference is read, refers to the batch it
\* repeats: a share lock on that row, which the sweep's DELETE conflicts with.
ReadReference(r) ==
    /\ r \in Reruns
    /\ pc[r] = "start"
    /\ \E b \in Batches :
          /\ batch[b] \in {"ended", "dead"}
          /\ ref[b] = "valid"
          /\ sweep.step = "unlinking" => b \notin sweep.dropped
          /\ from' = [from EXCEPT ![r] = b]
          /\ tainted' = IF b \in tainted \cup aged \/ sweep.step # "idle"
                          THEN tainted \cup {r} ELSE tainted
    /\ Goto(r, "read")
    /\ UNCHANGED <<disk, rows, mem, sweep, crashes>>

CommitRerun(r) ==
    /\ r \in Reruns
    /\ pc[r] = "read"
    /\ AddBatch(r, file[from[r]])
    /\ Note(r)
    /\ UNCHANGED <<disk, object, aged, sweep, crashes>>

\* A request in flight fails or its process dies: what it stored stays.
RequestCrash(b) ==
    /\ InFlight(b)
    /\ crashes < MaxCrashes
    /\ crashes' = crashes + 1
    /\ Leave(b)
    /\ UNCHANGED <<disk, rows, sweep, tainted>>

-------------------------------------------------------------------------------
(* Time, and the execution of batches.                                         *)

End(b) ==
    /\ batch[b] = "open"
    /\ \E s \in {"ended", "dead"} : batch' = [batch EXCEPT ![b] = s]
    /\ UNCHANGED <<disk, object, ref, file, aged, requests, sweep, crashes, tainted>>

Expire(b) ==
    /\ ref[b] = "valid"
    /\ ref' = [ref EXCEPT ![b] = "expired"]
    /\ UNCHANGED <<disk, object, batch, file, aged, requests, sweep, crashes, tainted>>

Age(b) ==
    /\ b \in Aging \ aged
    /\ batch[b] # "none"
    /\ aged' = aged \cup {b}
    /\ UNCHANGED <<disk, object, batch, ref, file, requests, sweep, crashes, tainted>>

-------------------------------------------------------------------------------
(* The sweep: cleanup_expired_data, one database transaction.                  *)

\* Mutation: a reference is left to its batch's expiry.
ExpiredWithBatch ==
    {b \in Batches : ref[b] = "expired" /\ b \in aged}

\* Expired references and batches past their expiry, whatever their status, as
\* of the start of the sweep; references go with their batch.
Expired ==
    {b \in Batches : ref[b] = "expired"}
Dropped ==
    {b \in Batches : batch[b] # "none" /\ b \in aged}

SelectExpired ==
    /\ sweep.step = "idle"
    /\ sweep' = [NoSweep EXCEPT !.step = "expired", !.gone = Expired \cup Dropped,
                                !.dropped = Dropped]
    /\ tainted' = tainted \cup {b \in Batches : InFlight(b)}
    /\ UNCHANGED <<disk, rows, requests, crashes>>

References(f) == {b \in Batches : ref[b] # "none" /\ file[b] = f}

Orphans == {f \in Files : object[f] = "live" /\ References(f) \subseteq sweep.gone}

\* The batches are deleted in the transaction once no rerun holds a lock on one;
\* then the objects are found that no committed reference names but those deleted.
SelectOrphans ==
    /\ sweep.step = "expired"
    /\ \A r \in Reruns : InFlight(r) => from[r] \notin sweep.dropped
    /\ sweep' = [sweep EXCEPT !.step = "unlinking", !.orphans = Orphans,
                              !.left = Orphans]
    /\ UNCHANGED <<disk, rows, requests, crashes, tainted>>

Unlink(f) ==
    /\ sweep.step = "unlinking"
    /\ f \in sweep.left
    /\ disk' = disk \ {f}
    /\ sweep' = [sweep EXCEPT !.left = @ \ {f}]
    /\ UNCHANGED <<rows, requests, crashes, tainted>>

\* Mutation: batches are deleted without their references.
SweptNoCascade ==
    /\ ref' = [b \in Batches |->
                  IF b \in sweep.gone /\ ref[b] = "expired" THEN "none" ELSE ref[b]]
    /\ batch' = [b \in Batches |-> IF b \in sweep.dropped THEN "none" ELSE batch[b]]
    /\ file' = [b \in Batches |-> IF b \in sweep.dropped THEN NoFile ELSE file[b]]
    /\ aged' = aged \ sweep.dropped
    /\ object' = [f \in Files |->
                    IF f \in sweep.orphans THEN "deleted" ELSE object[f]]

\* What the transaction makes of the tables.
Swept ==
    /\ ref' = [b \in Batches |-> IF b \in sweep.gone THEN "none" ELSE ref[b]]
    /\ batch' = [b \in Batches |-> IF b \in sweep.dropped THEN "none" ELSE batch[b]]
    /\ file' = [b \in Batches |-> IF b \in sweep.dropped THEN NoFile ELSE file[b]]
    /\ aged' = aged \ sweep.dropped
    /\ object' = [f \in Files |->
                    IF f \in sweep.orphans THEN "deleted" ELSE object[f]]

\* Mutation: an unlink that fails is passed over.
CommitUnfinished ==
    /\ sweep.step = "unlinking"
    /\ Swept
    /\ sweep' = NoSweep
    /\ UNCHANGED <<disk, requests, crashes, tainted>>

CommitSweep ==
    /\ sweep.step = "unlinking"
    /\ sweep.left = {}
    /\ Swept
    /\ sweep' = NoSweep
    /\ UNCHANGED <<disk, requests, crashes, tainted>>

\* The worker dies, or an unlink fails: the transaction is rolled back, the files
\* unlinked so far are gone.
SweepCrash ==
    /\ sweep.step # "idle"
    /\ crashes < MaxCrashes
    /\ crashes' = crashes + 1
    /\ sweep' = NoSweep
    /\ UNCHANGED <<disk, rows, requests, tainted>>

RequestStep(b) ==
    \/ Store(b) \/ AnswerExisting(b) \/ FindNone(b) \/ ReadObject(b)
    \/ CommitUpload(b) \/ RefuseUpload(b)
    \/ ReadReference(b) \/ CommitRerun(b)

SweepStep ==
    \/ SelectExpired \/ SelectOrphans \/ CommitSweep
    \/ \E f \in Files : Unlink(f)

Next ==
    \/ \E b \in Batches : RequestStep(b) \/ RequestCrash(b)
    \/ \E b \in Batches : End(b) \/ Expire(b) \/ Age(b)
    \/ SweepStep
    \/ SweepCrash

Spec == Init /\ [][Next]_vars

\* The worker sweeps every half hour, and a request in flight goes on.
FairSpec ==
    /\ Spec
    /\ WF_vars(SweepStep)
    /\ \A b \in Batches : WF_vars(InFlight(b) /\ RequestStep(b))

-------------------------------------------------------------------------------
(* Properties.                                                                 *)

Kept(b) == object[file[b]] = "live" /\ file[b] \in disk

\* A batch whose request did not run beside a sweep has its file for as long as
\* its reference is valid and its results are kept: no later sweep, finished or
\* interrupted, and no other upload of the content takes it away.
UndisturbedFileKept ==
    \A b \in Batches : ref[b] = "valid" /\ b \notin tainted \cup aged => Kept(b)

\* "The physical object may be cleaned only once it has no valid reference", of
\* cleanup_expired_data beside uploads.
ReferencedFileKept ==
    \A b \in Batches : ref[b] = "valid" /\ b \notin aged => Kept(b)

\* Every expired reference is removed in the end, interrupted sweeps or not.
ExpiredReferenceRemoved ==
    \A b \in Batches : ref[b] = "expired" ~> ref[b] = "none"

\* The bytes of an object the database calls live leave the disk once every
\* reference to it has expired, unless a batch refers to it anew or an upload put
\* it back beside a sweep: sharing an object between batches, or an interrupted
\* sweep, does not make it immortal.
ValidReferences(f) == {b \in References(f) : ref[b] = "valid"}

OrphanCollected ==
    \A f \in Files :
        object[f] = "live" /\ ValidReferences(f) = {}
            ~> \/ f \notin disk
               \/ ValidReferences(f) # {}
               \/ \E u \in Uploads \cap tainted : FileOf[u] = f
===============================================================================
