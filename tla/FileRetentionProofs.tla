-------------------------- MODULE FileRetentionProofs --------------------------
(* Theorems about FileRetention, for any contents, uploads, reruns and sweeps. *)
EXTENDS FileRetention, TLAPS

-------------------------------------------------------------------------------
(* The inductive invariant.                                                    *)

\* What a request in flight has found and may rely on.  One that no sweep ran
\* beside still has its file on disk, and the object row or the batch as read.
Flights ==
    \A b \in Batches :
        /\ pc[b] # "done" => batch[b] = "none" /\ ref[b] = "none" /\ b \notin aged
        /\ pc[b] \in {"stored", "unmatched"} => b \in Uploads
        /\ b \in Reruns /\ InFlight(b) =>
              from[b] \in Batches /\ pc[from[b]] = "done" /\ file[from[b]] \in Files
        /\ InFlight(b) /\ b \notin tainted =>
              /\ sweep.step = "idle"
              /\ b \in Uploads => FileOf[b] \in disk
              /\ b \in Uploads /\ pc[b] = "read" /\ mem[b] = "live" =>
                    object[FileOf[b]] = "live"
              /\ b \in Reruns => Kept(from[b])

\* What a sweep deletes is expired; what it unlinks is nobody's but such a batch's,
\* and the batches it deletes are not those a rerun copies.
Sweeping ==
    sweep.step # "idle" =>
        /\ sweep.dropped \subseteq sweep.gone
        /\ \A b \in sweep.gone : ref[b] = "expired" \/ b \in aged
        /\ sweep.step = "unlinking" =>
              /\ sweep.left \subseteq sweep.orphans
              /\ \A r \in Reruns : InFlight(r) => from[r] \notin sweep.dropped
              /\ \A b \in Batches : ref[b] = "valid" /\ b \notin tainted \cup aged =>
                    file[b] \notin sweep.orphans

Inv == TypeOK /\ Flights /\ Sweeping /\ UndisturbedFileKept

LEMMA InitInv == ASSUME Init PROVE Inv
  <1>1. TypeOK
    BY RetentionAssumption DEF Init, TypeOK, ObjectState, NoSweep
  <1>2. Flights /\ Sweeping /\ UndisturbedFileKept
    BY DEF Init, Flights, Sweeping, UndisturbedFileKept, InFlight, NoSweep
  <1> QED
    BY <1>1, <1>2 DEF Inv

LEMMA SweepType ==
    ASSUME TypeOK
    PROVE  /\ sweep.step \in {"idle", "expired", "unlinking"}
           /\ sweep.gone \subseteq Batches /\ sweep.dropped \subseteq Batches
           /\ sweep.orphans \subseteq Files /\ sweep.left \subseteq Files
  BY DEF TypeOK

-------------------------------------------------------------------------------
(* Requests.                                                                   *)

\* A request step that adds no batch.
LEMMA RequestGoesOn ==
    ASSUME Inv, NEW b \in Batches, UNCHANGED <<rows, sweep>>,
           crashes' \in 0..MaxCrashes, disk \subseteq disk', disk' \subseteq Files,
           tainted \subseteq tainted', tainted' \subseteq tainted \cup {b},
           pc[b] # "done",
           NEW step \in {"stored", "unmatched", "read", "done"}, Goto(b, step),
           mem' \in [Batches -> ObjectState],
           from' \in [Batches -> Batches \cup {NoBatch}],
           \A c \in Batches \ {b} : mem'[c] = mem[c] /\ from'[c] = from[c],
           step \in {"stored", "unmatched"} => b \in Uploads,
           step # "done" =>
               /\ b \in Reruns =>
                     /\ from'[b] \in Batches /\ pc[from'[b]] = "done"
                     /\ file[from'[b]] \in Files
                     /\ sweep.step = "unlinking" => from'[b] \notin sweep.dropped
               /\ b \notin tainted' =>
                     /\ sweep.step = "idle"
                     /\ b \in Uploads => FileOf[b] \in disk'
                     /\ b \in Uploads /\ step = "read" /\ mem'[b] = "live" =>
                           object[FileOf[b]] = "live"
                     /\ b \in Reruns => Kept(from'[b])
    PROVE  Inv'
  <1>1. UNCHANGED <<object, batch, ref, file, aged>>
    BY DEF rows
  <1>2. \A c \in Batches : pc'[c] = IF c = b THEN step ELSE pc[c]
    BY DEF Inv, TypeOK, Goto
  <1>3. TypeOK'
    <2>1. pc' \in [Batches -> {"start", "stored", "unmatched", "read", "done"}]
      BY DEF Inv, TypeOK, Goto
    <2> QED
      BY <1>1, <2>1 DEF Inv, TypeOK
  <1>4. Flights'
    <2> SUFFICES ASSUME NEW c \in Batches
                 PROVE  /\ pc'[c] # "done" => batch'[c] = "none" /\ ref'[c] = "none" /\ c \notin aged'
                        /\ pc'[c] \in {"stored", "unmatched"} => c \in Uploads
                        /\ c \in Reruns /\ pc'[c] \notin {"start", "done"} =>
                              /\ from'[c] \in Batches /\ pc'[from'[c]] = "done"
                              /\ file'[from'[c]] \in Files
                        /\ pc'[c] \notin {"start", "done"} /\ c \notin tainted' =>
                              /\ sweep'.step = "idle"
                              /\ c \in Uploads => FileOf[c] \in disk'
                              /\ c \in Uploads /\ pc'[c] = "read" /\ mem'[c] = "live" =>
                                    object'[FileOf[c]] = "live"
                              /\ c \in Reruns => object'[file'[from'[c]]] = "live"
                                                 /\ file'[from'[c]] \in disk'
      BY DEF Flights, InFlight, Kept
    <2>1. CASE c = b
      BY <1>1, <1>2, <2>1 DEF Inv, Flights, Kept
    <2>2. CASE c # b
      BY <1>1, <1>2, <2>2 DEF Inv, Flights, InFlight, Kept
    <2> QED
      BY <2>1, <2>2
  <1>5. Sweeping'
    <2>1. sweep.step = "unlinking" =>
              \A r \in Reruns : pc'[r] \notin {"start", "done"} => from'[r] \notin sweep.dropped
      <3> SUFFICES ASSUME sweep.step = "unlinking", NEW r \in Reruns,
                          pc'[r] \notin {"start", "done"}
                   PROVE  from'[r] \notin sweep.dropped
        OBVIOUS
      <3>1. r \in Batches
        BY DEF Batches
      <3>2. CASE r = b
        BY <1>2, <3>1, <3>2
      <3>3. CASE r # b
        BY <1>2, <3>1, <3>3 DEF Inv, Sweeping, InFlight
      <3> QED
        BY <3>2, <3>3
    <2> QED
      BY <1>1, <2>1 DEF Inv, Sweeping, InFlight
  <1>6. UndisturbedFileKept'
    BY <1>1 DEF Inv, UndisturbedFileKept, Kept
  <1> QED
    BY <1>3, <1>4, <1>5, <1>6 DEF Inv

LEMMA LeaveInv ==
    ASSUME Inv, NEW b \in Batches, Leave(b), pc[b] # "done",
           UNCHANGED <<disk, rows, sweep, tainted>>, crashes' \in 0..MaxCrashes
    PROVE  Inv'
  <1>1. /\ mem' \in [Batches -> ObjectState]
        /\ from' \in [Batches -> Batches \cup {NoBatch}]
        /\ \A c \in Batches \ {b} : mem'[c] = mem[c] /\ from'[c] = from[c]
    BY DEF Leave, Inv, TypeOK, ObjectState
  <1>2. disk \subseteq Files /\ Goto(b, "done")
    BY DEF Leave, Inv, TypeOK
  <1> QED
    BY <1>1, <1>2, RequestGoesOn

\* A commit adds the batch of a request, with a reference to f.
LEMMA AddBatchInv ==
    ASSUME Inv, NEW b \in Batches, NEW f \in Files, AddBatch(b, f), InFlight(b),
           Note(b), UNCHANGED <<disk, aged, sweep, crashes>>,
           object' \in [Files -> ObjectState],
           \A g \in Files : object[g] = "live" => object'[g] = "live",
           b \notin tainted => object'[f] = "live" /\ f \in disk
    PROVE  Inv'
  <1>1. \A c \in Batches :
            /\ batch'[c] = IF c = b THEN "open" ELSE batch[c]
            /\ ref'[c] = IF c = b THEN "valid" ELSE ref[c]
            /\ file'[c] = IF c = b THEN f ELSE file[c]
            /\ pc'[c] = IF c = b THEN "done" ELSE pc[c]
            /\ mem'[c] = IF c = b THEN "none" ELSE mem[c]
            /\ from'[c] = IF c = b THEN NoBatch ELSE from[c]
    BY DEF AddBatch, Leave, Goto, Inv, TypeOK
  <1>2. tainted' = IF sweep.step = "idle" THEN tainted ELSE tainted \cup {b}
    BY DEF Note
  <1>3. batch[b] = "none" /\ ref[b] = "none" /\ b \notin aged
    BY DEF Inv, Flights, InFlight
  <1>4. TypeOK'
    <2>1. /\ batch' \in [Batches -> {"none", "open", "ended", "dead"}]
          /\ ref' \in [Batches -> {"none", "valid", "expired"}]
          /\ file' \in [Batches -> Files \cup {NoFile}]
      BY DEF AddBatch, Inv, TypeOK
    <2>2. /\ pc' \in [Batches -> {"start", "stored", "unmatched", "read", "done"}]
          /\ mem' \in [Batches -> ObjectState]
          /\ from' \in [Batches -> Batches \cup {NoBatch}]
      BY DEF AddBatch, Leave, Goto, Inv, TypeOK, ObjectState
    <2>3. \A c \in Batches : ref'[c] # "none" => batch'[c] # "none" /\ file'[c] \in Files
      BY <1>1 DEF Inv, TypeOK
    <2>4. tainted' \subseteq Batches
      BY <1>2 DEF Inv, TypeOK
    <2> QED
      BY <2>1, <2>2, <2>3, <2>4 DEF Inv, TypeOK
  <1>5. Flights'
    <2> SUFFICES ASSUME NEW c \in Batches
                 PROVE  /\ pc'[c] # "done" => batch'[c] = "none" /\ ref'[c] = "none" /\ c \notin aged'
                        /\ pc'[c] \in {"stored", "unmatched"} => c \in Uploads
                        /\ c \in Reruns /\ pc'[c] \notin {"start", "done"} =>
                              /\ from'[c] \in Batches /\ pc'[from'[c]] = "done"
                              /\ file'[from'[c]] \in Files
                        /\ pc'[c] \notin {"start", "done"} /\ c \notin tainted' =>
                              /\ sweep'.step = "idle"
                              /\ c \in Uploads => FileOf[c] \in disk'
                              /\ c \in Uploads /\ pc'[c] = "read" /\ mem'[c] = "live" =>
                                    object'[FileOf[c]] = "live"
                              /\ c \in Reruns => object'[file'[from'[c]]] = "live"
                                                 /\ file'[from'[c]] \in disk'
      BY DEF Flights, InFlight, Kept
    <2>1. CASE pc'[c] \in {"start", "done"}
      BY <1>1, <2>1 DEF Inv, Flights
    <2>2. CASE pc'[c] \notin {"start", "done"}
      <3>1. c # b /\ InFlight(c) /\ pc'[c] = pc[c] /\ mem'[c] = mem[c] /\ from'[c] = from[c]
        BY <1>1, <2>2 DEF InFlight
      <3>2. c \in Reruns => from[c] # b /\ file'[from[c]] = file[from[c]]
        BY <1>1, <3>1 DEF Inv, Flights, InFlight
      <3>3. c \in Uploads => FileOf[c] \in Files
        BY RetentionAssumption
      <3> QED
        BY <1>1, <1>2, <3>1, <3>2, <3>3 DEF Inv, Flights, Kept
    <2> QED
      BY <2>1, <2>2
  <1>6. Sweeping'
    <2>1. b \notin sweep.gone \/ sweep.step = "idle"
      BY <1>3 DEF Inv, Sweeping
    <2>2. sweep.gone \subseteq Batches
      BY SweepType DEF Inv
    <2>3. \A r \in Reruns : r \in Batches
      BY DEF Batches
    <2> QED
      BY <1>1, <1>2, <2>1, <2>2, <2>3 DEF Inv, Sweeping, InFlight
  <1>7. UndisturbedFileKept'
    <2> SUFFICES ASSUME NEW c \in Batches, ref'[c] = "valid", c \notin tainted' \cup aged'
                 PROVE  object'[file'[c]] = "live" /\ file'[c] \in disk'
      BY DEF UndisturbedFileKept, Kept
    <2>1. CASE c = b
      BY <1>1, <1>2, <2>1
    <2>2. CASE c # b
      BY <1>1, <1>2, <2>2 DEF Inv, TypeOK, UndisturbedFileKept, Kept
    <2> QED
      BY <2>1, <2>2
  <1> QED
    BY <1>4, <1>5, <1>6, <1>7 DEF Inv

LEMMA RequestStepInv ==
    ASSUME Inv, NEW b \in Batches, RequestStep(b) PROVE Inv'
  <1>0. /\ crashes \in 0..MaxCrashes /\ disk \subseteq Files
        /\ mem \in [Batches -> ObjectState]
        /\ from \in [Batches -> Batches \cup {NoBatch}]
        /\ object \in [Files -> ObjectState]
    BY DEF Inv, TypeOK
  <1>1. CASE Store(b)
    <2>1. FileOf[b] \in Files /\ b \notin Reruns
      BY <1>1, RetentionAssumption DEF Store
    <2>2. /\ pc[b] # "done" /\ Goto(b, "stored") /\ b \in Uploads
          /\ disk' = disk \cup {FileOf[b]} /\ UNCHANGED <<rows, mem, from, sweep, crashes>>
          /\ tainted' = IF sweep.step = "idle" THEN tainted ELSE tainted \cup {b}
      BY <1>1 DEF Store, Note
    <2> QED
      BY <1>0, <2>1, <2>2, RequestGoesOn
  <1>2. CASE AnswerExisting(b)
    BY <1>0, <1>2, LeaveInv DEF AnswerExisting
  <1>3. CASE FindNone(b)
    <2>1. /\ pc[b] = "stored" /\ Goto(b, "unmatched")
          /\ UNCHANGED <<disk, rows, mem, from, sweep, crashes>>
          /\ tainted' = IF sweep.step = "idle" THEN tainted ELSE tainted \cup {b}
      BY <1>3 DEF FindNone, Note
    <2>2. b \in Uploads /\ b \notin Reruns
      BY <2>1, RetentionAssumption DEF Inv, Flights
    <2>3. b \notin tainted => FileOf[b] \in disk
      BY <2>1, <2>2 DEF Inv, Flights, InFlight
    <2> QED
      BY <1>0, <2>1, <2>2, <2>3, RequestGoesOn
  <1>4. CASE ReadObject(b)
    <2>1. /\ pc[b] = "unmatched" /\ Goto(b, "read")
          /\ mem' = [mem EXCEPT ![b] = object[FileOf[b]]]
          /\ UNCHANGED <<disk, rows, from, sweep, crashes>>
          /\ tainted' = IF sweep.step = "idle" THEN tainted ELSE tainted \cup {b}
      BY <1>4 DEF ReadObject, Note
    <2>2. b \in Uploads /\ b \notin Reruns /\ FileOf[b] \in Files
      BY <2>1, RetentionAssumption DEF Inv, Flights
    <2>3. b \notin tainted => FileOf[b] \in disk
      BY <2>1, <2>2 DEF Inv, Flights, InFlight
    <2>4. mem' \in [Batches -> ObjectState] /\ mem'[b] = object[FileOf[b]]
      BY <1>0, <2>1, <2>2
    <2>5. \A c \in Batches \ {b} : mem'[c] = mem[c]
      BY <1>0, <2>1
    <2> QED
      BY <1>0, <2>1, <2>2, <2>3, <2>4, <2>5, RequestGoesOn
  <1>5. CASE CommitUpload(b)
    <2>1. /\ b \in Uploads /\ pc[b] = "read"
          /\ object' = [object EXCEPT ![FileOf[b]] = Adopted(b)]
          /\ AddBatch(b, FileOf[b]) /\ Note(b) /\ UNCHANGED <<disk, aged, sweep, crashes>>
      BY <1>5 DEF CommitUpload
    <2>2. FileOf[b] \in Files /\ Adopted(b) \in ObjectState
      BY <1>0, <2>1, RetentionAssumption DEF Adopted, ObjectState
    <2>3. Adopted(b) = "live" \/ (mem[b] = "live" /\ Adopted(b) = object[FileOf[b]])
      BY DEF Adopted
    <2>4. object' \in [Files -> ObjectState]
      BY <1>0, <2>1, <2>2
    <2>5. \A g \in Files : object[g] = "live" => object'[g] = "live"
      BY <1>0, <2>1, <2>2, <2>3
    <2>6. b \notin tainted => object'[FileOf[b]] = "live" /\ FileOf[b] \in disk
      BY <1>0, <2>1, <2>2, <2>3 DEF Inv, Flights, InFlight
    <2>7. InFlight(b)
      BY <2>1 DEF InFlight
    <2> QED
      BY <2>1, <2>2, <2>4, <2>5, <2>6, <2>7, AddBatchInv
  <1>6. CASE RefuseUpload(b)
    BY <1>0, <1>6, LeaveInv DEF RefuseUpload
  <1>7. CASE ReadReference(b)
    <2>1. /\ b \in Reruns /\ pc[b] = "start" /\ Goto(b, "read")
          /\ UNCHANGED <<disk, rows, mem, sweep, crashes>>
      BY <1>7 DEF ReadReference
    <2>2. PICK c \in Batches :
              /\ ref[c] = "valid"
              /\ sweep.step = "unlinking" => c \notin sweep.dropped
              /\ from' = [from EXCEPT ![b] = c]
              /\ tainted' = IF c \in tainted \cup aged \/ sweep.step # "idle"
                              THEN tainted \cup {b} ELSE tainted
      BY <1>7 DEF ReadReference
    <2>3. pc[c] = "done" /\ file[c] \in Files
      BY <2>2 DEF Inv, Flights, TypeOK
    <2>4. c \notin tainted \cup aged => Kept(c)
      BY <2>2 DEF Inv, UndisturbedFileKept
    <2>5. /\ from' \in [Batches -> Batches \cup {NoBatch}] /\ from'[b] = c
          /\ \A d \in Batches \ {b} : from'[d] = from[d]
      BY <1>0, <2>2
    <2>6. b \notin Uploads
      BY <2>1, RetentionAssumption
    <2>7. /\ tainted \subseteq tainted' /\ tainted' \subseteq tainted \cup {b}
          /\ b \notin tainted' => sweep.step = "idle" /\ Kept(c)
      BY <2>2, <2>4
    <2> QED
      BY <1>0, <2>1, <2>2, <2>3, <2>5, <2>6, <2>7, RequestGoesOn
  <1>8. CASE CommitRerun(b)
    <2>1. /\ b \in Reruns /\ pc[b] = "read" /\ InFlight(b)
          /\ AddBatch(b, file[from[b]]) /\ Note(b)
          /\ UNCHANGED <<disk, object, aged, sweep, crashes>>
      BY <1>8 DEF CommitRerun, InFlight
    <2>2. /\ file[from[b]] \in Files
          /\ b \notin tainted => Kept(from[b])
      BY <2>1 DEF Inv, Flights
    <2> QED
      BY <1>0, <2>1, <2>2, AddBatchInv DEF Kept
  <1> QED
    BY <1>1, <1>2, <1>3, <1>4, <1>5, <1>6, <1>7, <1>8 DEF RequestStep

LEMMA CrashInv == ASSUME Inv, NEW b \in Batches, RequestCrash(b) PROVE Inv'
  <1>1. crashes' \in 0..MaxCrashes
    BY RetentionAssumption DEF RequestCrash, Inv, TypeOK
  <1> QED
    BY <1>1, LeaveInv DEF RequestCrash, InFlight

-------------------------------------------------------------------------------
(* Time.                                                                       *)

LEMMA TimeInv ==
    ASSUME Inv, NEW b \in Batches, End(b) \/ Expire(b) \/ Age(b) PROVE Inv'
  <1>1. /\ UNCHANGED <<disk, object, file, pc, mem, from, sweep, crashes, tainted>>
        /\ \A c \in Batches :
              /\ batch'[c] = batch[c] \/ (batch[c] = "open" /\ batch'[c] \in {"ended", "dead"})
              /\ ref'[c] = ref[c] \/ (ref[c] = "valid" /\ ref'[c] = "expired")
              /\ c \in aged => c \in aged'
              /\ c \in aged' => c \in aged \/ batch[c] # "none"
    BY DEF End, Expire, Age, requests, Inv, TypeOK
  <1>2. TypeOK'
    <2>1. /\ batch' \in [Batches -> {"none", "open", "ended", "dead"}]
          /\ ref' \in [Batches -> {"none", "valid", "expired"}]
          /\ aged' \subseteq Batches
      BY DEF End, Expire, Age, Inv, TypeOK
    <2> QED
      BY <1>1, <2>1 DEF Inv, TypeOK
  <1>3. Flights'
    BY <1>1 DEF Inv, Flights, InFlight, Kept
  <1>4. Sweeping'
    <2>1. sweep.gone \subseteq Batches
      BY SweepType DEF Inv
    <2> QED
      BY <1>1, <2>1 DEF Inv, Sweeping, InFlight
  <1>5. UndisturbedFileKept'
    BY <1>1 DEF Inv, UndisturbedFileKept, Kept
  <1> QED
    BY <1>2, <1>3, <1>4, <1>5 DEF Inv

-------------------------------------------------------------------------------
(* The sweep.                                                                  *)

\* Whoever is in flight while a sweep runs is marked.
LEMMA MarkedBeside ==
    ASSUME Inv, sweep.step # "idle" PROVE \A b \in Batches : InFlight(b) => b \in tainted
  BY DEF Inv, Flights

LEMMA SelectExpiredInv == ASSUME Inv, SelectExpired PROVE Inv'
  <1>1. /\ UNCHANGED <<disk, object, batch, ref, file, aged, pc, mem, from, crashes>>
        /\ tainted' = tainted \cup {b \in Batches : InFlight(b)}
        /\ sweep' = [NoSweep EXCEPT !.step = "expired", !.gone = Expired \cup Dropped,
                                    !.dropped = Dropped]
    BY DEF SelectExpired, rows, requests
  <1>2. /\ sweep'.step = "expired" /\ sweep'.gone = Expired \cup Dropped
        /\ sweep'.dropped = Dropped
    BY <1>1 DEF NoSweep
  <1>3. TypeOK'
    <2>1. sweep' \in [step : {"idle", "expired", "unlinking"}, gone : SUBSET Batches,
                      dropped : SUBSET Batches, orphans : SUBSET Files,
                      left : SUBSET Files]
      BY <1>1 DEF NoSweep, Expired, Dropped
    <2>2. tainted' \subseteq Batches
      BY <1>1 DEF Inv, TypeOK
    <2> QED
      BY <1>1, <2>1, <2>2 DEF Inv, TypeOK
  <1>4. Flights'
    BY <1>1 DEF Inv, Flights, InFlight
  <1>5. Sweeping'
    BY <1>1, <1>2 DEF Sweeping, Expired, Dropped
  <1>6. UndisturbedFileKept'
    BY <1>1 DEF Inv, UndisturbedFileKept, Kept
  <1> QED
    BY <1>3, <1>4, <1>5, <1>6 DEF Inv

LEMMA SelectOrphansInv == ASSUME Inv, SelectOrphans PROVE Inv'
  <1>1. /\ UNCHANGED <<disk, object, batch, ref, file, aged, pc, mem, from, crashes, tainted>>
        /\ sweep.step = "expired"
        /\ \A r \in Reruns : InFlight(r) => from[r] \notin sweep.dropped
        /\ sweep' = [sweep EXCEPT !.step = "unlinking", !.orphans = Orphans, !.left = Orphans]
    BY DEF SelectOrphans, rows, requests
  <1>2. /\ sweep'.step = "unlinking" /\ sweep'.gone = sweep.gone
        /\ sweep'.dropped = sweep.dropped
        /\ sweep'.orphans = Orphans /\ sweep'.left = Orphans
    BY <1>1 DEF Inv, TypeOK
  <1>3. TypeOK'
    <2>1. sweep' \in [step : {"idle", "expired", "unlinking"}, gone : SUBSET Batches,
                      dropped : SUBSET Batches, orphans : SUBSET Files,
                      left : SUBSET Files]
      BY <1>1 DEF Inv, TypeOK, Orphans
    <2> QED
      BY <1>1, <2>1 DEF Inv, TypeOK
  <1>4. Flights'
    BY <1>1, MarkedBeside DEF Inv, Flights, InFlight
  <1>5. Sweeping'
    <2>1. ASSUME NEW b \in Batches, ref[b] = "valid", b \notin aged
          PROVE  file[b] \notin Orphans
      <3>1. b \notin sweep.gone
        BY <1>1, <2>1 DEF Inv, Sweeping
      <3>2. b \in References(file[b])
        BY <2>1 DEF References
      <3> QED
        BY <3>1, <3>2 DEF Orphans
    <2> QED
      BY <1>1, <1>2, <2>1 DEF Inv, Sweeping, InFlight
  <1>6. UndisturbedFileKept'
    BY <1>1 DEF Inv, UndisturbedFileKept, Kept
  <1> QED
    BY <1>3, <1>4, <1>5, <1>6 DEF Inv

LEMMA UnlinkInv == ASSUME Inv, NEW f \in Files, Unlink(f) PROVE Inv'
  <1>1. /\ UNCHANGED <<object, batch, ref, file, aged, pc, mem, from, crashes, tainted>>
        /\ sweep.step = "unlinking" /\ f \in sweep.left /\ disk' = disk \ {f}
        /\ sweep' = [sweep EXCEPT !.left = @ \ {f}]
    BY DEF Unlink, rows, requests
  <1>2. /\ sweep'.step = "unlinking" /\ sweep'.gone = sweep.gone
        /\ sweep'.dropped = sweep.dropped
        /\ sweep'.orphans = sweep.orphans /\ sweep'.left = sweep.left \ {f}
    BY <1>1 DEF Inv, TypeOK
  <1>3. TypeOK'
    <2>1. sweep' \in [step : {"idle", "expired", "unlinking"}, gone : SUBSET Batches,
                      dropped : SUBSET Batches, orphans : SUBSET Files,
                      left : SUBSET Files]
      BY <1>1 DEF Inv, TypeOK
    <2>2. disk' \subseteq Files
      BY <1>1 DEF Inv, TypeOK
    <2> QED
      BY <1>1, <2>1, <2>2 DEF Inv, TypeOK
  <1>4. Flights'
    BY <1>1, MarkedBeside DEF Inv, Flights, InFlight
  <1>5. Sweeping'
    BY <1>1, <1>2 DEF Inv, Sweeping, InFlight
  <1>6. UndisturbedFileKept'
    <2>1. f \in sweep.orphans
      BY <1>1 DEF Inv, Sweeping
    <2>2. \A b \in Batches : ref[b] = "valid" /\ b \notin tainted \cup aged => file[b] # f
      BY <1>1, <2>1 DEF Inv, Sweeping
    <2> QED
      BY <1>1, <2>2 DEF Inv, UndisturbedFileKept, Kept
  <1> QED
    BY <1>3, <1>4, <1>5, <1>6 DEF Inv

LEMMA CommitSweepInv == ASSUME Inv, CommitSweep PROVE Inv'
  <1>1. /\ UNCHANGED <<disk, pc, mem, from, crashes, tainted>>
        /\ sweep.step = "unlinking" /\ sweep' = NoSweep /\ aged' = aged \ sweep.dropped
        /\ \A b \in Batches :
              /\ ref'[b] = IF b \in sweep.gone THEN "none" ELSE ref[b]
              /\ batch'[b] = IF b \in sweep.dropped THEN "none" ELSE batch[b]
              /\ file'[b] = IF b \in sweep.dropped THEN NoFile ELSE file[b]
        /\ \A f \in Files :
              object'[f] = IF f \in sweep.orphans THEN "deleted" ELSE object[f]
    BY DEF CommitSweep, Swept, requests
  <1>2. sweep.dropped \subseteq sweep.gone
    BY <1>1 DEF Inv, Sweeping
  <1>3. TypeOK'
    <2>1. /\ object' \in [Files -> ObjectState]
          /\ batch' \in [Batches -> {"none", "open", "ended", "dead"}]
          /\ ref' \in [Batches -> {"none", "valid", "expired"}]
          /\ file' \in [Batches -> Files \cup {NoFile}]
      BY DEF CommitSweep, Swept, Inv, TypeOK, ObjectState
    <2>2. \A b \in Batches : ref'[b] # "none" => batch'[b] # "none" /\ file'[b] \in Files
      BY <1>1, <1>2 DEF Inv, TypeOK
    <2>3. sweep' \in [step : {"idle", "expired", "unlinking"}, gone : SUBSET Batches,
                      dropped : SUBSET Batches, orphans : SUBSET Files,
                      left : SUBSET Files]
      BY <1>1 DEF NoSweep
    <2>4. aged' \subseteq Batches
      BY <1>1 DEF Inv, TypeOK
    <2> QED
      BY <1>1, <2>1, <2>2, <2>3, <2>4 DEF Inv, TypeOK
  <1>4. Flights'
    <2> SUFFICES ASSUME NEW b \in Batches
                 PROVE  /\ pc[b] # "done" => batch'[b] = "none" /\ ref'[b] = "none" /\ b \notin aged'
                        /\ pc[b] \in {"stored", "unmatched"} => b \in Uploads
                        /\ b \in Reruns /\ InFlight(b) =>
                              from[b] \in Batches /\ pc[from[b]] = "done" /\ file'[from[b]] \in Files
                        /\ InFlight(b) => b \in tainted
      BY <1>1 DEF Flights, InFlight
    <2>1. b \in Reruns /\ InFlight(b) => from[b] \notin sweep.dropped
      BY <1>1 DEF Inv, Sweeping
    <2> QED
      BY <1>1, <2>1, MarkedBeside DEF Inv, Flights
  <1>5. Sweeping'
    BY <1>1 DEF Sweeping, NoSweep
  <1>6. UndisturbedFileKept'
    <2> SUFFICES ASSUME NEW b \in Batches, ref'[b] = "valid", b \notin tainted \cup aged'
                 PROVE  object'[file'[b]] = "live" /\ file'[b] \in disk
      BY <1>1 DEF UndisturbedFileKept, Kept
    <2>1. ref[b] = "valid" /\ b \notin sweep.gone /\ b \notin aged
      BY <1>1, <1>2
    <2>2. file'[b] = file[b] /\ file[b] \in Files
      BY <1>1, <1>2, <2>1 DEF Inv, TypeOK
    <2>3. object[file[b]] = "live" /\ file[b] \in disk
      BY <2>1 DEF Inv, UndisturbedFileKept, Kept
    <2>4. file[b] \notin sweep.orphans
      BY <1>1, <2>1 DEF Inv, Sweeping
    <2> QED
      BY <1>1, <2>2, <2>3, <2>4
  <1> QED
    BY <1>3, <1>4, <1>5, <1>6 DEF Inv

LEMMA SweepCrashInv == ASSUME Inv, SweepCrash PROVE Inv'
  <1>1. /\ UNCHANGED <<disk, object, batch, ref, file, aged, pc, mem, from, tainted>>
        /\ sweep.step # "idle" /\ sweep' = NoSweep
    BY DEF SweepCrash, rows, requests
  <1>2. TypeOK'
    <2>1. sweep' \in [step : {"idle", "expired", "unlinking"}, gone : SUBSET Batches,
                      dropped : SUBSET Batches, orphans : SUBSET Files,
                      left : SUBSET Files]
      BY <1>1 DEF NoSweep
    <2>2. crashes' \in 0..MaxCrashes
      BY RetentionAssumption DEF SweepCrash, Inv, TypeOK
    <2> QED
      BY <1>1, <2>1, <2>2 DEF Inv, TypeOK
  <1>3. Flights'
    BY <1>1, MarkedBeside DEF Inv, Flights, InFlight
  <1>4. Sweeping' /\ UndisturbedFileKept'
    BY <1>1 DEF Inv, Sweeping, NoSweep, UndisturbedFileKept, Kept
  <1> QED
    BY <1>2, <1>3, <1>4 DEF Inv

LEMMA InvStep == ASSUME Inv, [Next]_vars PROVE Inv'
  <1>1. CASE UNCHANGED vars
    BY <1>1 DEF vars, Inv, TypeOK, Flights, Sweeping, UndisturbedFileKept, InFlight, Kept
  <1> QED
    BY <1>1, RequestStepInv, CrashInv, TimeInv, SelectExpiredInv, SelectOrphansInv,
       UnlinkInv, CommitSweepInv, SweepCrashInv DEF Next, SweepStep

-------------------------------------------------------------------------------
(* The theorems.                                                               *)

LEMMA AlwaysInv == Spec => []Inv
  <1>1. Inv /\ [Next]_vars => Inv'
    BY InvStep
  <1>2. Init => Inv
    BY InitInv
  <1> QED
    BY <1>1, <1>2, PTL DEF Spec

\* Rows, requests and the sweep keep their kinds, and every reference names a
\* content and belongs to a batch.
THEOREM TypeCorrect == Spec => []TypeOK
  <1>1. Inv => TypeOK
    BY DEF Inv
  <1> QED
    BY <1>1, AlwaysInv, PTL

\* A batch whose request did not run beside a sweep keeps its file as long as its
\* reference is valid, whatever sweeps, crashes and other requests come after
\* (cleanup_expired_data, create_batch_from_upload, rerun_batch).
THEOREM UndisturbedFileKeptAlways == Spec => []UndisturbedFileKept
  <1>1. Inv => UndisturbedFileKept
    BY DEF Inv
  <1> QED
    BY <1>1, AlwaysInv, PTL
===============================================================================
