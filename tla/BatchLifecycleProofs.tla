------------------------- MODULE BatchLifecycleProofs -------------------------
(* Theorems about BatchLifecycle, for any number of batches, workers, requests *)
(* and failures.                                                               *)
EXTENDS BatchLifecycle, TLAPS

-------------------------------------------------------------------------------
(* The operators the actions are built from.                                   *)

\* Who is who: a process is a worker or a request, never both.
LEMMA ProcessKinds ==
    /\ \A w \in Workers : w \in Actors /\ w \notin Requests
    /\ \A q \in Requests : /\ q \in Actors
                           /\ q \notin Workers
                           /\ Target[q] \in Batches
                           /\ UserOf[q] \in Users
    /\ FreshRow \in Row
    /\ NoBatch \notin Batches
  <1>1. FreshRow \in Row
    BY DEF FreshRow, Row, Users, Status
  <1> QED
    BY <1>1, LifecycleAssumption DEF Actors, Users, NoBatch

LEMMA StatusKinds ==
    /\ TERMINAL_BATCH_STATUSES \subseteq Status
    /\ {"completed", "failed", "comparison_incomplete", "cancelled"}
          \subseteq TERMINAL_BATCH_STATUSES
    /\ {"queued", "validating", "fetching_remote", "comparing", "rechecking",
        "cancelling"} \subseteq Status
  BY DEF Status, TERMINAL_BATCH_STATUSES, CANCELLABLE_BATCH_STATUSES

\* What transition_batch commits is well typed, and so is the copy it leaves.
LEMMA CommitType ==
    ASSUME TypeOK, NEW a \in Actors, NEW b \in Batches, NEW to \in Status,
           NEW user \in Users, Commit(a, b, to, user),
           results' \in [Batches -> {"none", "draft", "final"}]
    PROVE  SharedOK' /\ Held(a, to, user) \in Row
  <1>1. mem[a] \in Row /\ row[b] \in Row
    BY DEF TypeOK, SharedOK, PrivateOK
  <1>2. FinalAfter(a, to) \in BOOLEAN
    BY <1>1 DEF FinalAfter, Row
  <1>3. Written(a, b, to, user) \in Row /\ Held(a, to, user) \in Row
    BY <1>1, <1>2 DEF Written, Held, Row
  <1>4. row' \in [Batches -> Row]
    BY <1>3 DEF Commit, TypeOK, SharedOK
  <1>5. events' \in [Batches -> SUBSET (Users \X TERMINAL_BATCH_STATUSES)]
    <2>1. CASE to \in TERMINAL_BATCH_STATUSES
      <3>1. <<user, to>> \in Users \X TERMINAL_BATCH_STATUSES
        BY <2>1
      <3> QED
        BY <2>1, <3>1 DEF Commit, TypeOK, SharedOK
    <2> QED
      BY <2>1 DEF Commit, TypeOK, SharedOK
  <1> QED
    BY <1>3, <1>4, <1>5 DEF SharedOK

\* A worker that is not idle executes a batch.
LEMMA BusyWorker ==
    ASSUME TypeOK, NEW w \in Workers, pc[w] # "idle"
    PROVE  /\ on[w] \in Batches
           /\ row[on[w]] \in Row
           /\ mem[w] \in Row
           /\ mem[w].requester \in Users
  BY ProcessKinds DEF TypeOK, SharedOK, PrivateOK, Row

\* One step of a request touches its own place and copy only.
LEMMA RequestPrivate ==
    ASSUME TypeOK, NEW q \in Requests, NEW step \in RequestPC, NEW copy \in Row,
           Goto(q, step), mem' = [mem EXCEPT ![q] = copy], UNCHANGED <<on, chunks>>
    PROVE  PrivateOK'
  BY ProcessKinds DEF TypeOK, PrivateOK, Goto

\* One step of a worker within its run.
LEMMA WorkerPrivate ==
    ASSUME TypeOK, NEW w \in Workers, pc[w] # "idle",
           NEW step \in WorkerPC \ {"idle"}, NEW copy \in Row,
           Goto(w, step), mem' = [mem EXCEPT ![w] = copy], UNCHANGED on,
           chunks' \in [Workers -> 0..MaxChunks]
    PROVE  PrivateOK'
  BY ProcessKinds DEF TypeOK, PrivateOK, Goto

LEMMA ReturnType ==
    ASSUME TypeOK, NEW w \in Workers, Return(w)
    PROVE  PrivateOK'
  BY ProcessKinds, LifecycleAssumption
  DEF Return, Goto, Forget, TypeOK, PrivateOK, WorkerPC

LEMMA RaiseType ==
    ASSUME TypeOK, NEW w \in Workers, pc[w] # "idle", Raise(w), UNCHANGED results
    PROVE  SharedOK' /\ PrivateOK'
  <1>1. SharedOK'
    BY DEF Raise, TypeOK, SharedOK
  <1>2. PrivateOK'
    BY ProcessKinds DEF Raise, Goto, TypeOK, PrivateOK, WorkerPC, Handling
  <1> QED
    BY <1>1, <1>2

LEMMA AdvanceType ==
    ASSUME TypeOK, NEW w \in Workers, pc[w] # "idle",
           NEW to \in Status, NEW step \in Executing, Advance(w, to, step),
           UNCHANGED results, chunks' \in [Workers -> 0..MaxChunks]
    PROVE  SharedOK' /\ PrivateOK'
  <1>1. step \in WorkerPC \ {"idle"}
    BY DEF WorkerPC, Executing
  <1>2. results' \in [Batches -> {"none", "draft", "final"}]
    BY DEF TypeOK, SharedOK
  <1>3. SharedOK' /\ Held(w, to, mem[w].requester) \in Row
    BY <1>2, BusyWorker, ProcessKinds, CommitType DEF Advance
  <1>4. PrivateOK'
    BY <1>1, <1>3, WorkerPrivate DEF Advance
  <1> QED
    BY <1>3, <1>4

LEMMA ConcludeType ==
    ASSUME TypeOK, NEW w \in Workers, pc[w] # "idle",
           NEW to \in TERMINAL_BATCH_STATUSES, Conclude(w, to), UNCHANGED results
    PROVE  SharedOK' /\ PrivateOK'
  <1>1. to \in Status
    BY StatusKinds
  <1>2. results' \in [Batches -> {"none", "draft", "final"}]
    BY DEF TypeOK, SharedOK
  <1>3. CASE Commit(w, on[w], to, mem[w].requester) /\ Return(w)
    BY <1>1, <1>2, <1>3, BusyWorker, ProcessKinds, CommitType, ReturnType
  <1>4. CASE Raise(w)
    BY <1>4, RaiseType
  <1> QED
    BY <1>3, <1>4 DEF Conclude

LEMMA CheckType ==
    ASSUME TypeOK, NEW w \in Workers, pc[w] # "idle",
           NEW step \in Executing, CheckCancelled(w, step), UNCHANGED results
    PROVE  SharedOK' /\ PrivateOK'
  <1>1. step \in WorkerPC \ {"idle"} /\ row[on[w]] \in Row
    BY BusyWorker DEF WorkerPC, Executing
  <1>2. SharedOK'
    BY DEF CheckCancelled, RequestRowsUnchanged, TypeOK, SharedOK
  <1>3. CASE Return(w)
    BY <1>2, <1>3, ReturnType
  <1>4. CASE Load(w, on[w]) /\ Goto(w, step) /\ UNCHANGED <<on, chunks>>
    <2>1. chunks' \in [Workers -> 0..MaxChunks]
      BY <1>4 DEF TypeOK, PrivateOK
    <2> QED
      BY <1>1, <1>2, <1>4, <2>1, WorkerPrivate DEF Load
  <1> QED
    BY <1>3, <1>4 DEF CheckCancelled

-------------------------------------------------------------------------------
(* Type correctness.                                                           *)

LEMMA InitType == Init => TypeOK
  BY ProcessKinds, LifecycleAssumption
  DEF Init, TypeOK, SharedOK, PrivateOK, WorkerPC, RequestPC, Actors

LEMMA RequestType ==
    ASSUME TypeOK, NEW q \in Requests, RequestStep(q) \/ RequestCrash(q)
    PROVE  TypeOK'
  <1> DEFINE b == Target[q]
             user == mem[q].requester
  <1>1. /\ row[b] \in Row
        /\ mem[q] \in Row
        /\ user \in Users
        /\ RequestPC = {"start", "to_queued", "to_cancelling", "to_cancelled", "done"}
    BY ProcessKinds DEF TypeOK, SharedOK, PrivateOK, Row, RequestPC
  <1>2. UNCHANGED results
    BY DEF RequestStep, ConfirmRead, ConfirmCommit, CancelRead, CancelRequest,
           CancelFinish, RequestCrash
  <1>3. results' \in [Batches -> {"none", "draft", "final"}]
    BY <1>2 DEF TypeOK, SharedOK
  <1>4. ASSUME UNCHANGED <<row, events>> PROVE SharedOK'
    BY <1>3, <1>4 DEF TypeOK, SharedOK
  <1>5. ASSUME Finish(q), UNCHANGED <<on, chunks>> PROVE PrivateOK'
    BY <1>1, <1>5, ProcessKinds, RequestPrivate DEF Finish, Forget
  <1>6. CASE ConfirmRead(q)
    <2>1. CASE Load(q, b) /\ Goto(q, "to_queued")
      <3>1. PrivateOK'
        BY <1>1, <1>6, <2>1, RequestPrivate DEF ConfirmRead, WorkersUnchanged, Load
      <3> QED
        BY <1>4, <1>6, <3>1 DEF ConfirmRead, WorkersUnchanged, TypeOK
    <2>2. CASE Finish(q)
      BY <1>4, <1>5, <1>6, <2>2 DEF ConfirmRead, WorkersUnchanged, TypeOK
    <2> QED
      BY <1>6, <2>1, <2>2 DEF ConfirmRead
  <1>7. CASE ConfirmCommit(q)
    <2>1. SharedOK'
      BY <1>3, <1>7, ProcessKinds, StatusKinds, CommitType DEF ConfirmCommit
    <2>2. disputed' \subseteq Batches
      BY <1>7, ProcessKinds DEF ConfirmCommit, TypeOK
    <2> QED
      BY <1>5, <1>7, <2>1, <2>2 DEF ConfirmCommit, WorkersUnchanged, TypeOK
  <1>8. CASE CancelRead(q)
    <2>1. CASE Load(q, b) /\ Goto(q, "to_cancelling")
      <3>1. PrivateOK'
        BY <1>1, <1>8, <2>1, RequestPrivate DEF CancelRead, WorkersUnchanged, Load
      <3> QED
        BY <1>4, <1>8, <3>1 DEF CancelRead, WorkersUnchanged, TypeOK
    <2>2. CASE Finish(q)
      BY <1>4, <1>5, <1>8, <2>2 DEF CancelRead, WorkersUnchanged, TypeOK
    <2> QED
      BY <1>8, <2>1, <2>2 DEF CancelRead
  <1>9. CASE CancelRequest(q)
    <2>1. SharedOK' /\ Held(q, "cancelling", user) \in Row
      BY <1>1, <1>3, <1>9, ProcessKinds, StatusKinds, CommitType DEF CancelRequest
    <2>2. PrivateOK'
      BY <1>1, <1>9, <2>1, RequestPrivate DEF CancelRequest, WorkersUnchanged
    <2> QED
      BY <1>9, <2>1, <2>2 DEF CancelRequest, WorkersUnchanged, TypeOK
  <1>10. CASE CancelFinish(q)
    <2>1. SharedOK'
      BY <1>1, <1>3, <1>4, <1>10, ProcessKinds, StatusKinds, CommitType
      DEF CancelFinish
    <2> QED
      BY <1>5, <1>10, <2>1 DEF CancelFinish, WorkersUnchanged, TypeOK
  <1>11. CASE RequestCrash(q)
    <2>1. failures' \in 0..MaxFailures
      BY <1>11, LifecycleAssumption DEF RequestCrash, TypeOK
    <2>2. abandoned' \subseteq Batches
      BY <1>11, ProcessKinds DEF RequestCrash, TypeOK
    <2> QED
      BY <1>4, <1>5, <1>11, <2>1, <2>2 DEF RequestCrash, TypeOK
  <1> QED
    BY <1>6, <1>7, <1>8, <1>9, <1>10, <1>11 DEF RequestStep

LEMMA WorkerType ==
    ASSUME TypeOK, NEW w \in Workers, WorkerStep(w) \/ WorkerCrash(w)
    PROVE  TypeOK'
  <1>0. \A s \in Executing : s # "idle" /\ s \in WorkerPC
    BY DEF Executing, WorkerPC
  <1>1. ASSUME SharedOK', PrivateOK', RunUnchanged PROVE TypeOK'
    BY <1>1 DEF TypeOK, RunUnchanged, histories
  <1>2. ASSUME NEW to \in {"failed", "comparison_incomplete"}, pc[w] # "idle",
               Conclude(w, to), UNCHANGED results, RunUnchanged
        PROVE  TypeOK'
    BY <1>1, <1>2, StatusKinds, ConcludeType
  <1>3. ASSUME NEW step \in Executing, pc[w] # "idle",
               CheckCancelled(w, step), UNCHANGED results, RunUnchanged
        PROVE  TypeOK'
    BY <1>1, <1>3, CheckType
  <1>4. ASSUME NEW to \in Status, NEW step \in Executing, pc[w] # "idle",
               Advance(w, to, step), chunks' \in [Workers -> 0..MaxChunks],
               UNCHANGED results, RunUnchanged
        PROVE  TypeOK'
    BY <1>1, <1>4, AdvanceType
  <1>5. ASSUME pc[w] # "idle", Raise(w), UNCHANGED results, RunUnchanged
        PROVE  TypeOK'
    BY <1>1, <1>5, RaiseType
  <1>6. ASSUME UNCHANGED <<row, results, events>> PROVE SharedOK'
    BY <1>6 DEF TypeOK, SharedOK
  <1>7. chunks \in [Workers -> 0..MaxChunks] /\ results \in [Batches -> {"none", "draft", "final"}]
    BY DEF TypeOK, SharedOK, PrivateOK
  <1>8. {"to_fetch", "fetching", "to_compare", "comparing", "to_recheck", "chunk",
         "rechecking", "last_check", "publish"} \subseteq Executing
    BY DEF Executing
  <1>9. ASSUME NEW b \in Batches, Claim(w, b) \/ ClaimFails(w, b) PROVE TypeOK'
    <2>1. /\ row[b] \in Row
          /\ [row[b] EXCEPT !.status = "validating"] \in Row
          /\ disputed' \subseteq Batches
      BY <1>9, StatusKinds
      DEF Claim, ClaimFails, MoveToValidating, Hold, TypeOK, SharedOK, Row
    <2>2. CASE Claim(w, b)
      <3>1. SharedOK'
        BY <2>1, <2>2 DEF Claim, MoveToValidating, TypeOK, SharedOK
      <3>2. PrivateOK'
        BY <2>1, <2>2, ProcessKinds
        DEF Claim, MoveToValidating, Hold, Goto, TypeOK, PrivateOK, WorkerPC, Executing
      <3> QED
        BY <2>1, <2>2, <3>1, <3>2 DEF Claim, MoveToValidating, TypeOK
    <2>3. CASE ClaimFails(w, b)
      <3>1. failures' \in 0..MaxFailures
        BY <2>3, LifecycleAssumption DEF ClaimFails, TypeOK
      <3>2. PrivateOK'
        BY <2>3, ProcessKinds
        DEF ClaimFails, Hold, Goto, TypeOK, PrivateOK, WorkerPC, Handling
      <3> QED
        BY <1>6, <2>1, <2>3, <3>1, <3>2 DEF ClaimFails, TypeOK
    <2> QED
      BY <1>9, <2>2, <2>3
  <1>10. CASE FailValidation(w)
    BY <1>2, <1>10 DEF FailValidation
  <1>11. CASE CheckAfterValidation(w)
    BY <1>3, <1>8, <1>11 DEF CheckAfterValidation
  <1>12. CASE BeginFetch(w)
    BY <1>4, <1>5, <1>7, <1>8, <1>12, StatusKinds DEF BeginFetch
  <1>13. CASE FailWindow(w)
    BY <1>2, <1>13 DEF FailWindow
  <1>14. CASE RemoteIncomplete(w)
    BY <1>2, <1>14 DEF RemoteIncomplete
  <1>15. CASE CheckAfterFetch(w)
    BY <1>3, <1>8, <1>15 DEF CheckAfterFetch
  <1>16. CASE BeginCompare(w)
    BY <1>2, <1>4, <1>7, <1>8, <1>16, StatusKinds DEF BeginCompare
  <1>17. CASE CheckBeforeRecheck(w)
    BY <1>3, <1>8, <1>17 DEF CheckBeforeRecheck
  <1>18. CASE BeginRecheck(w)
    <2>1. ASSUME NEW n \in 1..MaxChunks, chunks' = [chunks EXCEPT ![w] = n]
          PROVE  chunks' \in [Workers -> 0..MaxChunks]
      BY <1>7, <2>1, LifecycleAssumption
    <2> QED
      BY <1>2, <1>4, <1>8, <1>18, <2>1, StatusKinds DEF BeginRecheck
  <1>19. CASE CheckChunk(w)
    BY <1>3, <1>8, <1>19 DEF CheckChunk
  <1>20. CASE FinishChunk(w)
    <2>1. chunks' \in [Workers -> 0..MaxChunks]
      BY <1>7, <1>20, LifecycleAssumption DEF FinishChunk
    <2>2. PrivateOK'
      BY <1>20, <2>1, ProcessKinds
      DEF FinishChunk, Goto, TypeOK, PrivateOK, WorkerPC, Executing
    <2> QED
      BY <1>1, <1>6, <1>20, <2>2 DEF FinishChunk
  <1>21. CASE SaveResults(w)
    <2>1. SharedOK'
      BY <1>21 DEF SaveResults, TypeOK, SharedOK
    <2>2. PrivateOK'
      BY <1>21, ProcessKinds
      DEF SaveResults, Goto, TypeOK, PrivateOK, WorkerPC, Executing
    <2> QED
      BY <1>1, <1>21, <2>1, <2>2 DEF SaveResults
  <1>22. CASE CheckSaved(w)
    BY <1>3, <1>8, <1>22 DEF CheckSaved
  <1>23. CASE CheckLast(w)
    BY <1>3, <1>8, <1>23 DEF CheckLast
  <1>24. CASE Publish(w)
    <2>1. CASE /\ Commit(w, on[w], "completed", mem[w].requester)
               /\ results' = [results EXCEPT ![on[w]] = "final"]
               /\ Return(w)
      <3>1. results' \in [Batches -> {"none", "draft", "final"}]
        BY <1>7, <2>1
      <3>2. pc[w] # "idle"
        BY <1>24 DEF Publish
      <3>3. SharedOK'
        BY <2>1, <3>1, <3>2, BusyWorker, ProcessKinds, StatusKinds, CommitType
      <3> QED
        BY <1>1, <1>24, <2>1, <3>3, ReturnType DEF Publish
    <2> QED
      BY <1>5, <1>24, <2>1 DEF Publish
  <1>25. CASE UnexpectedError(w)
    BY <1>0, <1>5, <1>25 DEF UnexpectedError
  <1>26. CASE RefreshAfterError(w)
    <2>1. CASE Return(w)
      BY <1>1, <1>6, <1>26, <2>1, ReturnType DEF RefreshAfterError
    <2>2. CASE Load(w, on[w]) /\ Goto(w, "recover") /\ UNCHANGED <<on, chunks>>
      <3>1. "recover" \in WorkerPC \ {"idle"} /\ pc[w] # "idle"
        BY <1>26 DEF RefreshAfterError, WorkerPC, Handling
      <3>2. PrivateOK'
        BY <1>7, <2>2, <3>1, BusyWorker, WorkerPrivate DEF Load
      <3> QED
        BY <1>1, <1>6, <1>26, <3>2 DEF RefreshAfterError
    <2> QED
      BY <1>26, <2>1, <2>2 DEF RefreshAfterError
  <1>27. CASE FailInternal(w)
    <2>1. pc[w] # "idle" /\ Return(w) /\ UNCHANGED results /\ RunUnchanged
      BY <1>27 DEF FailInternal
    <2>2. ASSUME Commit(w, on[w], "failed", mem[w].requester) PROVE SharedOK'
      BY <1>7, <2>1, <2>2, BusyWorker, ProcessKinds, StatusKinds, CommitType
    <2> QED
      BY <1>1, <1>6, <1>27, <2>1, <2>2, ReturnType DEF FailInternal, RequestRowsUnchanged
  <1>28. CASE RefreshFails(w) \/ RecoveryFails(w) \/ WorkerCrash(w)
    <2>1. pc[w] # "idle" /\ Abandon(w)
      BY <1>28 DEF RefreshFails, RecoveryFails, WorkerCrash
    <2>2. failures' \in 0..MaxFailures
      BY <2>1, LifecycleAssumption DEF Abandon, TypeOK
    <2>3. abandoned' \subseteq Batches
      BY <2>1, BusyWorker DEF Abandon, TypeOK
    <2> QED
      BY <1>6, <2>1, <2>2, <2>3, ReturnType DEF Abandon, TypeOK
  <1> QED
    BY <1>9, <1>10, <1>11, <1>12, <1>13, <1>14, <1>15, <1>16, <1>17, <1>18, <1>19,
       <1>20, <1>21, <1>22, <1>23, <1>24, <1>25, <1>26, <1>27, <1>28
    DEF WorkerStep

LEMMA StepType == TypeOK /\ [Next]_vars => TypeOK'
  <1>1. CASE UNCHANGED vars
    BY <1>1 DEF vars, histories, TypeOK, SharedOK, PrivateOK
  <1> QED
    BY <1>1, RequestType, WorkerType DEF Next

\* The shape of every variable, in particular that a worker holds a batch exactly
\* while it is executing one.
THEOREM TypeCorrect == Spec => []TypeOK
  BY InitType, StepType, PTL DEF Spec

-------------------------------------------------------------------------------
(* What a step does to the shared tables.                                      *)

\* A committed transition changes one row, adds its announcement when it is
\* terminal, and marks the batch final only with "completed".
LEMMA CommitEffect ==
    ASSUME TypeOK, NEW a \in Actors, NEW b \in Batches, NEW to \in Status,
           NEW user \in Users, Commit(a, b, to, user)
    PROVE  /\ row'[b].status = to
           /\ row'[b].final => row[b].final \/ to = "completed"
           /\ \A c \in Batches \ {b} : row'[c] = row[c] /\ events'[c] = events[c]
           /\ \A c \in Batches \ {b} : Announced(c)' = Announced(c)
           /\ Announced(b)' =
                 Announced(b) \cup ({to} \cap TERMINAL_BATCH_STATUSES)
           /\ to \in ALLOWED_TRANSITIONS[mem[a].status]
  <1>1. mem[a] \in Row /\ row[b] \in Row
    BY DEF TypeOK, SharedOK, PrivateOK
  <1>2. row'[b] = Written(a, b, to, user)
    BY DEF Commit, TypeOK, SharedOK
  <1>3. row'[b].status = to /\ (row'[b].final => row[b].final \/ to = "completed")
    BY <1>1, <1>2 DEF Written, FinalAfter, Row
  <1>4. \A c \in Batches \ {b} : row'[c] = row[c] /\ events'[c] = events[c]
    BY DEF Commit, TypeOK, SharedOK
  <1>4a. \A c \in Batches \ {b} : Announced(c)' = Announced(c)
    BY <1>4 DEF Announced
  <1>5. CASE to \in TERMINAL_BATCH_STATUSES
    <2>1. events'[b] = events[b] \cup {<<user, to>>}
      BY <1>5 DEF Commit, TypeOK, SharedOK
    <2>2. Announced(b)' = Announced(b) \cup {to}
      BY <1>5, <2>1 DEF Announced
    <2> QED
      BY <1>3, <1>4, <1>4a, <1>5, <2>2 DEF Commit, CanCommit
  <1>6. CASE to \notin TERMINAL_BATCH_STATUSES
    <2>1. events' = events
      BY <1>6 DEF Commit
    <2> QED
      BY <1>3, <1>4, <1>4a, <1>6, <2>1 DEF Commit, CanCommit, Announced
  <1> QED
    BY <1>5, <1>6

RequestTargets == {"queued", "cancelling", "cancelled"}
RunTargets == {"fetching_remote", "comparing", "rechecking", "failed",
               "comparison_incomplete"}

\* A request writes, at most, its transition of the batch it names; only a
\* request that has read the row does, and only a confirm queues a batch.
LEMMA RequestWrites ==
    ASSUME TypeOK, NEW q \in Requests, RequestStep(q) \/ RequestCrash(q)
    PROVE  /\ UNCHANGED <<results, on>>
           /\ \A w \in Workers : pc'[w] = pc[w] /\ mem'[w] = mem[w]
           /\ \A p \in Requests \ {q} : pc'[p] = pc[p]
           /\ pc'[q] # "start"
           /\ disputed \subseteq disputed'
           /\ \/ UNCHANGED <<row, events>>
              \/ /\ pc[q] \notin {"start", "done"}
                 /\ \E to \in RequestTargets, user \in Users :
                       /\ Commit(q, Target[q], to, user)
                       /\ to = "queued" =>
                             \/ Target[q] \in disputed'
                             \/ row[Target[q]].status \in
                                    {"awaiting_confirmation", "queued"}
                       /\ to # "queued" => q \in Cancellers
  <1>1. UNCHANGED <<results, on>>
    BY DEF RequestStep, ConfirmRead, ConfirmCommit, CancelRead, CancelRequest,
           CancelFinish, RequestCrash, WorkersUnchanged
  <1>2. /\ \E step : step # "start" /\ pc' = [pc EXCEPT ![q] = step]
        /\ \E copy : mem' = [mem EXCEPT ![q] = copy]
    BY DEF RequestStep, ConfirmRead, ConfirmCommit, CancelRead, CancelRequest,
           CancelFinish, RequestCrash, Finish, Goto, Forget, Load
  <1>3. /\ \A w \in Workers : pc'[w] = pc[w] /\ mem'[w] = mem[w]
        /\ \A p \in Requests \ {q} : pc'[p] = pc[p]
        /\ pc'[q] # "start"
    BY <1>2, ProcessKinds DEF TypeOK, PrivateOK
  <1>4. mem[q].requester \in Users /\ UserOf[q] \in Users
    BY ProcessKinds DEF TypeOK, PrivateOK, Row
  <1>4a. disputed \subseteq disputed'
    BY DEF RequestStep, ConfirmRead, ConfirmCommit, CancelRead, CancelRequest,
           CancelFinish, RequestCrash
  <1>5. CASE ConfirmCommit(q)
    BY <1>1, <1>3, <1>4, <1>4a, <1>5 DEF ConfirmCommit, RequestTargets
  <1>6. CASE CancelRequest(q)
    BY <1>1, <1>3, <1>4, <1>4a, <1>6 DEF CancelRequest, RequestTargets
  <1>7. CASE CancelFinish(q)
    BY <1>1, <1>3, <1>4, <1>4a, <1>7 DEF CancelFinish, RequestTargets
  <1>8. CASE ConfirmRead(q) \/ CancelRead(q) \/ RequestCrash(q)
    BY <1>1, <1>3, <1>4a, <1>8 DEF ConfirmRead, CancelRead, RequestCrash
  <1> QED
    BY <1>5, <1>6, <1>7, <1>8 DEF RequestStep

\* What a cancel relies on when it goes on: that the batch was confirmed.
LEMMA RequestPlace ==
    ASSUME TypeOK, NEW q \in Cancellers, RequestStep(q) \/ RequestCrash(q)
    PROVE  pc'[q] \in {"to_cancelling", "to_cancelled"} =>
               row'[Target[q]].status # "awaiting_confirmation"
  <1>0. q \in Requests /\ q \notin Confirmers
    BY LifecycleAssumption DEF Requests
  <1>1. \A step : Goto(q, step) => pc'[q] = step
    BY <1>0, ProcessKinds DEF Goto, TypeOK, PrivateOK
  <1>2. CASE CancelFinish(q) \/ RequestCrash(q)
    BY <1>1, <1>2 DEF CancelFinish, RequestCrash, Finish
  <1>3. CASE CancelRead(q)
    BY <1>1, <1>3 DEF CancelRead, Finish, CANCELLABLE_BATCH_STATUSES
  <1>4. CASE CancelRequest(q)
    BY <1>0, <1>4, ProcessKinds
    DEF CancelRequest, Commit, Written, TypeOK, SharedOK
  <1> QED
    BY <1>0, <1>2, <1>3, <1>4 DEF RequestStep, ConfirmRead, ConfirmCommit

\* The steps of a worker by what they write: a claim, a transition of the batch
\* it executes, drafts, the publication, or nothing.  A terminal transition ends
\* the run.
Writing == Executing \cup {"recover"}

RunWrite(w) ==
    /\ pc[w] # "idle" /\ pc[w] \in Writing
    /\ UNCHANGED results
    /\ on'[w] \in {on[w], NoBatch}
    /\ \E to \in RunTargets :
          /\ Commit(w, on[w], to, mem[w].requester)
          /\ to \in TERMINAL_BATCH_STATUSES => on'[w] = NoBatch

DraftWrite(w) ==
    /\ pc[w] # "idle" /\ pc[w] \in Executing
    /\ on'[w] = on[w]
    /\ results' = [results EXCEPT ![on[w]] = "draft"]
    /\ UNCHANGED <<row, events>>

PublishWrite(w) ==
    /\ pc[w] # "idle" /\ pc[w] \in Writing
    /\ on'[w] = NoBatch
    /\ results' = [results EXCEPT ![on[w]] = "final"]
    /\ Commit(w, on[w], "completed", mem[w].requester)

NoWrite(w) ==
    /\ pc[w] # "idle"
    /\ \/ on'[w] = NoBatch
       \/ on'[w] = on[w] /\ (pc[w] \in Handling => pc'[w] \in Handling)
    /\ UNCHANGED <<row, results, events>>

RunStep(w) ==
    /\ RunWrite(w) \/ DraftWrite(w) \/ PublishWrite(w) \/ NoWrite(w)
    /\ UNCHANGED disputed

LEMMA WorkerWrites ==
    ASSUME TypeOK, NEW w \in Workers, WorkerStep(w) \/ WorkerCrash(w)
    PROVE  /\ \A v \in Workers \ {w} : on'[v] = on[v] /\ pc'[v] = pc[v]
           /\ \A q \in Requests : pc'[q] = pc[q]
           /\ \/ \E b \in Batches : Claim(w, b) \/ ClaimFails(w, b)
              \/ RunStep(w)
  <1> DEFINE Others == /\ \A v \in Workers \ {w} : on'[v] = on[v] /\ pc'[v] = pc[v]
                       /\ \A q \in Requests : pc'[q] = pc[q]
             Goal == Others /\ RunStep(w)
  <1>0. {"validating", "to_fetch", "fetching", "to_compare", "comparing", "to_recheck",
         "chunk", "rechecking", "saved", "last_check", "publish"} = Executing
    BY DEF Executing
  <1>1. ASSUME NEW step, Goto(w, step),
               on' = on \/ \E b \in Batches \cup {NoBatch} : on' = [on EXCEPT ![w] = b]
        PROVE  Others /\ pc'[w] = step
    BY <1>1, ProcessKinds DEF Goto, TypeOK, PrivateOK
  <1>2. ASSUME Return(w) PROVE Others /\ on'[w] = NoBatch
    BY <1>1, <1>2 DEF Return, TypeOK, PrivateOK
  <1>3. ASSUME pc[w] # "idle", Raise(w), UNCHANGED results, RunUnchanged PROVE Goal
    BY <1>1, <1>3 DEF Raise, RunStep, NoWrite, Handling, RunUnchanged, histories
  <1>4. ASSUME NEW to \in {"failed", "comparison_incomplete"},
               pc[w] \in Executing, Conclude(w, to), UNCHANGED results, RunUnchanged
        PROVE  Goal
    BY <1>0, <1>2, <1>3, <1>4
    DEF Conclude, RunStep, RunWrite, RunTargets, Writing, RunUnchanged, histories
  <1>5. ASSUME NEW step, pc[w] \in Executing, CheckCancelled(w, step),
               UNCHANGED results, RunUnchanged
        PROVE  Goal
    <2>1. pc[w] # "idle" /\ pc[w] \notin Handling
      BY <1>0, <1>5 DEF Handling
    <2> QED
      BY <1>1, <1>2, <1>5, <2>1
      DEF CheckCancelled, RunStep, NoWrite, RequestRowsUnchanged, RunUnchanged, histories
  <1>6. ASSUME NEW to \in {"fetching_remote", "comparing", "rechecking"}, NEW step,
               pc[w] \in Executing, Advance(w, to, step), UNCHANGED results, RunUnchanged
        PROVE  Goal
    BY <1>0, <1>1, <1>6
    DEF Advance, RunStep, RunWrite, RunTargets, TERMINAL_BATCH_STATUSES, Writing,
        RunUnchanged, histories
  <1>7. ASSUME NEW b \in Batches, Claim(w, b) \/ ClaimFails(w, b) PROVE Others
    BY <1>1, <1>7 DEF Claim, ClaimFails, MoveToValidating, Hold
  <1>8. CASE FailValidation(w) \/ FailWindow(w) \/ RemoteIncomplete(w)
    BY <1>0, <1>4, <1>8 DEF FailValidation, FailWindow, RemoteIncomplete
  <1>9. CASE \/ CheckAfterValidation(w) \/ CheckAfterFetch(w)
             \/ CheckBeforeRecheck(w) \/ CheckChunk(w)
             \/ CheckSaved(w) \/ CheckLast(w)
    BY <1>0, <1>5, <1>9
    DEF CheckAfterValidation, CheckAfterFetch, CheckBeforeRecheck, CheckChunk,
        CheckSaved, CheckLast
  <1>10. CASE BeginFetch(w) \/ BeginCompare(w) \/ BeginRecheck(w)
    BY <1>0, <1>3, <1>4, <1>6, <1>10 DEF BeginFetch, BeginCompare, BeginRecheck
  <1>11. CASE FinishChunk(w)
    BY <1>1, <1>11 DEF FinishChunk, RunStep, NoWrite, Handling, RunUnchanged, histories
  <1>12. CASE SaveResults(w)
    BY <1>0, <1>1, <1>12 DEF SaveResults, RunStep, DraftWrite, RunUnchanged, histories
  <1>13. CASE Publish(w)
    BY <1>0, <1>2, <1>3, <1>13
    DEF Publish, RunStep, PublishWrite, Writing, RunUnchanged, histories
  <1>14. CASE UnexpectedError(w)
    BY <1>0, <1>3, <1>14 DEF UnexpectedError
  <1>15. CASE RefreshAfterError(w)
    BY <1>1, <1>2, <1>15
    DEF RefreshAfterError, RunStep, NoWrite, Handling, RunUnchanged, histories
  <1>16. CASE FailInternal(w)
    BY <1>2, <1>16
    DEF FailInternal, RunStep, NoWrite, RunWrite, RunTargets, RequestRowsUnchanged,
        Writing, RunUnchanged, histories
  <1>17. CASE RefreshFails(w) \/ RecoveryFails(w) \/ WorkerCrash(w)
    <2>1. pc[w] # "idle" /\ Abandon(w)
      BY <1>17 DEF RefreshFails, RecoveryFails, WorkerCrash
    <2> QED
      BY <1>2, <2>1 DEF Abandon, RunStep, NoWrite
  <1> QED
    BY <1>7, <1>8, <1>9, <1>10, <1>11, <1>12, <1>13, <1>14, <1>15, <1>16, <1>17
    DEF WorkerStep

-------------------------------------------------------------------------------
(* Safety under any number of confirmations, cancellations and failures.       *)

LEMMA TargetKinds ==
    /\ RequestTargets \subseteq Status
    /\ RunTargets \subseteq Status
    /\ "completed" \notin RequestTargets \cup RunTargets
    /\ {"queued", "awaiting_confirmation"} \cap RunTargets = {}
    /\ RequestTargets \cap Verdicts = {}
    /\ RunTargets \cap TERMINAL_BATCH_STATUSES \subseteq Verdicts
    /\ "awaiting_confirmation" \notin RequestTargets
    /\ Verdicts \subseteq TERMINAL_BATCH_STATUSES
  BY DEF RequestTargets, RunTargets, Status, CANCELLABLE_BATCH_STATUSES,
         TERMINAL_BATCH_STATUSES, Verdicts

\* Who steps.
LEMMA NextCases ==
    ASSUME TypeOK, [Next]_vars
    PROVE  \/ UNCHANGED vars
           \/ \E q \in Requests : RequestStep(q) \/ RequestCrash(q)
           \/ \E w \in Workers : WorkerStep(w) \/ WorkerCrash(w)
  BY DEF Next

LEMMA ClaimEffect ==
    ASSUME TypeOK, NEW w \in Workers, NEW b \in Batches, Claim(w, b)
    PROVE  /\ row[b].status = "queued"
           /\ row'[b].status = "validating"
           /\ row'[b].final = row[b].final
           /\ \A c \in Batches \ {b} : row'[c] = row[c]
           /\ UNCHANGED <<results, events>>
           /\ \A c \in Batches : Announced(c)' = Announced(c)
  BY DEF Claim, Claimable, MoveToValidating, TypeOK, SharedOK, Row, Announced

\* Who gets hold of a batch from which another worker has not returned makes it
\* disputed, if that one's claim has failed.
LEMMA HoldEffect ==
    ASSUME TypeOK, NEW w \in Workers, NEW b \in Batches,
           Claim(w, b) \/ ClaimFails(w, b)
    PROVE  /\ on'[w] = b
           /\ row[b].status = "queued"
           /\ pc[w] = "idle"
           /\ disputed \subseteq disputed'
           /\ \A v \in Workers :
                 on[v] = b /\ pc[v] \in Handling => b \in disputed'
           /\ ClaimFails(w, b) => /\ UNCHANGED <<row, results, events>>
                                  /\ pc'[w] \in Handling
  BY ProcessKinds
  DEF Claim, ClaimFails, Claimable, MoveToValidating, Hold, Goto, Handling, TypeOK,
      PrivateOK

LEMMA AnnouncedStep ==
    ASSUME TypeOK, [Next]_vars
    PROVE  PublicationAnnounced /\ TerminalAnnounced
              => (PublicationAnnounced /\ TerminalAnnounced)'
  <1> DEFINE Both == PublicationAnnounced /\ TerminalAnnounced
  <1> SUFFICES ASSUME Both PROVE Both'
    OBVIOUS
  <1>1. ASSUME UNCHANGED <<row, results, events>> PROVE Both'
    BY <1>1 DEF PublicationAnnounced, TerminalAnnounced, Announced
  <1>2. ASSUME NEW a \in Actors, NEW b \in Batches, NEW to \in Status,
               NEW user \in Users, Commit(a, b, to, user), UNCHANGED results
        PROVE  Both'
    <2>1. PublicationAnnounced'
      BY <1>2, CommitEffect, StatusKinds DEF PublicationAnnounced
    <2>2. TerminalAnnounced'
      BY <1>2, CommitEffect DEF TerminalAnnounced
    <2> QED
      BY <2>1, <2>2
  <1>3. ASSUME NEW q \in Requests, RequestStep(q) \/ RequestCrash(q) PROVE Both'
    BY <1>1, <1>2, <1>3, RequestWrites, ProcessKinds, TargetKinds
  <1>4. ASSUME NEW w \in Workers, WorkerStep(w) \/ WorkerCrash(w) PROVE Both'
    <2>1. ASSUME NEW b \in Batches, Claim(w, b) PROVE Both'
      BY <2>1, ClaimEffect
      DEF PublicationAnnounced, TerminalAnnounced, TERMINAL_BATCH_STATUSES
    <2>2. CASE RunWrite(w)
      BY <1>2, <2>2, BusyWorker, ProcessKinds, TargetKinds DEF RunWrite
    <2>3. CASE DraftWrite(w)
      BY <2>3 DEF DraftWrite, PublicationAnnounced, TerminalAnnounced, Announced,
                  TypeOK, SharedOK
    <2>4. CASE PublishWrite(w)
      <3>1. /\ on[w] \in Batches /\ w \in Actors /\ mem[w].requester \in Users
            /\ "completed" \in Status \cap TERMINAL_BATCH_STATUSES
        BY <2>4, BusyWorker, ProcessKinds, StatusKinds DEF PublishWrite
      <3>2. \A c \in Batches \ {on[w]} : results'[c] = results[c]
        BY <2>4 DEF PublishWrite, TypeOK, SharedOK
      <3> QED
        BY <2>4, <3>1, <3>2, CommitEffect
        DEF PublishWrite, PublicationAnnounced, TerminalAnnounced
    <2> QED
      BY <1>1, <1>4, <2>1, <2>2, <2>3, <2>4, WorkerWrites, HoldEffect
      DEF NoWrite, RunStep
  <1> QED
    BY <1>1, <1>3, <1>4, NextCases DEF vars

\* However often a batch is confirmed, cancelled, executed or left half-way: what is
\* marked final has been announced as completed.
THEOREM NothingPublishedSilently == Spec => []PublicationAnnounced
  <1>1. Init => PublicationAnnounced /\ TerminalAnnounced
    BY DEF Init, PublicationAnnounced, TerminalAnnounced, FreshRow,
           TERMINAL_BATCH_STATUSES
  <1> QED
    BY <1>1, TypeCorrect, AnnouncedStep, PTL DEF Spec

\* Likewise, the status a batch ends with has been announced.
THEOREM NothingEndsSilently == Spec => []TerminalAnnounced
  <1>1. Init => PublicationAnnounced /\ TerminalAnnounced
    BY DEF Init, PublicationAnnounced, TerminalAnnounced, FreshRow,
           TERMINAL_BATCH_STATUSES
  <1> QED
    BY <1>1, TypeCorrect, AnnouncedStep, PTL DEF Spec

LEMMA SettledStep ==
    ASSUME TypeOK, [Next]_vars, NEW b \in Batches, Settled(b)
    PROVE  row'[b] = row[b] /\ results'[b] = results[b] /\ events'[b] = events[b]
  <1> DEFINE Same == /\ row'[b] = row[b]
                     /\ results'[b] = results[b]
                     /\ events'[b] = events[b]
  <1>1. ASSUME NEW q \in Requests, RequestStep(q) \/ RequestCrash(q) PROVE Same
    BY <1>1, RequestWrites, ProcessKinds, TargetKinds, CommitEffect DEF Settled
  <1>2. ASSUME NEW w \in Workers, WorkerStep(w) \/ WorkerCrash(w) PROVE Same
    <2>1. ASSUME NEW c \in Batches, Claim(w, c) PROVE Same
      BY <2>1, ClaimEffect DEF Settled, TERMINAL_BATCH_STATUSES
    <2>2. CASE RunWrite(w)
      BY <2>2, BusyWorker, ProcessKinds, TargetKinds, CommitEffect DEF RunWrite, Settled
    <2>3. CASE DraftWrite(w)
      BY <2>3 DEF DraftWrite, Settled, TypeOK, SharedOK
    <2>4. CASE PublishWrite(w)
      <3>1. results'[b] = results[b]
        BY <2>4 DEF PublishWrite, Settled, TypeOK, SharedOK
      <3> QED
        BY <2>4, <3>1, BusyWorker, ProcessKinds, StatusKinds, CommitEffect
        DEF PublishWrite, Settled
    <2> QED
      BY <1>2, <2>1, <2>2, <2>3, <2>4, WorkerWrites, HoldEffect DEF NoWrite, RunStep
  <1> QED
    BY <1>1, <1>2, NextCases DEF vars

\* A terminal batch that no process still holds a copy of never changes again.
THEOREM SettledStays == Spec => SettledForGood
  <1>1. TypeOK /\ [Next]_vars =>
           [\A b \in Batches :
               Settled(b) => /\ row'[b] = row[b]
                             /\ results'[b] = results[b]
                             /\ events'[b] = events[b]]_vars
    BY SettledStep
  <1> QED
    BY <1>1, TypeCorrect, PTL DEF Spec, SettledForGood

-------------------------------------------------------------------------------
(* Safety of the batches that no confirmation has put back and no failed claim *)
(* has left to two workers.                                                    *)

\* Nothing takes a batch out of dispute.
LEMMA DisputedGrows ==
    ASSUME TypeOK, [Next]_vars
    PROVE  disputed \subseteq disputed'
  <1>1. ASSUME NEW w \in Workers, WorkerStep(w) \/ WorkerCrash(w)
        PROVE  disputed \subseteq disputed'
    BY <1>1, WorkerWrites, HoldEffect DEF RunStep
  <1> QED
    BY <1>1, NextCases, RequestWrites DEF vars, histories

\* Nothing takes back a confirmation.
PastConfirmation ==
    \A q \in Cancellers :
        pc[q] \in {"to_cancelling", "to_cancelled"} =>
            row[Target[q]].status # "awaiting_confirmation"

LEMMA WaitsNoMore ==
    ASSUME TypeOK, [Next]_vars, NEW b \in Batches,
           row[b].status # "awaiting_confirmation"
    PROVE  row'[b].status # "awaiting_confirmation"
  <1>1. ASSUME NEW a \in Actors, NEW c \in Batches, NEW user \in Users,
               NEW to \in RequestTargets \cup RunTargets \cup {"completed"},
               Commit(a, c, to, user)
        PROVE  row'[b].status # "awaiting_confirmation"
    <2>1. to \in Status /\ to # "awaiting_confirmation"
      BY TargetKinds, StatusKinds DEF RunTargets
    <2> QED
      BY <1>1, <2>1, CommitEffect
  <1>2. ASSUME NEW q \in Requests, RequestStep(q) \/ RequestCrash(q)
        PROVE  row'[b].status # "awaiting_confirmation"
    BY <1>1, <1>2, RequestWrites, ProcessKinds
  <1>3. ASSUME NEW w \in Workers, WorkerStep(w) \/ WorkerCrash(w)
        PROVE  row'[b].status # "awaiting_confirmation"
    <2>1. ASSUME NEW c \in Batches, Claim(w, c)
          PROVE  row'[b].status # "awaiting_confirmation"
      BY <2>1, ClaimEffect
    <2>2. CASE RunWrite(w) \/ PublishWrite(w)
      BY <1>1, <2>2, BusyWorker, ProcessKinds DEF RunWrite, PublishWrite
    <2> QED
      BY <1>3, <2>1, <2>2, WorkerWrites, HoldEffect DEF RunStep, DraftWrite, NoWrite
  <1> QED
    BY <1>2, <1>3, NextCases DEF vars

LEMMA PastConfirmationStep ==
    ASSUME TypeOK, PastConfirmation, [Next]_vars
    PROVE  PastConfirmation'
  <1> SUFFICES ASSUME NEW q \in Cancellers,
                      pc'[q] \in {"to_cancelling", "to_cancelled"}
               PROVE  row'[Target[q]].status # "awaiting_confirmation"
    BY DEF PastConfirmation
  <1>1. q \in Requests /\ Target[q] \in Batches
    BY ProcessKinds DEF Requests
  <1>2. CASE pc'[q] = pc[q]
    BY <1>1, <1>2, WaitsNoMore DEF PastConfirmation
  <1>3. CASE RequestStep(q) \/ RequestCrash(q)
    BY <1>3, RequestPlace
  <1> QED
    BY <1>1, <1>2, <1>3, NextCases, RequestWrites, WorkerWrites DEF vars

LEMMA InitSingleRun == Init => SingleRun
  <1> SUFFICES ASSUME Init PROVE SingleRun
    OBVIOUS
  <1>1. \A b \in Batches : Undecided(b)
    BY DEF Init, Undecided, FreshRow, Announced
  <1>2. /\ \A w \in Workers : pc[w] = "idle" /\ on[w] \notin Batches
        /\ \A q \in Requests : pc[q] = "start"
    BY ProcessKinds DEF Init
  <1>3. \A b \in Batches : Announced(b) = {} /\ ~row[b].final
    BY DEF Init, FreshRow, Announced
  <1> QED
    BY <1>1, <1>2, <1>3 DEF SingleRun, RunOnce, Requests

\* A request keeps to the one run of a batch it does not put back: a confirm
\* queues a batch that waits or is queued, a cancel writes neither a verdict nor
\* a status before "queued".
LEMMA RunOnceRequest ==
    ASSUME TypeOK, NEW b \in Batches, RunOnce(b), b \notin disputed',
           NEW q \in Requests, RequestStep(q) \/ RequestCrash(q)
    PROVE  RunOnce(b)'
  <1>1. /\ UNCHANGED <<results, on>>
        /\ \A w \in Workers : pc'[w] = pc[w]
        /\ q \in Actors /\ Target[q] \in Batches
    BY RequestWrites, ProcessKinds
  <1>2. ASSUME row'[b] = row[b], events'[b] = events[b] PROVE RunOnce(b)'
    <2>1. Announced(b)' = Announced(b)
      BY <1>2 DEF Announced
    <2> QED
      BY <1>1, <1>2, <2>1 DEF RunOnce, Undecided
  <1>3. ASSUME NEW to \in RequestTargets, NEW user \in Users,
               Commit(q, Target[q], to, user), Target[q] = b,
               to = "queued" =>
                   row[b].status \in {"awaiting_confirmation", "queued"}
        PROVE  RunOnce(b)'
    <2>1. /\ row'[b].status = to
          /\ row'[b].final => row[b].final
          /\ Announced(b)' = Announced(b) \cup ({to} \cap TERMINAL_BATCH_STATUSES)
          /\ to \notin Verdicts
          /\ to # "awaiting_confirmation"
      BY <1>1, <1>3, CommitEffect, TargetKinds
    <2>2. Announced(b)' \cap Verdicts = Announced(b) \cap Verdicts
      BY <2>1
    <2>3. Undecided(b) => Undecided(b)'
      BY <1>1, <2>1, <2>2 DEF Undecided
    <2>4. \A w \in Workers : on'[w] = b =>
             /\ Undecided(b)
             /\ to = "queued" => pc'[w] \in Handling
      BY <1>1, <1>3 DEF RunOnce
    <2> QED
      BY <1>1, <1>3, <2>1, <2>2, <2>3, <2>4 DEF RunOnce
  <1>4. ASSUME NEW to \in RequestTargets, NEW user \in Users,
               Commit(q, Target[q], to, user), Target[q] # b
        PROVE  RunOnce(b)'
    BY <1>1, <1>2, <1>4, CommitEffect, TargetKinds
  <1>5. CASE UNCHANGED <<row, events>>
    BY <1>2, <1>5
  <1> QED
    BY <1>3, <1>4, <1>5, RequestWrites

\* A worker gets hold of such a batch only when nobody has it, and decides it
\* with its last step.
LEMMA RunOnceWorker ==
    ASSUME TypeOK, NEW b \in Batches, RunOnce(b), b \notin disputed',
           NEW w \in Workers, WorkerStep(w) \/ WorkerCrash(w)
    PROVE  RunOnce(b)'
  <1>1. \A v \in Workers \ {w} : on'[v] = on[v] /\ pc'[v] = pc[v]
    BY WorkerWrites
  <1>2. Handling \cap Executing = {}
    BY DEF Handling, Executing
  <1>3. ASSUME on[w] # b, on'[w] # b, row'[b] = row[b], events'[b] = events[b],
               results'[b] = results[b]
        PROVE  RunOnce(b)'
    <2>1. Announced(b)' = Announced(b)
      BY <1>3 DEF Announced
    <2> QED
      BY <1>1, <1>3, <2>1 DEF RunOnce, Undecided
  <1>4. ASSUME NEW c \in Batches, Claim(w, c) \/ ClaimFails(w, c)
        PROVE  RunOnce(b)'
    <2>1. /\ on'[w] = c /\ row[c].status = "queued"
          /\ on[w] = NoBatch /\ NoBatch # b
          /\ c = b => \A v \in Workers : on[v] = b => pc[v] \notin Handling
      BY <1>4, HoldEffect, ProcessKinds DEF TypeOK, PrivateOK
    <2>2. /\ UNCHANGED <<results, events>>
          /\ c # b => row'[b] = row[b]
          /\ row'[b].final = row[b].final
          /\ Announced(b)' = Announced(b)
          /\ c = b => \/ row'[b].status = "validating"
                      \/ row'[b].status = "queued" /\ pc'[w] \in Handling
      <3>1. CASE Claim(w, c)
        BY <2>1, <3>1, ClaimEffect
      <3>2. CASE ClaimFails(w, c)
        <4>1. UNCHANGED <<row, results, events>> /\ pc'[w] \in Handling
          BY <3>2, HoldEffect
        <4> QED
          BY <2>1, <4>1 DEF Announced
      <3> QED
        BY <1>4, <3>1, <3>2
    <2>3. CASE c # b
      BY <1>3, <2>1, <2>2, <2>3
    <2>4. CASE c = b
      <3>1. Undecided(b) /\ \A v \in Workers : on[v] # b
        BY <2>1, <2>4 DEF RunOnce
      <3>2. Undecided(b)'
        BY <2>2, <3>1 DEF Undecided
      <3>3. \A v \in Workers : on'[v] = b => v = w
        BY <1>1, <3>1
      <3> QED
        BY <2>2, <2>4, <3>1, <3>2, <3>3 DEF RunOnce, Undecided
    <2> QED
      BY <2>3, <2>4
  <1>5. ASSUME on[w] = b, \/ on'[w] = NoBatch
                          \/ on'[w] = b /\ Undecided(b)',
               row'[b].status \notin {"awaiting_confirmation", "queued"},
               row'[b].final => results'[b] = "final",
               \A s, t \in Announced(b)' \cap Verdicts : s = t
        PROVE  RunOnce(b)'
    <2>1. \A v \in Workers : on'[v] = b => v = w
      BY <1>1, <1>5 DEF RunOnce
    <2> QED
      BY <1>5, <2>1, ProcessKinds DEF RunOnce
  <1>6. ASSUME pc[w] # "idle" PROVE on[w] \in Batches
    BY <1>6, BusyWorker
  <1>7. ASSUME on[w] = b
        PROVE  /\ w \in Actors
               /\ Undecided(b) /\ ~row[b].final /\ results[b] # "final"
               /\ Announced(b) \cap Verdicts = {}
               /\ row[b].status # "awaiting_confirmation"
               /\ row[b].status = "queued" => pc[w] \in Handling
    BY <1>7, ProcessKinds DEF RunOnce, Undecided
  <1>8. CASE NoWrite(w)
    <2>1. CASE on[w] # b
      BY <1>3, <1>8, <2>1, ProcessKinds DEF NoWrite
    <2>2. CASE on[w] = b
      <3>1. Announced(b)' = Announced(b) /\ (Undecided(b)' <=> Undecided(b))
        BY <1>8 DEF NoWrite, Announced, Undecided
      <3>2. \A v \in Workers : on'[v] = b => v = w
        BY <1>1, <2>2 DEF RunOnce
      <3>3. on'[w] = b /\ row[b].status = "queued" => pc'[w] \in Handling
        BY <1>7, <1>8, <2>2, ProcessKinds DEF NoWrite
      <3> QED
        BY <1>7, <1>8, <2>2, <3>1, <3>2, <3>3 DEF NoWrite, RunOnce
    <2> QED
      BY <2>1, <2>2
  <1>9. CASE RunWrite(w)
    <2> SUFFICES ASSUME NEW c \in Batches, c = on[w] PROVE RunOnce(b)'
      BY <1>6, <1>9 DEF RunWrite
    <2>1. PICK to \in RunTargets :
             /\ Commit(w, c, to, mem[w].requester)
             /\ to \in TERMINAL_BATCH_STATUSES => on'[w] = NoBatch
      BY <1>9 DEF RunWrite
    <2>2. /\ row'[c].status = to
          /\ row'[c].final => row[c].final
          /\ \A d \in Batches \ {c} : row'[d] = row[d] /\ events'[d] = events[d]
          /\ Announced(c)' = Announced(c) \cup ({to} \cap TERMINAL_BATCH_STATUSES)
      BY <1>9, <2>1, BusyWorker, ProcessKinds, CommitEffect, TargetKinds DEF RunWrite
    <2>3. results' = results /\ on'[w] \in {c, NoBatch}
      BY <1>9 DEF RunWrite
    <2>4. CASE c # b
      BY <1>3, <2>2, <2>3, <2>4, ProcessKinds
    <2>5. CASE c = b
      <3>1. Announced(b)' \cap Verdicts \subseteq {to}
        BY <1>7, <2>2, <2>5
      <3>2. to \notin TERMINAL_BATCH_STATUSES => Undecided(b)'
        BY <1>7, <2>2, <2>3, <2>5 DEF Undecided
      <3> QED
        BY <1>5, <1>7, <2>1, <2>2, <2>3, <2>5, <3>1, <3>2, TargetKinds
    <2> QED
      BY <2>4, <2>5
  <1>10. CASE DraftWrite(w)
    <2> SUFFICES ASSUME NEW c \in Batches, c = on[w] PROVE RunOnce(b)'
      BY <1>6, <1>10 DEF DraftWrite
    <2>1. /\ UNCHANGED <<row, events>>
          /\ on'[w] = c
          /\ results'[c] = "draft"
          /\ \A d \in Batches \ {c} : results'[d] = results[d]
          /\ pc[w] \notin Handling
      BY <1>2, <1>10 DEF DraftWrite, TypeOK, SharedOK
    <2>2. CASE c # b
      BY <1>3, <2>1, <2>2
    <2>3. CASE c = b
      <3>1. Announced(b)' = Announced(b)
        BY <2>1 DEF Announced
      <3>2. Undecided(b)'
        BY <1>7, <2>1, <2>3, <3>1 DEF Undecided
      <3> QED
        BY <1>5, <1>7, <2>1, <2>3, <3>1, <3>2
    <2> QED
      BY <2>2, <2>3
  <1>11. CASE PublishWrite(w)
    <2> SUFFICES ASSUME NEW c \in Batches, c = on[w] PROVE RunOnce(b)'
      BY <1>6, <1>11 DEF PublishWrite
    <2>1. /\ Commit(w, c, "completed", mem[w].requester)
          /\ on'[w] = NoBatch
          /\ results'[c] = "final"
          /\ \A d \in Batches \ {c} : results'[d] = results[d]
      BY <1>11 DEF PublishWrite, TypeOK, SharedOK
    <2>2. /\ row'[c].status = "completed"
          /\ \A d \in Batches \ {c} : row'[d] = row[d] /\ events'[d] = events[d]
          /\ Announced(c)' = Announced(c) \cup {"completed"}
      BY <1>11, <2>1, BusyWorker, ProcessKinds, CommitEffect, StatusKinds
      DEF PublishWrite
    <2>3. CASE c # b
      BY <1>3, <2>1, <2>2, <2>3, ProcessKinds
    <2>4. CASE c = b
      BY <1>5, <1>7, <2>1, <2>2, <2>4
    <2> QED
      BY <2>3, <2>4
  <1> QED
    BY <1>4, <1>8, <1>9, <1>10, <1>11, WorkerWrites DEF RunStep

LEMMA SingleRunStep ==
    ASSUME TypeOK, SingleRun, [Next]_vars
    PROVE  SingleRun'
  <1>1. ASSUME NEW b \in Batches, b \notin disputed' PROVE RunOnce(b)'
    <2>1. RunOnce(b)
      BY <1>1, DisputedGrows DEF SingleRun
    <2>2. CASE UNCHANGED vars
      BY <2>1, <2>2 DEF vars, RunOnce, Undecided, Announced
    <2> QED
      BY <1>1, <2>1, <2>2, NextCases, RunOnceRequest, RunOnceWorker
  <1>2. PastConfirmation'
    BY PastConfirmationStep DEF SingleRun, PastConfirmation
  <1> QED
    BY <1>1, <1>2 DEF SingleRun, PastConfirmation

\* The inductive invariant itself, with any number of confirmations, of
\* cancellations, of failures and of workers: a batch that no confirmation puts
\* back is claimed from the queue once, and until then is undecided
\* (confirm_batch, process_next_batch).
THEOREM SingleRunAlways == Spec => []SingleRun
  <1>1. TypeOK /\ SingleRun /\ [Next]_vars => SingleRun'
    BY SingleRunStep
  <1> QED
    BY <1>1, InitSingleRun, TypeCorrect, PTL DEF Spec

\* Two workers hold one batch only if a confirmation has put it back, or the
\* second got hold of it while the first was failing its own claim of it.
THEOREM ExecutedByOne == Spec => []SoleExecutor
  <1>1. TypeOK /\ SingleRun => SoleExecutor
    <2> SUFFICES ASSUME TypeOK, SingleRun, NEW v \in Workers, NEW w \in Workers,
                        pc[v] # "idle", on[v] = on[w], on[v] \notin disputed
                 PROVE  v = w
      BY DEF SoleExecutor
    <2> QED
      BY BusyWorker DEF SingleRun, RunOnce
  <1> QED
    BY <1>1, TypeCorrect, SingleRunAlways, PTL

\* What the export routes let through is final.
THEOREM ExportsAreFinal == Spec => []FinalBatchHasFinalResults
  <1>1. SingleRun => FinalBatchHasFinalResults
    BY DEF SingleRun, RunOnce, FinalBatchHasFinalResults
  <1> QED
    BY <1>1, SingleRunAlways, PTL

\* The workers announce one verdict at most.
THEOREM VerdictIsUnique == Spec => []OneVerdict
  <1>1. SingleRun => OneVerdict
    BY DEF SingleRun, RunOnce, OneVerdict
  <1> QED
    BY <1>1, SingleRunAlways, PTL

\* What a step does to the verdicts and the final results of a batch that is not
\* disputed: nothing, or it decides the batch for the first time.
LEMMA DecideOnce ==
    ASSUME TypeOK, SingleRun, [Next]_vars, NEW b \in Batches, b \notin disputed'
    PROVE  \/ /\ Announced(b)' \cap Verdicts = Announced(b) \cap Verdicts
              /\ results'[b] = "final" <=> results[b] = "final"
           \/ \E v \in Verdicts :
                 /\ Undecided(b)
                 /\ Announced(b)' \cap Verdicts = {v}
                 /\ results'[b] = "final" <=> v = "completed"
  <1> DEFINE Kept == /\ Announced(b)' \cap Verdicts = Announced(b) \cap Verdicts
                     /\ results'[b] = "final" <=> results[b] = "final"
             Decided(v) == /\ Undecided(b)
                           /\ Announced(b)' \cap Verdicts = {v}
                           /\ results'[b] = "final" <=> v = "completed"
             Goal == Kept \/ \E v \in Verdicts : Decided(v)
  <1>1. \A w \in Workers : on[w] = b => Undecided(b)
    BY DisputedGrows DEF SingleRun, RunOnce
  <1>2. ASSUME events'[b] = events[b], results'[b] = results[b] PROVE Goal
    BY <1>2 DEF Announced
  <1>3. ASSUME NEW q \in Requests, RequestStep(q) \/ RequestCrash(q) PROVE Goal
    <2>1. UNCHANGED results
      BY <1>3, RequestWrites
    <2>2. ASSUME NEW to \in RequestTargets, NEW user \in Users,
                 Commit(q, Target[q], to, user)
          PROVE  Announced(b)' \cap Verdicts = Announced(b) \cap Verdicts
      BY <2>2, CommitEffect, TargetKinds, ProcessKinds
    <2> QED
      BY <1>2, <1>3, <2>1, <2>2, RequestWrites
  <1>4. ASSUME NEW w \in Workers, WorkerStep(w) \/ WorkerCrash(w) PROVE Goal
    <2>1. ASSUME pc[w] # "idle", NEW to \in Status,
                 Commit(w, on[w], to, mem[w].requester)
          PROVE  /\ on[w] = b => Announced(b)' =
                       Announced(b) \cup ({to} \cap TERMINAL_BATCH_STATUSES)
                 /\ on[w] # b => events'[b] = events[b]
      BY <2>1, BusyWorker, ProcessKinds, CommitEffect
    <2>2. ASSUME NEW c \in Batches, Claim(w, c) \/ ClaimFails(w, c) PROVE Goal
      BY <1>2, <2>2, ClaimEffect, HoldEffect
    <2>3. CASE RunWrite(w)
      <3>1. PICK to \in RunTargets : Commit(w, on[w], to, mem[w].requester)
        BY <2>3 DEF RunWrite
      <3>2. results' = results /\ pc[w] # "idle" /\ to \in Status
        BY <2>3, TargetKinds DEF RunWrite
      <3>3. CASE on[w] # b
        BY <1>2, <2>1, <3>1, <3>2, <3>3
      <3>4. CASE on[w] = b /\ to \in TERMINAL_BATCH_STATUSES
        <4>1. /\ to \in Verdicts /\ to # "completed"
              /\ Undecided(b) /\ results[b] # "final"
              /\ Announced(b) \cap Verdicts = {}
          BY <1>1, <3>4, TargetKinds DEF Undecided
        <4>2. Announced(b)' = Announced(b) \cup {to}
          BY <2>1, <3>1, <3>2, <3>4
        <4>3. Decided(to)
          BY <3>2, <4>1, <4>2
        <4> QED
          BY <4>1, <4>3
      <3>5. CASE on[w] = b /\ to \notin TERMINAL_BATCH_STATUSES
        <4>1. Announced(b)' = Announced(b)
          BY <2>1, <3>1, <3>2, <3>5
        <4> QED
          BY <3>2, <4>1
      <3> QED
        BY <3>3, <3>4, <3>5
    <2>4. CASE DraftWrite(w)
      <3>1. Announced(b)' = Announced(b)
        BY <2>4 DEF DraftWrite, Announced
      <3>2. results'[b] = "final" <=> results[b] = "final"
        BY <1>1, <2>4 DEF DraftWrite, Undecided, TypeOK, SharedOK
      <3> QED
        BY <3>1, <3>2
    <2>5. CASE PublishWrite(w)
      <3>1. /\ pc[w] # "idle"
            /\ Commit(w, on[w], "completed", mem[w].requester)
            /\ on[w] = b => results'[b] = "final"
            /\ on[w] # b => results'[b] = results[b]
        BY <2>5 DEF PublishWrite, TypeOK, SharedOK
      <3>2. CASE on[w] # b
        BY <1>2, <2>1, <3>1, <3>2, StatusKinds
      <3>3. CASE on[w] = b
        <4>1. Announced(b)' = Announced(b) \cup {"completed"}
          BY <2>1, <3>1, <3>3, StatusKinds
        <4>2. "completed" \in Verdicts /\ Decided("completed")
          BY <1>1, <3>1, <3>3, <4>1 DEF Undecided, Verdicts
        <4> QED
          BY <4>2
      <3> QED
        BY <3>2, <3>3
    <2> QED
      BY <1>2, <1>4, <2>2, <2>3, <2>4, <2>5, WorkerWrites DEF RunStep, NoWrite
  <1>5. CASE UNCHANGED vars
    BY <1>2, <1>5 DEF vars
  <1> QED
    BY <1>3, <1>4, <1>5, NextCases

LEMMA PublicationStep ==
    ASSUME TypeOK, SingleRun, [Next]_vars
    PROVE  Publication!Next
  <1>1. ASSUME NEW b \in Batches, b \notin disputed'
        PROVE  Publication!Keep(b) \/ \E v \in Verdicts : Publication!Decide(b, v)
    BY <1>1, DecideOnce DEF Publication!Keep, Publication!Decide, Undecided
  <1> QED
    BY <1>1, DisputedGrows DEF Publication!Next

\* The program implements ResultPublication: one verdict, published together with
\* its results and never taken back.
THEOREM ImplementsPublication == Spec => PublishesOnce
  <1>1. Init => Publication!Init
    BY DEF Init, Publication!Init, Announced
  <1>2. TypeOK /\ SingleRun /\ [Next]_vars => Publication!Next
    BY PublicationStep
  <1> QED
    BY <1>1, <1>2, SingleRunAlways, TypeCorrect, PTL
    DEF Spec, PublishesOnce, Publication!Spec

\* Final results are never replaced, deleted or turned back into drafts.
THEOREM ExportedStays == Spec => PublishedFrozen
  <1>1. TypeOK /\ SingleRun /\ [Next]_vars =>
           [\A b \in Batches \ disputed' :
               results[b] = "final" => results'[b] = "final"]_vars
    BY DecideOnce DEF Undecided
  <1> QED
    BY <1>1, SingleRunAlways, TypeCorrect, PTL DEF Spec, PublishedFrozen

-------------------------------------------------------------------------------
(* The status graph.                                                           *)

Exempt == disputed \cup Cancelling

\* A cancellation that has begun has begun for good.
LEMMA ExemptGrows ==
    ASSUME TypeOK, [Next]_vars
    PROVE  Exempt \subseteq Exempt'
  <1>1. Cancellers \subseteq Requests
    BY DEF Requests
  <1>2. ASSUME NEW c \in Cancellers, pc[c] # "start" PROVE pc'[c] # "start"
    BY <1>1, <1>2, NextCases, RequestWrites, WorkerWrites DEF vars
  <1>3. Cancelling \subseteq Cancelling'
    BY <1>2 DEF Cancelling
  <1> QED
    BY <1>3, DisputedGrows DEF Exempt

\* Between a worker's steps its copy agrees with the row of a batch that is
\* neither disputed nor cancelled: nobody else writes it.
CopiesFresh ==
    \A w \in Workers :
        pc[w] \in Writing /\ on[w] \in Batches \ Exempt =>
            mem[w].status = row[on[w]].status

LEMMA FreshOfWorker ==
    ASSUME TypeOK, CopiesFresh, Exempt \subseteq Exempt',
           NEW w \in Workers, WorkerStep(w) \/ WorkerCrash(w)
    PROVE  /\ \A v \in Workers \ {w} : mem'[v] = mem[v]
           /\ pc'[w] \in Writing /\ on'[w] \in Batches \ Exempt' =>
                 mem'[w].status = row'[on'[w]].status
  <1> DEFINE Others == \A v \in Workers \ {w} : mem'[v] = mem[v]
             Place == pc'[w] \in Writing /\ on'[w] \in Batches \ Exempt' =>
                         mem'[w].status = row'[on'[w]].status
  <1>0. {"idle", "rollback"} \cap Writing = {}
    BY DEF Writing, Executing
  <1>1. ASSUME NEW copy, mem' = [mem EXCEPT ![w] = copy]
        PROVE  Others /\ mem'[w] = copy
    BY <1>1, ProcessKinds DEF TypeOK, PrivateOK
  <1>2. ASSUME NEW step, Goto(w, step) PROVE pc'[w] = step
    BY <1>2, ProcessKinds DEF Goto, TypeOK, PrivateOK
  <1>3. ASSUME Return(w) PROVE Others /\ Place
    BY <1>0, <1>1, <1>2, <1>3 DEF Return, Forget
  <1>4. ASSUME Raise(w) PROVE Others /\ Place
    BY <1>0, <1>2, <1>4 DEF Raise
  <1>5. ASSUME NEW to, Conclude(w, to) PROVE Others /\ Place
    BY <1>3, <1>4, <1>5 DEF Conclude
  <1>6. ASSUME NEW step, CheckCancelled(w, step) PROVE Others /\ Place
    BY <1>1, <1>3, <1>6 DEF CheckCancelled, Load, RequestRowsUnchanged
  <1>7. ASSUME NEW to \in Status, NEW step, pc[w] # "idle", Advance(w, to, step)
        PROVE  Others /\ Place
    <2>1. Others /\ mem'[w].status = to
      BY <1>1, <1>7 DEF Advance, Held
    <2>2. row'[on[w]].status = to
      BY <1>7, BusyWorker, ProcessKinds, CommitEffect DEF Advance
    <2> QED
      BY <1>7, <2>1, <2>2 DEF Advance
  <1>8. ASSUME NEW b \in Batches, Claim(w, b) \/ ClaimFails(w, b)
        PROVE  Others /\ Place
    <2>1. CASE Claim(w, b)
      <3>1. Others /\ mem'[w] = [row[b] EXCEPT !.status = "validating"]
        BY <1>1, <2>1 DEF Claim, MoveToValidating
      <3>2. row[b] \in Row
        BY DEF TypeOK, SharedOK
      <3>3. mem'[w].status = "validating"
        BY <3>1, <3>2 DEF Row
      <3> QED
        BY <2>1, <3>1, <3>3, ClaimEffect, HoldEffect
    <2>2. CASE ClaimFails(w, b)
      BY <1>0, <1>2, <2>2 DEF ClaimFails
    <2> QED
      BY <1>8, <2>1, <2>2
  <1>9. CASE FailValidation(w) \/ FailWindow(w) \/ RemoteIncomplete(w)
    BY <1>5, <1>9 DEF FailValidation, FailWindow, RemoteIncomplete
  <1>10. CASE \/ CheckAfterValidation(w) \/ CheckAfterFetch(w)
              \/ CheckBeforeRecheck(w) \/ CheckChunk(w)
              \/ CheckSaved(w) \/ CheckLast(w)
    BY <1>6, <1>10
    DEF CheckAfterValidation, CheckAfterFetch, CheckBeforeRecheck, CheckChunk,
        CheckSaved, CheckLast
  <1>11. CASE BeginFetch(w) \/ BeginCompare(w) \/ BeginRecheck(w)
    BY <1>4, <1>5, <1>7, <1>11, StatusKinds DEF BeginFetch, BeginCompare, BeginRecheck
  <1>12. CASE FinishChunk(w) \/ SaveResults(w)
    BY <1>12 DEF FinishChunk, SaveResults, CopiesFresh, Writing, Executing
  <1>13. CASE Publish(w)
    BY <1>3, <1>4, <1>13 DEF Publish
  <1>14. CASE UnexpectedError(w)
    BY <1>4, <1>14 DEF UnexpectedError
  <1>15. CASE RefreshAfterError(w)
    BY <1>1, <1>3, <1>15 DEF RefreshAfterError, Load
  <1>16. CASE \/ FailInternal(w) \/ RefreshFails(w) \/ RecoveryFails(w)
              \/ WorkerCrash(w)
    BY <1>3, <1>16 DEF FailInternal, RefreshFails, RecoveryFails, WorkerCrash, Abandon
  <1> QED
    BY <1>8, <1>9, <1>10, <1>11, <1>12, <1>13, <1>14, <1>15, <1>16 DEF WorkerStep

\* The abstract machine has the graph of the program.
LEMMA SameGraph ==
    Machine!Status = Status /\ Machine!ALLOWED_TRANSITIONS = ALLOWED_TRANSITIONS
  <1>1. /\ Machine!CANCELLABLE_BATCH_STATUSES = CANCELLABLE_BATCH_STATUSES
        /\ Machine!TERMINAL_BATCH_STATUSES = TERMINAL_BATCH_STATUSES
    BY DEF Machine!CANCELLABLE_BATCH_STATUSES, CANCELLABLE_BATCH_STATUSES,
           Machine!TERMINAL_BATCH_STATUSES, TERMINAL_BATCH_STATUSES
  <1>2. Machine!Status = Status
    BY <1>1 DEF Machine!Status, Status
  <1> QED
    BY <1>2 DEF Machine!ALLOWED_TRANSITIONS, ALLOWED_TRANSITIONS

\* The steps of a request on the machine: a confirm moves a batch that waits to
\* the queue or leaves it there.
LEMMA GraphRequest ==
    ASSUME TypeOK, SingleRun, CopiesFresh, Exempt \subseteq Exempt',
           NEW q \in Requests, RequestStep(q) \/ RequestCrash(q),
           NEW b \in Batches, b \notin Exempt'
    PROVE  /\ \/ row'[b].status = row[b].status
              \/ row'[b].status \in ALLOWED_TRANSITIONS[row[b].status]
           /\ \A w \in Workers :
                 pc'[w] \in Writing /\ on'[w] = b => mem'[w].status = row'[b].status
  <1>1. /\ \A w \in Workers : pc'[w] = pc[w] /\ on'[w] = on[w] /\ mem'[w] = mem[w]
        /\ q \in Actors /\ Target[q] \in Batches
        /\ b \notin disputed' /\ b \notin disputed
    BY RequestWrites, ProcessKinds DEF Exempt
  <1>2. \A w \in Workers :
           pc[w] \in Writing /\ on[w] = b => mem[w].status = row[b].status
    BY DEF CopiesFresh
  <1>3. CASE row'[b].status = row[b].status
    BY <1>1, <1>2, <1>3
  <1>4. ASSUME NEW to \in RequestTargets, NEW user \in Users,
               Commit(q, Target[q], to, user), Target[q] = b,
               pc[q] \notin {"start", "done"},
               to = "queued" => row[b].status \in {"awaiting_confirmation", "queued"},
               to # "queued" => q \in Cancellers,
               row'[b].status # row[b].status
        PROVE  /\ row'[b].status \in ALLOWED_TRANSITIONS[row[b].status]
               /\ \A w \in Workers : on[w] # b
    <2>1. to = "queued"
      BY <1>1, <1>4, RequestWrites DEF Exempt, Cancelling
    <2>2. row'[b].status = to
      BY <1>1, <1>4, CommitEffect, TargetKinds
    <2>3. row[b].status = "awaiting_confirmation"
      BY <1>4, <2>1, <2>2
    <2>4. "queued" \in ALLOWED_TRANSITIONS["awaiting_confirmation"]
      BY StatusKinds DEF ALLOWED_TRANSITIONS, Status
    <2> QED
      BY <1>1, <2>1, <2>2, <2>3, <2>4 DEF SingleRun, RunOnce
  <1>5. ASSUME NEW to \in RequestTargets, NEW user \in Users,
               Commit(q, Target[q], to, user), Target[q] # b
        PROVE  row'[b].status = row[b].status
    BY <1>1, <1>5, CommitEffect, TargetKinds
  <1> QED
    BY <1>1, <1>3, <1>4, <1>5, RequestWrites

\* The steps of a worker on the machine: its copy is what the row is.
LEMMA GraphWorker ==
    ASSUME TypeOK, SingleRun, CopiesFresh, Exempt \subseteq Exempt',
           NEW w \in Workers, WorkerStep(w) \/ WorkerCrash(w),
           NEW b \in Batches, b \notin Exempt'
    PROVE  /\ \/ row'[b].status = row[b].status
              \/ row'[b].status \in ALLOWED_TRANSITIONS[row[b].status]
           /\ \A v \in Workers :
                 pc'[v] \in Writing /\ on'[v] = b => mem'[v].status = row'[b].status
  <1>1. /\ RunOnce(b)
        /\ b \notin disputed'
        /\ \A v \in Workers \ {w} :
              on'[v] = on[v] /\ pc'[v] = pc[v] /\ mem'[v] = mem[v]
    BY WorkerWrites, FreshOfWorker DEF SingleRun, Exempt
  <1>2. \A v \in Workers :
           pc[v] \in Writing /\ on[v] = b => mem[v].status = row[b].status
    BY DEF CopiesFresh
  <1>3. pc'[w] \in Writing /\ on'[w] = b => mem'[w].status = row'[b].status
    BY FreshOfWorker
  <1>4. ASSUME NEW c \in Batches, Claim(w, c)
        PROVE  \/ row'[b].status = row[b].status
               \/ /\ row'[b].status \in ALLOWED_TRANSITIONS[row[b].status]
                  /\ \A v \in Workers : on[v] # b
    <2>1. CASE c # b
      BY <1>4, <2>1, ClaimEffect
    <2>2. CASE c = b
      <3>1. \A v \in Workers : on[v] # b
        BY <1>1, <1>4, <2>2, HoldEffect DEF RunOnce
      <3>2. "validating" \in ALLOWED_TRANSITIONS["queued"]
        BY StatusKinds DEF ALLOWED_TRANSITIONS
      <3> QED
        BY <1>4, <2>2, <3>1, <3>2, ClaimEffect
    <2> QED
      BY <2>1, <2>2
  <1>5. ASSUME RunWrite(w) \/ PublishWrite(w)
        PROVE  \/ row'[b].status = row[b].status
               \/ /\ row'[b].status \in ALLOWED_TRANSITIONS[row[b].status]
                  /\ \A v \in Workers \ {w} : on[v] # b
    <2>1. PICK to \in RunTargets \cup {"completed"} :
             Commit(w, on[w], to, mem[w].requester)
      BY <1>5 DEF RunWrite, PublishWrite
    <2>2. to \in Status /\ pc[w] # "idle" /\ pc[w] \in Writing
      BY <1>5, StatusKinds, TargetKinds DEF RunWrite, PublishWrite
    <2>3. /\ row'[on[w]].status = to
          /\ \A c \in Batches \ {on[w]} : row'[c] = row[c]
          /\ to \in ALLOWED_TRANSITIONS[mem[w].status]
      BY <2>1, <2>2, BusyWorker, ProcessKinds, CommitEffect
    <2>4. CASE on[w] # b
      BY <2>3, <2>4
    <2>5. CASE on[w] = b
      BY <1>1, <1>2, <2>2, <2>3, <2>5 DEF RunOnce
    <2> QED
      BY <2>4, <2>5
  <1>6. \/ row'[b].status = row[b].status
        \/ /\ row'[b].status \in ALLOWED_TRANSITIONS[row[b].status]
           /\ \A v \in Workers \ {w} : on[v] # b
    BY <1>4, <1>5, WorkerWrites, HoldEffect DEF RunStep, NoWrite, DraftWrite
  <1> QED
    BY <1>1, <1>2, <1>3, <1>6

LEMMA FreshStep ==
    ASSUME TypeOK, SingleRun, CopiesFresh, [Next]_vars
    PROVE  CopiesFresh' /\ Machine!Next
  <1>1. Exempt \subseteq Exempt'
    BY ExemptGrows
  <1>2. ASSUME NEW b \in Batches, b \notin Exempt'
        PROVE  /\ \/ row'[b].status = row[b].status
                  \/ row'[b].status \in ALLOWED_TRANSITIONS[row[b].status]
               /\ \A w \in Workers :
                     pc'[w] \in Writing /\ on'[w] = b =>
                         mem'[w].status = row'[b].status
    <2>1. CASE UNCHANGED vars
      BY <1>1, <1>2, <2>1 DEF vars, CopiesFresh
    <2> QED
      BY <1>1, <1>2, <2>1, NextCases, GraphRequest, GraphWorker
  <1>3. CopiesFresh'
    BY <1>2 DEF CopiesFresh
  <1>4. ASSUME NEW b \in Batches, b \notin Exempt'
        PROVE  Machine!Stay(b) \/ Machine!Move(b)
    BY <1>2, <1>4, SameGraph DEF Machine!Stay, Machine!Move
  <1> QED
    BY <1>1, <1>3, <1>4 DEF Machine!Next, Exempt

\* The program implements the state machine of batch_state.py: until a request
\* begins to cancel a batch or puts it back into the queue, its row moves along
\* the graph, through any failure and whatever happens to the other batches, so
\* that its terminal status is for good and no status is skipped.
THEOREM ImplementsGraph == Spec => FollowsGraph
  <1>1. Init => CopiesFresh /\ Machine!Init
    <2> SUFFICES ASSUME Init PROVE CopiesFresh /\ Machine!Init
      OBVIOUS
    <2>1. CopiesFresh
      BY ProcessKinds DEF Init, CopiesFresh, Writing, Executing
    <2>2. Cancelling = {}
      BY ProcessKinds DEF Init, Cancelling, Requests
    <2> QED
      BY <2>1, <2>2 DEF Init, Machine!Init, FreshRow
  <1>2. TypeOK /\ SingleRun /\ CopiesFresh /\ [Next]_vars =>
           CopiesFresh' /\ Machine!Next
    BY FreshStep
  <1> QED
    BY <1>1, <1>2, SingleRunAlways, TypeCorrect, PTL
    DEF Spec, FollowsGraph, Machine!Spec
===============================================================================
