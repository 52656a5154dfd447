---------------------------- MODULE BatchLifecycle ----------------------------
(* The life of reconciliation batches: API requests that confirm and cancel    *)
(* them, the worker processes that execute them, and the database rows they    *)
(* share.  Every request and every worker run has a database session of its    *)
(* own and works on a copy of the row that is only as fresh as its last read:  *)
(* transition_batch checks the copy and then writes the row by its id.  A step *)
(* here is one database transaction or one refresh, which is where the code    *)
(* awaits and others run.                                                      *)
EXTENDS BatchState, Naturals, FiniteSets

CONSTANTS
    Batches,     \* batch rows; a smaller number was created earlier
    Workers,     \* worker processes
    Confirmers,  \* POST .../confirm requests
    Cancellers,  \* POST .../cancel requests
    Target,      \* the batch each request names
    UserOf,      \* the user each request acts for
    Creator,     \* the user who uploaded the batches
    MaxChunks,   \* bound: chunks of 25 candidates rechecked one by one
    MaxFailures  \* bound: process deaths, and database failures at a claim, in a
                 \* handler or in a request, in a behaviour

Requests == Confirmers \cup Cancellers
Actors == Workers \cup Requests
Users == {Creator} \cup {UserOf[q] : q \in Requests}
NoBatch == 0

ASSUME LifecycleAssumption ==
    /\ Batches \subseteq Nat \ {0}
    /\ Workers \cap Requests = {}
    /\ Confirmers \cap Cancellers = {}
    /\ Target \in [Requests -> Batches]
    /\ MaxChunks \in Nat \ {0}
    /\ MaxFailures \in Nat

VARIABLES
    row,      \* the database row of each batch
    results,  \* its result rows: none, draft (is_final false) or final
    events,   \* its notifications: <<user, terminal status announced>>
    pc,       \* where each worker run and request stands
    on,       \* the batch a worker executes
    mem,      \* the row as each session holds it in memory
    chunks,   \* candidate chunks a worker has still to recheck
    failures, \* failures so far
    disputed, \* history: batches put back into the queue after they had left it,
              \* or claimed while another worker still handled its failed claim
    abandoned \* history: batches whose run or cancellation stopped half-way

histories == <<disputed, abandoned>>
vars == <<row, results, events, pc, on, mem, chunks, failures, histories>>

Row == [status : Status, final : BOOLEAN, requester : Users]
FreshRow == [status |-> "awaiting_confirmation", final |-> FALSE,
             requester |-> Creator]

\* Worker steps between claiming a batch and returning, in the order of
\* execute_reconciliation_batch; the last two are process_next_batch's handler.
Executing == {"validating", "to_fetch", "fetching", "to_compare", "comparing",
              "to_recheck", "chunk", "rechecking", "saved", "last_check",
              "publish"}
Handling == {"rollback", "recover"}
WorkerPC == {"idle"} \cup Executing \cup Handling
RequestPC == {"start", "to_queued", "to_cancelling", "to_cancelled", "done"}

\* The tables all sessions share, and what each worker or request keeps.
SharedOK ==
    /\ row \in [Batches -> Row]
    /\ results \in [Batches -> {"none", "draft", "final"}]
    /\ events \in [Batches -> SUBSET (Users \X TERMINAL_BATCH_STATUSES)]

PrivateOK ==
    /\ pc \in [Actors -> WorkerPC \cup RequestPC]
    /\ \A w \in Workers : pc[w] \in WorkerPC
    /\ \A q \in Requests : pc[q] \in RequestPC
    /\ on \in [Workers -> Batches \cup {NoBatch}]
    /\ \A w \in Workers : on[w] = NoBatch <=> pc[w] = "idle"
    /\ mem \in [Actors -> Row]
    /\ chunks \in [Workers -> 0..MaxChunks]

\* Types, and a worker holds a batch exactly while it is executing one.
TypeOK ==
    /\ SharedOK
    /\ PrivateOK
    /\ failures \in 0..MaxFailures
    /\ disputed \subseteq Batches
    /\ abandoned \subseteq Batches

Init ==
    /\ row = [b \in Batches |-> FreshRow]
    /\ results = [b \in Batches |-> "none"]
    /\ events = [b \in Batches |-> {}]
    /\ pc = [a \in Actors |-> IF a \in Workers THEN "idle" ELSE "start"]
    /\ on = [w \in Workers |-> NoBatch]
    /\ mem = [a \in Actors |-> FreshRow]
    /\ chunks = [w \in Workers |-> 0]
    /\ failures = 0
    /\ disputed = {}
    /\ abandoned = {}

-------------------------------------------------------------------------------
(* transition_batch, and the two ways it raises instead.                       *)

\* ensure_transition looks at the copy in memory, never at the row; inserting a
\* second notification for the same user, batch, version and event violates
\* uq_notification_batch_event, and the whole transaction is rolled back.
CanCommit(a, b, to, user) ==
    /\ to \in ALLOWED_TRANSITIONS[mem[a].status]
    /\ to \in TERMINAL_BATCH_STATUSES => <<user, to>> \notin events[b]

\* Mutation: every ended batch is marked final.
FinalAfterAnyEnding(a, to) ==
    IF to \in TERMINAL_BATCH_STATUSES THEN TRUE ELSE mem[a].final

FinalAfter(a, to) ==
    IF to \in TERMINAL_BATCH_STATUSES THEN to = "completed" ELSE mem[a].final

\* The UPDATE names the row by its id alone, and sets only the attributes whose
\* value differs from the one loaded.
Written(a, b, to, user) ==
    [status |-> to,
     final |-> IF FinalAfter(a, to) # mem[a].final
                 THEN FinalAfter(a, to) ELSE row[b].final,
     requester |-> IF user # mem[a].requester THEN user ELSE row[b].requester]

\* Mutation: only completion is notified.
CommitQuietly(a, b, to, user) ==
    /\ CanCommit(a, b, to, user)
    /\ row' = [row EXCEPT ![b] = Written(a, b, to, user)]
    /\ events' = IF to = "completed"
                   THEN [events EXCEPT ![b] = @ \cup {<<user, to>>}]
                   ELSE events

Commit(a, b, to, user) ==
    /\ CanCommit(a, b, to, user)
    /\ row' = [row EXCEPT ![b] = Written(a, b, to, user)]
    /\ events' = IF to \in TERMINAL_BATCH_STATUSES
                   THEN [events EXCEPT ![b] = @ \cup {<<user, to>>}]
                   ELSE events

\* The copy after a commit that the session goes on from.
Held(a, to, user) ==
    [status |-> to, final |-> FinalAfter(a, to), requester |-> user]

-------------------------------------------------------------------------------
(* Requests.  A request that raised answers with an error and is done.         *)

Goto(a, step) == pc' = [pc EXCEPT ![a] = step]
Forget(a) == mem' = [mem EXCEPT ![a] = FreshRow]
Load(a, b) == mem' = [mem EXCEPT ![a] = row[b]]
Finish(q) == Goto(q, "done") /\ Forget(q)

WorkersUnchanged == UNCHANGED <<on, chunks, failures, abandoned>>

\* confirm_batch: the read, its guard, and the parameter check that may refuse.
ConfirmRead(q) ==
    /\ q \in Confirmers
    /\ pc[q] = "start"
    /\ \/ /\ row[Target[q]].status = "awaiting_confirmation"
          /\ Load(q, Target[q])
          /\ Goto(q, "to_queued")
       \/ Finish(q)
    /\ UNCHANGED <<row, results, events, disputed>>
    /\ WorkersUnchanged

\* Nothing keeps a second request from confirming what the first one confirmed:
\* if the batch has left the queue meanwhile, it is put back.
ConfirmCommit(q) ==
    LET b == Target[q]
    IN /\ q \in Confirmers
       /\ pc[q] = "to_queued"
       /\ Commit(q, b, "queued", UserOf[q])
       /\ disputed' = IF row[b].status \in {"awaiting_confirmation", "queued"}
                        THEN disputed ELSE disputed \cup {b}
       /\ Finish(q)
       /\ UNCHANGED results
       /\ WorkersUnchanged

\* cancel_batch: a terminal or not cancellable batch is answered at once.
CancelRead(q) ==
    /\ q \in Cancellers
    /\ pc[q] = "start"
    /\ IF row[Target[q]].status \in CANCELLABLE_BATCH_STATUSES
         THEN Load(q, Target[q]) /\ Goto(q, "to_cancelling")
         ELSE Finish(q)
    /\ UNCHANGED <<row, results, events, disputed>>
    /\ WorkersUnchanged

CancelRequest(q) ==
    LET user == mem[q].requester
    IN /\ q \in Cancellers
       /\ pc[q] = "to_cancelling"
       /\ Commit(q, Target[q], "cancelling", user)
       /\ mem' = [mem EXCEPT ![q] = Held(q, "cancelling", user)]
       /\ Goto(q, "to_cancelled")
       /\ UNCHANGED <<results, disputed>>
       /\ WorkersUnchanged

\* The commit of cancelled_at that follows writes no modelled attribute.
CancelFinish(q) ==
    LET user == mem[q].requester
    IN /\ q \in Cancellers
       /\ pc[q] = "to_cancelled"
       /\ \/ Commit(q, Target[q], "cancelled", user)
          \/ /\ ~CanCommit(q, Target[q], "cancelled", user)
             /\ UNCHANGED <<row, events>>
       /\ Finish(q)
       /\ UNCHANGED <<results, disputed>>
       /\ WorkersUnchanged

\* The API process dies under a request that has begun, or the database fails
\* its transaction: a cancellation that was requested is not finished.
RequestCrash(q) ==
    /\ q \in Requests
    /\ pc[q] \notin {"start", "done"}
    /\ failures < MaxFailures
    /\ failures' = failures + 1
    /\ abandoned' = IF pc[q] = "to_cancelled" THEN abandoned \cup {Target[q]}
                                              ELSE abandoned
    /\ Finish(q)
    /\ UNCHANGED <<row, results, events, on, chunks, disputed>>

-------------------------------------------------------------------------------
(* Worker runs.                                                                *)

RequestRowsUnchanged == UNCHANGED <<row, events>>
RunUnchanged == UNCHANGED <<failures, histories>>

\* Mutation: the run ends without letting go of its batch.
ReturnHolding(w) ==
    /\ Goto(w, "idle")
    /\ Forget(w)
    /\ chunks' = [chunks EXCEPT ![w] = 0]
    /\ UNCHANGED on

\* The run is over: its session is closed and the worker polls again.
Return(w) ==
    /\ Goto(w, "idle")
    /\ Forget(w)
    /\ on' = [on EXCEPT ![w] = NoBatch]
    /\ chunks' = [chunks EXCEPT ![w] = 0]

\* An exception leaves execute_reconciliation_batch; uncommitted work is lost.
Raise(w) ==
    /\ Goto(w, "rollback")
    /\ UNCHANGED <<row, events, mem, on, chunks>>

\* A transition in the middle of a run.
Advance(w, to, step) ==
    LET user == mem[w].requester
    IN /\ Commit(w, on[w], to, user)
       /\ mem' = [mem EXCEPT ![w] = Held(w, to, user)]
       /\ Goto(w, step)
       /\ UNCHANGED on

\* The transition that ends a run, or the exception it raises.
Conclude(w, to) ==
    LET user == mem[w].requester
    IN \/ Commit(w, on[w], to, user) /\ Return(w)
       \/ ~CanCommit(w, on[w], to, user) /\ Raise(w)

\* _cancelled: refresh the copy and stop when it says so.
CheckCancelled(w, step) ==
    /\ \/ /\ row[on[w]].status \in {"cancelling", "cancelled"}
          /\ Return(w)
       \/ /\ row[on[w]].status \notin {"cancelling", "cancelled"}
          /\ Load(w, on[w])
          /\ Goto(w, step)
          /\ UNCHANGED <<on, chunks>>
    /\ RequestRowsUnchanged

\* A row that a transaction in progress may have locked: SKIP LOCKED passes it.
MaybeLocked(b) ==
    \/ \E q \in Requests : Target[q] = b /\ pc[q] \notin {"start", "done"}
    \/ \E w \in Workers : on[w] = b

\* A worker gets hold of a batch.  Who gets hold of one that another worker has
\* failed to claim does not know of that worker's handler.
Hold(w, b) ==
    /\ on' = [on EXCEPT ![w] = b]
    /\ disputed' = IF \E v \in Workers : on[v] = b /\ pc[v] \in Handling
                     THEN disputed \cup {b} ELSE disputed

MoveToValidating(w, b) ==
    /\ Hold(w, b)
    /\ row' = [row EXCEPT ![b].status = "validating"]
    /\ mem' = [mem EXCEPT ![w] = [row[b] EXCEPT !.status = "validating"]]
    /\ Goto(w, "validating")
    /\ UNCHANGED <<results, events, chunks, failures, abandoned>>

\* Mutation: a run that seems interrupted is taken over.
ClaimInterrupted(w, b) ==
    /\ pc[w] = "idle"
    /\ row[b].status \in {"queued", "validating"}
    /\ MoveToValidating(w, b)

\* Mutation: failed batches are retried in place.
ClaimFailed(w, b) ==
    /\ pc[w] = "idle"
    /\ row[b].status \in {"queued", "failed"}
    /\ MoveToValidating(w, b)

\* process_next_batch: the oldest queued row that is not locked is locked, read
\* and moved to validating in one transaction.
Claimable(b) ==
    /\ row[b].status = "queued"
    /\ \A older \in Batches :
          older < b /\ row[older].status = "queued" => MaybeLocked(older)

Claim(w, b) ==
    /\ pc[w] = "idle"
    /\ Claimable(b)
    /\ MoveToValidating(w, b)

\* The database fails that transaction, which gives up the lock: the handler
\* goes on with a batch that is queued still, or again somebody's.
ClaimFails(w, b) ==
    /\ pc[w] = "idle"
    /\ Claimable(b)
    /\ failures < MaxFailures
    /\ failures' = failures + 1
    /\ Hold(w, b)
    /\ Goto(w, "rollback")
    /\ UNCHANGED <<row, results, events, mem, chunks, abandoned>>

FailValidation(w) ==
    /\ pc[w] = "validating"
    /\ Conclude(w, "failed")
    /\ UNCHANGED results
    /\ RunUnchanged

\* Validation succeeds, progress is saved, cancellation is checked.
CheckAfterValidation(w) ==
    /\ pc[w] = "validating"
    /\ CheckCancelled(w, "to_fetch")
    /\ UNCHANGED results
    /\ RunUnchanged

BeginFetch(w) ==
    /\ pc[w] = "to_fetch"
    /\ \/ Advance(w, "fetching_remote", "fetching") /\ UNCHANGED chunks
       \/ /\ ~CanCommit(w, on[w], "fetching_remote", mem[w].requester)
          /\ Raise(w)
    /\ UNCHANGED results
    /\ RunUnchanged

\* The comparison window does not convert to the remote time zone.
FailWindow(w) ==
    /\ pc[w] = "fetching"
    /\ Conclude(w, "failed")
    /\ UNCHANGED results
    /\ RunUnchanged

\* A remote error, or a KeyError or ValueError of the code that handles the
\* remote answers, ends the run as incomplete.
RemoteIncomplete(w) ==
    /\ pc[w] \in {"fetching", "comparing", "rechecking"}
    /\ Conclude(w, "comparison_incomplete")
    /\ UNCHANGED results
    /\ RunUnchanged

CheckAfterFetch(w) ==
    /\ pc[w] = "fetching"
    /\ CheckCancelled(w, "to_compare")
    /\ UNCHANGED results
    /\ RunUnchanged

\* InvalidBatchTransition is a ValueError: raised inside the remote block it is
\* taken for a remote error.
BeginCompare(w) ==
    /\ pc[w] = "to_compare"
    /\ \/ Advance(w, "comparing", "comparing") /\ UNCHANGED chunks
       \/ /\ ~CanCommit(w, on[w], "comparing", mem[w].requester)
          /\ Conclude(w, "comparison_incomplete")
    /\ UNCHANGED results
    /\ RunUnchanged

\* Some payment had no counterpart: there are candidates to recheck.
CheckBeforeRecheck(w) ==
    /\ pc[w] = "comparing"
    /\ CheckCancelled(w, "to_recheck")
    /\ UNCHANGED results
    /\ RunUnchanged

BeginRecheck(w) ==
    /\ pc[w] = "to_recheck"
    /\ \/ /\ Advance(w, "rechecking", "chunk")
          /\ \E n \in 1..MaxChunks : chunks' = [chunks EXCEPT ![w] = n]
       \/ /\ ~CanCommit(w, on[w], "rechecking", mem[w].requester)
          /\ Conclude(w, "comparison_incomplete")
    /\ UNCHANGED results
    /\ RunUnchanged

\* Before the 1st, 26th, 51st ... exact search.
CheckChunk(w) ==
    /\ pc[w] = "chunk"
    /\ CheckCancelled(w, "rechecking")
    /\ UNCHANGED results
    /\ RunUnchanged

FinishChunk(w) ==
    /\ pc[w] = "rechecking"
    /\ chunks[w] > 1
    /\ chunks' = [chunks EXCEPT ![w] = @ - 1]
    /\ Goto(w, "chunk")
    /\ UNCHANGED <<row, results, events, on, mem>>
    /\ RunUnchanged

\* _save_results replaces the rows of the batch by drafts: after the comparison
\* when nothing is left to recheck, or after the last chunk.
SaveResults(w) ==
    /\ \/ pc[w] = "comparing"
       \/ pc[w] = "rechecking" /\ chunks[w] = 1
    /\ results' = [results EXCEPT ![on[w]] = "draft"]
    /\ Goto(w, "saved")
    /\ UNCHANGED <<row, events, on, mem, chunks>>
    /\ RunUnchanged

CheckSaved(w) ==
    /\ pc[w] = "saved"
    /\ CheckCancelled(w, "last_check")
    /\ UNCHANGED results
    /\ RunUnchanged

CheckLast(w) ==
    /\ pc[w] = "last_check"
    /\ CheckCancelled(w, "publish")
    /\ UNCHANGED results
    /\ RunUnchanged

\* Mutation: the batch completes and its results stay drafts.
PublishDrafts(w) ==
    /\ pc[w] = "publish"
    /\ Conclude(w, "completed")
    /\ UNCHANGED results
    /\ RunUnchanged

\* The results become final in the transaction that completes the batch.
Publish(w) ==
    LET user == mem[w].requester
    IN /\ pc[w] = "publish"
       /\ \/ /\ Commit(w, on[w], "completed", user)
             /\ results' = [results EXCEPT ![on[w]] = "final"]
             /\ Return(w)
          \/ /\ ~CanCommit(w, on[w], "completed", user)
             /\ Raise(w)
             /\ UNCHANGED results
       /\ RunUnchanged

\* Any other exception of the run: storage, decryption, the database.
UnexpectedError(w) ==
    /\ pc[w] \in Executing
    /\ Raise(w)
    /\ UNCHANGED results
    /\ RunUnchanged

\* The batch is left as it is, and the worker polls again.
Abandon(w) ==
    /\ failures < MaxFailures
    /\ failures' = failures + 1
    /\ abandoned' = abandoned \cup {on[w]}
    /\ Return(w)
    /\ UNCHANGED <<row, results, events, disputed>>

\* Mutation: the handler only logs.
LogError(w) ==
    /\ pc[w] = "rollback"
    /\ Return(w)
    /\ UNCHANGED <<row, results, events>>
    /\ RunUnchanged

\* process_next_batch's handler: roll back and refresh ...
RefreshAfterError(w) ==
    /\ pc[w] = "rollback"
    /\ \/ /\ row[on[w]].status \in TERMINAL_BATCH_STATUSES
          /\ Return(w)
       \/ /\ row[on[w]].status \notin TERMINAL_BATCH_STATUSES
          /\ Load(w, on[w])
          /\ Goto(w, "recover")
          /\ UNCHANGED <<on, chunks>>
    /\ UNCHANGED <<row, results, events>>
    /\ RunUnchanged

\* ... either of which may raise, out of the handler: run() waits and goes on.
RefreshFails(w) ==
    /\ pc[w] = "rollback"
    /\ Abandon(w)

\* ... then fail the batch, and only log it when the transition is refused ...
FailInternal(w) ==
    LET user == mem[w].requester
    IN /\ pc[w] = "recover"
       /\ \/ Commit(w, on[w], "failed", user)
          \/ ~CanCommit(w, on[w], "failed", user) /\ RequestRowsUnchanged
       /\ Return(w)
       /\ UNCHANGED results
       /\ RunUnchanged

\* ... or when the database fails its commit.
RecoveryFails(w) ==
    /\ pc[w] = "recover"
    /\ Abandon(w)

\* The worker process dies and is started again; it keeps nothing.
WorkerCrash(w) ==
    /\ pc[w] # "idle"
    /\ Abandon(w)

-------------------------------------------------------------------------------
RequestStep(q) ==
    \/ ConfirmRead(q) \/ ConfirmCommit(q)
    \/ CancelRead(q) \/ CancelRequest(q) \/ CancelFinish(q)

WorkerStep(w) ==
    \/ \E b \in Batches : Claim(w, b) \/ ClaimFails(w, b)
    \/ FailValidation(w) \/ CheckAfterValidation(w)
    \/ BeginFetch(w) \/ FailWindow(w) \/ RemoteIncomplete(w)
    \/ CheckAfterFetch(w) \/ BeginCompare(w)
    \/ CheckBeforeRecheck(w) \/ BeginRecheck(w)
    \/ CheckChunk(w) \/ FinishChunk(w)
    \/ SaveResults(w) \/ CheckSaved(w) \/ CheckLast(w) \/ Publish(w)
    \/ UnexpectedError(w) \/ RefreshAfterError(w) \/ RefreshFails(w)
    \/ FailInternal(w) \/ RecoveryFails(w)

Next ==
    \/ \E q \in Requests : RequestStep(q) \/ RequestCrash(q)
    \/ \E w \in Workers : WorkerStep(w) \/ WorkerCrash(w)

Spec == Init /\ [][Next]_vars

\* The worker loop polls for ever, and a request that has begun goes on; nobody
\* has to send a request.
Fairness ==
    /\ \A w \in Workers : WF_vars(WorkerStep(w))
    /\ \A q \in Requests : WF_vars(pc[q] # "start" /\ RequestStep(q))

FairSpec == Spec /\ Fairness

-------------------------------------------------------------------------------
(* Properties.                                                                 *)

Announced(b) ==
    {s \in TERMINAL_BATCH_STATUSES : \E u \in Users : <<u, s>> \in events[b]}
Verdicts == {"completed", "failed", "comparison_incomplete"}

\* Nothing is published behind the users' back: a batch marked final, or with
\* final result rows, has announced its completion (transition_batch, and the
\* update of the result rows in its transaction).
PublicationAnnounced ==
    \A b \in Batches :
        row[b].final \/ results[b] = "final" => "completed" \in Announced(b)

\* A terminal status is never reached silently: whoever wrote it last, its
\* notification was stored with it.
TerminalAnnounced ==
    \A b \in Batches :
        row[b].status \in TERMINAL_BATCH_STATUSES =>
            row[b].status \in Announced(b)

\* No batch is executed by two workers at once: what the lock of the claim is
\* documented to ensure.
OneExecutor ==
    \A v, w \in Workers : pc[v] # "idle" /\ on[v] = on[w] => v = w

\* What it does ensure, with any number of confirmations, cancellations, failures
\* and workers: two get hold of one batch only if a confirmation put it back into
\* the queue after it had left it, or the second claims what the first one has
\* failed to claim and is about to fail.
SoleExecutor ==
    \A v, w \in Workers :
        pc[v] # "idle" /\ on[v] = on[w] /\ on[v] \notin disputed => v = w

\* The export routes look at is_final only: behind it are final results, never
\* the drafts of a run that is still going or was abandoned.
FinalBatchHasFinalResults ==
    \A b \in Batches \ disputed : row[b].final => results[b] = "final"

\* The workers give one verdict on a batch: what was announced as completed is
\* never also announced as failed or incomplete, nor the other way round.
OneVerdict ==
    \A b \in Batches \ disputed : \A s, t \in Announced(b) \cap Verdicts : s = t

\* Why the three above hold: unless it is put back, a batch is claimed once, and
\* until its one run ends it has no verdict and nothing final.
Undecided(b) ==
    /\ ~row[b].final
    /\ results[b] # "final"
    /\ Announced(b) \cap Verdicts = {}

RunOnce(b) ==
    /\ \A v, w \in Workers : on[v] = b /\ on[w] = b => v = w
    /\ row[b].final => results[b] = "final"
    /\ \A s, t \in Announced(b) \cap Verdicts : s = t
    /\ row[b].status \in {"awaiting_confirmation", "queued"} => Undecided(b)
    /\ \A w \in Workers :
          on[w] = b => /\ Undecided(b)
                       /\ row[b].status # "awaiting_confirmation"
                       /\ row[b].status = "queued" => pc[w] \in Handling

SingleRun ==
    /\ \A b \in Batches \ disputed : RunOnce(b)
    /\ \A q \in Cancellers :
          pc[q] \in {"to_cancelling", "to_cancelled"} =>
              row[Target[q]].status # "awaiting_confirmation"

\* What a user may have exported stays as it is: final results are never
\* replaced, deleted or turned back into drafts.
PublishedFrozen ==
    [][\A b \in Batches \ disputed' :
          results[b] = "final" => results'[b] = "final"]_vars

\* Once a batch is terminal and no worker run or request still holds a copy of
\* its row, nothing changes it any more.
Settled(b) ==
    /\ row[b].status \in TERMINAL_BATCH_STATUSES
    /\ \A w \in Workers : on[w] # b
    /\ \A q \in Requests : Target[q] = b => pc[q] \in {"start", "done"}

SettledForGood ==
    [][\A b \in Batches :
          Settled(b) => /\ row'[b] = row[b]
                        /\ results'[b] = results[b]
                        /\ events'[b] = events[b]]_vars

\* A queued batch reaches a terminal status: the workers take it in turn, every
\* run ends, and an exception, a failed claim or a cancellation ends it too.  The
\* exceptions are batches that were put back, whose second ending may be refused,
\* and those whose own worker died, whose own recovery failed, or whose
\* cancellation was left half-way; they do not hold up the others.
QueuedSettles ==
    \A b \in Batches :
        row[b].status = "queued" ~>
            \/ row[b].status \in TERMINAL_BATCH_STATUSES
            \/ b \in abandoned \cup disputed

\* "A restarted process is recovered from": it does so even if one dies.
QueuedRecovers ==
    \A b \in Batches :
        row[b].status = "queued" ~> row[b].status \in TERMINAL_BATCH_STATUSES

\* The terminal transition that comes first stands (FR-REC-57).
FirstEndingStands ==
    [][\A b \in Batches :
          row[b].status \in TERMINAL_BATCH_STATUSES =>
              row'[b].status = row[b].status]_vars

\* A cancellation under way is finished, however often it was asked for
\* (FR-REC-54, FR-REC-56).
CancellationEnds ==
    \A b \in Batches :
        row[b].status = "cancelling" ~> row[b].status \in TERMINAL_BATCH_STATUSES

\* A cancelled batch is not open to export.
CancelledNotExportable ==
    \A b \in Batches : row[b].status = "cancelled" => ~row[b].final

\* One verdict, published with its results and never taken back, although the
\* rows pass through any number of stale writes (ResultPublication).
Publication == INSTANCE ResultPublication
                   WITH verdicts <- [b \in Batches |-> Announced(b) \cap Verdicts],
                        visible <- {b \in Batches : results[b] = "final"}
PublishesOnce == Publication!Spec

\* The status graph of batch_state.py, as a machine: until somebody begins to
\* cancel it, or it is put back into the queue, the row of a batch only moves
\* along ALLOWED_TRANSITIONS, whoever writes it from whatever copy, so that its
\* terminal status is for good (BatchStateMachine).
Cancelling == {Target[q] : q \in {c \in Cancellers : pc[c] # "start"}}

Machine == INSTANCE BatchStateMachine
               WITH status <- [b \in Batches |-> row[b].status],
                    exempt <- disputed \cup Cancelling
FollowsGraph == Machine!Spec
===============================================================================
