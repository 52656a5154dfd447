# Formal verification of the reconciliation service

The service compares payment files of operators with the orders of a remote
charge system. A user uploads a file for a configured source, confirms the batch,
a worker imports the payments, fetches the remote orders, searches the unmatched
ones one by one, and publishes a verdict per payment that can be exported.

This directory holds TLA+ models of the parts of it that can go wrong between
processes, TLC configurations that check them on small instances, and TLAPS
proofs of what holds for any number of batches, workers and requests. Everything is
translated from the code under `src/`; `PROJECT.json` maps every definition to its
lines, lists the hazards of the code and the runs, and names for every property a
plausible bug of the code that the property catches.

To check it: `tlc -config life.cfg MCBatchLifecycle.tla` and so on
for the other configurations, `tlapm BatchLifecycleProofs.tla` and so on for the
eight modules that hold proofs.

## The system

Two kinds of processes, API servers and workers, share one PostgreSQL database and
one file volume; the API also uses Redis. Nothing else connects them: a worker finds
its work by polling the table of batches, a cancellation reaches it because it reads
its row again. All code is asyncio; every request and every worker run has a
SQLAlchemy session of its own. Three facts about these sessions
(`packages/common/database.py`) make most of the behaviour below:

- objects keep their attributes after a commit (`expire_on_commit=False`), so a
  session works on a copy of a row that is as old as its last read;
- an UPDATE names the row by its primary key and sets only the attributes that
  differ from what *this session* loaded;
- reads take no lock, except where the worker claims a batch.

| Component | State | Operations | What makes it correct |
|---|---|---|---|
| Batch status graph (`batch_state.py`) | none | `ensure_transition` | a status moves along the graph; a terminal one is for good |
| Batch lifecycle (`batch_service.py`, `routers/batches.py`) | `reconciliation_batches`, activity log, `user_notifications` | confirm, cancel, transition | one execution per confirmation; the first ending stands and is announced; a cancelled batch exports nothing |
| Worker (`reconciliation_execution_service.py`, `worker/main.py`) | result rows, progress, the copy of the batch row | claim, validate, fetch, compare, recheck, save, publish, fail | one executor; one verdict; results are final exactly when the batch is; every run ends |
| Upload, deduplication, rerun (`batch_service.py`) | batches, `stored_file_objects`, `stored_file_references` | upload, rerun | one active batch per comparison; versions without gaps or doubles |
| Files and retention (`storage/local.py`, `retention_cleanup_service.py`) | the volume, objects, references, expiry times | store, delete, sweep | a referenced file exists; an unreferenced one goes |
| Remote client (`remote_charge_service.py`) | a login token; pages being collected | login, channels, paged listing, exact search | a payment is missing only if the remote system does not list it |
| Engine (`reconciliation_engine.py`) | none | compare | a match is one order with both numbers and the amount |
| Payment import (`payment_import_service.py`), templates (`payment_template_service.py`) | none | detect a template; read, filter, group rows | the template that fits is found; every row is in one group; what is compared is one order |
| Results and exports (`result_service.py`) | none of its own | list, export | only final results leave |
| Sources (`source_service.py`) | `source_configs`, known channels | create, edit, clear, delete, test | a batch runs with the configuration it was uploaded for; what is enabled was tested |
| Users and sessions (`auth_service.py`) | users, sessions | login, logout, create, change, reset, disable | an open session matches its account; one administrator remains |
| Login rate limit (`rate_limit_service.py`), captcha | Redis counters; stateless tokens | count, expire, verify | no more attempts than the limit; a counter expires |
| Notifications | `user_notifications` | create, list, read | one per user, batch and event |
| Retention settings | one row | read or create, change | one row |
| Web client | polling timers, the session store | poll, confirm, cancel, download | stops polling at the end, and only there |
| Security primitives, deployment, migrations | keys; scripts | encrypt, hash, render | out of scope, see below |

How they interact: an upload reads the source and retention settings, stores the
file and creates batch, reference and log row in one commit. Confirm moves the batch
to `queued`. A worker claims it under `FOR UPDATE SKIP LOCKED`, checks that the
source still has the version the batch is bound to, and drives it to a terminal
status through `transition_batch`, which writes the user's notification in the same
commit. The cleanup runs in the worker process, in a session of its own, beside all
of this.

Hard behaviours: stale copies written back by id; confirmation and cancellation beside a
run; a worker that dies in a run, or whose handler of errors fails in its turn; two commits
where one is meant; the sweep unlinking files before it commits; a remote system that
changes while its listing is paged; connection tests that last longer than the configuration
they test; logins and edits of accounts that overlap. The list with a source line for each
is `hazards` in `PROJECT.json`.

## Modules

| Module | Models | Checked by |
|---|---|---|
| `BatchState` | statuses, transition table, terminal and cancellable sets | extended by the next two |
| `BatchStateMachine` | abstract: a batch moves along the table | `FollowsGraph` |
| `ResultPublication` | abstract: one verdict per batch, visible results with it, for good | `PublishesOnce` |
| `BatchLifecycle` | confirm, cancel, worker runs and crashes over shared rows | `MCBatchLifecycle`, `life*` |
| `BatchLifecycleProofs` | theorems about it | tlapm |
| `Submission` | which batch an upload or rerun ends in: comparisons, series, versions | `MCSubmission`, `submissions*` |
| `SubmissionProofs` | theorems about it | tlapm |
| `FileRetention` | upload, rerun and sweep over files, objects, references | `MCFileRetention`, `files*` |
| `FileRetentionProofs` | theorems about it | tlapm |
| `RemoteSearch` | paged fetch, exact search, engine, against a changing remote | `MCRemoteSearch`, `search_*` |
| `RemoteSearchProofs` | theorems about it | tlapm |
| `SourceConfig` | edits, tests and the version a batch is bound to | `MCSourceConfig`, `sources*` |
| `SourceConfigProofs` | theorems about it | tlapm |
| `LoginRateLimit` | the counter in Redis and its expiry, two calls | extended by the next |
| `Accounts` | logins behind the limit, logouts, creation and edits of accounts | `MCAccounts`, `accounts` |
| `AccountsProofs` | theorems about both | tlapm |
| `TemplateDetection` | the detection as operators, with a reference definition | extended by the next |
| `PaymentImport` | a file from its upload to the sheets of the export | `MCPaymentImport`, `imports` |
| `PaymentImportProofs` | theorems about both | tlapm |
| `Folding` | no part of the system: what a fold over a sequence computes, for any operator | tlapm |

### BatchLifecycle

`row` is the part of `reconciliation_batches` that the properties tell apart: status,
`is_final`, and `execution_requested_by`. `results` says whether the result rows of a
batch are absent, drafts or final, `events` holds its notifications. A request or a
worker run `a` has a program counter `pc[a]` and the row as its session holds it in
memory, `mem[a]`. A step is one transaction or one refresh, which is where the code
awaits and other sessions run; reads that decide nothing are left out.

`Commit` is `transition_batch`: it checks the copy, writes the row by id with the
attributes that changed against the copy (`Written`), and inserts the notification
of a terminal status, whose unique constraint can make the whole transaction fail.
The steps of `execute_reconciliation_batch` follow in order: `CheckAfterValidation`,
`BeginFetch`, ..., `Publish`; each `CheckCancelled` is a `_cancelled` call, which
refreshes the copy. Errors go where the code catches them: `FailValidation`,
`FailWindow`, `RemoteIncomplete` (which also catches `InvalidBatchTransition`, a
`ValueError`, raised within the remote block), and `UnexpectedError`, which leads to
the handler of `process_next_batch`. `SKIP LOCKED` may skip a row
that some request is just writing (`MaybeLocked`), so the claim is nondeterministic
there.

The handler rolls back and refreshes (`RefreshAfterError`), which stands in no `try` of
its own: if either raises (`RefreshFails`) the exception leaves the handler, `run` logs it,
waits and polls again, and the batch stays as it is. Then it fails the batch
(`FailInternal`); a refused transition and a database error of that commit
(`RecoveryFails`) are both only logged. The claim itself lies in the same `try`: a
database error there (`ClaimFails`) gives up the lock and sends the handler off with a
batch that is queued still, and that another worker may claim before the handler is done
with it. `WorkerCrash` and `RequestCrash` lose everything but what was committed; a
failed transaction of a request is a `RequestCrash` too. `failures` counts
all of these together, and `MaxFailures` bounds them; an `UnexpectedError` that the handler
does deal with is not counted.

Two histories name the batches for which the code does not keep its promises.
`disputed`: batches that a second confirmation put back after they had left the queue, or
that were claimed while another worker still handled its failed claim of them.
`abandoned`: batches whose own worker died, whose own handler failed, or whose
cancellation stopped between its two commits.

Cancellation reads the row, commits `cancelling`, then commits `cancelled`; the
later commit of `cancelled_at` touches nothing modelled.

### Submission

A batch goes by the request that inserted it. `row` is what identifies it among the
others: comparison, series, `run_version`, `rerun_of_batch_id`; its status is reduced
to open, ended and dead (failed or cancelled), which is what the two services ask. An
upload looks for a batch of its comparison (`AnswerExisting`, `FindNone`; `Existing`
has the order by `run_version` and lets the database choose among equals) and
inserts later (`CommitUpload`). A rerun reads the batch it repeats, then the highest
version of the series, then inserts (`ReadPrevious`, `ReadVersion`, `CommitRerun`), or
meets `uq_batch_series_version` (`RefuseVersion`). The cleanup deletes batches at any
point (`Delete`), which sets `rerun_of` of others to null. `thinned` is
history: the series that lost a batch so; `beside`: the reruns
that had read their version when another of the series was inserted.

### FileRetention

A content is a member of `Files`; `disk` is the volume, `object` the row of a content with
`deleted_at`, `ref` and `file` the reference of a batch. Uploads store, look for an existing
batch, read the object row, and commit. A rerun copies a valid reference; while it is in
flight its foreign key locks the repeated batch's row. `cleanup_expired_data` is one
transaction: `SelectExpired`, `SelectOrphans`, an `Unlink` per file, `CommitSweep`. Files go
before the commit, and `SweepCrash` may come anywhere. Time is `Expire` (a reference) and
`Age` (a batch), in any order; `Aging` bounds which batches age. `tainted` is history:
requests that ran beside a sweep, or reruns copied from such a batch.

### RemoteSearch

The remote system is external and modelled from the queries the client sends: a
listing per channel, newest first, in which orders appear, disappear and change
between success and another status, up to `MaxMoves` times per run. `FetchPage` is
one turn of the loop of `fetch_all_charge_orders`, `LookUp` one query of
`exact_search`, `Compare` and `Evaluate` are `reconciliation_engine.py`. Rows are
filed under their id or else their number, as in the code, so that rows without
an id can replace one another. A login that succeeds, the first or a repeated one, and
the cancellation checks in between change no verdict and are left out (`BatchLifecycle`
has the latter); one that fails is `FetchFails` or `LookUpFails`.

### SourceConfig

The row of one source and a copy of it per session. `Edited` is `upsert_source` on
a copy, `Cleared` is `clear_credentials`; `Written` sends the attributes that differ
from the copy. Any number of administrators may have an edit open at once; nothing
in the code serialises them. A connection test reads, takes any time, and writes its verdict
(`FinishTest`). An upload binds its batch to the version of its copy; `Validate` is
the worker's check. `Edits` are the requests the schemas admit; display name,
currency and time zone are one flag (`terms`). Creating a source always ends in a
draft without credentials, see the observations below.

Two histories: `raced`, that the last verdict was of another target than the row's, or
that an edit that enabled, or changed the target, decided on a copy whose target, enabling
or verdict was out of date; and `unguarded`, the batches that were open when an edit wrote
over a version it did not know of, or whose source was deleted under their upload.

### Accounts and LoginRateLimit

`account` is the row of a user: role, activity, and the password by the edit that
set it; `session` the rows of `auth_sessions` by the login that opened them. A login
counts itself (`Count`), is let through or not, sets the expiry if it counted 1
(`SetExpiry`), verifies the password against the account, and inserts its session
in a commit of its own (`OpenSession`). A PATCH of an administrator goes through the
statements of `update_user`: `Authorise` (`require_admin`, whose session keeps the
actor's own row), `ReadTarget`, `CountAdmins` if an administrator goes, `RevokeSessions`,
`CommitEdit`. The UPDATE of the sessions is sent at once and locks them; that of the
account waits for the commit (`autoflush=False`) and, as everywhere, writes the
attributes that differ from the copy (`Written`). The same commit touches the
actor's session, so that edits may wait for one another in a ring, which the database
breaks (`BreakDeadlock`). A creation checks the name and inserts later. A login may die
between INCR and EXPIRE, an edit anywhere. `seen`, `beside`, `late` and `raced` are
history: the account a login verified, the logins that overlapped a change, the
edits whose copy or count is out of date, and that one was committed.

### TemplateDetection and PaymentImport

A file is a sequence of sheets with lines of cells, a cell one of a few texts.
`Detected` is `detect_payment_template`: the line of headers of each sheet, every
template against every one of them in the order of the loops, the best kept by its
coverage and size; `RightlyDetected` says what comes of it without any loop. `Upload`,
`Confirm`, `BeginImport` and the line actions are the steps in which the code goes
through a file; `Gathered` is the grouping, `Preliminary` what the import decides of
a group, `Lists` which sheet of the export shows what. The verdicts of the
comparison are any (`RemoteSearch` has them). A CSV file may be cut off before its
detection (`cut`).

## Runs

| Run | Bounds | Result |
|---|---|---|
| `life` | 1 batch, 2 confirmations, 1 cancellation, 2 workers, 2 chunks, 2 failures; fairness | all hold (507,882 states) |
| `life_v_confirm_twice` | 1 batch, 2 workers, 2 confirmations | `OneExecutor` violated |
| `life_v_export` | 1 batch, 1 worker, 1 cancellation | `CancelledNotExportable` violated |
| `life_v_crash` | 1 batch, 1 worker, 1 failure; fairness | `QueuedRecovers` violated |
| `files` | 1 content, 2 uploads, 1 rerun, 1 crash, the results of the first upload age; fairness | all hold |
| `files_v_race` | 1 content, 2 uploads, no crash | `ReferencedFileKept` violated |
| `search_moving` | 5 orders in 2 channels, pages of 2, 3 payments, 2 moves | all hold (1,713,772 states) |
| `sources` | 2 editors, 2 URLs, 2 secrets, 4 edits, 1 test, 1 batch | all hold (426,671 states) |
| `submissions` | 1 comparison, 2 uploads, 3 reruns, deletions | all hold |
| `submissions_v_active` | 1 comparison, 2 uploads | `OneActive` violated |
| `accounts` | 2 names, 3 logins (one long before), 2 edits of 3 kinds, 1 creation, limit 1, 1 death; fairness | all hold |
| `imports` | every file of 3 rows out of 11 in 4 layouts, 3 templates; header line named or not, 2 types of business, 2 time columns | all hold |

Six more configurations ask what these leave out; they are not among the runs of
`PROJECT.json`, and are run by hand in the same way.

| Configuration | Bounds | Result |
|---|---|---|
| `life_queue` | 2 batches, a confirmation each, 1 cancellation, 2 workers, 1 chunk, 1 failure; fairness | `QueuedSettles` holds (203,631 states) |
| `search_twice` | as `search_moving`, the second channel selected twice, no moves | `StillRemoteSaysSo` holds (21,906 states) |
| `life_v_overwritten` | 1 batch, 1 worker, 1 cancellation | `FirstEndingStands` violated |
| `life_v_cancel_twice` | 1 batch, 1 worker, 2 cancellations, no failure; fairness | `CancellationEnds` violated |
| `sources_v_untested` | as `sources` | `EnabledForTested` violated |
| `sources_v_version` | as `sources` | `BatchesKeepTarget` violated |

What they show when they hold:

- Lifecycle. Whatever the confirmations, cancellations and failures, two workers get hold of
  one batch only if it is `disputed` (`SoleExecutor`); for every other batch, what the
  export routes let through has final results (`FinalBatchHasFinalResults`), completed
  and failed are not both announced (`OneVerdict`), final results are never replaced
  (`PublishedFrozen`), the whole implements `ResultPublication`, and, until somebody
  cancels it, its row implements `BatchStateMachine` (`FollowsGraph`): confirming twice
  does no harm as long as the batch has not left the queue. For all
  batches, a terminal status and a publication are never silent (`TerminalAnnounced`,
  `PublicationAnnounced`), and a terminal batch that no session holds is never
  written again (`SettledForGood`).
  A queued batch ends (`QueuedSettles`), beside a cancellation, claims that fail and
  unexpected errors, unless it becomes `abandoned` or `disputed`. This is
  weaker than the documents' promise of recovery (`QueuedRecovers`, violated): a handler
  that fails while its process lives on abandons the batch like a death. What
  the property adds is that nothing else stops a batch: not the refused transition of
  a stale copy, not an error taken for a remote one, not another batch that is stuck,
  locked or unconfirmed (`life_queue`).
- Submissions: a rerun repeats an earlier version of its own series and comparison
  (`RepeatsEarlier`), whatever was inserted or deleted between its reads and its
  insertion; the versions of a series count its runs while nothing of it is
  deleted (`VersionsCount`), which is the constraint's work as much as that of the
  maximum; and a rerun meets the constraint only over another one
  (`RefusedOnlyBeside`). After deletions a version can be given again.
- Files: a batch created while no sweep ran keeps its file while its reference is
  valid (`UndisturbedFileKept`); every expired reference goes, and every object
  without a valid reference leaves the disk, after an interrupted sweep as well.
- Search: a payment is declared missing only if no order with one of its numbers was
  listed throughout its search (`MissingIsAbsent`), however the paged listing went
  astray; a match has one real order behind it; a failed or cut lookup never makes a
  missing order; and against a remote that stands still the verdicts are what its
  orders imply (`StillRemoteSaysSo`, a reference definition that knows neither
  pages nor lookups). The reference says what is implied where the code is
  peculiar: an order of a channel selected twice counts twice in what was fetched, so its
  payment is a conflict (`search_twice`), and of the orders that the searches file under one
  key only one counts (`o2` and `o5`, which share a number and have no id).
- Sources, with two editors whose requests overlap: the version check suffices for a batch
  that is not `unguarded` to run with the URL and the credentials its upload saw; an
  enabled source was tested as it is unless `raced`; stored credentials decrypt, and the
  one step that can part them from their version is a clearing whose copy had none.
- Accounts: an open session was opened with the role, activity and password its
  account has, unless its login overlapped the change (`SessionsCurrent`): every edit
  finds and revokes all sessions there are, including those opened since it read.
  An active administrator remains (`AdminRemains`) unless an edit was committed over
  another one that it had not seen; the two escapes are observations below. No more
  logins than the limit reach the password in one window, however they interleave,
  and a name that is locked out gets free again unless a process died (`LockoutEnds`).
- Import: the stored template is complete in its sheet and none larger is, in any
  order of sheets and templates (`DetectionIsRight`; that a CSV file which is cut off gets
  no wrong template is an assumption of the model, in `Upload`, and is not checked);
  each line below the headers is
  outside the window or in exactly one group (`RowsAccounted`); what reaches the
  comparison is one order, so that it does not matter which of its rows the code takes
  for the search (`ComparedIsOneOrder`); and each problem is on exactly one of the
  export's sheets but for an amount that differs (`ProblemsOnOneSheet`).

Why the bounds are enough for the cases that matter: one batch is enough for every race on a
row, the second, in `life_queue`, for claim order and for one batch that is stuck before the
other; two workers for a double claim, two confirmations for one that comes late; two
failures to hit a worker and then the next session, or a run and then its handler; two
chunks for a chunk that is not the last. Two uploads share one content and a rerun copies a
reference, which is all the ways of sharing; more contents do not interact. In the search a
page boundary cuts one channel, two orders share a number and have no id, the payments are
of the three kinds the engine tells apart (both numbers, merchant number only, platform
number under another merchant number), and two changes are enough to move an order across
the boundary and back. In `sources` four edits of two administrators allow two to overlap
twice, or to overlap after a source was created or before it is enabled again, within one
test and one upload; editors, URLs and secrets are only compared, hence the symmetry. In
`submissions` two reruns race for a version, and the third repeats a rerun or reads its
version from a series out of which the cleanup has taken the founder or the latest. In
`accounts` two edits are a race, of two administrators once the first has promoted the
created account, or of one with himself; two logins of one name are a race for the counter
and for a window, at a limit of 1 as at any other. In `imports` three rows are two that
conflict and one between, before or after them; of the eleven rows seven say otherwise than
the first in a number, the amount, the state, the time or the spelling, two are another
order and one is blank; and of the templates two differ only in size and one asks for
another sheet.

`CHECK_DEADLOCK FALSE` everywhere: requests are finite, so every model comes to rest.

### Fairness

`FairSpec` of `BatchLifecycle` has weak fairness of each worker's steps (the loop of
`worker/main.py` polls for ever, and every await of a run is bounded by a timeout of the
HTTP client or the database; after an error that leaves `process_next_batch` it waits
and polls again) and of requests that have begun; nobody has to send
one. `FairSpec` of `FileRetention` has weak fairness of the sweep, which the worker
repeats for ever, and of requests in flight. `FairSpec` of `Accounts` says that
Redis ends a window that has a time to live and that a login which counted 1 goes on to
the call that sets it. Failures and, in the search, the remote system are never fair.

## Where the code differs from its documents

Each is shown by a run with `expect: violation` and listed under `findings`:

1. `life_v_confirm_twice`: two confirmations read `awaiting_confirmation`; the later
   one puts the batch being executed back to `queued`, and a second worker takes it.
2. `life_v_crash`: nobody claims a batch that a dead worker, or a handler that failed,
   left in `validating` or later; it never ends.
3. `life_v_export`: a cancellation that read the row before completion writes
   `cancelled` over `completed` and leaves `is_final` true; it exports.
4. `files_v_race`: an upload that reads the object row as live while the sweep
   unlinks its file ends with a valid reference to nothing.
5. `submissions_v_active`: two uploads of one comparison that overlap both find no
   batch and both create an active one; the identity key is not unique.

Four more are shown by the further configurations:

6. `life_v_overwritten`: a cancellation that read the row before it ended is written over the
   ending; FR-REC-57 (`docs/01-product-requirements.md:287`) lets the first one stand. A
   failure handler writes `failed` over `cancelled` in the same way; both endings are announced.
7. `life_v_cancel_twice`: of two cancellations the later one takes `cancelled` back to
   `cancelling`, meets the unique notification in its second commit, and leaves the batch
   there for good; line 286 asks for an idempotent cancellation.
8. `sources_v_untested`: of two edits of a disabled source one enables it while the other
   replaces the URL or the credentials; what is enabled was never tested (FR-SRC-14, line 164).
9. `sources_v_version`: two overlapping edits write one `config_version` for two
   configurations; a batch uploaded between their commits runs against the other one
   (FR-SRC-11, line 161).

Seen while modelling:

- Sources: a test writes `passed` over a row whose URL changed while it ran; the
  untested URL can be enabled (`source_service.py:395`, `:212`; `raced` in
  `EnabledWasTested`). An edit whose copy was untested does not even reset the status,
  because for its session nothing changes.
- Sources: a clearing that read a row without credentials writes
  `credential_version`, but not its None, which its copy already holds. If another
  administrator cleared and set credentials meanwhile, they stay, under a lower version
  than they are encrypted for, and no longer decrypt (`ClearsUnseen`).
- Sources: a source without batches that is deleted under an upload and created again may
  have the version the upload read (`unguarded`).
- Accounts: two administrators who demote or disable each other, or themselves, with
  overlapping reads leave no active administrator (`docs/01-product-requirements.md:93`
  and `docs/02-technical-architecture.md:691` forbid it; `raced`). A login that verified the
  old password before a reset commits its session after it, and it stays open (`beside`).
- Accounts: with one active administrator left, disabling an administrator who is
  disabled already is refused, since his copy still counts as one that goes.
- Rate limit: every attempt counts, also a successful one
  (`docs/02-technical-architecture.md:685` speaks of failed ones). A death between INCR and EXPIRE
  leaves a counter without expiry, and the name stays locked out from there.
- Templates: versions that are not active take part in the detection. The sheet
  patterns of the released templates (`20260725_0001_initial.py:275`, `:324`) do not match
  the one sheet name `CSV`, so no CSV file is recognised. Only the first 256 KiB of one
  are looked at. A batch without a template can never be confirmed.
- Import: amounts are alike by their text, so `100` and `100.0` in two lines of one order
  are a conflict. One platform number under two merchant numbers is none
  (`docs/01-product-requirements.md:274`). Lines outside the window are dropped before
  grouping, so a duplicate that says otherwise there goes unnoticed. Of two columns with
  one header the last counts.
- Export: results with `amount_mismatch` are on no problem sheet
  (`docs/01-product-requirements.md:235` asks for one).
- A worker whose claim failed sets out to fail the batch it did not get. If another worker
  has claimed it meanwhile, `failed` is written over that one's run, whose own verdict
  may still follow (`disputed`).
- A file stored for an upload that an existing batch answers, or that fails
  afterwards, has no object row if it had none before, and no sweep ever finds it.
- `selectedChannels` may name a channel twice; each of its orders is then fetched twice, and a
  payment that it matches is a conflict (`search_twice`). An order without an id hides another
  with its number from the exact search, so that a conflict can be reported as a match.
- A lookup that fails among several does not make the verdict inconclusive if another
  lookup found an order.
- `upsert_source` adds one to `credential_version` of a row that has not been
  flushed and has no default yet: creating a source with credentials raises
  `TypeError`. In the model it is a request that fails.
- The existing batch of a comparison is looked up by the highest `run_version`; when
  that is a failed rerun, an active older batch is passed over, and a second one
  is created, without any overlap.
- Two reruns of one ended batch that do not overlap give two active batches of one
  comparison as well; two that overlap, one batch and one unhandled integrity error.
- An order that appears between two pages shifts the listing: another order is
  fetched twice, the count agrees, and its payment becomes `order_reference_conflict`.
  `docs/02-technical-architecture.md:389` asks to verify that no business key repeats.

## Proofs

No theorem assumes anything but the named assumptions on the constants of its module, which
say what they are. What the code does not ensure is not assumed either, neither that a
batch is confirmed once nor that edits come one at a time nor that channels are distinct: where a
promise fails for some batches or states, the property says for which.

`BatchLifecycleProofs` proves `TypeCorrect`, `NothingPublishedSilently`,
`NothingEndsSilently`, `SettledStays`, `SingleRunAlways`, `ExecutedByOne`
(`SoleExecutor`), `ExportsAreFinal`, `VerdictIsUnique`, `ExportedStays`,
`ImplementsPublication` and `ImplementsGraph` for any sets of batches, workers, confirmations
and cancellations, any targets and users and any bounds on chunks and failures, from
`LifecycleAssumption` (batch numbers are positive, the kinds of actors are disjoint, a
target is a batch).

The argument. Whatever an actor does to the shared tables is one of a few
effects (`CommitEffect`, `RequestWrites`, `WorkerWrites`): nothing, a `Commit` on the
batch it holds, a claim, or a write of result rows. Type correctness and the two
"announced" invariants follow from the effects alone. `SoleExecutor`,
`FinalBatchHasFinalResults` and `OneVerdict` are not inductive. `SingleRun` adds why
they hold, batch by batch (`RunOnce`) for those not `disputed`: a batch that is waiting or
queued is undecided and in nobody's hands but those of a worker that failed to claim it; a batch
in a worker's hands is undecided; and a canceller under way never meets a waiting batch. A
confirmation either finds the batch in the queue, where it changes nothing that matters,
or puts it back, and then the batch is `disputed` from that step on; likewise a claim beside
a failed one. `SingleRun` is inductive
together with `TypeOK` (`SingleRunStep`), and TLC checks it in `life`.
`PublicationStep` maps every step to a step of `ResultPublication` or a stutter, with the
disputed batches free of the promise.
For `BatchStateMachine` one more invariant is needed (`CopiesFresh`): between the steps of the
one run its copy agrees with the row of a batch that nobody cancels or puts back, so that
the check against the copy is a check against the row.

`SubmissionProofs` proves `TypeCorrect`, `RepeatsEarlierAlways`, `VersionsCountAlways`,
`RefusedOnlyBesideAlways` and `NumberingAlways` for any uploads, reruns and comparisons and
any number of deletions, from `SubmissionAssumption` (requests are distinct, each upload
asks for a comparison, there is an upload). None of the three properties is inductive.
`Numbering` adds what the requests in flight know: a rerun's series has its founder's batch
behind it, so that no upload still adds to it; the batch it repeats is of that series as
long as it exists; a version once read lies above the one repeated, is at most the next of a
series that is whole, and if it is taken, then by another rerun. `NextOrTaken` and the
constraint together give exactly the next version at the insertion (`CommitRerunInv`). That
the maximum of the versions exists is a lemma of its own (`HighestIsMax`), since there may
be any number of them: it rests on the bound that the invariant carries along (`Bounded`)
and on the well-foundedness of finite sets. TLC checks `Numbering` in `submissions`.

`AccountsProofs` proves `TypeCorrect`, `AttemptsBoundedAlways`, `SessionsCurrentAlways` and
`AdminRemainsAlways` for any users, logins, edits, changes and limit, from
`RateLimitAssumption` and `AccountsAssumption` (there is an administrator to begin with;
the users are finitely many, for they are counted). The limit: a counter is at least the
number of logins it let through (`CountsAdmitted`), and who counted 1 is alone with it
until it has its time to live (`OneStarts`). The sessions: a login that is about to open
one has verified the account as it is or is `beside`, and an edit that has revoked holds
every open session of its target but those that are `beside` (`SessionsTraced`). The
administrators: an edit that is not `late` has an exact copy, and one that passed the
count leaves another administrator behind (`AdminsCounted`), since a commit makes
everyone late who counted before it.

`FileRetentionProofs` proves `TypeCorrect` and `UndisturbedFileKeptAlways` for any
contents, uploads, reruns and crashes, from `RetentionAssumption`. `Flights` says what a
request in flight beside no sweep may rely on: its file on disk, a live object if
it read one, the reference it copies; `Sweeping`, that what a sweep has selected is
expired and that no orphan is the content of an undisturbed reference, from its first
file to its commit.

`SourceConfigProofs` proves `TypeCorrect`, `RunUsesBoundConfigAlways`,
`EnabledWasTestedAlways` and `CredentialsDecryptAlways` for any editors, tests and batches,
however they overlap. A commit writes the columns its session changed and leaves the others, and a
mixture of two rows is a row (`WrittenRow`). The copy of an edit may be of any age, so the
invariant says nothing of it; what counts is what its commit can do (`Amends`, `Reseals`).
A batch that is not `unguarded` met only commits of edits that knew the row's version, and these
raise it whenever they change the target, so that a version at most as high as the row's
stands for one target (`Pinned`). An edit that decides something, or a test, whose
copy differs from the row in what it decides on makes the state `raced`, and otherwise a passed
verdict is of the target as it is (`VerdictHolds`). And a session that sets credentials
writes them and their version together, since both differ from its copy, whereas one that
clears them writes the absence only if its copy had some (`ResealDecrypts`).

`RemoteSearchProofs` proves `TypeCorrect`, `TroubleNeverMissing`, `MatchesAreWitnessed`,
`MissingOrdersAreAbsent` and `StillRemoteIsReported` for any orders, channels, payments,
page size and number of changes, from `RemoteAssumption`. `Phase` and `TroubleKnown` say
that a payment in trouble is decided or is the one that is searched, whose search then is
not complete; `Witnessed`, that every row held by the client was among those an answer could
hold. `MissingIsAbsent` rests on `SearchSound`: the lookups done so far have looked for the
payment's numbers in the channels done so far (`Seen`), so that an order listed ever since
the search began was met by one of them, and its key is still filed; the lookups together
reach every channel with every number the payment has (`LookupsCover`). For a remote that
has not moved `Faithful` follows the loop through pages and channels: what was fetched shows
each order of the channels done and of the pages done exactly once for each position of its
channel (`Shows` counts places, pairs of a position in `Channels` and an order, so that a
channel named twice has two of each; the arithmetic of pages is in `PageArithmetic`). What
was found holds one of the orders `Seen` under each key they are filed under (`Files`),
which is one of the choices the reference definition allows (`Filings`, `FoundIsFiling`).
Nothing is assumed of channels or ids. TLC was asked about all of them on the instances of
`search_moving` and `search_twice` before they were proved.

`PaymentImportProofs` proves `TypeCorrect`, `DetectionIsCorrect`, `EveryRowIsAccounted`,
`ComparedGroupsAreOneOrder` and `ProblemsAreListedOnce` for files of any number of sheets,
lines and cells, any templates, texts and windows, from `ImportAssumption` (files are sequences
of sequences, a signature is finite, not empty and without a blank). The detection: whatever
the order of the pairings, the best of those seen so far is none if none fits, and is complete
and of a largest template as soon as one is complete (`BestOf`). A step keeps that
(`KeptIsBest`), since coverage and size are compared by products: what is complete gives way
only to what is complete and larger (`BetterIs`). The import: `LinesRead` says that the lines
above the one to read are counted and that the rows are those of the window, each once;
`GroupsOf`, that the gathered rows are each in one group together with all that share a number
(`GatheredIs`: a row meets at most one group it belongs to). `ComparedIsOneOrder` puts the two
together: a line of the window with the number of a compared row is a row, hence in the
same group, whose fingerprints are one. TLC was asked about the invariant on a part of
the instance of `imports` before it was proved.

Both fold over sequences, as do the paging, the filters and the detection they are about.
`Folding` has what is needed for that, with the operator as a CONSTANT, so that a module
instantiates it once per fold: a set of numbers has a least one (from the library's
well-foundedness of finite sets), hence induction over a set of numbers (`SetInduction`), and a
fold goes from left to right (`FoldSteps`). This is why `RemoteSearch` filters with `Kept`, a
fold, and not with `SelectSeq`, whose definition in the library is recursive, and why
the state of a fold is always an inductive statement about the elements seen so far
(`KeptIs`, `BestOf`, `GroupsOf`).

Only model-checked: liveness (`QueuedSettles`, `ExpiredReferenceRemoved`,
`OrphanCollected`, `LockoutEnds`), which the prover does not reach. Every invariant and
every action property of a passing run is a theorem.

## Not modelled

- The parsing of XLSX and CSV into cells, and the decoding of amounts and times:
  pure functions of file contents; `PaymentImport` begins with cells and knows which
  texts are an amount or a time.
- The payments that the import itself decides in `RemoteSearch`: they never reach the
  remote comparison.
- Encryption, hashing, TOTP: pure functions of libraries. Of encryption `SourceConfig`
  keeps that a text decrypts only under its version.
- Captcha: the token carries its own answer and time, and nothing is stored; a wrong one
  is one of the reasons of `Refuse`.
- Retention settings: one row, created by its first reader; of two first readers one fails
  with an integrity error.
- Delivery and reading of notifications, the polling of the web client.
- Formatting of exports, the layout of the web client, deployment scripts and the
  migration: no state that interleaves.
- Activity and audit logs: written in the commit they describe and read by nobody.
- The database itself: a transaction is atomic, a unique constraint refuses the
  second row, a row lock blocks, as far as the services rely on them.

## Plan

In this order, the most important first:

1. *Done*: `BatchLifecycle` with its abstractions and proofs, `FileRetention`,
   `RemoteSearch`, `SourceConfig`.
2. *Done*: `Submission` with its proofs.
3. *Done*: `Accounts` over `LoginRateLimit` with their proofs.
4. *Done*: `TemplateDetection` and `PaymentImport`.
5. *Done*: proofs for `FileRetention` and `SourceConfig`, with edits that overlap.
6. The channel bindings a passed test of `SourceConfig` synchronises.
7. *Done*: two cancellers of one batch. Left: lifecycle and retention composed, a batch deleted by
   the sweep under its run; notifications and polling of the web client.
8. *Done*: proofs for `RemoteSearch`, `TemplateDetection` and `PaymentImport`.

The constants of all modules are parameters with named assumptions and no module
uses `RECURSIVE`, so that all of them can be proved about. The set of runs is kept
small: a new module joins a run where it composes with what is there, and otherwise
the run that asks the least gives way.
