------------------------------ MODULE Submission ------------------------------
(* Which batch a submission ends in: an upload looks for a batch of the same   *)
(* comparison and returns it or founds a series of its own, and a rerun adds   *)
(* the next version to the series of an ended batch.  Both read first and      *)
(* insert later; others insert meanwhile.                                      *)
EXTENDS Naturals, FiniteSets

CONSTANTS
    Uploads,      \* upload requests; a request's batch goes by its name
    Reruns,       \* rerun requests, likewise
    Comparisons,  \* comparison identities: file, source, type and parameters
    ComparisonOf, \* what each upload asks to compare
    NoBatch       \* names no batch

Batches == Uploads \cup Reruns

ASSUME SubmissionAssumption ==
    /\ Uploads # {}
    /\ Uploads \cap Reruns = {}
    /\ NoBatch \notin Batches
    /\ ComparisonOf \in [Uploads -> Comparisons]

VARIABLES
    status,   \* of each batch: none (no row), open (not terminal), ended, or
              \* dead (failed or cancelled)
    row,      \* what its row says once there is one, and never changes but for
              \* rerun_of, which a deletion sets to null
    pc,       \* where each request stands
    mem,      \* the row a rerun is going to insert
    beside,   \* history: reruns that another one of their series overtook
    thinned   \* history: series of which a batch was deleted

vars == <<status, row, pc, mem, beside, thinned>>

\* A series goes by the upload that founded it.
Row == [comparison : Comparisons, series : Uploads,
        version : Nat \ {0}, rerun_of : Batches \cup {NoBatch}]

Steps == {"start", "unmatched", "answered", "read", "numbered",
          "created", "refused", "failed"}

\* Mutation: versions start with zero.
FoundingAtZero(u) == [comparison |-> ComparisonOf[u], series |-> u,
                      version |-> 0, rerun_of |-> NoBatch]

Founding(u) == [comparison |-> ComparisonOf[u], series |-> u,
                version |-> 1, rerun_of |-> NoBatch]

Present == {b \in Batches : status[b] # "none"}
Series(s) == {b \in Present : row[b].series = s}
Versions(s) == {row[b].version : b \in Series(s)}
Highest(S) == CHOOSE n \in S : \A m \in S : m <= n

\* Stands where there is no row.
NoRow == Founding(CHOOSE u \in Uploads : TRUE)

Init ==
    /\ status = [b \in Batches |-> "none"]
    /\ row = [b \in Batches |-> NoRow]
    /\ pc = [b \in Batches |-> "start"]
    /\ mem = row
    /\ beside = {}
    /\ thinned = {}

InFlight(q) == pc[q] \in {"unmatched", "read", "numbered"}
Goto(q, step) == pc' = [pc EXCEPT ![q] = step]

-------------------------------------------------------------------------------
(* create_batch_from_upload.                                                   *)

\* The batches the look for an existing one may come upon: of the comparison,
\* one with the highest run_version, whichever comes first among equals.
Existing(c) ==
    LET same == {b \in Present : row[b].comparison = c}
    IN {b \in same : \A d \in same : row[d].version <= row[b].version}

\* Failed and cancelled batches do not count.
AnswerExisting(u) ==
    /\ pc[u] = "start"
    /\ \E b \in Existing(ComparisonOf[u]) : status[b] # "dead"
    /\ Goto(u, "answered")
    /\ UNCHANGED <<status, row, mem, beside, thinned>>

FindNone(u) ==
    /\ pc[u] = "start"
    /\ \/ Existing(ComparisonOf[u]) = {}
       \/ \E b \in Existing(ComparisonOf[u]) : status[b] = "dead"
    /\ Goto(u, "unmatched")
    /\ UNCHANGED <<status, row, mem, beside, thinned>>

Insert(b, new) ==
    /\ status' = [status EXCEPT ![b] = "open"]
    /\ row' = [row EXCEPT ![b] = new]
    /\ Goto(b, "created")

CommitUpload(u) ==
    /\ pc[u] = "unmatched"
    /\ Insert(u, Founding(u))
    /\ UNCHANGED <<mem, beside, thinned>>

-------------------------------------------------------------------------------
(* rerun_batch.                                                                *)

\* Mutation: the batches of the series are counted.
NextByCount(previous) == Cardinality(Series(previous.series)) + 1

\* Mutation: the next version is counted from the batch that is repeated.
NextFromPrevious(previous) == previous.version + 1

\* The next version of the series, as far as its rows are committed; that of the
\* batch itself counts when the series has been deleted since.
NextVersion(previous) ==
    IF Series(previous.series) = {}
      THEN previous.version + 1
      ELSE Highest(Versions(previous.series)) + 1

\* Any batch that has come to its end may be repeated.
ReadPrevious(r, b) ==
    /\ pc[r] = "start"
    /\ status[b] \in {"ended", "dead"}
    /\ mem' = [mem EXCEPT ![r] = [row[b] EXCEPT !.rerun_of = b]]
    /\ Goto(r, "read")
    /\ UNCHANGED <<status, row, beside, thinned>>

ReadVersion(r) ==
    /\ pc[r] = "read"
    /\ mem' = [mem EXCEPT ![r].version = NextVersion(mem[r])]
    /\ Goto(r, "numbered")
    /\ UNCHANGED <<status, row, beside, thinned>>

\* uq_batch_series_version: series and version identify a batch.
Taken(new) == new.version \in Versions(new.series)

\* Mutation: nothing keeps two batches from having one version.
CommitAnyway(r) ==
    /\ pc[r] = "numbered"
    /\ status[mem[r].rerun_of] # "none"
    /\ Insert(r, mem[r])
    /\ beside' = beside \cup {s \in Reruns : /\ pc[s] = "numbered"
                                            /\ mem[s].series = mem[r].series}
    /\ UNCHANGED <<mem, thinned>>

\* The batch repeated must still be there, which its foreign key makes sure of.
CommitRerun(r) ==
    /\ pc[r] = "numbered"
    /\ status[mem[r].rerun_of] # "none"
    /\ ~Taken(mem[r])
    /\ Insert(r, mem[r])
    /\ beside' = beside \cup {s \in Reruns \ {r} : /\ pc[s] = "numbered"
                                                  /\ mem[s].series = mem[r].series}
    /\ UNCHANGED <<mem, thinned>>

RefuseVersion(r) ==
    /\ pc[r] = "numbered"
    /\ Taken(mem[r])
    /\ Goto(r, "refused")
    /\ UNCHANGED <<status, row, mem, beside, thinned>>

\* The file has expired, the source is disabled, the batch was deleted, the
\* process dies.
Fail(q) ==
    /\ InFlight(q)
    /\ Goto(q, "failed")
    /\ UNCHANGED <<status, row, mem, beside, thinned>>

-------------------------------------------------------------------------------
(* What becomes of a batch: it ends (BatchLifecycle), or the cleanup deletes   *)
(* it, whatever its status; those that repeat it no longer say so.             *)

End(b) ==
    /\ status[b] = "open"
    /\ \E s \in {"ended", "dead"} : status' = [status EXCEPT ![b] = s]
    /\ UNCHANGED <<row, pc, mem, beside, thinned>>

Delete(b) ==
    /\ status[b] # "none"
    /\ status' = [status EXCEPT ![b] = "none"]
    /\ row' = [d \in Batches |-> IF row[d].rerun_of = b
                                   THEN [row[d] EXCEPT !.rerun_of = NoBatch]
                                   ELSE row[d]]
    /\ thinned' = thinned \cup {row[b].series}
    /\ UNCHANGED <<pc, mem, beside>>

UploadStep(u) == AnswerExisting(u) \/ FindNone(u) \/ CommitUpload(u)

RerunStep(r) ==
    \/ \E b \in Batches : ReadPrevious(r, b)
    \/ ReadVersion(r) \/ CommitRerun(r) \/ RefuseVersion(r)

Next ==
    \/ \E u \in Uploads : UploadStep(u) \/ Fail(u)
    \/ \E r \in Reruns : RerunStep(r) \/ Fail(r)
    \/ \E b \in Batches : End(b) \/ Delete(b)

Spec == Init /\ [][Next]_vars

-------------------------------------------------------------------------------
(* Properties.                                                                 *)

TypeOK ==
    /\ status \in [Batches -> {"none", "open", "ended", "dead"}]
    /\ row \in [Batches -> Row]
    /\ pc \in [Batches -> Steps]
    /\ mem \in [Batches -> Row]
    /\ \A b \in Present : pc[b] = "created"
    /\ beside \subseteq Reruns
    /\ thinned \subseteq Uploads

\* A rerun repeats an earlier version of its own series and comparison, whatever
\* was inserted or deleted between its reads and its insertion.
RepeatsEarlier ==
    \A b \in Present :
        LET previous == row[b].rerun_of
        IN previous # NoBatch =>
              /\ previous \in Present
              /\ row[previous].series = row[b].series
              /\ row[previous].comparison = row[b].comparison
              /\ row[previous].version < row[b].version

\* The versions of a series count its runs: 1, 2, 3, ... without a gap and
\* without a version twice, while nothing of it is deleted.
VersionsCount ==
    \A s \in Uploads \ thinned :
        Versions(s) = 1..Cardinality(Series(s))

\* A rerun fails over its version only if another rerun of the series was
\* inserted since it looked: on its own it always gets a free one.
RefusedOnlyBeside == \A r \in Reruns : pc[r] = "refused" => r \in beside

\* A rerun in flight knows a batch of the series it adds to.
Repeats(new) ==
    new.rerun_of \in Present =>
        /\ row[new.rerun_of].series = new.series
        /\ row[new.rerun_of].comparison = new.comparison

KnowsSeries(r) ==
    pc[r] \in {"read", "numbered"} =>
        /\ pc[mem[r].series] = "created"
        /\ mem[r].rerun_of \in Batches /\ pc[mem[r].rerun_of] = "created"
        /\ mem[r].rerun_of \in Present \/ mem[r].series \in thinned
        /\ Repeats(mem[r])

\* The version it has read is at most the next one, and taken only by another.
NextOrTaken(r) ==
    pc[r] = "numbered" =>
        /\ mem[r].rerun_of \in Present => row[mem[r].rerun_of].version < mem[r].version
        /\ mem[r].series \notin thinned =>
              mem[r].version <= Cardinality(Series(mem[r].series)) + 1
        /\ Taken(mem[r]) => r \in beside

\* Why the versions come out right: besides what the requests in flight know, no
\* series is older than its founder (rerun_batch, create_batch_from_upload).
Numbering ==
    /\ RepeatsEarlier
    /\ VersionsCount
    /\ RefusedOnlyBeside
    /\ \A s \in Uploads : IsFiniteSet(Series(s))
    /\ \A b \in Present : pc[row[b].series] = "created"
    /\ \A r \in Reruns : KnowsSeries(r) /\ NextOrTaken(r)

\* "While a batch of the comparison is active it is returned, and no concurrent
\* duplicate is created" (create_batch_from_upload and rerun_batch).
OneActive ==
    \A b, c \in Present :
        /\ row[b].comparison = row[c].comparison
        /\ status[b] = "open" /\ status[c] = "open"
        => b = c
===============================================================================
