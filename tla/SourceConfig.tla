----------------------------- MODULE SourceConfig -----------------------------
(* The configuration of one remote system: administrators edit, clear, delete  *)
(* and create it, test its connection, and batches are bound to the version of *)
(* it that their upload read.  Every request has a session and a copy of the   *)
(* row of its own; a commit writes the attributes that differ from the copy.   *)
EXTENDS Naturals, FiniteSets

CONSTANTS
    Editors,   \* administrators who edit, one request of each at a time
    Testers,   \* administrators who test the connection, likewise
    Batches,   \* uploads and reruns; a request's batch goes by its name
    Urls,      \* base URLs
    Secrets,   \* sets of user name, password and TOTP secret
    Unset,     \* names no URL and no secret
    Keep,      \* what a request says of a URL or credentials it leaves alone
    MaxEdits,  \* bound: edit requests
    MaxTests   \* bound: connection tests

Sessions == Editors \cup Testers \cup Batches

ASSUME SourceAssumption ==
    /\ Editors \cap Testers = {} /\ Editors \cap Batches = {}
    /\ Testers \cap Batches = {}
    /\ Unset \notin Urls \cup Secrets /\ Keep \notin Urls \cup Secrets
    /\ Keep # Unset
    /\ MaxEdits \in Nat /\ MaxTests \in Nat

VARIABLES
    source,  \* the row of source_configs
    copy,    \* the row as each session read it
    pc,      \* where each request stands
    bound,   \* of each batch: the version it carries
    ran,     \* of each batch: the target its run uses, none if it has no run
    edits,   \* edit requests so far
    tests,   \* connection tests so far
    meant,   \* history: the target each batch's upload read
    shown,   \* history: the target whose test last wrote "passed"
    raced,   \* history: a test or an edit overlapped a change of what it decides on,
             \* so that "passed" or "enabled" may be of another target
    unguarded \* history: batches that were open when the source was deleted, or
              \* when an edit was committed over another one it did not know of

requests == <<copy, pc, edits, tests>>
batches == <<bound, ran, meant, unguarded>>
vars == <<source, requests, batches, shown, raced>>

-------------------------------------------------------------------------------
(* The row.  Credentials are encrypted for one credential_version: under any   *)
(* other they do not decrypt.                                                  *)

Credentials == [secret : Secrets \cup {Unset}, sealed : Nat]
NoCredentials == [secret |-> Unset, sealed |-> 0]

SourceRow == [base_url : Urls \cup {Unset}, credentials : Credentials,
              credential_version : Nat, config_version : Nat,
              enabled : BOOLEAN, last_test_status : {"none", "passed", "failed"}]

\* Mutation: a new row says that it is untested.
DraftUntested(url) ==
    [base_url |-> url, credentials |-> NoCredentials,
     credential_version |-> 0, config_version |-> 1,
     enabled |-> FALSE, last_test_status |-> "untested"]

Draft(url) == [base_url |-> url, credentials |-> NoCredentials,
               credential_version |-> 0, config_version |-> 1,
               enabled |-> FALSE, last_test_status |-> "none"]

NoSource == [Draft(Unset) EXCEPT !.config_version = 0]
Exists(s) == s.config_version > 0

Decrypts(s) == s.credentials.sealed = s.credential_version
Configured(s) == s.base_url # Unset /\ s.credentials.secret # Unset

\* The remote system a run or a test works with, and as whom.
Targets == (Urls \cup {Unset}) \X (Secrets \cup {Unset})
TargetOf(s) == <<s.base_url, s.credentials.secret>>

\* The UPDATE of a session that read old and made new of it.
Written(old, new) ==
    [field \in DOMAIN source |->
        IF new[field] # old[field] THEN new[field] ELSE source[field]]

-------------------------------------------------------------------------------
(* What a request makes of the row it read: upsert_source, clear_credentials.  *)

\* Only PUT takes a URL away, and it always says whether to enable.
Edits ==
    {ask \in [base_url : Urls \cup {Unset, Keep}, secret : Secrets \cup {Keep},
              enabled : {"on", "off", "keep"}, terms : BOOLEAN] :
        ask.base_url = Unset => ask.enabled # "keep"}

\* Mutation: a test goes on to count for another URL.
RetargetedAsTested(s, ask) ==
    LET url == IF ask.base_url = Keep THEN s.base_url ELSE ask.base_url
        version == s.credential_version + 1
    IN IF ask.secret = Keep
         THEN [s EXCEPT !.base_url = url]
         ELSE [s EXCEPT !.base_url = url,
                        !.credentials = [secret |-> ask.secret, sealed |-> version],
                        !.credential_version = version,
                        !.last_test_status = "none"]

\* Mutation: credentials are encrypted for the version before.
RetargetedEarly(s, ask) ==
    LET url == IF ask.base_url = Keep THEN s.base_url ELSE ask.base_url
    IN IF ask.secret = Keep
         THEN [s EXCEPT !.base_url = url,
                        !.last_test_status = IF url # s.base_url THEN "none" ELSE @]
         ELSE [s EXCEPT !.base_url = url,
                        !.credentials = [secret |-> ask.secret,
                                         sealed |-> s.credential_version],
                        !.credential_version = @ + 1,
                        !.last_test_status = "none"]

\* The URL and the credentials as asked for: others have not been tested.
Retargeted(s, ask) ==
    LET url == IF ask.base_url = Keep THEN s.base_url ELSE ask.base_url
        version == s.credential_version + 1
    IN IF ask.secret = Keep
         THEN [s EXCEPT !.base_url = url,
                        !.last_test_status = IF url # s.base_url THEN "none" ELSE @]
         ELSE [s EXCEPT !.base_url = url,
                        !.credentials = [secret |-> ask.secret, sealed |-> version],
                        !.credential_version = version,
                        !.last_test_status = "none"]

\* Why an edit is refused: what is there does not decrypt, or what is to be
\* enabled is incomplete or has not passed its last test.
Acceptable(s, ask) ==
    LET new == Retargeted(s, ask)
    IN /\ ask.secret # Keep /\ s.credentials.secret # Unset => Decrypts(s)
       /\ ask.enabled = "on" => Configured(new) /\ new.last_test_status = "passed"

\* Mutation: only other terms make a new version.
EditedQuietly(s, ask) ==
    LET new == Retargeted(s, ask)
        retargeted == new.base_url # s.base_url \/ ask.secret # Keep
        enabled == CASE ask.enabled = "on" -> TRUE
                     [] ask.enabled = "off" -> FALSE
                     [] OTHER -> s.enabled
    IN [new EXCEPT !.enabled = enabled /\ ~retargeted,
                   !.config_version = IF ask.terms THEN @ + 1 ELSE @]

\* Any change makes a new version; another URL or other credentials disable.
Edited(s, ask) ==
    LET new == Retargeted(s, ask)
        retargeted == new.base_url # s.base_url \/ ask.secret # Keep
        enabled == CASE ask.enabled = "on" -> TRUE
                     [] ask.enabled = "off" -> FALSE
                     [] OTHER -> s.enabled
    IN [new EXCEPT !.enabled = enabled /\ ~retargeted,
                   !.config_version =
                       IF retargeted \/ enabled # s.enabled \/ ask.terms
                         THEN @ + 1 ELSE @]

Cleared(s) ==
    [s EXCEPT !.credentials = NoCredentials,
              !.credential_version = @ + 1,
              !.last_test_status = "none",
              !.enabled = FALSE,
              !.config_version = @ + 1]

-------------------------------------------------------------------------------
TypeOK ==
    /\ source \in SourceRow
    /\ copy \in [Sessions -> SourceRow]
    /\ pc \in [Sessions -> {"idle", "read", "created", "over"}]
    /\ \A a \in Editors \cup Testers : pc[a] \in {"idle", "read"}
    /\ bound \in [Batches -> Nat]
    /\ ran \in [Batches -> SUBSET Targets]
    /\ edits \in 0..MaxEdits
    /\ tests \in 0..MaxTests
    /\ meant \in [Batches -> Targets]
    /\ shown \in Targets
    /\ raced \in BOOLEAN
    /\ unguarded \subseteq Batches

\* A draft, or a source that was tested and enabled.
Ready(url, secret) ==
    [base_url |-> url, credentials |-> [secret |-> secret, sealed |-> 1],
     credential_version |-> 1, config_version |-> 3,
     enabled |-> TRUE, last_test_status |-> "passed"]

Init ==
    /\ source \in {NoSource} \cup {Ready(u, s) : u \in Urls, s \in Secrets}
    /\ copy = [a \in Sessions |-> NoSource]
    /\ pc = [a \in Sessions |-> "idle"]
    /\ bound = [b \in Batches |-> 0]
    /\ ran = [b \in Batches |-> {}]
    /\ edits = 0
    /\ tests = 0
    /\ meant = [b \in Batches |-> <<Unset, Unset>>]
    /\ shown = TargetOf(source)
    /\ raced = FALSE
    /\ unguarded = {}

Goto(a, step) == pc' = [pc EXCEPT ![a] = step]

\* get_source, in a session of its own.
Read(a) ==
    /\ copy' = [copy EXCEPT ![a] = source]
    /\ Goto(a, "read")

\* The session is closed.
Leave(a, step) ==
    /\ copy' = [copy EXCEPT ![a] = NoSource]
    /\ Goto(a, step)

-------------------------------------------------------------------------------
(* Requests that edit.                                                         *)

BeginEdit(e) ==
    /\ pc[e] = "idle"
    /\ edits < MaxEdits
    /\ edits' = edits + 1
    /\ Read(e)
    /\ UNCHANGED <<source, tests, batches, shown, raced>>

EditOver(e) ==
    /\ Leave(e, "idle")
    /\ UNCHANGED <<edits, tests, bound, ran, meant, shown>>

\* What the target may be enabled on, and the batches whose version is compared.
Checked(s) == <<TargetOf(s), s.enabled, s.last_test_status>>
Open == {b \in Batches : pc[b] \in {"read", "created"}}

\* The commit of an edit that knows no longer what it changes: something else
\* ended between its read and its commit.
NoteEdit(e) ==
    LET decides == \/ TargetOf(source') # TargetOf(source)
                   \/ source'.enabled /\ ~source.enabled
        overtaken == copy[e].config_version # source.config_version
    IN /\ raced' = (raced \/ (decides /\ Checked(copy[e]) # Checked(source)))
       /\ unguarded' = IF overtaken /\ source' # source
                         THEN unguarded \cup Open ELSE unguarded

\* The row was read and is still there to be updated.
CommitEdit(e) ==
    /\ pc[e] = "read"
    /\ Exists(copy[e]) /\ Exists(source)
    /\ \E ask \in Edits :
          /\ Acceptable(copy[e], ask)
          /\ source' = Written(copy[e], Edited(copy[e], ask))
    /\ EditOver(e)
    /\ NoteEdit(e)

CommitClear(e) ==
    /\ pc[e] = "read"
    /\ Exists(copy[e]) /\ Exists(source)
    /\ source' = Written(copy[e], Cleared(copy[e]))
    /\ EditOver(e)
    /\ NoteEdit(e)

\* A new source is a draft without credentials; its primary key is unique.
CommitCreate(e) ==
    /\ pc[e] = "read"
    /\ ~Exists(copy[e]) /\ ~Exists(source)
    /\ \E url \in Urls \cup {Unset} : source' = Draft(url)
    /\ EditOver(e)
    /\ UNCHANGED <<unguarded, raced>>

\* Disabled, as far as the request knows, and without batches, which the
\* foreign key of the batches makes sure of.
CommitDelete(e) ==
    /\ pc[e] = "read"
    /\ Exists(copy[e]) /\ ~copy[e].enabled
    /\ \A b \in Batches : bound[b] = 0
    /\ source' = NoSource
    /\ unguarded' = unguarded \cup {b \in Batches : pc[b] = "read"}
    /\ EditOver(e)
    /\ UNCHANGED raced

\* The request is refused, raises, or fails.
FailEdit(e) ==
    /\ pc[e] = "read"
    /\ EditOver(e)
    /\ UNCHANGED <<source, unguarded, raced>>

-------------------------------------------------------------------------------
(* Connection tests: the answer is written however long it took.               *)

BeginTest(t) ==
    /\ pc[t] = "idle"
    /\ tests < MaxTests
    /\ tests' = tests + 1
    /\ Exists(source) /\ Configured(source) /\ Decrypts(source)
    /\ Read(t)
    /\ UNCHANGED <<source, edits, batches, shown, raced>>

FinishTest(t) ==
    /\ pc[t] = "read"
    /\ Exists(source)
    /\ \E status \in {"passed", "failed"} :
          LET passes == status = "passed" /\ copy[t].last_test_status # "passed"
          IN /\ source' = Written(copy[t], [copy[t] EXCEPT !.last_test_status = status])
             /\ shown' = IF passes THEN TargetOf(copy[t]) ELSE shown
             /\ raced' = IF passes THEN TargetOf(source) # TargetOf(copy[t]) ELSE raced
    /\ Leave(t, "idle")
    /\ UNCHANGED <<edits, tests, batches>>

\* The source was deleted meanwhile, or the request fails.
FailTest(t) ==
    /\ pc[t] = "read"
    /\ Leave(t, "idle")
    /\ UNCHANGED <<source, edits, tests, batches, shown, raced>>

-------------------------------------------------------------------------------
(* Batches: create_batch_from_upload and rerun_batch bind them, the validation *)
(* of the worker compares.                                                     *)

BeginUpload(b) ==
    /\ pc[b] = "idle"
    /\ source.enabled
    /\ Read(b)
    /\ meant' = [meant EXCEPT ![b] = TargetOf(source)]
    /\ UNCHANGED <<source, edits, tests, bound, ran, unguarded, shown, raced>>

CommitUpload(b) ==
    /\ pc[b] = "read"
    /\ Exists(source)
    /\ bound' = [bound EXCEPT ![b] = copy[b].config_version]
    /\ Leave(b, "created")
    /\ UNCHANGED <<source, edits, tests, ran, meant, unguarded, shown, raced>>

FailUpload(b) ==
    /\ pc[b] = "read"
    /\ Leave(b, "over")
    /\ UNCHANGED <<source, edits, tests, batches, shown, raced>>

\* The run keeps to the row it reads here.
Validate(b) ==
    LET valid == /\ source.enabled
                 /\ Configured(source)
                 /\ source.config_version = bound[b]
                 /\ Decrypts(source)
    IN /\ pc[b] = "created"
       /\ ran' = [ran EXCEPT ![b] = IF valid THEN {TargetOf(source)} ELSE {}]
       /\ Goto(b, "over")
       /\ UNCHANGED <<source, copy, edits, tests, bound, meant, unguarded, shown, raced>>

-------------------------------------------------------------------------------
Next ==
    \/ \E e \in Editors : \/ BeginEdit(e) \/ CommitEdit(e) \/ CommitClear(e)
                          \/ CommitCreate(e) \/ CommitDelete(e) \/ FailEdit(e)
    \/ \E t \in Testers : BeginTest(t) \/ FinishTest(t) \/ FailTest(t)
    \/ \E b \in Batches : \/ BeginUpload(b) \/ CommitUpload(b) \/ FailUpload(b)
                          \/ Validate(b)

Spec == Init /\ [][Next]_vars

-------------------------------------------------------------------------------
(* Properties.                                                                 *)

\* A batch runs against the remote system, and as the user, that its upload
\* found configured, however long it waited and whatever was edited meanwhile:
\* config_version tells them apart (the version check of the worker).  Edits may
\* overlap; what a version no longer tells apart is only the batches that are
\* open when an edit overwrites the version of another.
RunUsesBoundConfig ==
    \A b \in Batches \ unguarded : ran[b] \subseteq {meant[b]}

\* A source is enabled for the URL and the credentials that passed the test,
\* unless the test, or the edit that enabled it or changed them, was overtaken by
\* a change of either.
EnabledWasTested ==
    source.enabled /\ ~raced => TargetOf(source) = shown

\* Stored credentials decrypt: they and their version are written together, also
\* by edits that overlap.  The one step that parts them is a clearing that found
\* no credentials and takes away the version of those stored meanwhile.
Decryptable == source.credentials.secret # Unset => Decrypts(source)

ClearsUnseen(e) ==
    /\ pc[e] = "read" /\ pc'[e] = "idle"
    /\ copy[e].credentials.secret = Unset
    /\ source.credentials.secret # Unset
    /\ source'.credential_version = copy[e].credential_version + 1

CredentialsDecrypt ==
    /\ Decryptable
    /\ [][Decryptable => Decryptable' \/ \E e \in Editors : ClearsUnseen(e)]_vars

-------------------------------------------------------------------------------
(* What the documents say without an exception, and overlapping edits break.   *)

\* A source is enabled for a target that passed its last test (FR-SRC-14).
EnabledForTested == source.enabled => TargetOf(source) = shown

\* A later edit changes nothing of a batch (FR-SRC-11).
BatchesKeepTarget == \A b \in Batches : ran[b] \subseteq {meant[b]}
===============================================================================
