-------------------------- MODULE SourceConfigProofs ---------------------------
(* Theorems about SourceConfig, for any number of administrators whose edits   *)
(* and tests overlap as they like, of batches, URLs, credentials and requests. *)
EXTENDS SourceConfig, TLAPS

-------------------------------------------------------------------------------
(* The inductive invariant.                                                    *)

\* The version stands for the target.
Pinned(version, target) ==
    /\ 0 < version /\ version <= source.config_version
    /\ version = source.config_version => TargetOf(source) = target

BatchesPinned ==
    \A b \in Batches \ unguarded :
        /\ pc[b] # "over" => ran[b] = {}
        /\ pc[b] = "read" => Pinned(copy[b].config_version, meant[b])
        /\ pc[b] = "created" => Pinned(bound[b], meant[b])

\* A verdict that counts is of the target as it is.
VerdictHolds ==
    source.last_test_status = "passed" /\ ~raced => TargetOf(source) = shown

Inv ==
    /\ TypeOK
    /\ source.enabled => Exists(source)
    /\ BatchesPinned /\ RunUsesBoundConfig
    /\ VerdictHolds /\ EnabledWasTested

-------------------------------------------------------------------------------
(* Rows.                                                                       *)

LEMMA RowFields ==
    ASSUME NEW s \in SourceRow
    PROVE  /\ DOMAIN s = {"base_url", "credentials", "credential_version",
                          "config_version", "enabled", "last_test_status"}
           /\ s.base_url \in Urls \cup {Unset} /\ s.credentials \in Credentials
           /\ s.credentials.secret \in Secrets \cup {Unset} /\ s.credentials.sealed \in Nat
           /\ s.credential_version \in Nat /\ s.config_version \in Nat
           /\ s.enabled \in BOOLEAN
           /\ s.last_test_status \in {"none", "passed", "failed"}
           /\ TargetOf(s) \in Targets
  BY DEF SourceRow, Credentials, TargetOf, Targets

LEMMA DraftRow ==
    /\ NoSource \in SourceRow /\ NoSource.config_version = 0
    /\ \A url \in Urls \cup {Unset} :
          /\ Draft(url) \in SourceRow /\ Draft(url).config_version = 1
          /\ Draft(url).credentials.secret = Unset
          /\ ~Draft(url).enabled /\ Draft(url).last_test_status = "none"
    /\ NoSource.credentials.secret = Unset
    /\ ~NoSource.enabled /\ NoSource.last_test_status = "none"
  BY DEF NoSource, Draft, NoCredentials, SourceRow, Credentials

\* A commit mixes two rows field by field, which is a row again.
LEMMA WrittenRow ==
    ASSUME source \in SourceRow, NEW old \in SourceRow, NEW new \in SourceRow
    PROVE  LET w == Written(old, new)
           IN /\ w \in SourceRow
              /\ w.base_url = IF new.base_url # old.base_url
                                THEN new.base_url ELSE source.base_url
              /\ w.credentials = IF new.credentials # old.credentials
                                   THEN new.credentials ELSE source.credentials
              /\ w.credential_version =
                    IF new.credential_version # old.credential_version
                      THEN new.credential_version ELSE source.credential_version
              /\ w.config_version = IF new.config_version # old.config_version
                                      THEN new.config_version ELSE source.config_version
              /\ w.enabled = IF new.enabled # old.enabled
                               THEN new.enabled ELSE source.enabled
              /\ w.last_test_status =
                    IF new.last_test_status # old.last_test_status
                      THEN new.last_test_status ELSE source.last_test_status
  <1> DEFINE w == Written(old, new)
             of(field) == IF new[field] # old[field] THEN new[field] ELSE source[field]
  <1>1. w = [base_url |-> of("base_url"), credentials |-> of("credentials"),
             credential_version |-> of("credential_version"),
             config_version |-> of("config_version"), enabled |-> of("enabled"),
             last_test_status |-> of("last_test_status")]
    BY RowFields DEF Written
  <1>2. /\ of("base_url") \in Urls \cup {Unset} /\ of("credentials") \in Credentials
        /\ of("credential_version") \in Nat /\ of("config_version") \in Nat
        /\ of("enabled") \in BOOLEAN
        /\ of("last_test_status") \in {"none", "passed", "failed"}
    BY RowFields
  <1> HIDE DEF w
  <1>3. w \in SourceRow
    <2> HIDE DEF of
    <2> QED
      BY <1>1, <1>2 DEF SourceRow
  <1>4. /\ w.base_url = of("base_url") /\ w.credentials = of("credentials")
        /\ w.credential_version = of("credential_version")
        /\ w.config_version = of("config_version") /\ w.enabled = of("enabled")
        /\ w.last_test_status = of("last_test_status")
    <2> HIDE DEF of
    <2> QED
      BY <1>1
  <1> QED
    BY <1>3, <1>4 DEF w

\* All of a row but the verdict of its last test.
Same(s, r) ==
    /\ s.base_url = r.base_url /\ s.credentials = r.credentials
    /\ s.credential_version = r.credential_version
    /\ s.config_version = r.config_version /\ s.enabled = r.enabled

\* What a test writes is its verdict, whatever else has changed.
LEMMA VerdictRow ==
    ASSUME source \in SourceRow, NEW old \in SourceRow, NEW status \in {"passed", "failed"}
    PROVE  LET w == Written(old, [old EXCEPT !.last_test_status = status])
           IN /\ w \in SourceRow /\ Same(w, source)
              /\ w.last_test_status \in {source.last_test_status, status}
              /\ old.last_test_status = status =>
                    w.last_test_status = source.last_test_status
  <1> DEFINE w == Written(old, [old EXCEPT !.last_test_status = status])
             verdict == IF status # old.last_test_status THEN status
                        ELSE source.last_test_status
  <1>1. w = [base_url |-> source.base_url, credentials |-> source.credentials,
             credential_version |-> source.credential_version,
             config_version |-> source.config_version, enabled |-> source.enabled,
             last_test_status |-> verdict]
    BY RowFields DEF Written
  <1>2. verdict \in {"none", "passed", "failed"}
    BY RowFields
  <1> HIDE DEF w
  <1>3. w \in SourceRow
    BY <1>1, <1>2, RowFields DEF SourceRow
  <1>4. Same(w, source) /\ w.last_test_status = verdict
    BY <1>1 DEF Same
  <1> QED
    BY <1>3, <1>4 DEF w

\* What edits and clearings have in common.
Amends(s, n) ==
    /\ n \in SourceRow
    /\ n.config_version = s.config_version \/ n.config_version = s.config_version + 1
    /\ n.base_url # s.base_url \/ n.credentials # s.credentials =>
          /\ n.config_version = s.config_version + 1
          /\ ~n.enabled /\ n.last_test_status = "none"
    /\ n.enabled => s.enabled \/ s.last_test_status = "passed"
    /\ n.last_test_status \in {s.last_test_status, "none"}

\* How they treat the credentials.
Reseals(s, n) ==
    \/ n.credentials = s.credentials /\ n.credential_version = s.credential_version
    \/ /\ n.credential_version = s.credential_version + 1
       /\ \/ /\ n.credentials # s.credentials
             /\ n.credentials.secret # Unset => Decrypts(n)
          \/ n.credentials = s.credentials /\ s.credentials.secret = Unset

LEMMA EditAmends ==
    ASSUME NEW s \in SourceRow, NEW ask \in Edits, Acceptable(s, ask)
    PROVE  Amends(s, Edited(s, ask)) /\ Reseals(s, Edited(s, ask))
  <1> DEFINE url == IF ask.base_url = Keep THEN s.base_url ELSE ask.base_url
             version == s.credential_version + 1
             new == Retargeted(s, ask)
             retargeted == new.base_url # s.base_url \/ ask.secret # Keep
             enabled == CASE ask.enabled = "on" -> TRUE
                          [] ask.enabled = "off" -> FALSE
                          [] OTHER -> s.enabled
             n == Edited(s, ask)
             config == IF retargeted \/ enabled # s.enabled \/ ask.terms
                         THEN s.config_version + 1 ELSE s.config_version
  <1>1. /\ ask.base_url \in Urls \cup {Unset, Keep} /\ ask.secret \in Secrets \cup {Keep}
        /\ ask.enabled \in {"on", "off", "keep"} /\ ask.terms \in BOOLEAN
    BY DEF Edits
  <1>2. url \in Urls \cup {Unset}
    BY <1>1, RowFields
  <1>3. /\ new \in SourceRow /\ new.base_url = url
        /\ new.config_version = s.config_version /\ new.enabled = s.enabled
        /\ ask.secret = Keep => /\ new.credentials = s.credentials
                                /\ new.credential_version = s.credential_version
                                /\ new.last_test_status =
                                      IF url # s.base_url THEN "none" ELSE s.last_test_status
        /\ ask.secret # Keep =>
              /\ new.credentials = [secret |-> ask.secret, sealed |-> version]
              /\ new.credential_version = version /\ new.last_test_status = "none"
    <2> HIDE DEF url
    <2>1. CASE ask.secret = Keep
      <3>1. new = [s EXCEPT !.base_url = url,
                            !.last_test_status = IF url # s.base_url THEN "none" ELSE @]
        BY <2>1 DEF Retargeted, url
      <3> HIDE DEF new
      <3> QED
        BY <1>2, <2>1, <3>1 DEF SourceRow
    <2>2. CASE ask.secret # Keep
      <3>1. new = [s EXCEPT !.base_url = url,
                            !.credentials = [secret |-> ask.secret, sealed |-> version],
                            !.credential_version = version,
                            !.last_test_status = "none"]
        BY <2>2 DEF Retargeted, url
      <3>2. version \in Nat /\ [secret |-> ask.secret, sealed |-> version] \in Credentials
        BY <1>1, <2>2, RowFields DEF Credentials
      <3> HIDE DEF new, version
      <3> QED
        BY <1>2, <2>2, <3>1, <3>2 DEF SourceRow
    <2> QED
      BY <2>1, <2>2
  <1>4. n = [new EXCEPT !.enabled = enabled /\ ~retargeted,
                        !.config_version = IF retargeted \/ enabled # s.enabled \/ ask.terms
                                             THEN @ + 1 ELSE @]
    BY DEF Edited
  <1>5. ask.enabled = "on" => new.last_test_status = "passed"
    BY DEF Acceptable
  <1>6. enabled \in BOOLEAN
    BY <1>1, RowFields
  <1>7. enabled => s.enabled \/ ask.enabled = "on"
    BY <1>1
  <1> HIDE DEF new, url, enabled, n
  <1>8. retargeted \in BOOLEAN
    BY DEF retargeted
  <1> HIDE DEF retargeted
  <1>14. config \in Nat /\ (enabled /\ ~retargeted) \in BOOLEAN
    BY <1>6, <1>8, RowFields
  <1>15. n = [new EXCEPT !.enabled = enabled /\ ~retargeted, !.config_version = config]
    BY <1>3, <1>4
  <1> HIDE DEF config
  <1>9. /\ n \in SourceRow
        /\ n.base_url = new.base_url /\ n.credentials = new.credentials
        /\ n.credential_version = new.credential_version
        /\ n.last_test_status = new.last_test_status
        /\ n.enabled = (enabled /\ ~retargeted)
        /\ n.config_version = config
    BY <1>3, <1>14, <1>15 DEF SourceRow
  <1>10. n.base_url # s.base_url \/ n.credentials # s.credentials =>
             retargeted /\ n.last_test_status = "none"
    BY <1>3, <1>9 DEF retargeted
  <1>11. n.last_test_status \in {s.last_test_status, "none"}
    BY <1>3, <1>9
  <1>12. n.enabled => s.enabled \/ s.last_test_status = "passed"
    BY <1>5, <1>7, <1>9, <1>11
  <1>13. Reseals(s, n)
    <2>1. ask.secret # Keep => version # s.credential_version
      BY RowFields
    <2>2. ask.secret # Keep =>
              /\ n.credentials.sealed = version /\ n.credentials.secret = ask.secret
              /\ n.credential_version = version
      BY <1>3, <1>9
    <2>3. ask.secret # Keep => n.credentials # s.credentials
      BY <1>1, <2>1, <2>2, SourceAssumption DEF Acceptable, Decrypts
    <2> QED
      BY <1>3, <1>9, <2>2, <2>3 DEF Reseals, Decrypts
  <1>16. /\ config = s.config_version \/ config = s.config_version + 1
         /\ retargeted => config = s.config_version + 1
    BY DEF config
  <1> HIDE DEF n
  <1>17. Amends(s, n)
    BY <1>9, <1>10, <1>11, <1>12, <1>16 DEF Amends
  <1> QED
    BY <1>13, <1>17 DEF n

LEMMA ClearAmends ==
    ASSUME NEW s \in SourceRow
    PROVE  Amends(s, Cleared(s)) /\ Reseals(s, Cleared(s))
  <1> DEFINE n == Cleared(s)
  <1>1. NoCredentials \in Credentials /\ NoCredentials.secret = Unset
    BY DEF NoCredentials, Credentials
  <1>0. s.credential_version + 1 \in Nat /\ s.config_version + 1 \in Nat
    BY RowFields
  <1>2. /\ n \in SourceRow /\ n.credentials = NoCredentials
        /\ n.config_version = s.config_version + 1 /\ ~n.enabled
        /\ n.last_test_status = "none"
        /\ n.credential_version = s.credential_version + 1
    BY <1>1, <1>0 DEF Cleared, SourceRow
  <1> HIDE DEF n
  <1>3. Amends(s, n)
    BY <1>1, <1>2 DEF Amends
  <1>4. Reseals(s, n)
    BY <1>1, <1>2 DEF Reseals
  <1> QED
    BY <1>3, <1>4 DEF n

-------------------------------------------------------------------------------
(* Types.                                                                      *)

\* The sessions are of three kinds.
LEMMA SessionKinds ==
    /\ \A e \in Editors : e \in Sessions /\ e \notin Testers /\ e \notin Batches
    /\ \A t \in Testers : t \in Sessions /\ t \notin Editors /\ t \notin Batches
    /\ \A b \in Batches : b \in Sessions /\ b \notin Editors /\ b \notin Testers
  BY SourceAssumption DEF Sessions

\* A session goes on or ends; the others notice nothing of it.
LEMMA StepOfOne ==
    ASSUME TypeOK, NEW a \in Sessions, NEW row \in SourceRow,
           NEW step \in {"idle", "read", "created", "over"},
           copy' = [copy EXCEPT ![a] = row], Goto(a, step),
           a \in Batches \/ step \in {"idle", "read"}
    PROVE  /\ copy' \in [Sessions -> SourceRow]
           /\ pc' \in [Sessions -> {"idle", "read", "created", "over"}]
           /\ \A b \in Editors \cup Testers : pc'[b] \in {"idle", "read"}
           /\ \A b \in Sessions : /\ copy'[b] = IF b = a THEN row ELSE copy[b]
                                  /\ pc'[b] = IF b = a THEN step ELSE pc[b]
  <1>1. /\ copy' \in [Sessions -> SourceRow]
        /\ pc' \in [Sessions -> {"idle", "read", "created", "over"}]
        /\ \A b \in Sessions : /\ copy'[b] = IF b = a THEN row ELSE copy[b]
                               /\ pc'[b] = IF b = a THEN step ELSE pc[b]
    BY DEF TypeOK, Goto
  <1>2. \A b \in Editors \cup Testers : pc'[b] \in {"idle", "read"}
    BY <1>1, SessionKinds DEF TypeOK
  <1> QED
    BY <1>1, <1>2

\* A step of one session that leaves a row of its kind behind.
LEMMA StepTypes ==
    ASSUME TypeOK, NEW a \in Sessions, NEW row \in SourceRow,
           NEW step \in {"idle", "read", "created", "over"},
           copy' = [copy EXCEPT ![a] = row], Goto(a, step),
           a \in Batches \/ step \in {"idle", "read"},
           source' \in SourceRow, bound' \in [Batches -> Nat],
           ran' \in [Batches -> SUBSET Targets], edits' \in 0..MaxEdits,
           tests' \in 0..MaxTests, meant' \in [Batches -> Targets], shown' \in Targets,
           raced' \in BOOLEAN, unguarded' \subseteq Batches
    PROVE  TypeOK'
  BY StepOfOne DEF TypeOK

\* What is noted of an edit.
LEMMA NoteTypes ==
    ASSUME raced \in BOOLEAN, unguarded \subseteq Batches, NEW e, NoteEdit(e)
    PROVE  raced' \in BOOLEAN /\ unguarded' \subseteq Batches
  <1>1. Open \subseteq Batches
    BY DEF Open
  <1>2. raced' \in BOOLEAN
    BY DEF NoteEdit
  <1>3. unguarded' = unguarded \/ unguarded' = unguarded \cup Open
    BY DEF NoteEdit
  <1> QED
    BY <1>1, <1>2, <1>3

LEMMA EditTypes ==
    ASSUME TypeOK, NEW e \in Editors,
           \/ BeginEdit(e) \/ CommitEdit(e) \/ CommitClear(e)
           \/ CommitCreate(e) \/ CommitDelete(e) \/ FailEdit(e)
    PROVE  TypeOK'
  <1>1. /\ e \in Sessions /\ source \in SourceRow /\ copy[e] \in SourceRow
        /\ bound \in [Batches -> Nat] /\ ran \in [Batches -> SUBSET Targets]
        /\ edits \in 0..MaxEdits /\ tests \in 0..MaxTests /\ meant \in [Batches -> Targets]
        /\ shown \in Targets /\ raced \in BOOLEAN /\ unguarded \subseteq Batches
    BY SessionKinds DEF TypeOK
  <1>2. CASE BeginEdit(e)
    <2>1. edits' \in 0..MaxEdits
      BY <1>1, <1>2, SourceAssumption DEF BeginEdit
    <2>2. /\ UNCHANGED <<source, tests, bound, ran, meant, unguarded, shown, raced>>
          /\ copy' = [copy EXCEPT ![e] = source] /\ Goto(e, "read")
      BY <1>2 DEF BeginEdit, Read, batches
    <2> QED
      BY <1>1, <2>1, <2>2, StepTypes
  <1>3. CASE EditOver(e) /\ source' \in SourceRow /\ raced' \in BOOLEAN
             /\ unguarded' \subseteq Batches
    <2>1. /\ UNCHANGED <<edits, tests, bound, ran, meant, shown>>
          /\ copy' = [copy EXCEPT ![e] = NoSource] /\ Goto(e, "idle")
      BY <1>3 DEF EditOver, Leave
    <2> QED
      BY <1>1, <1>3, <2>1, StepTypes, DraftRow
  <1>4. CASE CommitEdit(e)
    <2>1. PICK ask \in Edits : /\ Acceptable(copy[e], ask)
                               /\ source' = Written(copy[e], Edited(copy[e], ask))
      BY <1>4 DEF CommitEdit
    <2>2. Edited(copy[e], ask) \in SourceRow
      BY <1>1, <2>1, EditAmends DEF Amends
    <2>3. source' \in SourceRow
      BY <1>1, <2>1, <2>2, WrittenRow
    <2> QED
      BY <1>1, <1>3, <1>4, <2>3, NoteTypes DEF CommitEdit
  <1>5. CASE CommitClear(e)
    <2>1. Cleared(copy[e]) \in SourceRow
      BY <1>1, ClearAmends DEF Amends
    <2>2. source' \in SourceRow
      BY <1>1, <1>5, <2>1, WrittenRow DEF CommitClear
    <2> QED
      BY <1>1, <1>3, <1>5, <2>2, NoteTypes DEF CommitClear
  <1>6. CASE CommitCreate(e)
    BY <1>1, <1>3, <1>6, DraftRow DEF CommitCreate
  <1>7. CASE CommitDelete(e)
    BY <1>1, <1>3, <1>7, DraftRow DEF CommitDelete
  <1>8. CASE FailEdit(e)
    BY <1>1, <1>3, <1>8 DEF FailEdit
  <1> QED
    BY <1>2, <1>4, <1>5, <1>6, <1>7, <1>8

LEMMA OtherTypes ==
    ASSUME TypeOK,
           \/ \E t \in Testers : BeginTest(t) \/ FinishTest(t) \/ FailTest(t)
           \/ \E b \in Batches : \/ BeginUpload(b) \/ CommitUpload(b) \/ FailUpload(b)
                                 \/ Validate(b)
    PROVE  TypeOK'
  <1>1. /\ source \in SourceRow /\ \A a \in Sessions : copy[a] \in SourceRow
        /\ bound \in [Batches -> Nat] /\ ran \in [Batches -> SUBSET Targets]
        /\ edits \in 0..MaxEdits /\ tests \in 0..MaxTests /\ meant \in [Batches -> Targets]
        /\ shown \in Targets /\ raced \in BOOLEAN /\ unguarded \subseteq Batches
    BY DEF TypeOK
  <1>2. ASSUME NEW t \in Testers, BeginTest(t) PROVE TypeOK'
    <2>1. tests' \in 0..MaxTests
      BY <1>1, <1>2, SourceAssumption DEF BeginTest
    <2>2. /\ UNCHANGED <<source, edits, bound, ran, meant, unguarded, shown, raced>>
          /\ copy' = [copy EXCEPT ![t] = source] /\ Goto(t, "read")
      BY <1>2 DEF BeginTest, Read, batches
    <2> QED
      BY <1>1, <2>1, <2>2, StepTypes, SessionKinds
  <1>3. ASSUME NEW t \in Testers, FinishTest(t) PROVE TypeOK'
    <2>1. PICK status \in {"passed", "failed"} :
              LET passes == status = "passed" /\ copy[t].last_test_status # "passed"
              IN /\ source' = Written(copy[t], [copy[t] EXCEPT !.last_test_status = status])
                 /\ shown' = IF passes THEN TargetOf(copy[t]) ELSE shown
                 /\ raced' = IF passes THEN TargetOf(source) # TargetOf(copy[t]) ELSE raced
      BY <1>3 DEF FinishTest
    <2>2. copy[t] \in SourceRow
      BY <1>1, SessionKinds
    <2>3. source' \in SourceRow
      BY <1>1, <2>1, <2>2, VerdictRow
    <2>4. shown' \in Targets /\ raced' \in BOOLEAN
      BY <1>1, <2>1, <2>2, RowFields
    <2>5. /\ UNCHANGED <<edits, tests, bound, ran, meant, unguarded>>
          /\ copy' = [copy EXCEPT ![t] = NoSource] /\ Goto(t, "idle")
      BY <1>3 DEF FinishTest, Leave, batches
    <2> QED
      BY <1>1, <2>3, <2>4, <2>5, StepTypes, SessionKinds, DraftRow
  <1>4. ASSUME NEW t \in Testers, FailTest(t) PROVE TypeOK'
    <2>1. /\ UNCHANGED <<source, edits, tests, bound, ran, meant, unguarded, shown, raced>>
          /\ copy' = [copy EXCEPT ![t] = NoSource] /\ Goto(t, "idle")
      BY <1>4 DEF FailTest, Leave, batches
    <2> QED
      BY <1>1, <2>1, StepTypes, SessionKinds, DraftRow
  <1>5. ASSUME NEW b \in Batches, BeginUpload(b) PROVE TypeOK'
    <2>1. /\ UNCHANGED <<source, edits, tests, bound, ran, unguarded, shown, raced>>
          /\ copy' = [copy EXCEPT ![b] = source] /\ Goto(b, "read")
          /\ meant' = [meant EXCEPT ![b] = TargetOf(source)]
      BY <1>5 DEF BeginUpload, Read
    <2>2. meant' \in [Batches -> Targets]
      BY <1>1, <2>1, RowFields
    <2> QED
      BY <1>1, <2>1, <2>2, StepTypes, SessionKinds
  <1>6. ASSUME NEW b \in Batches, CommitUpload(b) PROVE TypeOK'
    <2>1. /\ UNCHANGED <<source, edits, tests, ran, meant, unguarded, shown, raced>>
          /\ copy' = [copy EXCEPT ![b] = NoSource] /\ Goto(b, "created")
          /\ bound' = [bound EXCEPT ![b] = copy[b].config_version]
      BY <1>6 DEF CommitUpload, Leave
    <2>2. copy[b].config_version \in Nat
      BY <1>1, SessionKinds, RowFields
    <2>3. bound' \in [Batches -> Nat]
      BY <1>1, <2>1, <2>2
    <2> QED
      BY <1>1, <2>1, <2>3, StepTypes, SessionKinds, DraftRow
  <1>7. ASSUME NEW b \in Batches, FailUpload(b) PROVE TypeOK'
    <2>1. /\ UNCHANGED <<source, edits, tests, bound, ran, meant, unguarded, shown, raced>>
          /\ copy' = [copy EXCEPT ![b] = NoSource] /\ Goto(b, "over")
      BY <1>7 DEF FailUpload, Leave, batches
    <2> QED
      BY <1>1, <2>1, StepTypes, SessionKinds, DraftRow
  <1>8. ASSUME NEW b \in Batches, Validate(b) PROVE TypeOK'
    <2>1. /\ UNCHANGED <<source, copy, edits, tests, bound, meant, unguarded, shown, raced>>
          /\ Goto(b, "over")
      BY <1>8 DEF Validate
    <2>2. PICK target \in SUBSET {TargetOf(source)} : ran' = [ran EXCEPT ![b] = target]
      BY <1>8 DEF Validate
    <2>3. ran' \in [Batches -> SUBSET Targets]
      BY <1>1, <2>2, RowFields
    <2>4. copy' = [copy EXCEPT ![b] = copy[b]]
      BY <2>1 DEF TypeOK
    <2> QED
      BY <1>1, <2>1, <2>3, <2>4, StepTypes, SessionKinds
  <1> QED
    BY <1>2, <1>3, <1>4, <1>5, <1>6, <1>7, <1>8

LEMMA InitInv == ASSUME Init PROVE Inv /\ Decryptable
  <1>1. source \in SourceRow /\ (source.enabled => Exists(source)) /\ Decryptable
    <2>1. CASE source = NoSource
      BY <2>1, DraftRow DEF Decryptable
    <2>2. CASE source \in {Ready(u, s) : u \in Urls, s \in Secrets}
      <3>1. PICK u \in Urls, secret \in Secrets : source = Ready(u, secret)
        BY <2>2
      <3>2. [secret |-> secret, sealed |-> 1] \in Credentials
        BY DEF Credentials
      <3>3. source \in SourceRow
        BY <3>1, <3>2 DEF Ready, SourceRow
      <3> QED
        BY <3>1, <3>3 DEF Ready, Exists, Decryptable, Decrypts
    <2> QED
      BY <2>1, <2>2 DEF Init
  <1>2. TypeOK
    <2>1. NoSource \in SourceRow /\ <<Unset, Unset>> \in Targets
      BY DraftRow DEF Targets
    <2>2. shown \in Targets
      BY <1>1, RowFields DEF Init
    <2>3. \A a \in Editors \cup Testers : a \in Sessions
      BY DEF Sessions
    <2>4. /\ copy \in [Sessions -> SourceRow]
          /\ pc \in [Sessions -> {"idle", "read", "created", "over"}]
          /\ \A a \in Editors \cup Testers : pc[a] \in {"idle", "read"}
      BY <2>1, <2>3 DEF Init
    <2>5. /\ bound \in [Batches -> Nat] /\ ran \in [Batches -> SUBSET Targets]
          /\ meant \in [Batches -> Targets]
      BY <2>1 DEF Init
    <2>6. edits \in 0..MaxEdits /\ tests \in 0..MaxTests
      BY SourceAssumption DEF Init
    <2>7. raced \in BOOLEAN /\ unguarded \subseteq Batches
      BY DEF Init
    <2> QED
      BY <1>1, <2>2, <2>4, <2>5, <2>6, <2>7 DEF TypeOK
  <1>3. \A a \in Editors \cup Batches : pc[a] = "idle"
    BY DEF Init, Sessions
  <1>4. /\ BatchesPinned /\ RunUsesBoundConfig
        /\ VerdictHolds /\ EnabledWasTested
    BY <1>3 DEF Init, BatchesPinned, RunUsesBoundConfig, VerdictHolds,
                EnabledWasTested
  <1> QED
    BY <1>1, <1>2, <1>4 DEF Inv

-------------------------------------------------------------------------------
(* The steps, each of which keeps the types.                                   *)

\* The editor commits what it made of its copy, whatever has been committed
\* since it read it.
LEMMA AmendInv ==
    ASSUME Inv, TypeOK', NEW e \in Editors, pc[e] = "read",
           Exists(copy[e]), Exists(source),
           NEW n, Amends(copy[e], n), source' = Written(copy[e], n),
           EditOver(e), NoteEdit(e)
    PROVE  Inv'
  <1> DEFINE c == copy[e]
  <1>1. source \in SourceRow /\ c \in SourceRow /\ n \in SourceRow /\ source' \in SourceRow
    BY SessionKinds DEF Inv, TypeOK, Amends
  <1>2. /\ source'.base_url = IF n.base_url # c.base_url
                                THEN n.base_url ELSE source.base_url
        /\ source'.credentials = IF n.credentials # c.credentials
                                   THEN n.credentials ELSE source.credentials
        /\ source'.config_version = IF n.config_version # c.config_version
                                      THEN n.config_version ELSE source.config_version
        /\ source'.enabled = IF n.enabled # c.enabled THEN n.enabled ELSE source.enabled
        /\ source'.last_test_status = IF n.last_test_status # c.last_test_status
                                        THEN n.last_test_status ELSE source.last_test_status
    BY <1>1, WrittenRow
  <1>3. UNCHANGED <<bound, ran, meant, shown>>
    BY DEF EditOver
  <1>4. \A b \in Batches : copy'[b] = copy[b] /\ pc'[b] = pc[b]
    BY SessionKinds, DraftRow, StepOfOne DEF EditOver, Leave, Inv
  <1>5. TargetOf(source') # TargetOf(source) =>
            /\ n.base_url # c.base_url \/ n.credentials # c.credentials
            /\ n.config_version = c.config_version + 1
            /\ ~n.enabled /\ n.last_test_status = "none"
    BY <1>2 DEF TargetOf, Amends
  <1>6. source'.enabled => Exists(source)'
    BY <1>1, <1>2, RowFields DEF Amends, Exists
  <1>7. BatchesPinned' /\ RunUsesBoundConfig'
    <2>1. CASE source' = source
      <3>1. unguarded' = unguarded
        BY <2>1 DEF NoteEdit
      <3> QED
        BY <1>3, <1>4, <2>1, <3>1 DEF Inv, BatchesPinned, RunUsesBoundConfig, Pinned
    <2>2. CASE c.config_version # source.config_version /\ source' # source
      <3>1. unguarded' = unguarded \cup Open
        BY <2>2 DEF NoteEdit
      <3> QED
        BY <1>3, <1>4, <3>1 DEF Inv, BatchesPinned, RunUsesBoundConfig, Open
    <2>3. CASE c.config_version = source.config_version
      <3>1. unguarded' = unguarded
        BY <2>3 DEF NoteEdit
      <3>2. /\ source'.config_version = source.config_version
                  \/ source'.config_version = source.config_version + 1
            /\ TargetOf(source') # TargetOf(source) =>
                  source'.config_version = source.config_version + 1
        BY <1>1, <1>2, <1>5, <2>3, RowFields DEF Amends
      <3>3. \A version \in Nat : \A target : Pinned(version, target) =>
                /\ version <= source'.config_version
                /\ version = source'.config_version => TargetOf(source') = target
        BY <1>1, <3>2, RowFields DEF Pinned
      <3>4. \A b \in Batches : bound[b] \in Nat /\ copy[b].config_version \in Nat
        BY SessionKinds, RowFields DEF Inv, TypeOK
      <3>5. BatchesPinned'
        <4> SUFFICES ASSUME NEW b \in Batches \ unguarded
                     PROVE  /\ pc[b] # "over" => ran[b] = {}
                            /\ pc[b] = "read" => Pinned(copy[b].config_version, meant[b])'
                            /\ pc[b] = "created" => Pinned(bound[b], meant[b])'
          BY <1>3, <1>4, <3>1 DEF BatchesPinned
        <4> QED
          BY <1>3, <1>4, <3>3, <3>4 DEF Inv, BatchesPinned, Pinned
      <3> QED
        BY <1>3, <3>1, <3>5 DEF Inv, RunUsesBoundConfig
    <2> QED
      BY <2>1, <2>2, <2>3
  <1>8. /\ raced' \in BOOLEAN /\ (raced => raced')
        /\ \/ TargetOf(source') # TargetOf(source)
           \/ source'.enabled /\ ~source.enabled
           => raced' \/ Checked(c) = Checked(source)
    BY DEF NoteEdit, TypeOK, Inv
  <1>9. Checked(c) = Checked(source) =>
            c.enabled = source.enabled /\ c.last_test_status = source.last_test_status
    BY DEF Checked
  <1>10. VerdictHolds'
    <2>1. CASE TargetOf(source') = TargetOf(source)
      <3>1. source'.last_test_status = "passed" => source.last_test_status = "passed"
        BY <1>2 DEF Amends
      <3> QED
        BY <1>3, <1>8, <2>1, <3>1 DEF Inv, VerdictHolds
    <2>2. CASE TargetOf(source') # TargetOf(source)
      <3>1. c.last_test_status = source.last_test_status => source'.last_test_status = "none"
        BY <1>2, <1>5, <2>2
      <3> QED
        BY <1>8, <1>9, <2>2, <3>1 DEF VerdictHolds
    <2> QED
      BY <2>1, <2>2
  <1>11. EnabledWasTested'
    <2>1. c.enabled = source.enabled => source'.enabled = n.enabled
      BY <1>1, <1>2, RowFields
    <2>2. CASE TargetOf(source') # TargetOf(source)
      BY <1>5, <1>8, <1>9, <2>1, <2>2 DEF EnabledWasTested
    <2>3. CASE TargetOf(source') = TargetOf(source) /\ source.enabled
      BY <1>3, <1>8, <2>3 DEF Inv, EnabledWasTested
    <2>4. CASE TargetOf(source') = TargetOf(source) /\ ~source.enabled
      <3>1. source'.enabled /\ ~raced' => source.last_test_status = "passed"
        BY <1>8, <1>9, <2>1, <2>4 DEF Amends
      <3> QED
        BY <1>3, <1>8, <2>4, <3>1 DEF Inv, VerdictHolds, EnabledWasTested
    <2> QED
      BY <2>2, <2>3, <2>4
  <1> QED
    BY <1>6, <1>7, <1>10, <1>11 DEF Inv

\* The source is created or deleted: no batch that counts is bound to it.
LEMMA ReplaceInv ==
    ASSUME Inv, TypeOK', NEW e \in Editors,
           ~source'.enabled /\ source'.last_test_status = "none",
           unguarded \subseteq unguarded',
           \A b \in Batches \ unguarded' : pc[b] \notin {"read", "created"},
           EditOver(e)
    PROVE  Inv'
  <1>1. UNCHANGED <<ran, meant, shown>>
    BY DEF EditOver
  <1>2. \A b \in Batches : pc'[b] = pc[b]
    <2>1. copy' = [copy EXCEPT ![e] = NoSource] /\ Goto(e, "idle")
      BY DEF EditOver, Leave
    <2>2. \A b \in Sessions : pc'[b] = IF b = e THEN "idle" ELSE pc[b]
      BY <2>1, SessionKinds DEF Goto, Inv, TypeOK
    <2> QED
      BY <2>2, SessionKinds
  <1> QED
    BY <1>1, <1>2
       DEF Inv, BatchesPinned, RunUsesBoundConfig, VerdictHolds, EnabledWasTested

\* A step that leaves the source and the runs alone.
LEMMA SourceStays ==
    ASSUME Inv, TypeOK', UNCHANGED <<source, meant, ran, unguarded, shown, raced>>,
           NEW a \in Sessions, NEW row \in SourceRow,
           NEW step \in {"idle", "read", "created", "over"},
           copy' = [copy EXCEPT ![a] = row], Goto(a, step), pc[a] # "over",
           a \in Batches \/ step \in {"idle", "read"},
           a \in Batches \ unguarded /\ step = "read" =>
               Pinned(row.config_version, meant[a]),
           a \in Batches \ unguarded /\ step = "created" => Pinned(bound'[a], meant[a]),
           \A b \in Batches \ {a} : bound'[b] = bound[b]
    PROVE  Inv'
  <1>1. \A b \in Sessions : /\ copy'[b] = IF b = a THEN row ELSE copy[b]
                            /\ pc'[b] = IF b = a THEN step ELSE pc[b]
    BY DEF Inv, TypeOK, Goto
  <1>2. BatchesPinned'
    <2> SUFFICES ASSUME NEW b \in Batches \ unguarded
                 PROVE  /\ pc'[b] # "over" => ran[b] = {}
                        /\ pc'[b] = "read" => Pinned(copy[b].config_version, meant[b])'
                        /\ pc'[b] = "created" => Pinned(bound[b], meant[b])'
      BY DEF BatchesPinned
    <2>0. /\ Pinned(copy[b].config_version, meant[b])' =
                Pinned(copy'[b].config_version, meant[b])
          /\ Pinned(bound[b], meant[b])' = Pinned(bound'[b], meant[b])
      BY DEF Pinned
    <2>1. b \in Sessions /\ (pc[b] # "over" => ran[b] = {})
      BY SessionKinds DEF Inv, BatchesPinned
    <2>2. CASE b = a
      BY <1>1, <2>0, <2>1, <2>2
    <2>3. CASE b # a
      BY <1>1, <2>0, <2>1, <2>3 DEF Inv, BatchesPinned
    <2> QED
      BY <2>2, <2>3
  <1> QED
    BY <1>2 DEF Inv, Exists, RunUsesBoundConfig, VerdictHolds, EnabledWasTested

LEMMA EditStepInv ==
    ASSUME Inv, TypeOK', NEW e \in Editors,
           \/ BeginEdit(e) \/ CommitEdit(e) \/ CommitClear(e)
           \/ CommitCreate(e) \/ CommitDelete(e) \/ FailEdit(e)
    PROVE  Inv'
  <1>0. e \in Sessions /\ e \notin Batches /\ source \in SourceRow /\ copy[e] \in SourceRow
    BY SessionKinds DEF Inv, TypeOK
  <1>1. CASE BeginEdit(e)
    <2>1. /\ UNCHANGED <<source, bound, ran, meant, unguarded, shown, raced>>
          /\ copy' = [copy EXCEPT ![e] = source] /\ Goto(e, "read") /\ pc[e] = "idle"
      BY <1>1 DEF BeginEdit, Read, batches
    <2> QED
      BY <1>0, <2>1, SourceStays
  <1>2. CASE CommitEdit(e)
    <2>1. PICK ask \in Edits : /\ Acceptable(copy[e], ask)
                               /\ source' = Written(copy[e], Edited(copy[e], ask))
      BY <1>2 DEF CommitEdit
    <2>2. Amends(copy[e], Edited(copy[e], ask))
      BY <1>0, <2>1, EditAmends
    <2> QED
      BY <1>2, <2>1, <2>2, AmendInv DEF CommitEdit
  <1>3. CASE CommitClear(e)
    BY <1>0, <1>3, ClearAmends, AmendInv DEF CommitClear
  <1>4. CASE CommitCreate(e)
    <2>1. source.config_version = 0
      BY <1>0, <1>4, RowFields DEF CommitCreate, Exists
    <2>2. \A b \in Batches : bound[b] \in Nat /\ copy[b].config_version \in Nat
      BY SessionKinds, RowFields DEF Inv, TypeOK
    <2>3. \A b \in Batches \ unguarded : pc[b] \notin {"read", "created"}
      BY <2>1, <2>2 DEF Inv, BatchesPinned, Pinned
    <2>4. ~source'.enabled /\ source'.last_test_status = "none"
      BY <1>4, DraftRow DEF CommitCreate
    <2>5. unguarded' = unguarded /\ EditOver(e)
      BY <1>4 DEF CommitCreate
    <2> QED
      BY <2>3, <2>4, <2>5, ReplaceInv
  <1>5. CASE CommitDelete(e)
    <2>1. unguarded' = unguarded \cup {b \in Batches : pc[b] = "read"} /\ EditOver(e)
      BY <1>5 DEF CommitDelete
    <2>2. \A b \in Batches \ unguarded : pc[b] # "created"
      BY <1>5 DEF CommitDelete, Inv, BatchesPinned, Pinned
    <2>3. \A b \in Batches \ unguarded' : pc[b] \notin {"read", "created"}
      BY <2>1, <2>2
    <2>4. ~source'.enabled /\ source'.last_test_status = "none"
      BY <1>5, DraftRow DEF CommitDelete
    <2> QED
      BY <2>1, <2>3, <2>4, ReplaceInv
  <1>6. CASE FailEdit(e)
    <2>1. /\ UNCHANGED <<source, bound, ran, meant, unguarded, shown, raced>>
          /\ copy' = [copy EXCEPT ![e] = NoSource] /\ Goto(e, "idle") /\ pc[e] = "read"
      BY <1>6 DEF FailEdit, EditOver, Leave
    <2> QED
      BY <1>0, <2>1, SourceStays, DraftRow
  <1> QED
    BY <1>1, <1>2, <1>3, <1>4, <1>5, <1>6

LEMMA TestStepInv ==
    ASSUME Inv, TypeOK', NEW t \in Testers, BeginTest(t) \/ FinishTest(t) \/ FailTest(t)
    PROVE  Inv'
  <1>0. /\ t \in Sessions /\ t \notin Batches /\ source \in SourceRow /\ copy[t] \in SourceRow
    BY SessionKinds DEF Inv, TypeOK
  <1>1. CASE BeginTest(t)
    <2>1. /\ UNCHANGED <<source, bound, ran, meant, unguarded, shown, raced>>
          /\ copy' = [copy EXCEPT ![t] = source] /\ Goto(t, "read") /\ pc[t] = "idle"
      BY <1>1 DEF BeginTest, Read, batches
    <2> QED
      BY <1>0, <2>1, SourceStays
  <1>2. CASE FailTest(t)
    <2>1. /\ UNCHANGED <<source, bound, ran, meant, unguarded, shown, raced>>
          /\ copy' = [copy EXCEPT ![t] = NoSource] /\ Goto(t, "idle") /\ pc[t] = "read"
      BY <1>2 DEF FailTest, Leave, batches
    <2> QED
      BY <1>0, <2>1, SourceStays, DraftRow
  <1>3. CASE FinishTest(t)
    <2>1. PICK status \in {"passed", "failed"} :
              LET passes == status = "passed" /\ copy[t].last_test_status # "passed"
              IN /\ source' = Written(copy[t], [copy[t] EXCEPT !.last_test_status = status])
                 /\ shown' = IF passes THEN TargetOf(copy[t]) ELSE shown
                 /\ raced' = IF passes THEN TargetOf(source) # TargetOf(copy[t]) ELSE raced
      BY <1>3 DEF FinishTest
    <2> DEFINE passes == status = "passed" /\ copy[t].last_test_status # "passed"
    <2>2. /\ Same(source', source)
          /\ source'.last_test_status \in {source.last_test_status, status}
          /\ copy[t].last_test_status = status =>
                source'.last_test_status = source.last_test_status
      BY <1>0, <2>1, VerdictRow
    <2>3. /\ UNCHANGED <<bound, ran, meant, unguarded>>
          /\ copy' = [copy EXCEPT ![t] = NoSource] /\ Goto(t, "idle")
      BY <1>3 DEF FinishTest, Leave, batches
    <2>4. \A b \in Batches : copy'[b] = copy[b] /\ pc'[b] = pc[b]
      BY <1>0, <2>3, StepOfOne, DraftRow, SessionKinds DEF Inv
    <2>7. TargetOf(source') = TargetOf(source)
      BY <2>2 DEF Same, TargetOf
    <2>8. source'.enabled => Exists(source)'
      BY <2>2 DEF Inv, Exists, Same
    <2>10. BatchesPinned' /\ RunUsesBoundConfig'
      BY <2>2, <2>3, <2>4, <2>7
         DEF Inv, BatchesPinned, RunUsesBoundConfig, Pinned, Same
    <2>11. VerdictHolds' /\ EnabledWasTested'
      <3>1. CASE passes
        <4>1. shown' = TargetOf(copy[t]) /\ raced' = (TargetOf(source) # TargetOf(copy[t]))
          BY <2>1, <3>1
        <4> QED
          BY <2>7, <4>1 DEF VerdictHolds, EnabledWasTested
      <3>2. CASE ~passes
        <4>1. shown' = shown /\ raced' = raced
          BY <2>1, <3>2
        <4>2. source'.last_test_status = "passed" => source.last_test_status = "passed"
          BY <2>2, <3>2
        <4> QED
          BY <2>2, <2>7, <4>1, <4>2 DEF Inv, VerdictHolds, EnabledWasTested, Same
      <3> QED
        BY <3>1, <3>2
    <2> QED
      BY <2>8, <2>10, <2>11 DEF Inv
  <1> QED
    BY <1>1, <1>2, <1>3

LEMMA BatchStepInv ==
    ASSUME Inv, TypeOK', NEW b \in Batches,
           BeginUpload(b) \/ CommitUpload(b) \/ FailUpload(b) \/ Validate(b)
    PROVE  Inv'
  <1>0. /\ b \in Sessions /\ source \in SourceRow /\ copy[b] \in SourceRow
        /\ bound \in [Batches -> Nat] /\ ran \in [Batches -> SUBSET Targets]
        /\ meant \in [Batches -> Targets]
        /\ pc \in [Sessions -> {"idle", "read", "created", "over"}]
    BY SessionKinds DEF Inv, TypeOK
  <1>1. CASE BeginUpload(b)
    <2>1. /\ UNCHANGED <<source, bound, ran, unguarded, shown, raced>>
          /\ copy' = [copy EXCEPT ![b] = source] /\ Goto(b, "read") /\ pc[b] = "idle"
          /\ source.enabled
          /\ meant' = [meant EXCEPT ![b] = TargetOf(source)]
      BY <1>1 DEF BeginUpload, Read
    <2>2. \A a \in Sessions : /\ copy'[a] = IF a = b THEN source ELSE copy[a]
                              /\ pc'[a] = IF a = b THEN "read" ELSE pc[a]
      BY <1>0, <2>1, StepOfOne DEF Inv
    <2>3. \A a \in Batches : meant'[a] = IF a = b THEN TargetOf(source) ELSE meant[a]
      BY <1>0, <2>1
    <2>4. Pinned(source.config_version, TargetOf(source))
      BY <1>0, <2>1, RowFields DEF Inv, Exists, Pinned
    <2>5. BatchesPinned'
      BY <2>1, <2>2, <2>3, <2>4, SessionKinds DEF Inv, BatchesPinned, Pinned
    <2>6. b \notin unguarded => ran[b] = {}
      BY <2>1 DEF Inv, BatchesPinned
    <2>7. RunUsesBoundConfig'
      BY <2>1, <2>3, <2>6 DEF Inv, RunUsesBoundConfig
    <2> QED
      BY <2>1, <2>5, <2>7 DEF Inv, Exists, VerdictHolds, EnabledWasTested
  <1>2. CASE CommitUpload(b)
    <2>1. /\ UNCHANGED <<source, ran, meant, unguarded, shown, raced>>
          /\ copy' = [copy EXCEPT ![b] = NoSource] /\ Goto(b, "created") /\ pc[b] = "read"
          /\ bound' = [bound EXCEPT ![b] = copy[b].config_version]
      BY <1>2 DEF CommitUpload, Leave
    <2>2. /\ bound'[b] = copy[b].config_version
          /\ \A c \in Batches \ {b} : bound'[c] = bound[c]
      BY <1>0, <2>1
    <2>3. b \notin unguarded => Pinned(bound'[b], meant[b])
      BY <2>1, <2>2 DEF Inv, BatchesPinned
    <2> QED
      BY <1>0, <2>1, <2>2, <2>3, SourceStays, DraftRow
  <1>3. CASE FailUpload(b)
    <2>1. /\ UNCHANGED <<source, bound, ran, meant, unguarded, shown, raced>>
          /\ copy' = [copy EXCEPT ![b] = NoSource] /\ Goto(b, "over") /\ pc[b] = "read"
      BY <1>3 DEF FailUpload, Leave, batches
    <2> QED
      BY <1>0, <2>1, SourceStays, DraftRow
  <1>4. CASE Validate(b)
    <2>1. /\ UNCHANGED <<source, copy, bound, meant, unguarded, shown, raced>>
          /\ pc[b] = "created" /\ pc' = [pc EXCEPT ![b] = "over"]
      BY <1>4 DEF Validate, Goto
    <2>2. PICK target \in SUBSET {TargetOf(source)} :
              /\ ran' = [ran EXCEPT ![b] = target]
              /\ target # {} => source.config_version = bound[b]
      BY <1>4 DEF Validate
    <2>3. /\ \A a \in Sessions : pc'[a] = IF a = b THEN "over" ELSE pc[a]
          /\ \A a \in Batches : ran'[a] = IF a = b THEN target ELSE ran[a]
      BY <1>0, <2>1, <2>2
    <2>4. b \notin unguarded => target \subseteq {meant[b]}
      BY <2>1, <2>2 DEF Inv, BatchesPinned, Pinned
    <2>5. RunUsesBoundConfig'
      BY <2>1, <2>3, <2>4 DEF Inv, RunUsesBoundConfig
    <2>6. BatchesPinned'
      BY <2>1, <2>3, SessionKinds DEF Inv, BatchesPinned, Pinned
    <2> QED
      BY <2>1, <2>5, <2>6 DEF Inv, Exists, VerdictHolds, EnabledWasTested
  <1> QED
    BY <1>1, <1>2, <1>3, <1>4

-------------------------------------------------------------------------------
(* The theorems.                                                               *)

\* The row, its copies and the histories keep their kinds, also when edits
\* overlap and their commits mix what two of them meant.
THEOREM TypeCorrect == Spec => []TypeOK
  <1>1. Init => TypeOK
    BY InitInv DEF Inv
  <1>2. TypeOK /\ [Next]_vars => TypeOK'
    <2> SUFFICES ASSUME TypeOK, [Next]_vars PROVE TypeOK'
      OBVIOUS
    <2>1. CASE UNCHANGED vars
      BY <2>1 DEF vars, requests, batches, TypeOK
    <2> QED
      BY <2>1, EditTypes, OtherTypes DEF Next
  <1> QED
    BY <1>1, <1>2, PTL DEF Spec

LEMMA AlwaysInv == Spec => []Inv
  <1>1. Inv /\ TypeOK' /\ [Next]_vars => Inv'
    <2> SUFFICES ASSUME Inv, TypeOK', [Next]_vars PROVE Inv'
      OBVIOUS
    <2>1. CASE UNCHANGED vars
      BY <2>1 DEF vars, requests, batches, Inv, Exists, BatchesPinned, Pinned,
                  RunUsesBoundConfig, VerdictHolds, EnabledWasTested
    <2> QED
      BY <2>1, EditStepInv, TestStepInv, BatchStepInv DEF Next
  <1>2. Init => Inv
    BY InitInv
  <1>3. Spec => []TypeOK
    BY TypeCorrect
  <1> QED
    BY <1>1, <1>2, <1>3, PTL DEF Spec

\* Any number of batches run against the target their upload read, whatever
\* editors do in between, also at the same time (config_version, compared at the
\* validation); all but those that were open when an edit overwrote the version
\* of another.
THEOREM RunUsesBoundConfigAlways == Spec => []RunUsesBoundConfig
  <1>1. Inv => RunUsesBoundConfig
    BY DEF Inv
  <1> QED
    BY <1>1, AlwaysInv, PTL

\* Beside any number of tests that last arbitrarily long, and of edits that
\* overlap, what is enabled has passed its last test as it is, unless that test
\* or the edit was overtaken by a change of what it decides on.
THEOREM EnabledWasTestedAlways == Spec => []EnabledWasTested
  <1>1. Inv => EnabledWasTested
    BY DEF Inv
  <1> QED
    BY <1>1, AlwaysInv, PTL

-------------------------------------------------------------------------------
(* The credentials.                                                            *)

\* An edit or a clearing leaves them decryptable, unless it found none.
LEMMA ResealDecrypts ==
    ASSUME TypeOK, NEW e \in Editors, pc[e] = "read", EditOver(e), Decryptable,
           NEW n \in SourceRow, Reseals(copy[e], n), source' = Written(copy[e], n)
    PROVE  Decryptable' \/ ClearsUnseen(e)
  <1> DEFINE c == copy[e]
  <1>1. /\ source \in SourceRow /\ c \in SourceRow /\ e \in Sessions
        /\ pc \in [Sessions -> {"idle", "read", "created", "over"}]
    BY SessionKinds DEF TypeOK
  <1>2. /\ source'.credentials = IF n.credentials # c.credentials
                                   THEN n.credentials ELSE source.credentials
        /\ source'.credential_version =
              IF n.credential_version # c.credential_version
                THEN n.credential_version ELSE source.credential_version
    BY <1>1, WrittenRow
  <1>3. CASE n.credentials = c.credentials /\ n.credential_version = c.credential_version
    BY <1>2, <1>3 DEF Decryptable, Decrypts
  <1>4. CASE n.credential_version = c.credential_version + 1
    <2>1. source'.credential_version = c.credential_version + 1
      BY <1>1, <1>2, <1>4, RowFields
    <2>2. CASE n.credentials # c.credentials /\ (n.credentials.secret # Unset => Decrypts(n))
      BY <1>2, <1>4, <2>1, <2>2 DEF Decryptable, Decrypts
    <2>3. CASE n.credentials = c.credentials /\ c.credentials.secret = Unset
      <3>1. pc'[e] = "idle"
        BY <1>1 DEF EditOver, Leave, Goto
      <3>2. source'.credentials = source.credentials
        BY <1>2, <2>3
      <3> QED
        BY <2>1, <2>3, <3>1, <3>2 DEF Decryptable, ClearsUnseen
    <2> QED
      BY <1>1, <1>4, <2>2, <2>3, RowFields DEF Reseals
  <1> QED
    BY <1>3, <1>4 DEF Reseals

\* Stored credentials stay encrypted for the version stored beside them,
\* whichever edits overlap, but for a clearing that found none (upsert_source,
\* clear_credentials).
THEOREM CredentialsDecryptAlways == Spec => CredentialsDecrypt
  <1> DEFINE Kept == Decryptable => Decryptable' \/ \E e \in Editors : ClearsUnseen(e)
  <1>1. TypeOK /\ [Next]_vars => Kept
    <2> SUFFICES ASSUME TypeOK, Decryptable, [Next]_vars
                 PROVE  Decryptable' \/ \E e \in Editors : ClearsUnseen(e)
      OBVIOUS
    <2>0. source \in SourceRow /\ \A a \in Sessions : copy[a] \in SourceRow
      BY DEF TypeOK
    <2>1. CASE UNCHANGED source
      BY <2>1 DEF Decryptable, Decrypts
    <2>2. ASSUME NEW e \in Editors, CommitEdit(e) PROVE Decryptable' \/ ClearsUnseen(e)
      <3>1. PICK ask \in Edits : /\ Acceptable(copy[e], ask)
                                 /\ source' = Written(copy[e], Edited(copy[e], ask))
        BY <2>2 DEF CommitEdit
      <3>2. Edited(copy[e], ask) \in SourceRow /\ Reseals(copy[e], Edited(copy[e], ask))
        BY <2>0, <3>1, EditAmends, SessionKinds DEF Amends
      <3> QED
        BY <2>2, <3>1, <3>2, ResealDecrypts DEF CommitEdit
    <2>3. ASSUME NEW e \in Editors, CommitClear(e) PROVE Decryptable' \/ ClearsUnseen(e)
      <3>1. Cleared(copy[e]) \in SourceRow /\ Reseals(copy[e], Cleared(copy[e]))
        BY <2>0, ClearAmends, SessionKinds DEF Amends
      <3> QED
        BY <2>3, <3>1, ResealDecrypts DEF CommitClear
    <2>4. ASSUME NEW e \in Editors, CommitCreate(e) \/ CommitDelete(e) PROVE Decryptable'
      BY <2>4, DraftRow DEF CommitCreate, CommitDelete, Decryptable
    <2>5. ASSUME NEW t \in Testers, FinishTest(t) PROVE Decryptable'
      <3>1. PICK status \in {"passed", "failed"} :
                source' = Written(copy[t], [copy[t] EXCEPT !.last_test_status = status])
        BY <2>5 DEF FinishTest
      <3>2. Same(source', source)
        BY <2>0, <3>1, VerdictRow, SessionKinds
      <3> QED
        BY <3>2 DEF Same, Decryptable, Decrypts
    <2>6. ASSUME NEW a, BeginEdit(a) \/ FailEdit(a) \/ BeginTest(a) \/ FailTest(a)
                        \/ BeginUpload(a) \/ CommitUpload(a) \/ FailUpload(a) \/ Validate(a)
                 PROVE  UNCHANGED source
      BY <2>6 DEF BeginEdit, FailEdit, BeginTest, FailTest, BeginUpload, CommitUpload,
                  FailUpload, Validate
    <2>7. CASE UNCHANGED vars
      BY <2>1, <2>7 DEF vars
    <2> QED
      BY <2>1, <2>2, <2>3, <2>4, <2>5, <2>6, <2>7 DEF Next
  <1>2. Spec => []TypeOK
    BY TypeCorrect
  <1>3. Spec => [][Kept]_vars
    BY <1>1, <1>2, PTL DEF Spec
  <1>4. Spec => Decryptable
    BY InitInv DEF Spec
  <1> QED
    BY <1>3, <1>4 DEF CredentialsDecrypt, Kept
===============================================================================
