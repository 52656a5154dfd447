----------------------------- MODULE PaymentImport -----------------------------
(* A payment file on its way to the results of a batch: its template is        *)
(* detected at the upload, its rows are read, filtered by the window and       *)
(* grouped by the worker, the groups are decided or compared, and the results  *)
(* are spread over the sheets of the export.                                   *)
EXTENDS TemplateDetection

CONSTANTS
    Files,       \* the files that may be uploaded
    Texts,       \* what a cell may say, Blank among it
    Requests,    \* what a user may say of it: the line of its headers (0: none named),
                 \* the type of business, and the column that has the time
    AmountOf,    \* the amount each text of an amount column stands for
    TimeOf,      \* the instant each text of a time column stands for
    Window       \* the instants of the confirmed window

\* A file has sheets, a sheet has lines and a line has cells, one after another.
IsSequence(s) == s \in Seq(ToSet(s))
FilesOK ==
    \A f \in Files :
        /\ IsSequence(f.sheets)
        /\ \A i \in DOMAIN f.sheets :
              LET lines == f.sheets[i].lines IN
              /\ IsSequence(lines)
              /\ \A n \in DOMAIN lines :
                    /\ IsSequence(lines[n])
                    /\ \A k \in DOMAIN lines[n] : Text(lines[n][k]) \in Texts

ASSUME ImportAssumption == TemplatesOK /\ FilesOK /\ Blank \in Texts

VARIABLES
    file,        \* the uploaded file
    request,     \* what its user said of it
    step,        \* how far it got
    detection,   \* the pairing stored with the batch, if there is one
    line_number, \* the line to read
    counts,      \* source rows, and those outside the window
    rows,        \* the rows parsed so far
    groups,      \* the groups, in the order of their first rows
    results      \* the result of each group decided

vars == <<file, request, step, detection, line_number, counts, rows, groups, results>>

Steps == {"uploading", "refused", "unconfirmed", "queued", "failed",
          "reading", "grouping", "comparing", "done"}

Statuses == {"invalid_payment_row", "duplicate_payment_conflict"}
RemoteStatuses == {"matched", "matched_after_recheck", "amount_mismatch",
                   "remote_status_not_success", "order_reference_conflict",
                   "confirmed_missing", "recheck_inconclusive"}

Row == [number : Nat, merchant : Texts, platform : Texts, amount : Texts,
        status : Texts, time : Texts]

TypeOK ==
    /\ request \in Requests
    /\ step \in Steps
    /\ Cardinality(detection) <= 1
    /\ line_number \in Nat
    /\ counts \in [source : Nat, excluded : Nat]
    /\ \A i \in DOMAIN rows : rows[i] \in Row
    /\ \A i \in DOMAIN groups : groups[i] # {} /\ groups[i] \subseteq ToSet(rows)
    /\ Len(results) <= Len(groups)
    /\ \A i \in DOMAIN results : results[i] \in Statuses \cup RemoteStatuses

Init ==
    /\ file \in Files /\ request \in Requests
    /\ step = "uploading"
    /\ detection = {}
    /\ line_number = 0
    /\ counts = [source |-> 0, excluded |-> 0]
    /\ rows = <<>> /\ groups = <<>> /\ results = <<>>

-------------------------------------------------------------------------------
(* Upload and confirmation.                                                    *)

\* No header in that line, or a template of the other type of business.
Refused(found) ==
    \/ Candidates(file, request.header_row) = <<>>
    \/ \E pair \in found : pair.template.business # request.business

\* Only the first part of a CSV file is looked at.  When that ends within a
\* character it may be taken for other characters, so that no template knows its
\* headers.
Upload ==
    /\ step = "uploading"
    /\ detection' \in {Detected(file, request.header_row)}
                      \cup (IF file.cut THEN {{}} ELSE {})
    /\ step' = IF Refused(detection') THEN "refused" ELSE "unconfirmed"
    /\ UNCHANGED <<file, request, line_number, counts, rows, groups, results>>

\* confirm_batch, as far as it looks at the file: without a template, or for
\* another business than payin, the batch is never queued.
Confirm ==
    /\ step = "unconfirmed"
    /\ request.business = "payin" /\ detection # {}
    /\ step' = "queued"
    /\ UNCHANGED <<file, request, detection, line_number, counts, rows, groups, results>>

Found == CHOOSE pair \in detection : TRUE
Template == Found.template
SheetName == Found.sheet.name
HeaderRow == Found.sheet.header_row

-------------------------------------------------------------------------------
(* import_payment_orders.                                                      *)

\* A time column that the template does not offer, or an empty window.
Unreadable == request.time_field \notin Template.mapping.times \/ Window = {}

FailImport ==
    /\ step = "queued" /\ Unreadable
    /\ step' = "failed"
    /\ UNCHANGED <<file, request, detection, line_number, counts, rows, groups, results>>

BeginImport ==
    /\ step = "queued" /\ ~Unreadable
    /\ step' = "reading"
    /\ line_number' = HeaderRow + 1
    /\ UNCHANGED <<file, request, detection, counts, rows, groups, results>>

\* The first sheet of that name; a CSV file has but one.
Lines ==
    LET named == {i \in DOMAIN file.sheets : file.sheets[i].name = SheetName}
    IN file.sheets[CHOOSE i \in named : \A j \in named : i <= j].lines

\* dict(zip(headers, values)): of columns with one header, the last counts.
Cell(line, header) ==
    LET headers == Lines[HeaderRow]
        named == {i \in DOMAIN headers \cap DOMAIN line : Text(headers[i]) = header}
    IN IF named = {} THEN Blank
       ELSE Text(line[CHOOSE i \in named : \A j \in named : j <= i])

Parsed(n) ==
    LET line == Lines[n]
        of == Template.mapping
    IN [number |-> n, merchant |-> Cell(line, of.merchant),
        platform |-> Cell(line, of.platform), amount |-> Cell(line, of.amount),
        status |-> Cell(line, of.status), time |-> Cell(line, request.time_field)]

HasTime(row) == row.time \in DOMAIN TimeOf
HasAmount(row) == row.amount \in DOMAIN AmountOf

\* A row whose time cannot be read is kept.
Outside(row) == HasTime(row) /\ TimeOf[row.time] \notin Window

Invalid(row) ==
    row.merchant = Blank \/ ~HasAmount(row) \/ row.status = Blank \/ ~HasTime(row)

SkipLine ==
    /\ step = "reading" /\ line_number \in DOMAIN Lines
    /\ Headers(Lines[line_number]) = {}
    /\ line_number' = line_number + 1
    /\ UNCHANGED <<file, request, step, detection, counts, rows, groups, results>>

ExcludeLine ==
    /\ step = "reading" /\ line_number \in DOMAIN Lines
    /\ Headers(Lines[line_number]) # {}
    /\ Outside(Parsed(line_number))
    /\ counts' = [source |-> counts.source + 1, excluded |-> counts.excluded + 1]
    /\ line_number' = line_number + 1
    /\ UNCHANGED <<file, request, step, detection, rows, groups, results>>

IncludeLine ==
    /\ step = "reading" /\ line_number \in DOMAIN Lines
    /\ Headers(Lines[line_number]) # {}
    /\ ~Outside(Parsed(line_number))
    /\ counts' = [counts EXCEPT !.source = @ + 1]
    /\ rows' = Append(rows, Parsed(line_number))
    /\ line_number' = line_number + 1
    /\ UNCHANGED <<file, request, step, detection, groups, results>>

EndOfFile ==
    /\ step = "reading" /\ line_number \notin DOMAIN Lines
    /\ step' = "grouping"
    /\ UNCHANGED <<file, request, detection, line_number, counts, rows, groups, results>>

-------------------------------------------------------------------------------
(* Groups: the rows of one merchant order number, or one row without any.      *)

SameOrder(gathered, row, i) ==
    /\ row.merchant # Blank
    /\ \E member \in gathered[i] : member.merchant = row.merchant

\* Mutation: a row takes the place of the one before.
GatheredLast(gathered, row) ==
    IF \E i \in DOMAIN gathered : SameOrder(gathered, row, i)
      THEN [i \in DOMAIN gathered |->
              IF SameOrder(gathered, row, i) THEN {row} ELSE gathered[i]]
      ELSE Append(gathered, {row})

\* Mutation: the row that makes a group is not among its rows.
GatheredEmpty(gathered, row) ==
    IF \E i \in DOMAIN gathered : SameOrder(gathered, row, i)
      THEN [i \in DOMAIN gathered |->
              IF SameOrder(gathered, row, i) THEN gathered[i] \cup {row} ELSE gathered[i]]
      ELSE Append(gathered, {})

\* setdefault(key, []).append(row)
Gathered(gathered, row) ==
    IF \E i \in DOMAIN gathered : SameOrder(gathered, row, i)
      THEN [i \in DOMAIN gathered |->
              IF SameOrder(gathered, row, i) THEN gathered[i] \cup {row} ELSE gathered[i]]
      ELSE Append(gathered, {row})

\* Rows are alike if their texts are, the amount's as well: 100 is not 100.0.
\* Of the time the instant counts.
Fingerprint(row) ==
    <<row.merchant, row.platform, IF HasAmount(row) THEN row.amount ELSE Blank,
      row.status, IF HasTime(row) THEN {TimeOf[row.time]} ELSE {}>>

\* Mutation: the platform's number is left out of the fingerprint.
PreliminaryByMerchant(group) ==
    IF \E row \in group : Invalid(row) THEN "invalid_payment_row"
    ELSE IF Cardinality({[Fingerprint(row) EXCEPT ![2] = Blank] : row \in group}) > 1
      THEN "duplicate_payment_conflict" ELSE "none"

Preliminary(group) ==
    IF \E row \in group : Invalid(row) THEN "invalid_payment_row"
    ELSE IF Cardinality({Fingerprint(row) : row \in group}) > 1
      THEN "duplicate_payment_conflict" ELSE "none"

Group ==
    /\ step = "grouping"
    /\ groups' = FoldLeft(Gathered, <<>>, rows)
    /\ step' = "comparing"
    /\ UNCHANGED <<file, request, detection, line_number, counts, rows, results>>

-------------------------------------------------------------------------------
(* Results and their sheets.                                                   *)

\* What compare_with_remote_orders and the lookups may answer: a group the import
\* has decided never reaches the remote orders (RemoteSearch models the others).
Answers(group) ==
    IF Preliminary(group) # "none" THEN {Preliminary(group)} ELSE RemoteStatuses

DecideNext ==
    /\ step = "comparing" /\ Len(results) < Len(groups)
    /\ \E status \in Answers(groups[Len(results) + 1]) :
          results' = Append(results, status)
    /\ UNCHANGED <<file, request, step, detection, line_number, counts, rows, groups>>

Finish ==
    /\ step = "comparing" /\ Len(results) = Len(groups)
    /\ step' = "done"
    /\ UNCHANGED <<file, request, detection, line_number, counts, rows, groups, results>>

ProblemSheets == {"missing", "remote status", "to recheck", "conflicts"}

\* Mutation: rows that cannot be read are left to the sheet with everything.
ListsDuplicates(title) ==
    CASE title = "missing" -> {"confirmed_missing"}
      [] title = "remote status" -> {"remote_status_not_success"}
      [] title = "to recheck" -> {"recheck_inconclusive", "candidate_missing"}
      [] title = "conflicts" -> {"duplicate_payment_conflict", "order_reference_conflict"}

Lists(title) ==
    CASE title = "missing" -> {"confirmed_missing"}
      [] title = "remote status" -> {"remote_status_not_success"}
      [] title = "to recheck" -> {"recheck_inconclusive", "candidate_missing"}
      [] title = "conflicts" -> {"duplicate_payment_conflict",
                                 "order_reference_conflict", "invalid_payment_row"}

\* export_excel: the results on a sheet.  One more sheet has them all.
Exported(title) == {i \in DOMAIN results : results[i] \in Lists(title)}

Next ==
    \/ Upload \/ Confirm
    \/ FailImport \/ BeginImport
    \/ SkipLine \/ ExcludeLine \/ IncludeLine \/ EndOfFile
    \/ Group
    \/ DecideNext \/ Finish

Spec == Init /\ [][Next]_vars

-------------------------------------------------------------------------------
(* Properties.                                                                 *)

\* The template a batch is bound to is complete in the sheet and the line it was
\* found in, and no larger one is complete anywhere in the file; a whole file is
\* without one only if none is: whatever the order of sheets and templates.
DetectionIsRight ==
    step # "uploading" /\ (detection # {} \/ ~file.cut)
        => RightlyDetected(file, request.header_row, detection)

\* Every line with any text below the headers is either outside the window or in
\* exactly one group.
RowsAccounted ==
    step \in {"comparing", "done"} =>
        LET filled == {n \in DOMAIN Lines : n > HeaderRow /\ Headers(Lines[n]) # {}}
            numbers(i) == {row.number : row \in groups[i]}
        IN /\ counts.source = Cardinality(filled)
           /\ UNION {numbers(i) : i \in DOMAIN groups}
                = {n \in filled : ~Outside(Parsed(n))}
           /\ counts.excluded = Cardinality({n \in filled : Outside(Parsed(n))})
           /\ \A i, j \in DOMAIN groups : i # j => numbers(i) \cap numbers(j) = {}

\* "Conflicting duplicates and invalid rows must not be classified as missing": a
\* group that was compared with the remote orders, and may be called missing,
\* is one order.  All lines of the window that bear its number say the same, and
\* nothing of it is unreadable, so that it does not matter which row spoke for it.
ComparedIsOneOrder ==
    \A i \in DOMAIN results :
        results[i] \in RemoteStatuses =>
            \A row \in groups[i] :
                /\ ~Invalid(row)
                /\ \A n \in DOMAIN Lines :
                      LET other == Parsed(n) IN
                      n > HeaderRow /\ other.merchant = row.merchant /\ ~Outside(other)
                        => Fingerprint(other) = Fingerprint(row)

\* Every result that calls for attention is on exactly one of the sheets of the
\* export that list problems, but for an amount that differs, which is on none.
ProblemsOnOneSheet ==
    step = "done" =>
        \A i \in DOMAIN results :
            Cardinality({title \in ProblemSheets : i \in Exported(title)}) =
                IF results[i] \in {"matched", "matched_after_recheck", "amount_mismatch"}
                  THEN 0 ELSE 1
===============================================================================
