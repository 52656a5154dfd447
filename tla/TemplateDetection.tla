--------------------------- MODULE TemplateDetection ---------------------------
(* Which published template fits an uploaded file: detect_payment_template.    *)
(* A file is a sequence of sheets, a sheet a name and a sequence of lines, a   *)
(* line a sequence of cells.  A template names the headers that must all be    *)
(* there and, by a pattern, the sheets it is for.  Pure operators.             *)
EXTENDS Naturals, SequencesExt

CONSTANTS
    Templates,  \* every template version, by platform, the latest version first:
                \* published or not, the detection does not ask
    Blank,      \* a cell without text
    TextOf      \* what those cells say that do not simply say what they are:
                \* spaces around a text, decimals of a whole number

\* A template has the headers of its signature and the names of the sheets that
\* its pattern matches; CSV files have one sheet, by that name.
TemplatesOK ==
    /\ Templates \in Seq(ToSet(Templates))
    /\ \A i \in DOMAIN Templates :
          /\ IsFiniteSet(Templates[i].signature) /\ Templates[i].signature # {}
          /\ Blank \notin Templates[i].signature

Text(cell) == IF cell \in DOMAIN TextOf THEN TextOf[cell] ELSE cell

Headers(line) == {Text(line[i]) : i \in DOMAIN line} \ {Blank}

\* The line that is looked at in a sheet: the one named, or without (0) the first
\* of the first twenty that has a header.
HeaderLines(lines, header_row) ==
    LET filled == {n \in DOMAIN lines : Headers(lines[n]) # {}}
    IN IF header_row # 0 THEN filled \cap {header_row}
       ELSE {n \in filled \cap 1..20 : \A m \in filled : n <= m}

\* A sheet is a candidate if it has a header there.
Candidate(sheet, header_row) ==
    {[name |-> sheet.name, header_row |-> n, headers |-> Headers(sheet.lines[n])] :
        n \in HeaderLines(sheet.lines, header_row)}
Candidates(file, header_row) ==
    FoldLeft(LAMBDA found, sheet : found \o SetToSeq(Candidate(sheet, header_row)),
             <<>>, file.sheets)

\* Every candidate with every template, in the order of the two loops.
Pairings(candidates) ==
    LET n == Len(Templates)
    IN [k \in 1..(Len(candidates) * n) |->
          [sheet |-> candidates[((k - 1) \div n) + 1],
           template |-> Templates[((k - 1) % n) + 1]]]

Fits(pair) == pair.sheet.name \in pair.template.sheets
Covered(pair) == Cardinality(pair.template.signature \cap pair.sheet.headers)
Size(pair) == Cardinality(pair.template.signature)
Complete(pair) == Covered(pair) = Size(pair)

\* Mutation: more headers found is better, whatever share of the template it is.
MoreFound(pair, best) == Covered(pair) > Covered(best)

\* The larger share of the signature found, then the larger signature.
Better(pair, best) ==
    LET a == Covered(pair) * Size(best)
        b == Covered(best) * Size(pair)
    IN a > b \/ (a = b /\ Size(pair) > Size(best))

\* The best so far: none, or one pairing.
Kept(best, pair) ==
    IF Fits(pair) /\ (best = {} \/ \E old \in best : Better(pair, old))
      THEN {pair} ELSE best

Best(file, header_row) ==
    FoldLeft(Kept, {}, Pairings(Candidates(file, header_row)))

\* What is stored with the batch: the pairing if it is complete.
Detected(file, header_row) ==
    {pair \in Best(file, header_row) : Complete(pair)}

\* Reference: of the complete pairings, one of a largest template.
RightlyDetected(file, header_row, detected) ==
    LET complete == {pair \in ToSet(Pairings(Candidates(file, header_row))) :
                        Fits(pair) /\ pair.template.signature \subseteq pair.sheet.headers}
    IN /\ detected \subseteq complete
       /\ detected = {} <=> complete = {}
       /\ \A pair \in detected, other \in complete : Size(other) <= Size(pair)
===============================================================================
