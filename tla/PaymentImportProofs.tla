--------------------------- MODULE PaymentImportProofs ---------------------------
(* Theorems about PaymentImport, for any files, templates, requests, amounts,  *)
(* times and windows.                                                          *)
EXTENDS PaymentImport, FiniteSetTheorems, SequenceTheorems, TLAPS

\* What the folds do with one element.
NextFound(header_row, found, sheet) == found \o SetToSeq(Candidate(sheet, header_row))
NextKept(context, best, pair) == Kept(best, pair)
NextGathered(context, gathered, row) == Gathered(gathered, row)

Finding == INSTANCE Folding WITH Op <- NextFound
Choosing == INSTANCE Folding WITH Op <- NextKept
Gathering == INSTANCE Folding WITH Op <- NextGathered

-------------------------------------------------------------------------------
(* The inductive invariant.                                                    *)

Unread == {"uploading", "refused", "unconfirmed", "queued", "failed"}
Ungrouped == Unread \cup {"reading", "grouping"}

\* What was detected came from this file, and is there once the batch is queued.
Picked ==
    /\ file \in Files /\ request \in Requests /\ step \in Steps
    /\ detection \in SUBSET Detected(file, request.header_row)
    /\ step # "uploading" /\ (detection # {} \/ ~file.cut)
          => detection = Detected(file, request.header_row)
    /\ step \notin {"uploading", "refused", "unconfirmed"} => detection # {}

\* Nothing is there before it is made.
Fresh ==
    /\ step \in Unread =>
          /\ line_number = 0 /\ rows = <<>>
          /\ counts = [source |-> 0, excluded |-> 0]
    /\ step \in Ungrouped => groups = <<>> /\ results = <<>>

\* The lines with any text from the headers down to a line, and which of them
\* are in the window.
Filled(bound) == {n \in DOMAIN Lines : /\ n > HeaderRow /\ n < bound
                                       /\ Headers(Lines[n]) # {}}
OutsideOf(S) == {n \in S : Outside(Parsed(n))}
InsideOf(S) == {n \in S : ~Outside(Parsed(n))}

\* How many lines S has, and the rows of those in the window.
CountsOf(S) == [source |-> Cardinality(S), excluded |-> Cardinality(OutsideOf(S))]
RowsOf(parsed, S) ==
    /\ parsed \in Seq(Row)
    /\ \A i \in DOMAIN parsed : parsed[i].number \in InsideOf(S) /\ parsed[i] = Parsed(parsed[i].number)
    /\ \A n \in InsideOf(S) : \E i \in DOMAIN parsed : parsed[i].number = n
    /\ \A i, j \in DOMAIN parsed : parsed[i].number = parsed[j].number => i = j

\* The lines above the one to read are counted, and those of the window are rows.
LinesRead ==
    step \notin Unread =>
        /\ line_number \in Nat /\ line_number > HeaderRow
        /\ step # "reading" => line_number \notin DOMAIN Lines
        /\ counts = CountsOf(Filled(line_number))
        /\ RowsOf(rows, Filled(line_number))

\* gathered has the rows of S, each in one group, with all that share its number.
GroupsOf(gathered, S) ==
    /\ gathered \in Seq((SUBSET S) \ {{}})
    /\ \A row \in S : \E i \in DOMAIN gathered : row \in gathered[i]
    /\ \A i, j \in DOMAIN gathered : \A row \in gathered[i], other \in gathered[j] :
          row = other \/ (row.merchant # Blank /\ row.merchant = other.merchant) => i = j

\* Every row is in one group, with all that share its number, and a result is one
\* that its group may get.
Decided ==
    step \notin Ungrouped =>
        /\ GroupsOf(groups, ToSet(rows))
        /\ results \in Seq(Statuses \cup RemoteStatuses)
        /\ Len(results) <= Len(groups)
        /\ \A i \in DOMAIN results : results[i] \in Answers(groups[i])

Inv == Picked /\ Fresh /\ LinesRead /\ Decided

-------------------------------------------------------------------------------
(* Which template fits.                                                        *)

\* The headers of a line.
LEMMA HeaderLinesAre ==
    ASSUME NEW lines, IsSequence(lines), NEW header_row
    PROVE  /\ HeaderLines(lines, header_row) \subseteq DOMAIN lines
           /\ \A n, m \in HeaderLines(lines, header_row) : n = m
  <1> DEFINE filled == {n \in DOMAIN lines : Headers(lines[n]) # {}}
  <1>1. DOMAIN lines = 1..Len(lines) /\ Len(lines) \in Nat
    BY DEF IsSequence
  <1>2. filled \subseteq DOMAIN lines
    OBVIOUS
  <1> HIDE DEF filled
  <1>3. CASE header_row # 0
    <2>1. HeaderLines(lines, header_row) = filled \cap {header_row}
      BY <1>3 DEF HeaderLines, filled
    <2> QED
      BY <1>2, <2>1
  <1>4. CASE header_row = 0
    <2>1. HeaderLines(lines, header_row) = {n \in filled \cap 1..20 : \A m \in filled : n <= m}
      BY <1>4 DEF HeaderLines, filled
    <2> QED
      BY <1>2, <2>1
  <1> QED
    BY <1>3, <1>4

\* A sheet is a candidate at most once.
LEMMA CandidateIs ==
    ASSUME NEW sheet, IsSequence(sheet.lines), NEW header_row
    PROVE  SetToSeq(Candidate(sheet, header_row)) \in Seq(Candidate(sheet, header_row))
  <1> DEFINE S == Candidate(sheet, header_row)
             c(n) == [name |-> sheet.name, header_row |-> n, headers |-> Headers(sheet.lines[n])]
  <1>1. S = {} \/ \E x : S = {x}
    <2>1. S = {c(n) : n \in HeaderLines(sheet.lines, header_row)}
      BY DEF Candidate
    <2>2. \A n, m \in HeaderLines(sheet.lines, header_row) : n = m
      BY HeaderLinesAre
    <2> HIDE DEF S, c
    <2>3. CASE HeaderLines(sheet.lines, header_row) = {}
      BY <2>1, <2>3
    <2>4. CASE HeaderLines(sheet.lines, header_row) # {}
      <3>1. PICK n : n \in HeaderLines(sheet.lines, header_row)
        BY <2>4
      <3>2. S = {c(n)}
        BY <2>1, <2>2, <3>1
      <3> QED
        BY <3>2
    <2> QED
      BY <2>3, <2>4
  <1> HIDE DEF S
  <1>2. \E f \in [1..Cardinality(S) -> S] : IsInjective(f)
    <2>1. CASE S = {}
      <3>1. Cardinality(S) = 0 /\ 1..0 = {}
        BY <2>1, FS_EmptySet
      <3>2. <<>> \in [1..Cardinality(S) -> S] /\ IsInjective(<<>>)
        BY <2>1, <3>1 DEF IsInjective
      <3> QED
        BY <3>2
    <2>2. CASE \E x : S = {x}
      <3>1. PICK x : S = {x}
        BY <2>2
      <3>2. Cardinality(S) = 1 /\ 1..1 = {1}
        <4>1. Cardinality(S) = 1
          BY <3>1, FS_Singleton
        <4>2. 1..1 = {1}
          OBVIOUS
        <4> QED
          BY <4>1, <4>2
      <3> DEFINE f == [i \in {1} |-> x]
      <3>3. f \in [1..Cardinality(S) -> S] /\ IsInjective(f)
        BY <3>1, <3>2 DEF IsInjective
      <3> QED
        BY <3>3
    <2> QED
      BY <1>1, <2>1, <2>2
  <1>3. SetToSeq(S) \in [1..Cardinality(S) -> S]
    BY <1>2 DEF SetToSeq
  <1>4. Cardinality(S) \in Nat
    <2>1. S = {} => Cardinality(S) = 0
      BY FS_EmptySet
    <2>2. \A x : S = {x} => Cardinality(S) = 1
      BY FS_Singleton
    <2> QED
      BY <1>1, <2>1, <2>2
  <1>5. SetToSeq(S) \in Seq(S)
    BY <1>3, <1>4
  <1> QED
    BY <1>5 DEF S

\* The candidates are found sheet by sheet.
LEMMA CandidatesSteps ==
    ASSUME NEW f, NEW header_row, f.sheets \in Seq(ToSet(f.sheets))
    PROVE  \E g : /\ g[0] = <<>>
                  /\ \A k \in 0..(Len(f.sheets) - 1) :
                        g[k + 1] = NextFound(header_row, g[k], f.sheets[k + 1])
                  /\ Candidates(f, header_row) = g[Len(f.sheets)]
  <1>1. Candidates(f, header_row) = Finding!Folded(header_row, <<>>, f.sheets)
    BY DEF Candidates, NextFound, Finding!Folded, FoldLeft, MapThenFoldSet,
           Finding!FoldLeft, Finding!MapThenFoldSet, Max, Finding!Max
  <1>2. Len(f.sheets) \in Nat /\ DOMAIN f.sheets = 1..Len(f.sheets)
    OBVIOUS
  <1> QED
    BY <1>1, <1>2, Finding!FoldSteps

\* The candidates that the sheets of a file may make.
AllCandidates(f, header_row) ==
    UNION {Candidate(f.sheets[i], header_row) : i \in DOMAIN f.sheets}

LEMMA CandidatesAre ==
    ASSUME NEW f \in Files, NEW header_row
    PROVE  Candidates(f, header_row) \in Seq(AllCandidates(f, header_row))
  <1> DEFINE s == f.sheets
             A == AllCandidates(f, header_row)
  <1>1. /\ s \in Seq(ToSet(s))
        /\ \A i \in DOMAIN s : IsSequence(s[i].lines)
    BY ImportAssumption DEF FilesOK, IsSequence
  <1>2. Len(s) \in Nat /\ DOMAIN s = 1..Len(s)
    BY <1>1
  <1>3. PICK g : /\ g[0] = <<>>
                 /\ \A k \in 0..(Len(s) - 1) : g[k + 1] = NextFound(header_row, g[k], s[k + 1])
                 /\ Candidates(f, header_row) = g[Len(s)]
    BY <1>1, CandidatesSteps
  <1> DEFINE Ks == {k \in Nat : k <= Len(s) => g[k] \in Seq(A)}
  <1>4. 0 \in Ks
    <2>1. <<>> \in Seq(A)
      OBVIOUS
    <2> HIDE DEF A, s
    <2> QED
      BY <1>3, <2>1
  <1>5. ASSUME NEW k \in Nat, k \in Ks PROVE k + 1 \in Ks
    <2> SUFFICES ASSUME k + 1 <= Len(s) PROVE g[k + 1] \in Seq(A)
      OBVIOUS
    <2>1. k \in 0..(Len(s) - 1) /\ k + 1 \in DOMAIN s /\ g[k] \in Seq(A)
      BY <1>2, <1>5
    <2> DEFINE t == SetToSeq(Candidate(s[k + 1], header_row))
    <2>2. t \in Seq(Candidate(s[k + 1], header_row))
      <3> HIDE DEF s
      <3> QED
        BY <1>1, <2>1, CandidateIs
    <2>3. Candidate(s[k + 1], header_row) \subseteq A
      BY <2>1 DEF AllCandidates
    <2>4. g[k + 1] = g[k] \o t
      BY <1>3, <2>1 DEF NextFound
    <2> HIDE DEF t, A, s
    <2>5. t \in Seq(A)
      BY <2>2, <2>3
    <2> QED
      BY <2>1, <2>4, <2>5
  <1>6. \A k \in Nat : k \in Ks
    <2> HIDE DEF Ks
    <2> QED
      BY <1>4, <1>5, Finding!SetInduction
  <1> QED
    BY <1>2, <1>3, <1>6

\* A candidate is a sheet of the file with the line of its headers.
LEMMA CandidateOf ==
    ASSUME NEW f \in Files, NEW header_row, NEW c \in AllCandidates(f, header_row)
    PROVE  \E i \in DOMAIN f.sheets :
              /\ c.name = f.sheets[i].name
              /\ c.header_row \in DOMAIN f.sheets[i].lines
              /\ c.headers = Headers(f.sheets[i].lines[c.header_row])
  <1>1. PICK i \in DOMAIN f.sheets : c \in Candidate(f.sheets[i], header_row)
    BY DEF AllCandidates
  <1>2. PICK n \in HeaderLines(f.sheets[i].lines, header_row) :
            c = [name |-> f.sheets[i].name, header_row |-> n,
                 headers |-> Headers(f.sheets[i].lines[n])]
    BY <1>1 DEF Candidate
  <1>3. n \in DOMAIN f.sheets[i].lines
    BY ImportAssumption, HeaderLinesAre DEF FilesOK
  <1> QED
    BY <1>2, <1>3

\* A pairing of a candidate among C with a template.
PairingsOf(C) == [sheet : C, template : ToSet(Templates)]

LEMMA PairingsAre ==
    ASSUME NEW C, NEW candidates \in Seq(C)
    PROVE  Pairings(candidates) \in Seq(PairingsOf(C))
  <1> DEFINE m == Len(candidates)
             n == Len(Templates)
             pair(k) == [sheet |-> candidates[((k - 1) \div n) + 1],
                         template |-> Templates[((k - 1) % n) + 1]]
  <1>1. m \in Nat /\ DOMAIN candidates = 1..m /\ \A k \in 1..m : candidates[k] \in C
    OBVIOUS
  <1>2. n \in Nat /\ DOMAIN Templates = 1..n
    BY ImportAssumption DEF TemplatesOK
  <1>3. \A k \in 1..n : Templates[k] \in ToSet(Templates)
    BY <1>2 DEF ToSet
  <1>4. m * n \in Nat
    BY <1>1, <1>2
  <1>5. ASSUME NEW k \in 1..(m * n) PROVE pair(k) \in PairingsOf(C)
    <2> HIDE DEF m, n
    <2> DEFINE q == (k - 1) \div n
               r == (k - 1) % n
    <2>1. n # 0 /\ k \in Nat /\ k - 1 \in Nat
      BY <1>1, <1>2
    <2>2. q \in Nat /\ r \in 0..(n - 1) /\ k - 1 = n * q + r
      BY <1>2, <2>1
    <2>3. q < m
      <3> SUFFICES ASSUME m <= q PROVE FALSE
        BY <1>1, <2>2
      <3> HIDE DEF q, r
      <3>1. n * m <= n * q
        BY <1>1, <1>2, <2>2
      <3>2. k - 1 < m * n /\ n * m = m * n /\ n * q \in Nat
        BY <1>1, <1>2, <2>1, <2>2
      <3> QED
        BY <2>2, <3>1, <3>2, <1>4
    <2>4. q + 1 \in 1..m /\ r + 1 \in 1..n
      BY <1>1, <1>2, <2>2, <2>3
    <2>5. candidates[q + 1] \in C /\ Templates[r + 1] \in ToSet(Templates)
      BY <1>1, <1>3, <2>4
    <2> QED
      BY <2>5 DEF PairingsOf
  <1>6. Pairings(candidates) = [k \in 1..(m * n) |-> pair(k)]
    BY DEF Pairings
  <1> HIDE DEF pair, m, n
  <1>7. Pairings(candidates) \in [1..(m * n) -> PairingsOf(C)]
    BY <1>5, <1>6
  <1> QED
    BY <1>4, <1>7

\* How much of a template was found.
LEMMA SizesAre ==
    ASSUME NEW C, NEW pair \in PairingsOf(C)
    PROVE  /\ Size(pair) \in Nat /\ Size(pair) > 0
           /\ Covered(pair) \in Nat /\ Covered(pair) <= Size(pair)
           /\ Complete(pair) <=> pair.template.signature \subseteq pair.sheet.headers
  <1> DEFINE S == pair.template.signature
             T == S \cap pair.sheet.headers
  <1>1. IsFiniteSet(S) /\ S # {}
    BY ImportAssumption DEF PairingsOf, TemplatesOK, ToSet
  <1>2. Size(pair) = Cardinality(S) /\ Covered(pair) = Cardinality(T)
    BY DEF Size, Covered
  <1>3. T \in SUBSET S /\ (T = S <=> S \subseteq pair.sheet.headers)
    OBVIOUS
  <1> HIDE DEF S, T
  <1>4. Cardinality(S) \in Nat
    BY <1>1, FS_CardinalityType
  <1>5. Cardinality(S) # 0
    BY <1>1, FS_EmptySet
  <1>6. /\ IsFiniteSet(T) /\ Cardinality(T) <= Cardinality(S)
        /\ Cardinality(S) = Cardinality(T) => S = T
    BY <1>1, <1>3, FS_Subset
  <1>7. Cardinality(T) \in Nat
    BY <1>6, FS_CardinalityType
  <1>8. Complete(pair) <=> T = S
    BY <1>2, <1>6 DEF Complete
  <1> QED
    BY <1>2, <1>3, <1>4, <1>5, <1>6, <1>7, <1>8 DEF S

LEMMA Product ==
    ASSUME NEW a \in Nat, NEW b \in Nat, NEW s \in Nat, s > 0
    PROVE  a * s \in Nat /\ (a * s >= b * s <=> a >= b) /\ (a * s = b * s <=> a = b)
  <1>1. a * s \in Nat /\ b * s \in Nat
    OBVIOUS
  <1>2. a < b => a * s < b * s
    <2>1. b * s = a * s + (b - a) * s
      OBVIOUS
    <2>2. a < b => (b - a) * s > 0
      <3> SUFFICES ASSUME a < b PROVE (b - a) * s > 0
        OBVIOUS
      <3> DEFINE d == b - a
      <3>1. d \in Nat /\ d > 0
        OBVIOUS
      <3> HIDE DEF d
      <3>2. d * s > 0
        BY <3>1
      <3> QED
        BY <3>2 DEF d
    <2> QED
      BY <1>1, <2>1, <2>2
  <1>3. b < a => b * s < a * s
    <2>1. a * s = b * s + (a - b) * s
      OBVIOUS
    <2>2. b < a => (a - b) * s > 0
      <3> SUFFICES ASSUME b < a PROVE (a - b) * s > 0
        OBVIOUS
      <3> DEFINE d == a - b
      <3>1. d \in Nat /\ d > 0
        OBVIOUS
      <3> HIDE DEF d
      <3>2. d * s > 0
        BY <3>1
      <3> QED
        BY <3>2 DEF d
    <2> QED
      BY <1>1, <2>1, <2>2
  <1> QED
    BY <1>1, <1>2, <1>3

\* What is complete gives way only to a larger one that is complete, and keeps
\* its place only before one that is incomplete or no larger.
LEMMA BetterIs ==
    ASSUME NEW C, NEW pair \in PairingsOf(C), NEW old \in PairingsOf(C)
    PROVE  /\ Complete(old) /\ Better(pair, old) => Complete(pair) /\ Size(pair) > Size(old)
           /\ Complete(pair) /\ ~Better(pair, old) => Complete(old) /\ Size(pair) <= Size(old)
  <1> DEFINE c == Covered(pair)
             s == Size(pair)
             d == Covered(old)
             t == Size(old)
  <1>1. /\ c \in Nat /\ s \in Nat /\ d \in Nat /\ t \in Nat
        /\ c <= s /\ d <= t /\ s > 0 /\ t > 0
    BY SizesAre
  <1>2. /\ Complete(pair) <=> c = s
        /\ Complete(old) <=> d = t
        /\ Better(pair, old) <=> c * t > d * s \/ (c * t = d * s /\ s > t)
    BY DEF Complete, Better
  <1> HIDE DEF c, s, d, t
  <1>3. c * t \in Nat /\ s * t \in Nat /\ d * s \in Nat /\ t * s = s * t
    BY <1>1
  <1>4. c * t <= s * t /\ (c * t = s * t <=> c = s)
    BY <1>1, Product
  <1>5. d * s <= t * s /\ (d * s = t * s <=> d = t)
    BY <1>1, Product
  <1>6. d = t /\ (c * t > d * s \/ (c * t = d * s /\ s > t)) => c = s /\ s > t
    BY <1>1, <1>3, <1>4, <1>5
  <1>7. c = s /\ ~(c * t > d * s \/ (c * t = d * s /\ s > t)) => d = t /\ s <= t
    BY <1>1, <1>3, <1>4, <1>5
  <1> QED
    BY <1>2, <1>6, <1>7 DEF s, t

\* The best of a set of pairings: none if none fits, and a complete one of a
\* largest template if any is complete.
BestOf(best, S) ==
    \/ best = {} /\ \A pair \in S : ~Fits(pair)
    \/ \E pair \in S :
          /\ best = {pair} /\ Fits(pair)
          /\ \A other \in S : Fits(other) /\ Complete(other)
                                => Complete(pair) /\ Size(other) <= Size(pair)

LEMMA KeptIsBest ==
    ASSUME NEW C, NEW S \in SUBSET PairingsOf(C), NEW x \in PairingsOf(C),
           NEW best, BestOf(best, S)
    PROVE  BestOf(Kept(best, x), S \cup {x})
  <1>1. \A pair \in S \cup {x} : Size(pair) \in Nat
    BY SizesAre
  <1>2. CASE ~Fits(x)
    <2>1. Kept(best, x) = best
      BY <1>2 DEF Kept
    <2> QED
      BY <1>2, <2>1 DEF BestOf
  <1>3. CASE Fits(x) /\ best = {}
    <2>1. Kept(best, x) = {x}
      BY <1>3 DEF Kept
    <2>2. \A pair \in S : ~Fits(pair)
      BY <1>3 DEF BestOf
    <2>3. Size(x) <= Size(x)
      BY <1>1
    <2> QED
      BY <1>3, <2>1, <2>2, <2>3 DEF BestOf
  <1>4. CASE Fits(x) /\ best # {}
    <2>1. PICK old \in S :
              /\ best = {old} /\ Fits(old)
              /\ \A other \in S : Fits(other) /\ Complete(other)
                                    => Complete(old) /\ Size(other) <= Size(old)
      BY <1>4 DEF BestOf
    <2>2. /\ Complete(old) /\ Better(x, old) => Complete(x) /\ Size(x) > Size(old)
          /\ Complete(x) /\ ~Better(x, old) => Complete(old) /\ Size(x) <= Size(old)
      BY BetterIs
    <2>3. CASE Better(x, old)
      <3>1. Kept(best, x) = {x}
        BY <1>4, <2>1, <2>3 DEF Kept
      <3>2. ASSUME NEW other \in S \cup {x}, Fits(other) /\ Complete(other)
            PROVE  Complete(x) /\ Size(other) <= Size(x)
        BY <1>1, <2>1, <2>2, <2>3, <3>2
      <3> QED
        BY <1>4, <3>1, <3>2 DEF BestOf
    <2>4. CASE ~Better(x, old)
      <3>1. Kept(best, x) = {old}
        BY <2>1, <2>4 DEF Kept
      <3>2. ASSUME NEW other \in S \cup {x}, Fits(other) /\ Complete(other)
            PROVE  Complete(old) /\ Size(other) <= Size(old)
        BY <1>1, <2>1, <2>2, <2>4, <3>2
      <3> QED
        BY <2>1, <3>1, <3>2 DEF BestOf
    <2> QED
      BY <2>3, <2>4
  <1> QED
    BY <1>2, <1>3, <1>4

\* The best is chosen pairing by pairing.
LEMMA BestSteps ==
    ASSUME NEW f, NEW header_row, NEW T, Pairings(Candidates(f, header_row)) \in Seq(T)
    PROVE  LET s == Pairings(Candidates(f, header_row))
           IN \E g : /\ g[0] = {}
                     /\ \A k \in 0..(Len(s) - 1) : g[k + 1] = NextKept(0, g[k], s[k + 1])
                     /\ Best(f, header_row) = g[Len(s)]
  <1> DEFINE s == Pairings(Candidates(f, header_row))
  <1>1. Best(f, header_row) = Choosing!Folded(0, {}, s)
    BY DEF Best, NextKept, Choosing!Folded, FoldLeft, MapThenFoldSet,
           Choosing!FoldLeft, Choosing!MapThenFoldSet, Max, Choosing!Max
  <1> HIDE DEF s
  <1>2. Len(s) \in Nat /\ DOMAIN s = 1..Len(s)
    BY DEF s
  <1>3. \E g : /\ g[0] = {}
               /\ \A k \in 0..(Len(s) - 1) : g[k + 1] = NextKept(0, g[k], s[k + 1])
               /\ Choosing!Folded(0, {}, s) = g[Len(s)]
    BY <1>2, Choosing!FoldSteps
  <1> QED
    BY <1>1, <1>3 DEF s

LEMMA BestIs ==
    ASSUME NEW f \in Files, NEW header_row
    PROVE  BestOf(Best(f, header_row), ToSet(Pairings(Candidates(f, header_row))))
  <1> DEFINE s == Pairings(Candidates(f, header_row))
             A == AllCandidates(f, header_row)
             upto(k) == {s[i] : i \in 1..k}
  <1>1. s \in Seq(PairingsOf(A))
    BY CandidatesAre, PairingsAre
  <1>2. PICK g : /\ g[0] = {}
                 /\ \A k \in 0..(Len(s) - 1) : g[k + 1] = NextKept(0, g[k], s[k + 1])
                 /\ Best(f, header_row) = g[Len(s)]
    BY <1>1, BestSteps
  <1> HIDE DEF s, A
  <1>3. Len(s) \in Nat /\ DOMAIN s = 1..Len(s) /\ \A i \in DOMAIN s : s[i] \in PairingsOf(A)
    BY <1>1
  <1> DEFINE Ks == {k \in Nat : k <= Len(s) => BestOf(g[k], upto(k))}
  <1>4. 0 \in Ks
    BY <1>2 DEF BestOf
  <1>5. ASSUME NEW k \in Nat, k \in Ks PROVE k + 1 \in Ks
    <2> SUFFICES ASSUME k + 1 <= Len(s) PROVE BestOf(g[k + 1], upto(k + 1))
      OBVIOUS
    <2>1. k \in 0..(Len(s) - 1) /\ k + 1 \in DOMAIN s /\ BestOf(g[k], upto(k))
      BY <1>3, <1>5
    <2>2. upto(k) \in SUBSET PairingsOf(A) /\ s[k + 1] \in PairingsOf(A)
      BY <1>3, <2>1
    <2>3. upto(k + 1) = upto(k) \cup {s[k + 1]}
      OBVIOUS
    <2>4. g[k + 1] = Kept(g[k], s[k + 1])
      BY <1>2, <2>1 DEF NextKept
    <2> HIDE DEF upto
    <2> QED
      BY <2>1, <2>2, <2>3, <2>4, KeptIsBest
  <1>6. \A k \in Nat : k \in Ks
    <2> HIDE DEF Ks
    <2> QED
      BY <1>4, <1>5, Choosing!SetInduction
  <1>7. upto(Len(s)) = ToSet(s)
    BY <1>3 DEF ToSet
  <1>8. BestOf(g[Len(s)], upto(Len(s)))
    <2>1. Len(s) \in Ks /\ Len(s) <= Len(s)
      <3> HIDE DEF Ks
      <3> QED
        BY <1>3, <1>6
    <2> HIDE DEF upto
    <2> QED
      BY <2>1
  <1> HIDE DEF upto
  <1> QED
    BY <1>2, <1>7, <1>8 DEF s

\* What the detection finds is right, and at most one pairing.
LEMMA DetectedIs ==
    ASSUME NEW f \in Files, NEW header_row
    PROVE  /\ RightlyDetected(f, header_row, Detected(f, header_row))
           /\ Detected(f, header_row) = {} \/ \E pair : Detected(f, header_row) = {pair}
           /\ \A pair \in Detected(f, header_row) :
                 pair \in PairingsOf(AllCandidates(f, header_row))
  <1> DEFINE S == ToSet(Pairings(Candidates(f, header_row)))
             A == AllCandidates(f, header_row)
             D == Detected(f, header_row)
             B == Best(f, header_row)
             complete == {pair \in S : Fits(pair) /\ Complete(pair)}
  <1>1. BestOf(B, S)
    BY BestIs
  <1>2. S \subseteq PairingsOf(A)
    <2>1. Pairings(Candidates(f, header_row)) \in Seq(PairingsOf(A))
      BY CandidatesAre, PairingsAre
    <2> HIDE DEF A
    <2> QED
      BY <2>1 DEF ToSet
  <1>3. D = {pair \in B : Complete(pair)}
    BY DEF Detected
  <1>4. complete = {pair \in S : Fits(pair) /\ pair.template.signature \subseteq pair.sheet.headers}
    <2> HIDE DEF S, A
    <2> QED
      BY <1>2, SizesAre
  <1>5. RightlyDetected(f, header_row, D) <=>
           /\ D \subseteq complete
           /\ D = {} <=> complete = {}
           /\ \A pair \in D, other \in complete : Size(other) <= Size(pair)
    <2> HIDE DEF D
    <2> QED
      BY <1>4 DEF RightlyDetected
  <1> HIDE DEF S, A, D, B
  <1>6. /\ D \subseteq complete
        /\ D = {} <=> complete = {}
        /\ \A pair \in D, other \in complete : Size(other) <= Size(pair)
        /\ D = {} \/ \E pair : D = {pair}
        /\ D \subseteq S
    <2>1. CASE B = {} /\ \A pair \in S : ~Fits(pair)
      BY <1>3, <2>1
    <2>2. CASE \E pair \in S :
                  /\ B = {pair} /\ Fits(pair)
                  /\ \A other \in S : Fits(other) /\ Complete(other)
                                        => Complete(pair) /\ Size(other) <= Size(pair)
      <3>1. PICK pair \in S :
                  /\ B = {pair} /\ Fits(pair)
                  /\ \A other \in S : Fits(other) /\ Complete(other)
                                        => Complete(pair) /\ Size(other) <= Size(pair)
        BY <2>2
      <3>2. CASE Complete(pair)
        <4>1. D = {pair}
          BY <1>3, <3>1, <3>2
        <4> QED
          BY <3>1, <3>2, <4>1
      <3>3. CASE ~Complete(pair)
        <4>1. D = {} /\ complete = {}
          BY <1>3, <3>1, <3>3
        <4> QED
          BY <4>1
      <3> QED
        BY <3>2, <3>3
    <2> QED
      BY <1>1, <2>1, <2>2 DEF BestOf
  <1> QED
    BY <1>2, <1>5, <1>6 DEF D, A

-------------------------------------------------------------------------------
(* The lines that are read.                                                    *)

LEMMA FoundIs ==
    ASSUME Picked, detection # {}
    PROVE  /\ HeaderRow \in Nat /\ HeaderRow > 0
           /\ \E i \in DOMAIN file.sheets : file.sheets[i].name = SheetName
  <1>1. Found \in detection
    BY DEF Found
  <1>2. Found \in PairingsOf(AllCandidates(file, request.header_row)) /\ file \in Files
    BY <1>1, DetectedIs DEF Picked
  <1>3. Found.sheet \in AllCandidates(file, request.header_row)
    BY <1>2 DEF PairingsOf
  <1>4. PICK i \in DOMAIN file.sheets :
              /\ SheetName = file.sheets[i].name
              /\ HeaderRow \in DOMAIN file.sheets[i].lines
    BY <1>2, <1>3, CandidateOf DEF SheetName, HeaderRow
  <1>5. file.sheets[i].lines \in Seq(ToSet(file.sheets[i].lines))
    BY <1>2, ImportAssumption DEF FilesOK, IsSequence
  <1> QED
    BY <1>4, <1>5

LEMMA LinesAre ==
    ASSUME Picked, detection # {}
    PROVE  /\ Len(Lines) \in Nat /\ DOMAIN Lines = 1..Len(Lines)
           /\ \A n \in DOMAIN Lines :
                 /\ IsSequence(Lines[n])
                 /\ \A k \in DOMAIN Lines[n] : Text(Lines[n][k]) \in Texts
  <1> DEFINE named == {i \in DOMAIN file.sheets : file.sheets[i].name = SheetName}
             first == CHOOSE i \in named : \A j \in named : i <= j
  <1>1. named # {}
    BY FoundIs
  <1>2. file \in Files
    BY DEF Picked
  <1>3. file.sheets \in Seq(ToSet(file.sheets))
    BY <1>2, ImportAssumption DEF FilesOK, IsSequence
  <1>4. named \in SUBSET Nat
    BY <1>3
  <1>5. \E i \in named : \A j \in named : i <= j
    <2> HIDE DEF named
    <2> QED
      BY <1>1, <1>4, Finding!LeastNatural
  <1>6. first \in named
    <2> HIDE DEF named
    <2> QED
      BY <1>5
  <1>7. first \in DOMAIN file.sheets
    <2> HIDE DEF first
    <2> QED
      BY <1>6
  <1>8. Lines = file.sheets[first].lines
    BY DEF Lines
  <1> HIDE DEF first
  <1>9. IsSequence(Lines) /\ \A n \in DOMAIN Lines :
           /\ IsSequence(Lines[n])
           /\ \A k \in DOMAIN Lines[n] : Text(Lines[n][k]) \in Texts
    BY <1>2, <1>7, <1>8, ImportAssumption DEF FilesOK
  <1>10. Lines \in Seq(ToSet(Lines))
    BY <1>9 DEF IsSequence
  <1> QED
    BY <1>9, <1>10

\* A cell says what the file says there, or nothing.
LEMMA CellIs ==
    ASSUME NEW line, IsSequence(line), NEW header
    PROVE  Cell(line, header) = Blank \/ \E k \in DOMAIN line : Cell(line, header) = Text(line[k])
  <1> DEFINE headers == Lines[HeaderRow]
             named == {i \in DOMAIN headers \cap DOMAIN line : Text(headers[i]) = header}
             last == CHOOSE i \in named : \A j \in named : j <= i
  <1>1. line \in Seq(ToSet(line))
    BY DEF IsSequence
  <1>2. named \in SUBSET (0..Len(line)) /\ Len(line) \in Nat /\ named \subseteq DOMAIN line
    BY <1>1
  <1>3. Cell(line, header) = IF named = {} THEN Blank ELSE Text(line[last])
    BY DEF Cell
  <1> HIDE DEF named
  <1>4. CASE named = {}
    BY <1>3, <1>4
  <1>5. CASE named # {}
    <2>1. \E i \in named : \A j \in named : j <= i
      BY <1>2, <1>5, Finding!GreatestNatural
    <2>2. last \in named
      BY <2>1
    <2> HIDE DEF last
    <2> QED
      BY <1>2, <1>3, <1>5, <2>2
  <1> QED
    BY <1>4, <1>5

\* A line makes a row of that number; without any text it has no merchant.
LEMMA ParsedIs ==
    ASSUME Picked, detection # {}, NEW n \in DOMAIN Lines
    PROVE  /\ Parsed(n) \in Row /\ Parsed(n).number = n
           /\ Parsed(n).merchant # Blank => Headers(Lines[n]) # {}
  <1>1. /\ n \in Nat /\ IsSequence(Lines[n]) /\ Blank \in Texts
        /\ \A k \in DOMAIN Lines[n] : Text(Lines[n][k]) \in Texts
    BY LinesAre, ImportAssumption
  <1>2. \A header : /\ Cell(Lines[n], header) \in Texts
                    /\ Cell(Lines[n], header) # Blank => Headers(Lines[n]) # {}
    BY <1>1, CellIs DEF Headers
  <1> HIDE DEF Cell
  <1> QED
    BY <1>1, <1>2 DEF Parsed, Row

\* What a line says does not change once the template is stored.
LEMMA SameLines ==
    ASSUME UNCHANGED <<file, request, detection>>
    PROVE  /\ Lines' = Lines /\ HeaderRow' = HeaderRow
           /\ \A n : Parsed(n)' = Parsed(n)
           /\ \A bound : Filled(bound)' = Filled(bound)
           /\ \A S : InsideOf(S)' = InsideOf(S) /\ OutsideOf(S)' = OutsideOf(S)
  <1>1. Found' = Found
    BY DEF Found
  <1>2. HeaderRow' = HeaderRow /\ SheetName' = SheetName /\ Template' = Template
    BY <1>1 DEF HeaderRow, SheetName, Template
  <1>3. Lines' = Lines
    BY <1>2 DEF Lines
  <1>4. \A line, header : Cell(line, header)' = Cell(line, header)
    BY <1>2, <1>3 DEF Cell
  <1>5. \A n : Parsed(n)' = Parsed(n)
    BY <1>2, <1>3, <1>4 DEF Parsed
  <1>6. \A bound : Filled(bound)' = Filled(bound)
    BY <1>2, <1>3 DEF Filled
  <1>7. \A S : InsideOf(S)' = InsideOf(S) /\ OutsideOf(S)' = OutsideOf(S)
    BY <1>5 DEF InsideOf, OutsideOf
  <1> QED
    BY <1>2, <1>3, <1>5, <1>6, <1>7

\* One line further, one line more is filled or not.
LEMMA FilledIs ==
    ASSUME Picked, detection # {}, NEW n \in Nat, n > HeaderRow
    PROVE  /\ IsFiniteSet(Filled(n)) /\ IsFiniteSet(OutsideOf(Filled(n)))
           /\ Filled(n) \subseteq DOMAIN Lines /\ n \notin Filled(n)
           /\ n \in DOMAIN Lines /\ Headers(Lines[n]) # {} => Filled(n + 1) = Filled(n) \cup {n}
           /\ n \notin DOMAIN Lines \/ Headers(Lines[n]) = {} => Filled(n + 1) = Filled(n)
  <1>1. Len(Lines) \in Nat /\ DOMAIN Lines = 1..Len(Lines) /\ HeaderRow \in Nat
    BY LinesAre, FoundIs
  <1>2. Filled(n) \subseteq DOMAIN Lines /\ n \notin Filled(n) /\ OutsideOf(Filled(n)) \subseteq Filled(n)
    BY <1>1 DEF Filled, OutsideOf
  <1>3. IsFiniteSet(DOMAIN Lines)
    BY <1>1, FS_Interval
  <1>4. IsFiniteSet(Filled(n)) /\ IsFiniteSet(OutsideOf(Filled(n)))
    BY <1>2, <1>3, FS_Subset
  <1>5. \A k \in DOMAIN Lines : k < n + 1 <=> k < n \/ k = n
    BY <1>1
  <1>6. n \in DOMAIN Lines /\ Headers(Lines[n]) # {} => Filled(n + 1) = Filled(n) \cup {n}
    BY <1>5 DEF Filled
  <1>7. n \notin DOMAIN Lines \/ Headers(Lines[n]) = {} => Filled(n + 1) = Filled(n)
    BY <1>5 DEF Filled
  <1> QED
    BY <1>2, <1>4, <1>6, <1>7

-------------------------------------------------------------------------------
(* The groups.                                                                 *)

LEMMA GatheredIs ==
    ASSUME NEW S, NEW x, x \notin S, NEW g, GroupsOf(g, S)
    PROVE  GroupsOf(Gathered(g, x), S \cup {x})
  <1> DEFINE T == S \cup {x}
             h == Gathered(g, x)
             n == Len(g)
  <1>1. /\ g \in Seq((SUBSET S) \ {{}}) /\ n \in Nat /\ DOMAIN g = 1..n
        /\ \A i \in DOMAIN g : g[i] \subseteq S /\ g[i] # {}
    BY DEF GroupsOf
  <1>2. \A row \in S : \E i \in DOMAIN g : row \in g[i]
    BY DEF GroupsOf
  <1>3. \A i, j \in DOMAIN g : \A row \in g[i], other \in g[j] :
           row = other \/ (row.merchant # Blank /\ row.merchant = other.merchant) => i = j
    BY DEF GroupsOf
  <1>4. CASE \E i \in DOMAIN g : SameOrder(g, x, i)
    <2>1. h = [i \in DOMAIN g |-> IF SameOrder(g, x, i) THEN g[i] \cup {x} ELSE g[i]]
      BY <1>4 DEF Gathered
    <2> HIDE DEF h, n
    <2>2. DOMAIN h = 1..n /\ \A i \in DOMAIN g : \A row :
             row \in h[i] <=> row \in g[i] \/ (row = x /\ SameOrder(g, x, i))
      BY <1>1, <2>1
    <2>3. h \in Seq((SUBSET T) \ {{}})
      <3>1. \A i \in 1..n : h[i] \in (SUBSET T) \ {{}}
        BY <1>1, <2>2
      <3>2. h \in [1..n -> (SUBSET T) \ {{}}]
        BY <1>1, <2>1, <3>1
      <3> QED
        BY <1>1, <3>2
    <2>4. \A row \in T : \E i \in DOMAIN h : row \in h[i]
      BY <1>1, <1>2, <1>4, <2>2
    <2>5. ASSUME NEW i \in DOMAIN h, NEW j \in DOMAIN h, NEW row \in h[i], NEW other \in h[j],
                 row = other \/ (row.merchant # Blank /\ row.merchant = other.merchant)
          PROVE  i = j
      <3>1. i \in DOMAIN g /\ j \in DOMAIN g
        BY <1>1, <2>2
      <3>2. CASE row \in g[i] /\ other \in g[j]
        BY <1>3, <2>5, <3>1, <3>2
      <3>3. CASE row \notin g[i] /\ other \in g[j]
        <4>1. row = x /\ SameOrder(g, x, i) /\ row # other
          BY <1>1, <2>2, <3>1, <3>3
        <4>2. PICK member \in g[i] : member.merchant = x.merchant
          BY <4>1 DEF SameOrder
        <4> QED
          BY <1>3, <2>5, <3>1, <3>3, <4>1, <4>2
      <3>4. CASE row \in g[i] /\ other \notin g[j]
        <4>1. other = x /\ SameOrder(g, x, j) /\ row # other
          BY <1>1, <2>2, <3>1, <3>4
        <4>2. PICK member \in g[j] : member.merchant = x.merchant
          BY <4>1 DEF SameOrder
        <4> QED
          BY <1>3, <2>5, <3>1, <3>4, <4>1, <4>2
      <3>5. CASE row \notin g[i] /\ other \notin g[j]
        <4>1. SameOrder(g, x, i) /\ SameOrder(g, x, j)
          BY <2>2, <3>1, <3>5
        <4>2. /\ x.merchant # Blank
              /\ \E member \in g[i] : member.merchant = x.merchant
              /\ \E member \in g[j] : member.merchant = x.merchant
          BY <4>1 DEF SameOrder
        <4> QED
          BY <1>3, <3>1, <4>2
      <3> QED
        BY <3>2, <3>3, <3>4, <3>5
    <2> QED
      BY <2>3, <2>4, <2>5 DEF GroupsOf, h
  <1>5. CASE ~\E i \in DOMAIN g : SameOrder(g, x, i)
    <2>1. h = Append(g, {x})
      BY <1>5 DEF Gathered
    <2> HIDE DEF h, n
    <2>2. /\ DOMAIN h = 1..(n + 1) /\ h[n + 1] = {x}
          /\ \A i \in 1..n : h[i] = g[i]
      BY <1>1, <2>1 DEF n
    <2>3. h \in Seq((SUBSET T) \ {{}})
      <3>1. g \in Seq((SUBSET T) \ {{}}) /\ {x} \in (SUBSET T) \ {{}}
        <4>1. \A i \in 1..n : g[i] \in (SUBSET T) \ {{}}
          BY <1>1
        <4>2. g \in [1..n -> (SUBSET T) \ {{}}]
          BY <1>1, <4>1
        <4> QED
          BY <1>1, <4>2
      <3> HIDE DEF T
      <3> QED
        BY <2>1, <3>1
    <2>4. \A row \in T : \E i \in DOMAIN h : row \in h[i]
      <3>1. n + 1 \in DOMAIN h /\ \A i \in DOMAIN g : i \in DOMAIN h
        BY <1>1, <2>2
      <3> QED
        BY <1>1, <1>2, <2>2, <3>1
    <2>5. ASSUME NEW i \in DOMAIN h, NEW j \in DOMAIN h, NEW row \in h[i], NEW other \in h[j],
                 row = other \/ (row.merchant # Blank /\ row.merchant = other.merchant)
          PROVE  i = j
      <3>1. CASE i \in DOMAIN g /\ j \in DOMAIN g
        BY <1>1, <1>3, <2>2, <2>5, <3>1
      <3>2. CASE i \notin DOMAIN g /\ j \in DOMAIN g
        <4>1. row = x /\ other \in g[j] /\ row # other
          BY <1>1, <2>2, <3>2
        <4>2. SameOrder(g, x, j)
          BY <2>5, <4>1 DEF SameOrder
        <4> QED
          BY <1>5, <3>2, <4>2
      <3>3. CASE i \in DOMAIN g /\ j \notin DOMAIN g
        <4>1. other = x /\ row \in g[i] /\ row # other
          BY <1>1, <2>2, <3>3
        <4>2. SameOrder(g, x, i)
          BY <2>5, <4>1 DEF SameOrder
        <4> QED
          BY <1>5, <3>3, <4>2
      <3>4. CASE i \notin DOMAIN g /\ j \notin DOMAIN g
        BY <1>1, <2>2, <3>4
      <3> QED
        BY <3>1, <3>2, <3>3, <3>4
    <2> QED
      BY <2>3, <2>4, <2>5 DEF GroupsOf, h
  <1> QED
    BY <1>4, <1>5

\* The groups are gathered row by row.
LEMMA GroupsSteps ==
    ASSUME NEW T, NEW s \in Seq(T)
    PROVE  \E g : /\ g[0] = <<>>
                  /\ \A k \in 0..(Len(s) - 1) : g[k + 1] = NextGathered(0, g[k], s[k + 1])
                  /\ FoldLeft(Gathered, <<>>, s) = g[Len(s)]
  <1>1. FoldLeft(Gathered, <<>>, s) = Gathering!Folded(0, <<>>, s)
    BY DEF NextGathered, Gathering!Folded, FoldLeft, MapThenFoldSet,
           Gathering!FoldLeft, Gathering!MapThenFoldSet, Max, Gathering!Max
  <1>2. Len(s) \in Nat /\ DOMAIN s = 1..Len(s)
    OBVIOUS
  <1> QED
    BY <1>1, <1>2, Gathering!FoldSteps

\* Rows that differ are gathered into groups.
LEMMA GroupsAre ==
    ASSUME NEW T, NEW s \in Seq(T), \A i, j \in DOMAIN s : s[i] = s[j] => i = j
    PROVE  GroupsOf(FoldLeft(Gathered, <<>>, s), ToSet(s))
  <1> DEFINE upto(k) == {s[i] : i \in 1..k}
             all == FoldLeft(Gathered, <<>>, s)
  <1>1. Len(s) \in Nat /\ DOMAIN s = 1..Len(s)
    OBVIOUS
  <1>2. PICK g : /\ g[0] = <<>>
                 /\ \A k \in 0..(Len(s) - 1) : g[k + 1] = NextGathered(0, g[k], s[k + 1])
                 /\ all = g[Len(s)]
    BY GroupsSteps
  <1> DEFINE Ks == {k \in Nat : k <= Len(s) => GroupsOf(g[k], upto(k))}
  <1>3. 0 \in Ks
    <2>1. <<>> \in Seq((SUBSET upto(0)) \ {{}}) /\ DOMAIN <<>> = {} /\ upto(0) = {}
      OBVIOUS
    <2>2. GroupsOf(<<>>, upto(0))
      BY <2>1 DEF GroupsOf
    <2> HIDE DEF upto
    <2> QED
      BY <1>2, <2>2
  <1>4. ASSUME NEW k \in Nat, k \in Ks PROVE k + 1 \in Ks
    <2> SUFFICES ASSUME k + 1 <= Len(s) PROVE GroupsOf(g[k + 1], upto(k + 1))
      OBVIOUS
    <2>1. k \in 0..(Len(s) - 1) /\ GroupsOf(g[k], upto(k))
      BY <1>1, <1>4
    <2>2. s[k + 1] \notin upto(k)
      BY <1>1, <2>1
    <2>3. upto(k + 1) = upto(k) \cup {s[k + 1]}
      OBVIOUS
    <2>4. g[k + 1] = Gathered(g[k], s[k + 1])
      BY <1>2, <2>1 DEF NextGathered
    <2> HIDE DEF upto
    <2> QED
      BY <2>1, <2>2, <2>3, <2>4, GatheredIs
  <1>5. \A k \in Nat : k \in Ks
    <2> HIDE DEF Ks
    <2> QED
      BY <1>3, <1>4, Gathering!SetInduction
  <1>6. upto(Len(s)) = ToSet(s)
    BY <1>1 DEF ToSet
  <1>7. GroupsOf(g[Len(s)], upto(Len(s)))
    <2>1. Len(s) \in Ks /\ Len(s) <= Len(s)
      <3> HIDE DEF Ks
      <3> QED
        BY <1>1, <1>5
    <2> HIDE DEF upto
    <2> QED
      BY <2>1
  <1> HIDE DEF upto, all
  <1> QED
    BY <1>2, <1>6, <1>7 DEF all

-------------------------------------------------------------------------------
(* The invariant.                                                              *)

LEMMA Initially ==
    Init => Inv
  <1> SUFFICES ASSUME Init PROVE Inv
    OBVIOUS
  <1> USE DEF Init
  <1>1. Picked
    BY DEF Picked, Steps
  <1>2. Fresh
    BY DEF Fresh
  <1>3. LinesRead /\ Decided
    BY DEF LinesRead, Decided, Unread, Ungrouped
  <1> QED
    BY <1>1, <1>2, <1>3 DEF Inv

LEMMA PickedKept ==
    ASSUME Picked, Next
    PROVE  Picked'
  <1>1. /\ file \in Files /\ request \in Requests /\ step \in Steps
        /\ detection \in SUBSET Detected(file, request.header_row)
        /\ step # "uploading" /\ (detection # {} \/ ~file.cut)
              => detection = Detected(file, request.header_row)
        /\ step \notin {"uploading", "refused", "unconfirmed"} => detection # {}
    BY DEF Picked
  <1> DEFINE D == Detected(file, request.header_row)
  <1>2. CASE Upload
    <2>1. detection' \in {D} \cup (IF file.cut THEN {{}} ELSE {})
      BY <1>2 DEF Upload
    <2>2. step' \in {"refused", "unconfirmed"} /\ UNCHANGED <<file, request>>
      BY <1>2 DEF Upload
    <2> HIDE DEF D
    <2>3. detection' \in SUBSET D /\ (detection' # {} \/ ~file.cut => detection' = D)
      BY <2>1
    <2>4. step' \in Steps /\ D' = D
      BY <2>2 DEF Steps, D
    <2> QED
      BY <1>1, <2>2, <2>3, <2>4 DEF Picked, D
  <1>3. CASE step # "uploading" /\ UNCHANGED <<file, request, detection>>
    <2>1. D' = D
      BY <1>3
    <2>2. step' \in Steps /\ step' # "uploading"
      BY <1>1, <1>3 DEF Next, Upload, Confirm, FailImport, BeginImport, SkipLine, ExcludeLine,
         IncludeLine, EndOfFile, Group, DecideNext, Finish, Steps
    <2>3. step' \notin {"uploading", "refused", "unconfirmed"} => detection # {}
      BY <1>1, <1>3 DEF Next, Upload, Confirm, FailImport, BeginImport, SkipLine, ExcludeLine,
         IncludeLine, EndOfFile, Group, DecideNext, Finish
    <2> HIDE DEF D
    <2> QED
      BY <1>1, <1>3, <2>1, <2>2, <2>3 DEF Picked, D
  <1>4. Upload \/ (step # "uploading" /\ UNCHANGED <<file, request, detection>>)
    BY DEF Next, Confirm, FailImport, BeginImport, SkipLine, ExcludeLine,
       IncludeLine, EndOfFile, Group, DecideNext, Finish
  <1> QED
    BY <1>2, <1>3, <1>4

LEMMA FreshKept ==
    ASSUME Fresh, Next
    PROVE  Fresh'
  BY DEF Fresh, Unread, Ungrouped, Next, Upload, Confirm, FailImport, BeginImport, SkipLine,
     ExcludeLine, IncludeLine, EndOfFile, Group, DecideNext, Finish

\* What LinesRead says of the next state can be said of the lines of this one.
LEMMA LinesReadNext ==
    ASSUME UNCHANGED <<file, request, detection>>,
           line_number' \in Nat /\ line_number' > HeaderRow,
           step' # "reading" => line_number' \notin DOMAIN Lines,
           counts' = CountsOf(Filled(line_number')),
           RowsOf(rows', Filled(line_number'))
    PROVE  LinesRead'
  <1> DEFINE S == Filled(line_number')
  <1>1. Lines' = Lines /\ HeaderRow' = HeaderRow
    BY SameLines
  <1>2. Filled(line_number)' = S
    BY <1>1 DEF Filled
  <1> QED
    BY <1>1, <1>2, SameLines DEF LinesRead, RowsOf, CountsOf

LEMMA LinesReadKept ==
    ASSUME Picked, Fresh, LinesRead, Next
    PROVE  LinesRead'
  <1>1. step \notin Unread =>
           /\ line_number \in Nat /\ line_number > HeaderRow
           /\ step # "reading" => line_number \notin DOMAIN Lines
           /\ counts = CountsOf(Filled(line_number))
           /\ RowsOf(rows, Filled(line_number))
    BY DEF LinesRead
  <1>2. CASE Upload \/ Confirm \/ FailImport
    <2>1. step' \in Unread
      BY <1>2 DEF Unread, Upload, Confirm, FailImport
    <2> QED
      BY <2>1 DEF LinesRead
  <1>3. CASE BeginImport
    <2>1. /\ detection # {} /\ UNCHANGED <<file, request, detection, counts, rows>>
          /\ line_number' = HeaderRow + 1 /\ step' = "reading"
      BY <1>3 DEF BeginImport, Picked
    <2>2. rows = <<>> /\ counts = [source |-> 0, excluded |-> 0]
      BY <1>3 DEF BeginImport, Fresh, Unread
    <2>3. HeaderRow \in Nat
      BY <2>1, FoundIs
    <2>4. Filled(line_number') = {}
      <3>1. \A n \in DOMAIN Lines : ~(n > HeaderRow /\ n < HeaderRow + 1)
        BY <2>1, <2>3, LinesAre
      <3> QED
        BY <2>1, <3>1 DEF Filled
    <2>5. OutsideOf({}) = {} /\ InsideOf({}) = {} /\ Cardinality({}) = 0
      BY FS_EmptySet DEF OutsideOf, InsideOf
    <2>6. counts' = CountsOf({})
      BY <2>1, <2>2, <2>5 DEF CountsOf
    <2>7. RowsOf(rows', {})
      BY <2>1, <2>2, <2>5 DEF RowsOf
    <2>8. line_number' \in Nat /\ line_number' > HeaderRow
      BY <2>1, <2>3
    <2> QED
      BY <2>1, <2>4, <2>6, <2>7, <2>8, LinesReadNext
  <1> DEFINE n == line_number
             S == Filled(n)
  <1>4. CASE step = "reading" /\ UNCHANGED <<file, request, detection>>
             /\ (SkipLine \/ ExcludeLine \/ IncludeLine)
    <2>1. /\ n \in Nat /\ n > HeaderRow /\ detection # {}
          /\ counts = CountsOf(S) /\ RowsOf(rows, S)
      BY <1>1, <1>4 DEF Unread, Picked
    <2>2. n \in DOMAIN Lines /\ line_number' = n + 1 /\ step' = "reading"
      BY <1>4 DEF SkipLine, ExcludeLine, IncludeLine
    <2>3. HeaderRow \in Nat /\ n + 1 \in Nat /\ n + 1 > HeaderRow
      BY <2>1, FoundIs
    <2>4. /\ IsFiniteSet(S) /\ IsFiniteSet(OutsideOf(S)) /\ n \notin S
          /\ Headers(Lines[n]) # {} => Filled(n + 1) = S \cup {n}
          /\ Headers(Lines[n]) = {} => Filled(n + 1) = S
      BY <2>1, <2>2, FilledIs
    <2>5. Cardinality(S) \in Nat /\ Cardinality(OutsideOf(S)) \in Nat
      BY <2>4, FS_CardinalityType
    <2> HIDE DEF S
    <2>6. SUFFICES counts' = CountsOf(Filled(n + 1)) /\ RowsOf(rows', Filled(n + 1))
      BY <1>4, <2>2, <2>3, LinesReadNext
    <2>7. n \notin OutsideOf(S)
      BY <2>4 DEF OutsideOf
    <2>8. CASE SkipLine
      <3>1. Filled(n + 1) = S /\ counts' = counts /\ rows' = rows
        BY <2>4, <2>8 DEF SkipLine
      <3> QED
        BY <2>1, <3>1
    <2>9. CASE ExcludeLine
      <3>1. /\ Filled(n + 1) = S \cup {n} /\ rows' = rows /\ Outside(Parsed(n))
            /\ counts' = [source |-> counts.source + 1, excluded |-> counts.excluded + 1]
        BY <2>4, <2>9 DEF ExcludeLine
      <3>2. OutsideOf(S \cup {n}) = OutsideOf(S) \cup {n} /\ InsideOf(S \cup {n}) = InsideOf(S)
        BY <3>1 DEF OutsideOf, InsideOf
      <3>3. /\ Cardinality(S \cup {n}) = Cardinality(S) + 1
            /\ Cardinality(OutsideOf(S) \cup {n}) = Cardinality(OutsideOf(S)) + 1
        BY <2>4, <2>7, FS_AddElement
      <3>4. counts' = CountsOf(S \cup {n})
        BY <2>1, <3>1, <3>2, <3>3 DEF CountsOf
      <3>5. RowsOf(rows', S \cup {n})
        BY <2>1, <3>1, <3>2 DEF RowsOf
      <3> QED
        BY <3>1, <3>4, <3>5
    <2>10. CASE IncludeLine
      <3> DEFINE row == Parsed(n)
                 m == Len(rows)
      <3>1. /\ Filled(n + 1) = S \cup {n} /\ rows' = Append(rows, row) /\ ~Outside(row)
            /\ counts' = [counts EXCEPT !.source = @ + 1]
        BY <2>4, <2>10 DEF IncludeLine
      <3>2. OutsideOf(S \cup {n}) = OutsideOf(S) /\ InsideOf(S \cup {n}) = InsideOf(S) \cup {n}
        BY <3>1 DEF OutsideOf, InsideOf
      <3>3. Cardinality(S \cup {n}) = Cardinality(S) + 1
        BY <2>4, FS_AddElement
      <3>4. counts' = CountsOf(S \cup {n})
        BY <2>1, <3>1, <3>2, <3>3 DEF CountsOf
      <3>5. row \in Row /\ row.number = n /\ row = Parsed(row.number)
        BY <2>1, <2>2, ParsedIs
      <3>6. n \notin InsideOf(S)
        BY <2>4 DEF InsideOf
      <3> HIDE DEF row
      <3>7. rows \in Seq(Row) /\ m \in Nat /\ DOMAIN rows = 1..m
        BY <2>1 DEF RowsOf
      <3>8. RowsOf(rows', S \cup {n})
        <4>1. /\ rows' \in Seq(Row) /\ DOMAIN rows' = 1..(m + 1) /\ rows'[m + 1] = row
              /\ \A i \in DOMAIN rows : rows'[i] = rows[i]
          BY <3>1, <3>5, <3>7
        <4> HIDE DEF m
        <4>2. \A i \in DOMAIN rows' : i \in DOMAIN rows \/ i = m + 1
          BY <3>7, <4>1
        <4>3. \A i \in DOMAIN rows : i \in DOMAIN rows'
          BY <3>7, <4>1
        <4>4. m + 1 \in DOMAIN rows'
          BY <3>7, <4>1
        <4>5. \A i \in DOMAIN rows' : /\ rows'[i].number \in InsideOf(S) \cup {n}
                                      /\ rows'[i] = Parsed(rows'[i].number)
          BY <2>1, <3>5, <4>1, <4>2 DEF RowsOf
        <4>6. \A k \in InsideOf(S) \cup {n} : \E i \in DOMAIN rows' : rows'[i].number = k
          BY <2>1, <3>5, <4>1, <4>3, <4>4 DEF RowsOf
        <4>7. \A i, j \in DOMAIN rows' : rows'[i].number = rows'[j].number => i = j
          BY <2>1, <3>5, <3>6, <4>1, <4>2 DEF RowsOf
        <4> QED
          BY <3>2, <4>1, <4>5, <4>6, <4>7 DEF RowsOf
      <3> QED
        BY <3>1, <3>4, <3>8
    <2> QED
      BY <1>4, <2>8, <2>9, <2>10
  <1>5. CASE EndOfFile \/ Group \/ DecideNext \/ Finish
    <2>1. /\ UNCHANGED <<file, request, detection, line_number, counts, rows>>
          /\ step \notin Unread /\ step' # "reading"
          /\ step = "reading" => line_number \notin DOMAIN Lines
      BY <1>5 DEF EndOfFile, Group, DecideNext, Finish, Unread
    <2>2. line_number' \notin DOMAIN Lines
      BY <1>1, <2>1
    <2> QED
      BY <1>1, <2>1, <2>2, LinesReadNext
  <1>6. SkipLine \/ ExcludeLine \/ IncludeLine =>
           step = "reading" /\ UNCHANGED <<file, request, detection>>
    BY DEF SkipLine, ExcludeLine, IncludeLine
  <1> QED
    BY <1>2, <1>3, <1>4, <1>5, <1>6 DEF Next

LEMMA DecidedKept ==
    ASSUME Picked, Fresh, LinesRead, Decided, Next
    PROVE  Decided'
  <1>1. step \notin Ungrouped =>
           /\ GroupsOf(groups, ToSet(rows))
           /\ results \in Seq(Statuses \cup RemoteStatuses)
           /\ Len(results) <= Len(groups)
           /\ \A i \in DOMAIN results : results[i] \in Answers(groups[i])
    BY DEF Decided
  <1>2. CASE Upload \/ Confirm \/ FailImport \/ BeginImport
             \/ SkipLine \/ ExcludeLine \/ IncludeLine \/ EndOfFile
    <2>1. step' \in Ungrouped
      BY <1>2 DEF Ungrouped, Unread, Upload, Confirm, FailImport, BeginImport, SkipLine,
         ExcludeLine, IncludeLine, EndOfFile
    <2> QED
      BY <2>1 DEF Decided
  <1>3. CASE Group
    <2>1. /\ groups' = FoldLeft(Gathered, <<>>, rows) /\ rows' = rows /\ results' = results
          /\ step = "grouping"
      BY <1>3 DEF Group
    <2>2. results = <<>> /\ RowsOf(rows, Filled(line_number))
      BY <2>1 DEF Fresh, LinesRead, Ungrouped, Unread
    <2>3. rows \in Seq(Row) /\ \A i, j \in DOMAIN rows : rows[i] = rows[j] => i = j
      BY <2>2 DEF RowsOf
    <2>4. GroupsOf(FoldLeft(Gathered, <<>>, rows), ToSet(rows))
      BY <2>3, GroupsAre
    <2>5. GroupsOf(groups', ToSet(rows'))
      <3> DEFINE all == FoldLeft(Gathered, <<>>, rows)
      <3> HIDE DEF all
      <3> QED
        BY <2>1, <2>4 DEF all
    <2>6. Len(groups') \in Nat
      BY <2>5 DEF GroupsOf
    <2>7. results' = <<>> /\ Len(<<>>) <= Len(groups')
      BY <2>1, <2>2, <2>6
    <2>8. results' \in Seq(Statuses \cup RemoteStatuses) /\ DOMAIN results' = {}
      BY <2>7
    <2> QED
      BY <2>5, <2>7, <2>8 DEF Decided
  <1>4. CASE DecideNext
    <2> DEFINE n == Len(results)
               A == Statuses \cup RemoteStatuses
    <2>1. PICK status \in Answers(groups[n + 1]) : results' = Append(results, status)
      BY <1>4 DEF DecideNext
    <2>2. /\ n < Len(groups) /\ UNCHANGED <<rows, groups>>
          /\ GroupsOf(groups, ToSet(rows)) /\ results \in Seq(A)
          /\ \A i \in DOMAIN results : results[i] \in Answers(groups[i])
      BY <1>1, <1>4 DEF DecideNext, Ungrouped, Unread
    <2>3. status \in A
      BY <2>1 DEF Answers, Preliminary, Statuses, RemoteStatuses
    <2>4. groups \in Seq((SUBSET ToSet(rows)) \ {{}})
      BY <2>2 DEF GroupsOf
    <2> HIDE DEF A
    <2>5. /\ results' \in Seq(A) /\ Len(results') = n + 1 /\ DOMAIN results' = 1..(n + 1)
          /\ results'[n + 1] = status /\ \A i \in DOMAIN results : results'[i] = results[i]
      BY <2>1, <2>2, <2>3
    <2>6. Len(groups) \in Nat /\ n \in Nat /\ DOMAIN results = 1..n
      BY <2>2, <2>4
    <2>7. Len(results') <= Len(groups')
      BY <2>2, <2>5, <2>6
    <2>8. \A i \in DOMAIN results' : i \in DOMAIN results \/ i = n + 1
      BY <2>5, <2>6
    <2>9. \A i \in DOMAIN results' : results'[i] \in Answers(groups[i])
      <3> HIDE DEF n
      <3> QED
        BY <2>1, <2>2, <2>5, <2>8
    <2>10. \A i \in DOMAIN results' : results'[i] \in Answers(groups'[i])
      BY <2>2, <2>9
    <2> QED
      BY <2>2, <2>5, <2>7, <2>10 DEF Decided, A
  <1>5. CASE Finish
    <2>1. UNCHANGED <<rows, groups, results>> /\ step \notin Ungrouped
      BY <1>5 DEF Finish, Ungrouped, Unread
    <2> QED
      BY <1>1, <2>1 DEF Decided
  <1> QED
    BY <1>2, <1>3, <1>4, <1>5 DEF Next

LEMMA Unchanged ==
    ASSUME Inv, UNCHANGED vars
    PROVE  Inv'
  <1>1. /\ UNCHANGED <<file, request, detection>>
        /\ UNCHANGED <<step, line_number, counts, rows, groups, results>>
    BY DEF vars
  <1>2. Picked' /\ Fresh' /\ Decided'
    BY <1>1 DEF Inv, Picked, Fresh, Decided
  <1>3. LinesRead'
    BY <1>1, LinesReadNext DEF Inv, LinesRead
  <1> QED
    BY <1>2, <1>3 DEF Inv

LEMMA Invariant ==
    Spec => []Inv
  <1>1. Inv /\ [Next]_vars => Inv'
    <2>1. ASSUME Inv, Next PROVE Inv'
      BY <2>1, PickedKept, FreshKept, LinesReadKept, DecidedKept DEF Inv
    <2> QED
      BY <2>1, Unchanged
  <1> QED
    BY Initially, <1>1, PTL DEF Spec

-------------------------------------------------------------------------------
(* Theorems.                                                                   *)

\* Every value has its type, at most one pairing is stored, and a group is made
\* of rows that were read.
THEOREM TypeCorrect == Spec => []TypeOK
  <1>1. Inv => TypeOK
    <2> SUFFICES ASSUME Inv PROVE TypeOK
      OBVIOUS
    <2> USE DEF Inv
    <2>1. request \in Requests /\ step \in Steps
      BY DEF Picked
    <2>2. Cardinality(detection) <= 1
      <3>1. detection = {} \/ \E pair : detection = {pair}
        <4> DEFINE D == Detected(file, request.header_row)
        <4>1. detection \subseteq D /\ file \in Files
          BY DEF Picked
        <4>2. D = {} \/ \E pair : D = {pair}
          BY <4>1, DetectedIs
        <4> HIDE DEF D, Inv
        <4>3. CASE D = {}
          BY <4>1, <4>3
        <4>4. CASE \E pair : D = {pair}
          <5>1. PICK pair : D = {pair}
            BY <4>4
          <5>2. detection = {} \/ detection = {pair}
            BY <4>1, <5>1
          <5> QED
            BY <5>2
        <4> QED
          BY <4>2, <4>3, <4>4
      <3>2. Cardinality({}) = 0
        BY FS_EmptySet
      <3>3. \A pair : Cardinality({pair}) = 1
        BY FS_Singleton
      <3>4. CASE detection = {}
        BY <3>2, <3>4
      <3>5. CASE \E pair : detection = {pair}
        <4>1. Cardinality(detection) = 1
          BY <3>3, <3>5
        <4> QED
          BY <4>1
      <3> QED
        BY <3>1, <3>4, <3>5
    <2>3. line_number \in Nat
      BY DEF Fresh, LinesRead
    <2>4. counts \in [source : Nat, excluded : Nat]
      <3>1. CASE step \in Unread
        BY <3>1 DEF Fresh
      <3>2. CASE step \notin Unread
        <4>1. /\ counts = CountsOf(Filled(line_number))
              /\ line_number \in Nat /\ line_number > HeaderRow /\ detection # {}
          BY <3>2 DEF LinesRead, Picked, Unread
        <4>2. /\ IsFiniteSet(Filled(line_number))
              /\ IsFiniteSet(OutsideOf(Filled(line_number)))
          BY <4>1, FilledIs
        <4> QED
          BY <4>1, <4>2, FS_CardinalityType DEF CountsOf
      <3> QED
        BY <3>1, <3>2
    <2>5. \A i \in DOMAIN rows : rows[i] \in Row
      <3>1. rows \in Seq(Row)
        <4>1. step \in Unread => rows = <<>>
          BY DEF Fresh
        <4>2. step \notin Unread => rows \in Seq(Row)
          BY DEF LinesRead, RowsOf
        <4>3. <<>> \in Seq(Row)
          OBVIOUS
        <4> QED
          BY <4>1, <4>2, <4>3
      <3> HIDE DEF Inv
      <3> QED
        BY <3>1
    <2>6. /\ \A i \in DOMAIN groups : groups[i] # {} /\ groups[i] \subseteq ToSet(rows)
          /\ Len(results) <= Len(groups)
          /\ \A i \in DOMAIN results : results[i] \in Statuses \cup RemoteStatuses
      <3>1. CASE step \in Ungrouped
        BY <3>1 DEF Fresh
      <3>2. CASE step \notin Ungrouped
        <4> DEFINE A == Statuses \cup RemoteStatuses
        <4>1. /\ groups \in Seq((SUBSET ToSet(rows)) \ {{}})
              /\ results \in Seq(A) /\ Len(results) <= Len(groups)
          BY <3>2 DEF Decided, GroupsOf
        <4> HIDE DEF A, Inv
        <4>2. \A i \in DOMAIN groups : groups[i] \in (SUBSET ToSet(rows)) \ {{}}
          BY <4>1
        <4>3. \A i \in DOMAIN results : results[i] \in A
          BY <4>1
        <4> QED
          BY <4>1, <4>2, <4>3 DEF A
      <3> QED
        BY <3>1, <3>2
    <2> QED
      BY <2>1, <2>2, <2>3, <2>4, <2>5, <2>6 DEF TypeOK
  <1> QED
    BY Invariant, <1>1, PTL

\* Whatever the order of the sheets and of the templates, what detect_payment_template
\* stores with a batch is a complete template that no complete one is larger
\* than, and a whole file is without one only if none is complete.
THEOREM DetectionIsCorrect == Spec => []DetectionIsRight
  <1>1. Inv => DetectionIsRight
    BY DetectedIs DEF Inv, Picked, DetectionIsRight
  <1> QED
    BY Invariant, <1>1, PTL

\* import_payment_orders loses no line and takes none twice.
THEOREM EveryRowIsAccounted == Spec => []RowsAccounted
  <1>1. Inv => RowsAccounted
    <2> SUFFICES ASSUME Inv, step \in {"comparing", "done"} PROVE RowsAccounted
      BY DEF RowsAccounted
    <2> DEFINE filled == {n \in DOMAIN Lines : n > HeaderRow /\ Headers(Lines[n]) # {}}
               numbers(i) == {row.number : row \in groups[i]}
    <2>1. /\ line_number \in Nat /\ line_number > HeaderRow /\ line_number \notin DOMAIN Lines
          /\ counts = CountsOf(Filled(line_number)) /\ RowsOf(rows, Filled(line_number))
          /\ GroupsOf(groups, ToSet(rows)) /\ detection # {}
      BY DEF Inv, LinesRead, Decided, Picked, Unread, Ungrouped
    <2>2. Filled(line_number) = filled
      <3>1. \A n \in DOMAIN Lines : n > HeaderRow => n < line_number
        <4>1. Len(Lines) \in Nat /\ DOMAIN Lines = 1..Len(Lines) /\ HeaderRow \in Nat
          BY <2>1, LinesAre, FoundIs DEF Inv
        <4> QED
          BY <2>1, <4>1
      <3> QED
        BY <3>1 DEF Filled
    <2> HIDE DEF filled
    <2>3. /\ rows \in Seq(Row)
          /\ \A i \in DOMAIN rows : rows[i].number \in InsideOf(filled)
          /\ \A n \in InsideOf(filled) : \E i \in DOMAIN rows : rows[i].number = n
          /\ \A i, j \in DOMAIN rows : rows[i].number = rows[j].number => i = j
      BY <2>1, <2>2 DEF RowsOf
    <2>4. /\ \A i \in DOMAIN groups : groups[i] \subseteq ToSet(rows)
          /\ \A row \in ToSet(rows) : \E i \in DOMAIN groups : row \in groups[i]
          /\ \A i, j \in DOMAIN groups : \A row \in groups[i], other \in groups[j] :
                row = other => i = j
      <3>1. groups \in Seq((SUBSET ToSet(rows)) \ {{}})
        BY <2>1 DEF GroupsOf
      <3>2. \A i \in DOMAIN groups : groups[i] \in (SUBSET ToSet(rows)) \ {{}}
        BY <3>1
      <3> QED
        BY <2>1, <3>2 DEF GroupsOf
    <2>5. \A row \in ToSet(rows) : \E i \in DOMAIN rows : row = rows[i]
      BY <2>3 DEF ToSet
    <2>6. \A i \in DOMAIN rows : rows[i] \in ToSet(rows)
      BY <2>3 DEF ToSet
    <2>7. counts.source = Cardinality(filled)
          /\ counts.excluded = Cardinality({n \in filled : Outside(Parsed(n))})
      BY <2>1, <2>2 DEF CountsOf, OutsideOf
    <2>8. UNION {numbers(i) : i \in DOMAIN groups} = InsideOf(filled)
      <3>1. ASSUME NEW i \in DOMAIN groups, NEW row \in groups[i]
            PROVE  row.number \in InsideOf(filled)
        BY <2>3, <2>4, <2>5
      <3>2. ASSUME NEW n \in InsideOf(filled)
            PROVE  \E i \in DOMAIN groups : \E row \in groups[i] : row.number = n
        BY <2>3, <2>4, <2>6
      <3> QED
        BY <3>1, <3>2
    <2>9. \A i, j \in DOMAIN groups : i # j => numbers(i) \cap numbers(j) = {}
      <3>1. ASSUME NEW i \in DOMAIN groups, NEW j \in DOMAIN groups,
                   NEW row \in groups[i], NEW other \in groups[j], row.number = other.number
            PROVE  i = j
        <4>1. row = other
          BY <2>3, <2>4, <2>5, <3>1
        <4> QED
          BY <2>4, <4>1
      <3> QED
        BY <3>1
    <2> QED
      BY <2>7, <2>8, <2>9 DEF RowsAccounted, filled, InsideOf
  <1> QED
    BY Invariant, <1>1, PTL

\* The same values in finitely many, counted at most once, are one.
LEMMA OneValue ==
    ASSUME NEW S, IsFiniteSet(S), Cardinality(S) <= 1, NEW x \in S, NEW y \in S
    PROVE  x = y
  <1>1. Cardinality(S) \in Nat
    BY FS_CardinalityType
  <1>2. Cardinality(S) # 0
    BY FS_EmptySet
  <1>3. Cardinality(S) = 1
    BY <1>1, <1>2
  <1>4. PICK z : S = {z}
    BY <1>3, FS_Singleton
  <1> QED
    BY <1>4

LEMMA FingerprintsAre ==
    ASSUME NEW S, IsFiniteSet(S)
    PROVE  IsFiniteSet({Fingerprint(row) : row \in S})
  <1> DEFINE T == {Fingerprint(row) : row \in S}
             f == [row \in S |-> Fingerprint(row)]
  <1>1. f \in Surjection(S, T)
    BY DEF Surjection
  <1> HIDE DEF f, T
  <1>2. IsFiniteSet(T)
    BY <1>1, FS_Surjection
  <1> QED
    BY <1>2 DEF T

\* A group that was compared with the remote orders is one order, and all of it:
\* nothing of it is unreadable, and no line of the window that bears its number
\* says anything else.
THEOREM ComparedGroupsAreOneOrder == Spec => []ComparedIsOneOrder
  <1>1. Inv => ComparedIsOneOrder
    <2> SUFFICES ASSUME Inv, NEW i \in DOMAIN results, results[i] \in RemoteStatuses,
                        NEW row \in groups[i]
                 PROVE  /\ ~Invalid(row)
                        /\ \A n \in DOMAIN Lines :
                              LET other == Parsed(n) IN
                              n > HeaderRow /\ other.merchant = row.merchant /\ ~Outside(other)
                                => Fingerprint(other) = Fingerprint(row)
      BY DEF ComparedIsOneOrder
    <2>1. step \notin Ungrouped
      BY DEF Inv, Fresh
    <2>2. /\ GroupsOf(groups, ToSet(rows)) /\ results[i] \in Answers(groups[i])
          /\ results \in Seq(Statuses \cup RemoteStatuses) /\ Len(results) <= Len(groups)
      BY <2>1 DEF Inv, Decided
    <2>3. groups \in Seq((SUBSET ToSet(rows)) \ {{}})
      BY <2>2 DEF GroupsOf
    <2>4. i \in DOMAIN groups
      <3> DEFINE A == Statuses \cup RemoteStatuses
      <3>1. results \in Seq(A)
        BY <2>2
      <3> HIDE DEF A
      <3> QED
        BY <2>2, <2>3, <3>1
    <2>5. Preliminary(groups[i]) = "none"
      BY <2>2 DEF Answers, Preliminary, RemoteStatuses
    <2>6. /\ \A member \in groups[i] : ~Invalid(member)
          /\ ~(Cardinality({Fingerprint(member) : member \in groups[i]}) > 1)
      BY <2>5 DEF Preliminary
    <2>7. /\ line_number \in Nat /\ line_number > HeaderRow /\ line_number \notin DOMAIN Lines
          /\ RowsOf(rows, Filled(line_number)) /\ detection # {}
      BY <2>1 DEF Inv, LinesRead, Picked, Unread, Ungrouped
    <2>8. groups[i] \subseteq ToSet(rows)
      BY <2>3, <2>4
    <2>9. IsFiniteSet({Fingerprint(member) : member \in groups[i]})
      <3>1. rows \in Seq(Row)
        BY <2>7 DEF RowsOf
      <3>2. IsFiniteSet(DOMAIN rows)
        <4>1. Len(rows) \in Nat /\ DOMAIN rows = 1..Len(rows)
          BY <3>1
        <4>2. IsFiniteSet(1..Len(rows))
          BY <4>1, FS_Interval
        <4> QED
          BY <4>1, <4>2
      <3>3. rows \in Surjection(DOMAIN rows, ToSet(rows))
        BY <3>1 DEF Surjection, ToSet
      <3>4. IsFiniteSet(ToSet(rows))
        BY <3>2, <3>3, FS_Surjection
      <3>5. IsFiniteSet(groups[i])
        BY <2>8, <3>4, FS_Subset
      <3> QED
        BY <3>5, FingerprintsAre
    <2>10. ASSUME NEW n \in DOMAIN Lines, n > HeaderRow, Parsed(n).merchant = row.merchant,
                  ~Outside(Parsed(n))
           PROVE  Fingerprint(Parsed(n)) = Fingerprint(row)
      <3> DEFINE other == Parsed(n)
      <3>1. row.merchant # Blank
        BY <2>6 DEF Invalid
      <3>2. other.number = n /\ Headers(Lines[n]) # {}
        BY <2>7, <2>10, <3>1, ParsedIs DEF Inv
      <3>3. n < line_number
        BY <2>7, <2>10, LinesAre, FoundIs DEF Inv
      <3>4. n \in InsideOf(Filled(line_number))
        BY <2>10, <3>2, <3>3 DEF InsideOf, Filled
      <3>5. PICK k \in DOMAIN rows : rows[k].number = n /\ rows[k] = Parsed(rows[k].number)
        BY <2>7, <3>4 DEF RowsOf
      <3>6. other \in ToSet(rows)
        BY <3>5 DEF ToSet
      <3> HIDE DEF other
      <3>7. PICK j \in DOMAIN groups : other \in groups[j]
        BY <2>2, <3>6 DEF GroupsOf
      <3>8. i = j
        BY <2>2, <2>4, <2>10, <3>1, <3>7 DEF GroupsOf, other
      <3> DEFINE F == {Fingerprint(member) : member \in groups[i]}
      <3>9. Fingerprint(other) \in F /\ Fingerprint(row) \in F
        BY <3>7, <3>8
      <3>10. IsFiniteSet(F) /\ Cardinality(F) <= 1
        <4>1. IsFiniteSet(F) /\ ~(Cardinality(F) > 1)
          BY <2>6, <2>9
        <4> HIDE DEF F
        <4>2. Cardinality(F) \in Nat
          BY <4>1, FS_CardinalityType
        <4> QED
          BY <4>1, <4>2
      <3> HIDE DEF F
      <3>11. Fingerprint(other) = Fingerprint(row)
        BY <3>9, <3>10, OneValue
      <3> QED
        BY <3>11 DEF other
    <2> QED
      BY <2>6, <2>10
  <1> QED
    BY Invariant, <1>1, PTL

\* On the problem sheets of the export every result is listed once, or not at
\* all if nothing is missing or in doubt.
THEOREM ProblemsAreListedOnce == Spec => []ProblemsOnOneSheet
  <1>1. Inv => ProblemsOnOneSheet
    <2> SUFFICES ASSUME Inv, step = "done", NEW i \in DOMAIN results
                 PROVE  Cardinality({title \in ProblemSheets : i \in Exported(title)}) =
                           IF results[i] \in {"matched", "matched_after_recheck", "amount_mismatch"}
                             THEN 0 ELSE 1
      BY DEF ProblemsOnOneSheet
    <2> DEFINE A == Statuses \cup RemoteStatuses
               sheets == {title \in ProblemSheets : i \in Exported(title)}
    <2>1. results[i] \in A
      <3>1. results \in Seq(A)
        BY DEF Inv, Decided, Ungrouped, Unread
      <3> HIDE DEF A
      <3> QED
        BY <3>1
    <2>2. sheets = {title \in ProblemSheets : results[i] \in Lists(title)}
      BY DEF Exported
    <2> HIDE DEF sheets
    <2>3. Cardinality({}) = 0
      BY FS_EmptySet
    <2>4. \A title : Cardinality({title}) = 1
      BY FS_Singleton
    <2>5. CASE results[i] \in {"matched", "matched_after_recheck", "amount_mismatch"}
      <3>1. sheets = {}
        BY <2>2, <2>5 DEF ProblemSheets, Lists
      <3> QED
        BY <2>3, <2>5, <3>1 DEF sheets
    <2>6. CASE results[i] \notin {"matched", "matched_after_recheck", "amount_mismatch"}
      <3>1. \E title : sheets = {title}
        <4>1. CASE results[i] = "confirmed_missing"
          <5>1. sheets = {"missing"}
            BY <2>2, <4>1 DEF ProblemSheets, Lists
          <5> QED
            BY <5>1
        <4>2. CASE results[i] = "remote_status_not_success"
          <5>1. sheets = {"remote status"}
            BY <2>2, <4>2 DEF ProblemSheets, Lists
          <5> QED
            BY <5>1
        <4>3. CASE results[i] = "recheck_inconclusive"
          <5>1. sheets = {"to recheck"}
            BY <2>2, <4>3 DEF ProblemSheets, Lists
          <5> QED
            BY <5>1
        <4>4. CASE results[i] \in {"duplicate_payment_conflict", "order_reference_conflict",
                                   "invalid_payment_row"}
          <5>1. sheets = {"conflicts"}
            BY <2>2, <4>4 DEF ProblemSheets, Lists
          <5> QED
            BY <5>1
        <4> QED
          BY <2>1, <2>6, <4>1, <4>2, <4>3, <4>4 DEF Statuses, RemoteStatuses
      <3> QED
        BY <2>4, <2>6, <3>1 DEF sheets
    <2> QED
      BY <2>5, <2>6
  <1> QED
    BY Invariant, <1>1, PTL
===============================================================================
