--------------------------- MODULE SubmissionProofs ---------------------------
(* Theorems about Submission, for any uploads, reruns and comparisons.         *)
EXTENDS Submission, FiniteSetTheorems, WellFoundedInduction, TLAPS

-------------------------------------------------------------------------------
(* The operators the actions are built from.                                   *)

\* Of the bounds of a set of numbers one is the least, since no chain of ever
\* smaller intervals goes on for ever; and the least bound is in the set.
LEMMA HighestIsMax ==
    ASSUME NEW S \in SUBSET Nat, S # {}, NEW n \in Nat, \A m \in S : m <= n
    PROVE  Highest(S) \in S /\ \A m \in S : m <= Highest(S)
  <1> DEFINE Above == {k \in Nat : \A m \in S : m <= k}
             UpTo == {0..k : k \in Above}
  <1>1. UpTo \subseteq FiniteSubsetsOf(Nat) /\ UpTo # {}
    <2>1. ASSUME NEW k \in Above PROVE 0..k \subseteq Nat /\ IsFiniteSet(0..k)
      BY FS_Interval
    <2>2. n \in Above
      OBVIOUS
    <2> QED
      BY <2>1, <2>2 DEF FiniteSubsetsOf
  <1>2. PICK I \in UpTo : \A J \in UpTo : ~(<<J, I>> \in StrictSubsetOrdering(Nat))
    <2> HIDE DEF UpTo
    <2> QED
      BY <1>1, FS_StrictSubsetOrderingWellFounded, WFMin
  <1>3. PICK k \in Above : I = 0..k
    OBVIOUS
  <1>4. k \in S
    <2> SUFFICES ASSUME k \notin S PROVE FALSE
      OBVIOUS
    <2>1. k - 1 \in Nat /\ k - 1 \in Above
      <3>1. \A m \in S : m \in Nat /\ m < k
        OBVIOUS
      <3>2. k \in Nat /\ k > 0
        <4>1. PICK m \in S : TRUE
          OBVIOUS
        <4> QED
          BY <3>1, <4>1
      <3>3. \A m \in S : m <= k - 1
        BY <3>1, <3>2
      <3> QED
        BY <3>2, <3>3
    <2>2. 0..(k - 1) \in UpTo
      BY <2>1
    <2>3. 0..(k - 1) \subseteq 0..k /\ 0..(k - 1) # 0..k
      <3>1. k \in 0..k /\ k \notin 0..(k - 1)
        BY <2>1
      <3> QED
        BY <3>1, <2>1
    <2>4. <<0..(k - 1), 0..k>> \in StrictSubsetOrdering(Nat)
      <3>1. 0..(k - 1) \in SUBSET Nat /\ 0..k \in SUBSET Nat
        BY <2>1
      <3> QED
        BY <2>3, <3>1 DEF StrictSubsetOrdering
    <2> QED
      BY <1>2, <1>3, <2>2, <2>4
  <1>5. k \in S /\ \A m \in S : m <= k
    BY <1>4
  <1> QED
    BY <1>5 DEF Highest

-------------------------------------------------------------------------------
(* The inductive invariant.  The versions of a series have a bound, or there   *)
(* would be no highest one; Numbering says the rest.                           *)

Bounded == \A s \in Uploads : \E n \in Nat : \A m \in Versions(s) : m <= n

Inv == TypeOK /\ Bounded /\ Numbering

LEMMA NoRowIsRow == NoRow \in Row /\ \A u \in Uploads : Founding(u) \in Row
  <1>1. \A u \in Uploads : Founding(u) \in Row
    BY SubmissionAssumption DEF Founding, Row
  <1>2. (CHOOSE u \in Uploads : TRUE) \in Uploads
    BY SubmissionAssumption
  <1> QED
    BY <1>1, <1>2 DEF NoRow

LEMMA InitInv == Init => Inv
  <1> SUFFICES ASSUME Init PROVE Inv
    OBVIOUS
  <1>1. Present = {} /\ \A s : Series(s) = {} /\ Versions(s) = {}
    BY DEF Init, Present, Series, Versions
  <1>2. TypeOK
    BY <1>1, NoRowIsRow DEF Init, TypeOK, Steps
  <1>3. Bounded
    BY <1>1 DEF Bounded
  <1>4. VersionsCount
    <2>1. 1..0 = {}
      OBVIOUS
    <2> QED
      BY <1>1, <2>1, FS_EmptySet DEF VersionsCount
  <1>5. Numbering
    <2>1. \A r \in Reruns : pc[r] = "start"
      BY DEF Init, Batches
    <2> QED
      BY <1>1, <1>4, <2>1, FS_EmptySet
        DEF Numbering, RepeatsEarlier, RefusedOnlyBeside, KnowsSeries, NextOrTaken
  <1> QED
    BY <1>2, <1>3, <1>5 DEF Inv

\* The next version is a version, above every one of the series.
LEMMA NextVersionIsAbove ==
    ASSUME TypeOK, Bounded, NEW old \in Row
    PROVE  /\ NextVersion(old) \in Nat \ {0}
           /\ \A m \in Versions(old.series) : m < NextVersion(old)
           /\ Versions(old.series) # {} =>
                 \E m \in Versions(old.series) : NextVersion(old) = m + 1
  <1> DEFINE s == old.series
  <1>1. old.version \in Nat \ {0} /\ s \in Uploads
    BY DEF Row
  <1>2. Versions(s) \subseteq Nat \ {0}
    BY DEF TypeOK, Versions, Series, Present, Row
  <1>3. CASE Series(s) = {}
    BY <1>1, <1>3 DEF NextVersion, Versions
  <1>4. CASE Series(s) # {}
    <2>1. Versions(s) # {}
      BY <1>4 DEF Versions
    <2>2. PICK n \in Nat : \A m \in Versions(s) : m <= n
      BY <1>1 DEF Bounded
    <2>3. Versions(s) \in SUBSET Nat
      BY <1>2
    <2>4. Highest(Versions(s)) \in Versions(s) /\ \A m \in Versions(s) : m <= Highest(Versions(s))
      BY <2>1, <2>2, <2>3, HighestIsMax
    <2>5. NextVersion(old) = Highest(Versions(s)) + 1
      BY <1>4 DEF NextVersion
    <2> QED
      BY <1>2, <2>4, <2>5
  <1> QED
    BY <1>3, <1>4

-------------------------------------------------------------------------------
(* Steps that insert and delete nothing.                                       *)

LEMMA Unmoved ==
    ASSUME UNCHANGED <<status, row>>
    PROVE  /\ Present' = Present
           /\ \A s : Series(s)' = Series(s) /\ Versions(s)' = Versions(s)
  BY DEF Present, Series, Versions

\* A request moves on, without having read or written anything.
LEMMA MoveInv ==
    ASSUME Inv, NEW q \in Batches, pc[q] # "created",
           NEW step \in {"unmatched", "answered", "refused", "failed"}, Goto(q, step),
           step = "refused" => q \in beside,
           UNCHANGED <<status, row, mem, beside, thinned>>
    PROVE  Inv'
  <1> USE DEF Inv
  <1>1. /\ pc' \in [Batches -> Steps] /\ pc' = [pc EXCEPT ![q] = step]
        /\ \A b \in Batches : pc[b] = "created" => pc'[b] = "created"
        /\ \A b \in Batches : pc'[b] \in {"read", "numbered"} => pc'[b] = pc[b]
    BY DEF Goto, TypeOK, Steps
  <1>2. /\ Present' = Present
        /\ \A s : Series(s)' = Series(s) /\ Versions(s)' = Versions(s)
    BY Unmoved
  <1>3. TypeOK'
    BY <1>1, <1>2 DEF TypeOK, Present
  <1>4. Bounded'
    BY <1>2 DEF Bounded
  <1>5. RepeatsEarlier' /\ VersionsCount'
    BY <1>2 DEF Numbering, RepeatsEarlier, VersionsCount
  <1>6. RefusedOnlyBeside'
    BY <1>1 DEF Numbering, RefusedOnlyBeside, Batches
  <1>7. (\A b \in Present : pc[row[b].series] = "created")'
    BY <1>1, <1>2 DEF Numbering, TypeOK, Row, Batches, Present
  <1>8. ASSUME NEW r \in Reruns PROVE (KnowsSeries(r) /\ NextOrTaken(r))'
    <2>1. r \in Batches /\ mem[r].series \in Batches
      BY DEF TypeOK, Row, Batches
    <2>2. KnowsSeries(r) /\ NextOrTaken(r)
      BY DEF Numbering
    <2>3. KnowsSeries(r)'
      BY <1>1, <1>2, <2>1, <2>2 DEF KnowsSeries, Repeats
    <2>4. NextOrTaken(r)'
      BY <1>1, <1>2, <2>1, <2>2 DEF NextOrTaken, Taken
    <2> QED
      BY <2>3, <2>4
  <1> QED
    BY <1>2, <1>3, <1>4, <1>5, <1>6, <1>7, <1>8 DEF Numbering

\* A rerun reads the batch it repeats, whose series has a version of its own.
LEMMA ReadPreviousInv ==
    ASSUME Inv, NEW r \in Reruns, NEW b \in Batches, ReadPrevious(r, b)
    PROVE  Inv'
  <1> USE DEF Inv
  <1>1. r \in Batches /\ Reruns \subseteq Batches
    BY DEF Batches
  <1>2. /\ pc' \in [Batches -> Steps] /\ pc[r] = "start" /\ pc'[r] = "read"
        /\ \A d \in Batches \ {r} : pc'[d] = pc[d]
        /\ \A d \in Batches : pc[d] = "created" => pc'[d] = "created"
    BY <1>1 DEF ReadPrevious, Goto, TypeOK, Steps
  <1>3. b \in Present /\ pc[b] = "created" /\ row[b] \in Row
    BY DEF ReadPrevious, Present, TypeOK
  <1>4. /\ mem' \in [Batches -> Row] /\ mem'[r] = [row[b] EXCEPT !.rerun_of = b]
        /\ \A d \in Batches \ {r} : mem'[d] = mem[d]
    BY <1>1, <1>3 DEF ReadPrevious, TypeOK, Row
  <1>5. /\ mem'[r].series = row[b].series /\ mem'[r].comparison = row[b].comparison
        /\ mem'[r].rerun_of = b
    BY <1>3, <1>4 DEF Row
  <1>6. /\ Present' = Present
        /\ \A s : Series(s)' = Series(s) /\ Versions(s)' = Versions(s)
        /\ UNCHANGED <<status, row, beside, thinned>>
    BY Unmoved DEF ReadPrevious
  <1>7. TypeOK'
    BY <1>2, <1>4, <1>6 DEF TypeOK, Present
  <1>8. Bounded'
    BY <1>6 DEF Bounded
  <1>9. RepeatsEarlier' /\ VersionsCount'
    BY <1>6 DEF Numbering, RepeatsEarlier, VersionsCount
  <1>10. RefusedOnlyBeside'
    BY <1>1, <1>2, <1>6 DEF Numbering, RefusedOnlyBeside
  <1>11. (\A d \in Present : pc[row[d].series] = "created")'
    BY <1>2, <1>6 DEF Numbering, TypeOK, Row, Batches, Present
  <1>12. KnowsSeries(r)' /\ NextOrTaken(r)'
    <2>1. pc[row[b].series] = "created" /\ row[b].series \in Batches
      BY <1>3 DEF Numbering, Row, Batches
    <2>2. Repeats(mem[r])'
      BY <1>5, <1>6 DEF Repeats
    <2>3. KnowsSeries(r)'
      BY <1>2, <1>3, <1>5, <1>6, <2>1, <2>2 DEF KnowsSeries
    <2> QED
      BY <1>2, <2>3 DEF NextOrTaken
  <1>13. ASSUME NEW q \in Reruns \ {r} PROVE (KnowsSeries(q) /\ NextOrTaken(q))'
    <2>1. mem'[q] = mem[q] /\ pc'[q] = pc[q] /\ mem[q].series \in Batches
      BY <1>1, <1>2, <1>4 DEF TypeOK, Row, Batches
    <2>2. KnowsSeries(q) /\ NextOrTaken(q)
      BY DEF Numbering
    <2>3. KnowsSeries(q)'
      BY <1>2, <1>6, <2>1, <2>2 DEF KnowsSeries, Repeats
    <2>4. NextOrTaken(q)'
      BY <1>6, <2>1, <2>2 DEF NextOrTaken, Taken
    <2> QED
      BY <2>3, <2>4
  <1> QED
    BY <1>6, <1>7, <1>8, <1>9, <1>10, <1>11, <1>12, <1>13 DEF Numbering

\* A rerun reads the highest version of its series.
LEMMA ReadVersionInv ==
    ASSUME Inv, NEW r \in Reruns, ReadVersion(r)
    PROVE  Inv'
  <1> USE DEF Inv
  <1> DEFINE s == mem[r].series
             next == NextVersion(mem[r])
  <1>1. r \in Batches /\ Reruns \subseteq Batches /\ mem[r] \in Row /\ s \in Uploads
    BY DEF Batches, TypeOK, Row
  <1>2. /\ pc' \in [Batches -> Steps] /\ pc[r] = "read" /\ pc'[r] = "numbered"
        /\ \A d \in Batches \ {r} : pc'[d] = pc[d]
        /\ \A d \in Batches : pc[d] = "created" => pc'[d] = "created"
    BY <1>1 DEF ReadVersion, Goto, TypeOK, Steps
  <1>3. /\ next \in Nat \ {0} /\ \A m \in Versions(s) : m < next
        /\ Versions(s) # {} => \E m \in Versions(s) : next = m + 1
    BY <1>1, NextVersionIsAbove
  <1> HIDE DEF next
  <1>4. /\ mem' \in [Batches -> Row] /\ mem'[r] = [mem[r] EXCEPT !.version = next]
        /\ \A d \in Batches \ {r} : mem'[d] = mem[d]
    BY <1>1, <1>3 DEF ReadVersion, TypeOK, Row, next
  <1>5. /\ mem'[r].series = s /\ mem'[r].comparison = mem[r].comparison
        /\ mem'[r].rerun_of = mem[r].rerun_of /\ mem'[r].version = next
    BY <1>1, <1>4 DEF Row
  <1>6. /\ Present' = Present
        /\ \A t : Series(t)' = Series(t) /\ Versions(t)' = Versions(t)
        /\ UNCHANGED <<status, row, beside, thinned>>
    BY Unmoved DEF ReadVersion
  <1>7. TypeOK'
    BY <1>2, <1>4, <1>6 DEF TypeOK, Present
  <1>8. Bounded'
    BY <1>6 DEF Bounded
  <1>9. RepeatsEarlier' /\ VersionsCount'
    BY <1>6 DEF Numbering, RepeatsEarlier, VersionsCount
  <1>10. RefusedOnlyBeside'
    BY <1>1, <1>2, <1>6 DEF Numbering, RefusedOnlyBeside
  <1>11. (\A d \in Present : pc[row[d].series] = "created")'
    BY <1>2, <1>6 DEF Numbering, TypeOK, Row, Batches, Present
  <1>12. KnowsSeries(r)' /\ NextOrTaken(r)'
    <2>1. KnowsSeries(r) /\ s \in Batches
      BY <1>1 DEF Numbering, Batches
    <2>2. KnowsSeries(r)'
      BY <1>2, <1>5, <1>6, <2>1 DEF KnowsSeries, Repeats
    <2>3. ~Taken(mem[r])'
      <3>1. next \notin Versions(s)
        BY <1>3
      <3> QED
        BY <1>5, <1>6, <3>1 DEF Taken
    <2>4. mem[r].rerun_of \in Present =>
             mem[r].rerun_of \in Series(s) /\ row[mem[r].rerun_of].version < next
      BY <1>2, <1>3, <2>1 DEF KnowsSeries, Repeats, Series, Versions
    <2>5. s \notin thinned => next <= Cardinality(Series(s)) + 1
      <3> SUFFICES ASSUME s \notin thinned PROVE next <= Cardinality(Series(s)) + 1
        OBVIOUS
      <3>1. Versions(s) # {}
        BY <1>2, <2>1, <2>4 DEF KnowsSeries, Versions
      <3>2. Versions(s) = 1..Cardinality(Series(s))
        BY <1>1 DEF Numbering, VersionsCount
      <3>3. Cardinality(Series(s)) \in Nat
        BY <1>1, FS_CardinalityType DEF Numbering
      <3> QED
        BY <1>3, <3>1, <3>2, <3>3
    <2>6. NextOrTaken(r)'
      BY <1>5, <1>6, <2>3, <2>4, <2>5 DEF NextOrTaken
    <2> QED
      BY <2>2, <2>6
  <1>13. ASSUME NEW q \in Reruns \ {r} PROVE (KnowsSeries(q) /\ NextOrTaken(q))'
    <2>1. mem'[q] = mem[q] /\ pc'[q] = pc[q] /\ mem[q].series \in Batches
      BY <1>1, <1>2, <1>4 DEF TypeOK, Row, Batches
    <2>2. KnowsSeries(q) /\ NextOrTaken(q)
      BY DEF Numbering
    <2>3. KnowsSeries(q)'
      BY <1>2, <1>6, <2>1, <2>2 DEF KnowsSeries, Repeats
    <2>4. NextOrTaken(q)'
      BY <1>6, <2>1, <2>2 DEF NextOrTaken, Taken
    <2> QED
      BY <2>3, <2>4
  <1> QED
    BY <1>6, <1>7, <1>8, <1>9, <1>10, <1>11, <1>12, <1>13 DEF Numbering

-------------------------------------------------------------------------------
(* Steps that insert a batch.                                                  *)

LEMMA Inserted ==
    ASSUME TypeOK, NEW q \in Batches, pc[q] # "created", NEW new \in Row, Insert(q, new)
    PROVE  /\ q \notin Present /\ Present' = Present \cup {q}
           /\ status' \in [Batches -> {"none", "open", "ended", "dead"}]
           /\ row' \in [Batches -> Row] /\ row'[q] = new
           /\ \A b \in Batches \ {q} : row'[b] = row[b]
           /\ pc' \in [Batches -> Steps] /\ pc'[q] = "created"
           /\ \A b \in Batches \ {q} : pc'[b] = pc[b]
           /\ \A s : s # new.series => Series(s)' = Series(s) /\ Versions(s)' = Versions(s)
           /\ Series(new.series)' = Series(new.series) \cup {q}
           /\ Versions(new.series)' = Versions(new.series) \cup {new.version}
  <1>1. q \notin Present /\ Present' = Present \cup {q}
    BY DEF TypeOK, Insert, Present
  <1>2. status' \in [Batches -> {"none", "open", "ended", "dead"}]
    BY DEF TypeOK, Insert
  <1>3. /\ row' \in [Batches -> Row] /\ row'[q] = new
        /\ \A b \in Batches \ {q} : row'[b] = row[b]
    BY DEF TypeOK, Insert
  <1>4. /\ pc' \in [Batches -> Steps] /\ pc'[q] = "created"
        /\ \A b \in Batches \ {q} : pc'[b] = pc[b]
    BY DEF TypeOK, Insert, Goto, Steps
  <1>5. Present \subseteq Batches
    BY DEF Present
  <1>6. \A s : s # new.series => Series(s)' = Series(s)
    BY <1>1, <1>3, <1>5 DEF Series
  <1>7. \A s : s # new.series => Versions(s)' = Versions(s)
    <2> SUFFICES ASSUME NEW s, s # new.series PROVE Versions(s)' = Versions(s)
      OBVIOUS
    <2>1. \A b \in Series(s) : row'[b].version = row[b].version
      BY <1>1, <1>3, <1>5 DEF Series
    <2> QED
      BY <1>6, <2>1 DEF Versions
  <1>8. Series(new.series)' = Series(new.series) \cup {q}
    BY <1>1, <1>3, <1>5 DEF Series
  <1>9. Versions(new.series)' = Versions(new.series) \cup {new.version}
    <2>1. \A b \in Series(new.series) : row'[b].version = row[b].version
      BY <1>1, <1>3, <1>5 DEF Series
    <2> QED
      BY <1>3, <1>8, <2>1 DEF Versions
  <1> QED
    BY <1>1, <1>2, <1>3, <1>4, <1>6, <1>7, <1>8, <1>9

\* An insertion keeps the bound on the versions of every series.
LEMMA InsertedBounded ==
    ASSUME Inv, NEW q \in Batches, pc[q] # "created", NEW new \in Row, Insert(q, new)
    PROVE  Bounded'
  <1> SUFFICES ASSUME NEW s \in Uploads
               PROVE  \E n \in Nat : \A m \in Versions(s)' : m <= n
    BY DEF Bounded
  <1>1. PICK n \in Nat : \A m \in Versions(s) : m <= n
    BY DEF Inv, Bounded
  <1>2. Versions(s)' \subseteq Versions(s) \cup {new.version}
    BY Inserted DEF Inv
  <1>3. Versions(s) \subseteq Nat /\ new.version \in Nat
    BY DEF Inv, TypeOK, Versions, Series, Present, Row
  <1>4. CASE new.version <= n
    BY <1>1, <1>2, <1>4
  <1>5. CASE new.version > n
    <2>1. \A m \in Versions(s)' : m <= new.version
      BY <1>1, <1>2, <1>3, <1>5
    <2> QED
      BY <1>3, <2>1
  <1> QED
    BY <1>1, <1>3, <1>4, <1>5

\* What the other reruns know survives the insertion of q: their batch is not q,
\* which was not there when they read it; whom q overtakes is told in beside.
LEMMA InsertedBeside ==
    ASSUME Inv, NEW q \in Batches, pc[q] # "created", NEW new \in Row, Insert(q, new),
           UNCHANGED <<mem, thinned>>, beside \subseteq beside',
           NEW r \in Reruns \ {q},
           pc[r] = "numbered" /\ mem[r].series = new.series => r \in beside'
    PROVE  (KnowsSeries(r) /\ NextOrTaken(r))'
  <1> USE DEF Inv
  <1>1. r \in Batches /\ mem[r] \in Row /\ mem[r].series \in Uploads /\ mem[r].series \in Batches
    BY DEF Batches, TypeOK, Row
  <1>2. KnowsSeries(r) /\ NextOrTaken(r)
    BY DEF Numbering
  <1>3. /\ Present' = Present \cup {q} /\ pc'[q] = "created"
        /\ \A b \in Batches \ {q} : row'[b] = row[b] /\ pc'[b] = pc[b]
    BY Inserted
  <1>4. \A b \in Batches : pc[b] = "created" => pc'[b] = "created" /\ b # q
    BY <1>3
  <1>5. KnowsSeries(r)'
    BY <1>1, <1>2, <1>3, <1>4 DEF KnowsSeries, Repeats
  <1>6. NextOrTaken(r)'
    <2> SUFFICES ASSUME pc[r] = "numbered"
                 PROVE  /\ mem[r].rerun_of \in Present' =>
                              row'[mem[r].rerun_of].version < mem[r].version
                        /\ mem[r].series \notin thinned =>
                              mem[r].version <= Cardinality(Series(mem[r].series)') + 1
                        /\ mem[r].version \in Versions(mem[r].series)' => r \in beside'
      BY <1>1, <1>3 DEF NextOrTaken, Taken
    <2>1. mem[r].rerun_of \in Batches /\ pc[mem[r].rerun_of] = "created"
      BY <1>2 DEF KnowsSeries
    <2>2. mem[r].rerun_of \in Present' => row'[mem[r].rerun_of].version < mem[r].version
      BY <1>2, <1>3, <1>4, <2>1 DEF NextOrTaken
    <2>3. Cardinality(Series(mem[r].series)) \in Nat /\ IsFiniteSet(Series(mem[r].series))
      BY <1>1, FS_CardinalityType DEF Numbering
    <2>4. CASE mem[r].series = new.series
      <3>1. Series(mem[r].series)' = Series(mem[r].series) \cup {q} /\ q \notin Series(mem[r].series)
        BY <2>4, Inserted DEF Series
      <3>2. Cardinality(Series(mem[r].series)') = Cardinality(Series(mem[r].series)) + 1
        BY <2>3, <3>1, FS_AddElement
      <3>3. mem[r].version \in Nat
        BY <1>1 DEF Row
      <3>4. mem[r].series \notin thinned => mem[r].version <= Cardinality(Series(mem[r].series)) + 1
        BY <1>2 DEF NextOrTaken
      <3> QED
        BY <2>2, <2>3, <2>4, <3>2, <3>3, <3>4
    <2>5. CASE mem[r].series # new.series
      <3>1. /\ Series(mem[r].series)' = Series(mem[r].series)
            /\ Versions(mem[r].series)' = Versions(mem[r].series)
        BY <2>5, Inserted
      <3> QED
        BY <1>2, <2>2, <3>1 DEF NextOrTaken, Taken
    <2> QED
      BY <2>4, <2>5
  <1> QED
    BY <1>5, <1>6

\* An insertion keeps the invariant if the new batch repeats an earlier one of
\* its series, is the series's next as long as that is whole, and its requests
\* and the history are kept as above.
LEMMA InsertInv ==
    ASSUME Inv, NEW q \in Batches, pc[q] # "created", NEW new \in Row, Insert(q, new),
           UNCHANGED <<mem, thinned>>, beside \subseteq beside', beside' \subseteq Reruns,
           \A r \in Reruns \ {q} :
              pc[r] = "numbered" /\ mem[r].series = new.series => r \in beside',
           new.series = q \/ pc[new.series] = "created",
           new.rerun_of # NoBatch =>
              /\ new.rerun_of \in Present /\ Repeats(new)
              /\ row[new.rerun_of].version < new.version,
           new.series \notin thinned =>
              new.version = Cardinality(Series(new.series)) + 1
    PROVE  Inv'
  <1> USE DEF Inv
  <1>1. /\ q \notin Present /\ Present' = Present \cup {q}
        /\ row' \in [Batches -> Row] /\ row'[q] = new
        /\ \A b \in Batches \ {q} : row'[b] = row[b]
        /\ pc' \in [Batches -> Steps] /\ pc'[q] = "created"
        /\ \A b \in Batches \ {q} : pc'[b] = pc[b]
    BY Inserted
  <1>2. /\ Present \subseteq Batches
        /\ \A b \in Batches : row[b].series \in Batches /\ row[b].series \in Uploads
        /\ new.series \in Uploads /\ new.series \in Batches
    BY DEF Present, TypeOK, Row, Batches
  <1>3. TypeOK'
    <2>1. status' \in [Batches -> {"none", "open", "ended", "dead"}]
      BY Inserted
    <2>2. (\A b \in Present : pc[b] = "created")'
      BY <1>1, <1>2 DEF TypeOK
    <2> QED
      BY <1>1, <2>1, <2>2 DEF TypeOK
  <1>4. Bounded'
    BY InsertedBounded
  <1>5. RepeatsEarlier'
    <2> SUFFICES ASSUME NEW b \in Present', row'[b].rerun_of # NoBatch
                 PROVE  /\ row'[b].rerun_of \in Present'
                        /\ row'[row'[b].rerun_of].series = row'[b].series
                        /\ row'[row'[b].rerun_of].comparison = row'[b].comparison
                        /\ row'[row'[b].rerun_of].version < row'[b].version
      BY DEF RepeatsEarlier
    <2>1. CASE b = q
      BY <1>1, <1>2, <2>1 DEF Repeats
    <2>2. CASE b # q
      BY <1>1, <1>2, <2>2 DEF Numbering, RepeatsEarlier
    <2> QED
      BY <2>1, <2>2
  <1>6. \A s \in Uploads : IsFiniteSet(Series(s)) /\ Cardinality(Series(s)) \in Nat
    BY FS_CardinalityType DEF Numbering
  <1>7. /\ IsFiniteSet(Series(new.series)')
        /\ Cardinality(Series(new.series)') = Cardinality(Series(new.series)) + 1
    <2>1. Series(new.series)' = Series(new.series) \cup {q} /\ q \notin Series(new.series)
      BY <1>1, Inserted DEF Series
    <2> QED
      BY <1>2, <1>6, <2>1, FS_AddElement
  <1>8. VersionsCount'
    <2> SUFFICES ASSUME NEW s \in Uploads \ thinned
                 PROVE  Versions(s)' = 1..Cardinality(Series(s)')
      BY DEF VersionsCount
    <2>1. Versions(s) = 1..Cardinality(Series(s))
      BY DEF Numbering, VersionsCount
    <2>2. CASE s = new.series
      <3>1. Versions(s)' = Versions(s) \cup {Cardinality(Series(s)) + 1}
        BY <2>2, Inserted
      <3> QED
        BY <1>6, <1>7, <2>1, <2>2, <3>1
    <2>3. CASE s # new.series
      BY <2>1, <2>3, Inserted
    <2> QED
      BY <2>2, <2>3
  <1>9. RefusedOnlyBeside'
    BY <1>1 DEF Numbering, RefusedOnlyBeside, Batches
  <1>10. (\A s \in Uploads : IsFiniteSet(Series(s)))'
    BY <1>6, <1>7, Inserted
  <1>11. (\A b \in Present : pc[row[b].series] = "created")'
    BY <1>1, <1>2 DEF Numbering
  <1>12. ASSUME NEW r \in Reruns PROVE (KnowsSeries(r) /\ NextOrTaken(r))'
    <2>1. CASE r = q
      BY <1>1, <2>1 DEF KnowsSeries, NextOrTaken
    <2>2. CASE r # q
      BY <2>2, InsertedBeside
    <2> QED
      BY <2>1, <2>2
  <1> QED
    BY <1>3, <1>4, <1>5, <1>8, <1>9, <1>10, <1>11, <1>12 DEF Numbering

\* An upload founds its series: nothing of it was there.
LEMMA CommitUploadInv ==
    ASSUME Inv, NEW u \in Uploads, CommitUpload(u)
    PROVE  Inv'
  <1> DEFINE new == Founding(u)
  <1>1. u \in Batches /\ pc[u] = "unmatched" /\ Insert(u, new) /\ UNCHANGED <<mem, beside, thinned>>
    BY DEF CommitUpload, Batches
  <1>2. new \in Row /\ new.series = u /\ new.version = 1 /\ new.rerun_of = NoBatch
    BY NoRowIsRow DEF Founding
  <1>3. Series(u) = {}
    BY <1>1 DEF Inv, Numbering, Series
  <1>4. \A r \in Reruns : pc[r] = "numbered" => mem[r].series # u
    BY <1>1 DEF Inv, Numbering, KnowsSeries
  <1>5. beside \subseteq Reruns
    BY DEF Inv, TypeOK
  <1>6. new.version = Cardinality(Series(new.series)) + 1
    BY <1>2, <1>3, FS_EmptySet
  <1>7. beside \subseteq beside' /\ beside' \subseteq Reruns /\ pc[u] # "created"
    BY <1>1, <1>5
  <1> HIDE DEF new
  <1>8. \A r \in Reruns \ {u} :
           pc[r] = "numbered" /\ mem[r].series = new.series => r \in beside'
    BY <1>2, <1>4
  <1> QED
    BY <1>1, <1>2, <1>6, <1>7, <1>8, InsertInv

\* A rerun adds the next version to its series.
LEMMA CommitRerunInv ==
    ASSUME Inv, NEW r \in Reruns, CommitRerun(r)
    PROVE  Inv'
  <1> DEFINE new == mem[r]
  <1>1. /\ r \in Batches /\ pc[r] = "numbered" /\ Insert(r, new) /\ UNCHANGED <<mem, thinned>>
        /\ status[new.rerun_of] # "none" /\ new.version \notin Versions(new.series)
    BY DEF CommitRerun, Batches, Taken
  <1>2. new \in Row /\ new.version \in Nat \ {0} /\ new.series \in Uploads
    BY <1>1 DEF Inv, TypeOK, Row
  <1>3. KnowsSeries(r) /\ NextOrTaken(r)
    BY DEF Inv, Numbering
  <1>4. /\ beside \subseteq beside' /\ beside' \subseteq Reruns
        /\ \A t \in Reruns \ {r} :
              pc[t] = "numbered" /\ mem[t].series = new.series => t \in beside'
    BY DEF CommitRerun, Inv, TypeOK
  <1>5. /\ new.rerun_of \in Present /\ Repeats(new)
        /\ row[new.rerun_of].version < new.version
    BY <1>1, <1>3 DEF KnowsSeries, NextOrTaken, Present
  <1>6. pc[new.series] = "created"
    BY <1>1, <1>3 DEF KnowsSeries
  <1>7. ASSUME new.series \notin thinned
        PROVE  new.version = Cardinality(Series(new.series)) + 1
    <2>1. Versions(new.series) = 1..Cardinality(Series(new.series))
      BY <1>2, <1>7 DEF Inv, Numbering, VersionsCount
    <2>2. Cardinality(Series(new.series)) \in Nat
      BY <1>2, FS_CardinalityType DEF Inv, Numbering
    <2>3. new.version <= Cardinality(Series(new.series)) + 1
      BY <1>1, <1>3, <1>7 DEF NextOrTaken
    <2> QED
      BY <1>1, <1>2, <2>1, <2>2, <2>3
  <1> HIDE DEF new
  <1>8. UNCHANGED <<mem, thinned>> /\ pc[r] # "created" /\ r \in Batches
    BY <1>1
  <1> QED
    BY <1>1, <1>2, <1>4, <1>5, <1>6, <1>7, <1>8, InsertInv

-------------------------------------------------------------------------------
(* What becomes of a batch.                                                    *)

LEMMA EndInv ==
    ASSUME Inv, NEW b \in Batches, End(b)
    PROVE  Inv'
  <1> USE DEF Inv
  <1>1. /\ status' \in [Batches -> {"none", "open", "ended", "dead"}]
        /\ Present' = Present /\ UNCHANGED <<row, pc, mem, beside, thinned>>
    BY DEF End, TypeOK, Present
  <1>2. \A s : Series(s)' = Series(s) /\ Versions(s)' = Versions(s)
    BY <1>1 DEF Series, Versions
  <1>3. TypeOK' /\ Bounded'
    BY <1>1, <1>2 DEF TypeOK, Bounded
  <1>4. RepeatsEarlier' /\ VersionsCount' /\ RefusedOnlyBeside'
    BY <1>1, <1>2 DEF Numbering, RepeatsEarlier, VersionsCount, RefusedOnlyBeside
  <1>5. ASSUME NEW r \in Reruns PROVE (KnowsSeries(r) /\ NextOrTaken(r))'
    BY <1>1, <1>2 DEF Numbering, KnowsSeries, NextOrTaken, Repeats, Taken
  <1> QED
    BY <1>1, <1>2, <1>3, <1>4, <1>5 DEF Numbering

\* A deletion takes a batch out of one series, which is thinned from then on.
LEMMA DeleteInv ==
    ASSUME Inv, NEW b \in Batches, Delete(b)
    PROVE  Inv'
  <1> USE DEF Inv
  <1>1. /\ status' \in [Batches -> {"none", "open", "ended", "dead"}]
        /\ b \in Present /\ Present' = Present \ {b} /\ Present \subseteq Batches
        /\ UNCHANGED <<pc, mem, beside>>
    BY DEF Delete, TypeOK, Present
  <1>2. /\ row' \in [Batches -> Row]
        /\ \A d \in Batches : /\ row'[d].series = row[d].series
                              /\ row'[d].version = row[d].version
                              /\ row'[d].comparison = row[d].comparison
                              /\ row'[d].rerun_of \in {row[d].rerun_of, NoBatch} \ {b}
    <2>1. row' = [d \in Batches |-> IF row[d].rerun_of = b
                                      THEN [row[d] EXCEPT !.rerun_of = NoBatch]
                                      ELSE row[d]]
      BY DEF Delete
    <2>2. \A d \in Batches : row[d] \in Row /\ [row[d] EXCEPT !.rerun_of = NoBatch] \in Row
      BY DEF TypeOK, Row
    <2>3. \A d \in Batches : /\ row'[d].series = row[d].series
                             /\ row'[d].version = row[d].version
                             /\ row'[d].comparison = row[d].comparison
                             /\ row'[d].rerun_of \in {row[d].rerun_of, NoBatch} \ {b}
      BY <2>1, <2>2, SubmissionAssumption DEF Row
    <2> QED
      BY <2>1, <2>2, <2>3
  <1>3. /\ thinned' = thinned \cup {row[b].series} /\ row[b].series \in Uploads
        /\ thinned' \subseteq Uploads
    BY DEF Delete, TypeOK, Row
  <1>4. \A s : Series(s)' = Series(s) \ {b}
    BY <1>1, <1>2 DEF Series
  <1>5. \A s : Versions(s)' \subseteq Versions(s)
    BY <1>1, <1>2, <1>4 DEF Versions, Series
  <1>6. ASSUME NEW s, s # row[b].series
        PROVE  Series(s)' = Series(s) /\ Versions(s)' = Versions(s)
    <2>1. Series(s)' = Series(s)
      BY <1>4, <1>6 DEF Series
    <2>2. \A d \in Series(s) : row'[d].version = row[d].version
      BY <1>1, <1>2 DEF Series
    <2> QED
      BY <2>1, <2>2 DEF Versions
  <1>7. TypeOK'
    BY <1>1, <1>2, <1>3 DEF TypeOK
  <1>8. Bounded'
    BY <1>5 DEF Bounded
  <1>9. RepeatsEarlier'
    BY <1>1, <1>2 DEF Numbering, RepeatsEarlier
  <1>10. VersionsCount'
    BY <1>3, <1>6 DEF Numbering, VersionsCount
  <1>11. RefusedOnlyBeside'
    BY <1>1 DEF Numbering, RefusedOnlyBeside
  <1>12. (\A s \in Uploads : IsFiniteSet(Series(s)))'
    <2>1. \A s \in Uploads : Series(s)' \subseteq Series(s) /\ IsFiniteSet(Series(s))
      BY <1>4 DEF Numbering
    <2> QED
      BY <2>1, FS_Subset
  <1>13. (\A d \in Present : pc[row[d].series] = "created")'
    BY <1>1, <1>2 DEF Numbering
  <1>14. ASSUME NEW r \in Reruns PROVE (KnowsSeries(r) /\ NextOrTaken(r))'
    <2>1. KnowsSeries(r) /\ NextOrTaken(r)
      BY DEF Numbering
    <2>2. KnowsSeries(r)'
      BY <1>1, <1>2, <1>3, <2>1 DEF KnowsSeries, Repeats
    <2>3. mem[r].series \notin thinned' => Series(mem[r].series)' = Series(mem[r].series)
      BY <1>1, <1>3, <1>6
    <2>4. NextOrTaken(r)'
      BY <1>1, <1>2, <1>3, <1>5, <2>1, <2>3 DEF NextOrTaken, Taken
    <2> QED
      BY <2>2, <2>4
  <1> QED
    BY <1>7, <1>8, <1>9, <1>10, <1>11, <1>12, <1>13, <1>14 DEF Numbering

-------------------------------------------------------------------------------
(* The theorems.                                                               *)

LEMMA StutterInv == Inv /\ UNCHANGED vars => Inv'
  <1> SUFFICES ASSUME Inv, UNCHANGED vars PROVE Inv'
    OBVIOUS
  <1> USE DEF Inv, vars
  <1>1. /\ Present' = Present
        /\ \A s : Series(s)' = Series(s) /\ Versions(s)' = Versions(s)
    BY Unmoved
  <1>2. TypeOK' /\ Bounded'
    BY <1>1 DEF TypeOK, Bounded
  <1>3. RepeatsEarlier' /\ VersionsCount' /\ RefusedOnlyBeside'
    BY <1>1 DEF Numbering, RepeatsEarlier, VersionsCount, RefusedOnlyBeside
  <1>4. ASSUME NEW r \in Reruns PROVE (KnowsSeries(r) /\ NextOrTaken(r))'
    BY <1>1 DEF Numbering, KnowsSeries, NextOrTaken, Repeats, Taken
  <1> QED
    BY <1>1, <1>2, <1>3, <1>4 DEF Numbering

LEMMA NextInv == Inv /\ [Next]_vars => Inv'
  <1> SUFFICES ASSUME Inv, [Next]_vars PROVE Inv'
    OBVIOUS
  <1>1. Uploads \subseteq Batches /\ Reruns \subseteq Batches
    BY DEF Batches
  <1>2. ASSUME NEW u \in Uploads, AnswerExisting(u) PROVE Inv'
    BY <1>1, <1>2, MoveInv DEF AnswerExisting
  <1>3. ASSUME NEW u \in Uploads, FindNone(u) PROVE Inv'
    BY <1>1, <1>3, MoveInv DEF FindNone
  <1>4. ASSUME NEW u \in Uploads, CommitUpload(u) PROVE Inv'
    BY <1>4, CommitUploadInv
  <1>5. ASSUME NEW r \in Reruns, NEW b \in Batches, ReadPrevious(r, b) PROVE Inv'
    BY <1>5, ReadPreviousInv
  <1>6. ASSUME NEW r \in Reruns, ReadVersion(r) PROVE Inv'
    BY <1>6, ReadVersionInv
  <1>7. ASSUME NEW r \in Reruns, CommitRerun(r) PROVE Inv'
    BY <1>7, CommitRerunInv
  <1>8. ASSUME NEW r \in Reruns, RefuseVersion(r) PROVE Inv'
    <2>1. r \in beside
      BY <1>8 DEF RefuseVersion, Inv, Numbering, NextOrTaken
    <2> QED
      BY <1>1, <1>8, <2>1, MoveInv DEF RefuseVersion
  <1>9. ASSUME NEW q \in Batches, Fail(q) PROVE Inv'
    BY <1>9, MoveInv DEF Fail, InFlight
  <1>10. ASSUME NEW b \in Batches, End(b) PROVE Inv'
    BY <1>10, EndInv
  <1>11. ASSUME NEW b \in Batches, Delete(b) PROVE Inv'
    BY <1>11, DeleteInv
  <1>12. CASE UNCHANGED vars
    BY <1>12, StutterInv
  <1> QED
    BY <1>1, <1>2, <1>3, <1>4, <1>5, <1>6, <1>7, <1>8, <1>9, <1>10, <1>11, <1>12
      DEF Next, UploadStep, RerunStep

LEMMA AlwaysInv == Spec => []Inv
  BY InitInv, NextInv, PTL DEF Spec

\* Every row, request and history is of its kind; only a request that has
\* inserted its batch has one (create_batch_from_upload, rerun_batch).
THEOREM TypeCorrect == Spec => []TypeOK
  <1>1. Inv => TypeOK
    BY DEF Inv
  <1> QED
    BY <1>1, AlwaysInv, PTL

\* What the requests in flight know of the series they add to stays true whatever
\* is inserted or deleted beside them (create_batch_from_upload and rerun_batch).
THEOREM NumberingAlways == Spec => []Numbering
  <1>1. Inv => Numbering
    BY DEF Inv
  <1> QED
    BY <1>1, AlwaysInv, PTL

\* For any number of requests and deletions in any order, a rerun repeats an
\* earlier version of its own series and comparison (rerun_batch).
THEOREM RepeatsEarlierAlways == Spec => []RepeatsEarlier
  <1>1. Inv => RepeatsEarlier
    BY DEF Inv, Numbering
  <1> QED
    BY <1>1, AlwaysInv, PTL

\* A series of which nothing was deleted has the versions 1, 2, 3, ... each once
\* (rerun_batch and uq_batch_series_version).
THEOREM VersionsCountAlways == Spec => []VersionsCount
  <1>1. Inv => VersionsCount
    BY DEF Inv, Numbering
  <1> QED
    BY <1>1, AlwaysInv, PTL

\* A rerun refused by the constraint was overtaken by another of its series.
THEOREM RefusedOnlyBesideAlways == Spec => []RefusedOnlyBeside
  <1>1. Inv => RefusedOnlyBeside
    BY DEF Inv, Numbering
  <1> QED
    BY <1>1, AlwaysInv, PTL
===============================================================================
