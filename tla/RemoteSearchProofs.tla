--------------------------- MODULE RemoteSearchProofs ---------------------------
(* Theorems about RemoteSearch, for any orders, channels, payments and page    *)
(* size, and any number of changes at the remote system.                       *)
EXTENDS RemoteSearch, FiniteSetTheorems, SequenceTheorems, TLAPS

Keeping == INSTANCE Folding WITH Op <- KeepNext

-------------------------------------------------------------------------------
(* The inductive invariants.                                                   *)

\* Before the comparison nothing is searched or decided; afterwards the search
\* is for a payment that has no verdict yet.
Phase ==
    /\ stage \in {"fetch", "incomplete"} =>
          /\ trouble = {}
          /\ \A p \in Payments : verdict[p] = "none"
    /\ stage = "fetch" => lookup = 1 /\ found = <<>> /\ complete
    /\ stage = "recheck" => Undecided # {}

\* Every row that was answered could be answered by then.
Witnessed ==
    /\ \A o \in Listed : Row(o) \in past
    /\ \A i \in DOMAIN fetched : fetched[i] \in past
    /\ \A k \in DOMAIN found : found[k] \in past

\* A payment in trouble is decided or is the one searched, and its search is
\* not complete.
TroubleKnown ==
    \A p \in trouble :
        verdict[p] = "none" => stage = "recheck" /\ p = Current /\ ~complete

\* What lookup number n for p asks, and which orders it can hit.
ChannelAt(p, n) == Channels[((n - 1) \div Len(Fields(p))) + 1]
FieldAt(p, n) == Fields(p)[((n - 1) % Len(Fields(p))) + 1]
HitAt(p, n, o) == IF FieldAt(p, n) = "order_num" THEN OrderNum[o] = MerchantNo[p]
                                                 ELSE OutTradeNo[o] = PlatformNo[p]

\* The orders that the lookups done so far for p could show.
Seen(p) == {o \in Listed : \E n \in 1..Lookups(p) :
                              /\ n < lookup
                              /\ o \in ToSet(list[ChannelAt(p, n)])
                              /\ HitAt(p, n, o)}

\* A complete search has found something if an order that has been listed ever
\* since was within its reach, and it found only orders that the payment names.
SearchSound ==
    stage = "recheck" =>
        /\ steady \subseteq Listed
        /\ \A k \in DOMAIN found : Names(Current, found[k].order)
        /\ complete /\ steady \cap Seen(Current) # {} => DOMAIN found # {}

-------------------------------------------------------------------------------
(* While the remote system stands still.                                       *)

\* A listing shows each order once.
Listings == \A c \in ChannelSet : IsInjective(list[c])

\* rows shows what stands at each place of P, once, as it is now; a place of P
\* comes with the order that it holds.
Shows(rows, P) ==
    \E place :
        /\ \A i \in DOMAIN rows : place[i] \in P /\ rows[i] = Row(place[i][2])
        /\ \A i, j \in DOMAIN rows : place[i] = place[j] => i = j
        /\ \A x \in P : \E i \in DOMAIN rows : place[i] = x

\* The places fetched so far: those of the channels done, and the pages of the
\* channel that is fetched.
Listing == Kept(list[Channels[at]], Queried)
Earlier(a) ==
    {x \in (1..Len(Channels)) \X Queried : x[1] < a /\ x[2] \in ToSet(list[Channels[x[1]]])}
FirstOf(c, all, n) == {<<c, all[i]>> : i \in {j \in DOMAIN all : j <= n}}
FetchedPlaces ==
    Earlier(at) \cup
    (IF at <= Len(Channels) THEN FirstOf(at, Listing, (page - 1) * PageSize) ELSE {})

\* What is found holds, under its key, one of the orders of S with that key.
Files(S) ==
    /\ \A k \in DOMAIN found : /\ k = Key(found[k].order)
                               /\ found[k].order \in S /\ found[k] = Row(found[k].order)
    /\ \A o \in S : Key(o) \in DOMAIN found

Faithful ==
    moves = 0 =>
        /\ Listings
        /\ stage = "fetch" =>
              /\ Shows(fetched, FetchedPlaces)
              /\ at <= Len(Channels) => (page - 1) * PageSize <= Len(Listing)
        /\ stage = "recheck" =>
              \A p \in Payments :
                  verdict[p] = "none" => Places(p, Queried \cap InWindow) = {}
        /\ stage = "recheck" /\ Current \notin trouble =>
              complete /\ Files(Seen(Current))

-------------------------------------------------------------------------------
(* The elements kept of a sequence.                                            *)

LEMMA KeptSteps ==
    ASSUME NEW T, NEW s \in Seq(T), NEW S
    PROVE  \E f : /\ f[0] = <<>>
                  /\ \A k \in 0..(Len(s) - 1) : f[k + 1] = KeepNext(S, f[k], s[k + 1])
                  /\ Kept(s, S) = f[Len(s)]
  <1>1. Kept(s, S) = Keeping!Folded(S, <<>>, s)
    BY DEF Kept, Keeping!Folded, FoldLeft, MapThenFoldSet, Keeping!FoldLeft,
           Keeping!MapThenFoldSet, Max, Keeping!Max
  <1>2. Len(s) \in Nat /\ DOMAIN s = 1..Len(s)
    OBVIOUS
  <1> QED
    BY <1>1, <1>2, Keeping!FoldSteps

\* Of s stays what is in S, and what is in s once stays once.
LEMMA KeptIs ==
    ASSUME NEW T, NEW s \in Seq(T), NEW S
    PROVE  /\ Kept(s, S) \in Seq(T \cap S)
           /\ ToSet(Kept(s, S)) = ToSet(s) \cap S
           /\ IsInjective(s) => IsInjective(Kept(s, S))
  <1>1. PICK f : /\ f[0] = <<>>
                 /\ \A k \in 0..(Len(s) - 1) : f[k + 1] = KeepNext(S, f[k], s[k + 1])
                 /\ Kept(s, S) = f[Len(s)]
    BY KeptSteps
  <1> DEFINE P(k) == /\ f[k] \in Seq(T \cap S)
                     /\ ToSet(f[k]) = {s[i] : i \in 1..k} \cap S
                     /\ IsInjective(s) => IsInjective(f[k])
             Ks == {k \in Nat : k <= Len(s) => P(k)}
  <1>2. 0 \in Ks
    <2>1. ToSet(<<>>) = {} /\ IsInjective(<<>>)
      BY DEF ToSet, IsInjective
    <2>2. <<>> \in Seq(T \cap S)
      OBVIOUS
    <2>3. {s[i] : i \in 1..0} = {}
      OBVIOUS
    <2> QED
      BY <1>1, <2>1, <2>2, <2>3
  <1>3. ASSUME NEW k \in Nat, k \in Ks PROVE k + 1 \in Ks
    <2> SUFFICES ASSUME k + 1 <= Len(s) PROVE P(k + 1)
      OBVIOUS
    <2> DEFINE x == s[k + 1]
               g == f[k]
    <2>1. P(k) /\ k \in 0..(Len(s) - 1) /\ k + 1 \in 1..Len(s)
      BY <1>3
    <2>2. f[k + 1] = IF x \in S THEN Append(g, x) ELSE g
      BY <1>1, <2>1 DEF KeepNext
    <2>3. x \in T
      BY <2>1
    <2>4. {s[i] : i \in 1..(k + 1)} = {s[i] : i \in 1..k} \cup {x}
      <3>1. 1..(k + 1) = (1..k) \cup {k + 1}
        OBVIOUS
      <3> QED
        BY <3>1
    <2>5. CASE x \notin S
      BY <2>1, <2>2, <2>4, <2>5
    <2>6. CASE x \in S
      <3>1. g \in Seq(T \cap S) /\ x \in T \cap S
        BY <2>1, <2>3, <2>6
      <3> HIDE DEF g
      <3>2. /\ Append(g, x) \in Seq(T \cap S)
            /\ DOMAIN Append(g, x) = 1..(Len(g) + 1)
            /\ \A i \in 1..Len(g) : Append(g, x)[i] = g[i]
            /\ Append(g, x)[Len(g) + 1] = x
            /\ DOMAIN g = 1..Len(g) /\ Len(g) \in Nat
        BY <3>1
      <3>3. 1..(Len(g) + 1) = (1..Len(g)) \cup {Len(g) + 1}
        BY <3>2
      <3>4. ToSet(Append(g, x)) = ToSet(g) \cup {x}
        BY <3>2, <3>3 DEF ToSet
      <3>5. IsInjective(s) => x \notin ToSet(g)
        <4>1. \A i \in 1..k : i \in DOMAIN s /\ k + 1 \in DOMAIN s /\ i # k + 1
          BY <2>1
        <4>2. ToSet(g) \subseteq {s[i] : i \in 1..k}
          BY <2>1 DEF g
        <4> QED
          BY <4>1, <4>2 DEF IsInjective
      <3>6. ASSUME IsInjective(s) PROVE IsInjective(Append(g, x))
        <4>1. IsInjective(g)
          BY <2>1, <3>6 DEF g
        <4>2. \A i \in 1..Len(g) : g[i] # x
          BY <3>2, <3>5, <3>6 DEF ToSet
        <4> QED
          BY <3>2, <3>3, <4>1, <4>2 DEF IsInjective
      <3>7. f[k + 1] = Append(g, x)
        BY <2>2, <2>6 DEF g
      <3>8. ToSet(f[k + 1]) = {s[i] : i \in 1..(k + 1)} \cap S
        BY <2>1, <2>4, <2>6, <3>4, <3>7 DEF g
      <3> QED
        BY <3>2, <3>6, <3>7, <3>8
    <2> QED
      BY <2>5, <2>6
  <1>4. \A k \in Nat : k \in Ks
    <2> HIDE DEF Ks
    <2> QED
      BY <1>2, <1>3, Keeping!SetInduction
  <1>5. Len(s) \in Nat /\ ToSet(s) = {s[i] : i \in 1..Len(s)}
    BY DEF ToSet
  <1>6. P(Len(s))
    <2>1. Len(s) \in Ks
      BY <1>4, <1>5
    <2> QED
      BY <2>1, <1>5
  <1> QED
    BY <1>1, <1>5, <1>6

\* Each element that stays has its place in s, those that are there twice too.
LEMMA KeptPlaces ==
    ASSUME NEW T, NEW s \in Seq(T), NEW S
    PROVE  \E g : /\ \A i \in DOMAIN Kept(s, S) : /\ g[i] \in DOMAIN s
                                                  /\ Kept(s, S)[i] = s[g[i]]
                  /\ \A i, j \in DOMAIN Kept(s, S) : g[i] = g[j] => i = j
                  /\ \A j \in DOMAIN s : s[j] \in S => \E i \in DOMAIN Kept(s, S) : g[i] = j
  <1>1. PICK f : /\ f[0] = <<>>
                 /\ \A k \in 0..(Len(s) - 1) : f[k + 1] = KeepNext(S, f[k], s[k + 1])
                 /\ Kept(s, S) = f[Len(s)]
    BY KeptSteps
  <1> DEFINE Stands(g, t, k) ==
                 /\ \A i \in DOMAIN t : g[i] \in 1..k /\ t[i] = s[g[i]]
                 /\ \A i, j \in DOMAIN t : g[i] = g[j] => i = j
                 /\ \A j \in 1..k : s[j] \in S => \E i \in DOMAIN t : g[i] = j
             P(k) == f[k] \in Seq(T) /\ \E g : Stands(g, f[k], k)
             Ks == {k \in Nat : k <= Len(s) => P(k)}
  <1>2. 0 \in Ks
    <2>1. <<>> \in Seq(T) /\ DOMAIN <<>> = {} /\ 1..0 = {}
      OBVIOUS
    <2>2. Stands(<<>>, <<>>, 0)
      BY <2>1
    <2> QED
      BY <1>1, <2>1, <2>2
  <1>3. ASSUME NEW k \in Nat, k \in Ks PROVE k + 1 \in Ks
    <2> SUFFICES ASSUME k + 1 <= Len(s) PROVE P(k + 1)
      OBVIOUS
    <2> DEFINE x == s[k + 1]
               t == f[k]
    <2>1. P(k) /\ k \in 0..(Len(s) - 1) /\ k + 1 \in 1..Len(s)
      BY <1>3
    <2>2. f[k + 1] = IF x \in S THEN Append(t, x) ELSE t
      BY <1>1, <2>1 DEF KeepNext
    <2>3. PICK g : Stands(g, t, k)
      BY <2>1
    <2>4. 1..(k + 1) = (1..k) \cup {k + 1} /\ k + 1 \notin 1..k
      OBVIOUS
    <2>5. CASE x \notin S
      <3>1. Stands(g, t, k + 1)
        BY <2>3, <2>4, <2>5
      <3> QED
        BY <2>1, <2>2, <2>5, <3>1
    <2>6. CASE x \in S
      <3>1. t \in Seq(T) /\ x \in T
        BY <2>1
      <3> HIDE DEF t
      <3> DEFINE n == Len(t)
                 u == Append(t, x)
                 h == [i \in 1..(n + 1) |-> IF i = n + 1 THEN k + 1 ELSE g[i]]
      <3>2. /\ u \in Seq(T) /\ DOMAIN u = 1..(n + 1) /\ DOMAIN t = 1..n /\ n \in Nat
            /\ \A i \in 1..n : u[i] = t[i]
            /\ u[n + 1] = x
        BY <3>1
      <3>3. 1..(n + 1) = (1..n) \cup {n + 1} /\ n + 1 \notin 1..n
        BY <3>2
      <3> HIDE DEF n, u, x
      <3>4. /\ \A i \in 1..n : h[i] = g[i] /\ h[i] \in 1..k /\ u[i] = s[h[i]]
            /\ h[n + 1] = k + 1 /\ u[n + 1] = s[h[n + 1]]
        BY <2>3, <3>2, <3>3 DEF x
      <3> HIDE DEF h
      <3>5. \A i \in DOMAIN u : h[i] \in 1..(k + 1) /\ u[i] = s[h[i]]
        BY <2>4, <3>2, <3>3, <3>4
      <3>6. \A i, j \in DOMAIN u : h[i] = h[j] => i = j
        BY <2>3, <2>4, <3>2, <3>3, <3>4
      <3>7. \A j \in 1..(k + 1) : s[j] \in S => \E i \in DOMAIN u : h[i] = j
        BY <2>3, <2>4, <3>2, <3>3, <3>4
      <3>8. Stands(h, u, k + 1)
        BY <3>5, <3>6, <3>7
      <3>9. f[k + 1] = u
        BY <2>2, <2>6 DEF u, t, x
      <3> QED
        BY <3>2, <3>8, <3>9
    <2> QED
      BY <2>5, <2>6
  <1>4. \A k \in Nat : k \in Ks
    <2> HIDE DEF Ks
    <2> QED
      BY <1>2, <1>3, Keeping!SetInduction
  <1>5. Len(s) \in Nat /\ DOMAIN s = 1..Len(s)
    OBVIOUS
  <1>6. P(Len(s))
    <2>1. Len(s) \in Ks
      BY <1>4, <1>5
    <2> QED
      BY <2>1, <1>5
  <1>7. PICK g : Stands(g, f[Len(s)], Len(s))
    BY <1>6
  <1>8. Stands(g, Kept(s, S), Len(s))
    <2>1. Kept(s, S) = f[Len(s)]
      BY <1>1
    <2> HIDE DEF Stands
    <2> QED
      BY <1>7, <2>1
  <1>9. /\ \A i \in DOMAIN Kept(s, S) : g[i] \in DOMAIN s /\ Kept(s, S)[i] = s[g[i]]
        /\ \A i, j \in DOMAIN Kept(s, S) : g[i] = g[j] => i = j
        /\ \A j \in DOMAIN s : s[j] \in S => \E i \in DOMAIN Kept(s, S) : g[i] = j
    BY <1>5, <1>8
  <1> QED
    BY <1>9, Zenon

-------------------------------------------------------------------------------
(* Pages of an answer.                                                         *)

LEMMA PageArithmetic ==
    ASSUME NEW n \in Nat \ {0}, NEW k \in Nat
    PROVE  LET pages == (k + PageSize - 1) \div PageSize
           IN /\ pages \in Nat
              /\ n * PageSize = (n - 1) * PageSize + PageSize
              /\ (n - 1) * PageSize \in Nat
              /\ n < pages => n * PageSize < k
              /\ n >= pages => n * PageSize >= k
  <1> DEFINE P == PageSize
             q == (k + P - 1) \div P
             a == n * P
  <1>1. P \in Nat \ {0} /\ k + P - 1 \in Nat
    BY RemoteAssumption
  <1> HIDE DEF P
  <1>2. q \in Nat /\ P * q <= k + P - 1 /\ k + P - 1 < P * (q + 1)
    BY <1>1
  <1>3. n * P = (n - 1) * P + P /\ (n - 1) * P \in Nat /\ a \in Nat
    BY <1>1
  <1>4. ASSUME n < q PROVE a < k
    <2>1. P * (n + 1) <= P * q
      BY <1>1, <1>2, <1>4
    <2>2. P * (n + 1) = a + P
      BY <1>1
    <2> QED
      BY <1>1, <1>2, <1>3, <2>1, <2>2
  <1>5. ASSUME n >= q PROVE a >= k
    <2>1. P * (q + 1) <= P * (n + 1)
      BY <1>1, <1>2, <1>5
    <2>2. P * (n + 1) = a + P
      BY <1>1
    <2>3. P * (q + 1) \in Nat
      BY <1>1, <1>2
    <2> QED
      BY <1>1, <1>2, <1>3, <2>1, <2>2, <2>3
  <1> QED
    BY <1>2, <1>3, <1>4, <1>5 DEF P

\* Page n of an answer holds the rows of the orders from (n - 1) * PageSize + 1
\* on, up to a full page; a page that is not the last one is full.
LEMMA AnswerIs ==
    ASSUME NEW all \in Seq(Orders), NEW n \in Nat \ {0}, settled \subseteq Orders
    PROVE  LET answer == Answer(all, n)
               from == (n - 1) * PageSize
               to == IF n * PageSize < Len(all) THEN n * PageSize ELSE Len(all)
           IN /\ answer.rows \in Seq(Rows)
              /\ answer.total = Len(all)
              /\ Len(answer.rows) = IF from < to THEN to - from ELSE 0
              /\ DOMAIN answer.rows = 1..Len(answer.rows)
              /\ \A i \in DOMAIN answer.rows :
                    from + i \in DOMAIN all /\ answer.rows[i] = Row(all[from + i])
              /\ from < Len(all) => from < to
              /\ n < answer.pages => to = n * PageSize
              /\ n >= answer.pages => to = Len(all)
              /\ answer.pages \in Nat
  <1> DEFINE from == (n - 1) * PageSize
             full == n * PageSize
             to == IF full < Len(all) THEN full ELSE Len(all)
             pages == (Len(all) + PageSize - 1) \div PageSize
             part == SubSeq(all, from + 1, to)
             rows == [i \in DOMAIN part |-> Row(part[i])]
  <1>1. Len(all) \in Nat /\ PageSize \in Nat \ {0} /\ DOMAIN all = 1..Len(all)
    BY RemoteAssumption
  <1>2. /\ pages \in Nat
        /\ full = from + PageSize
        /\ from \in Nat
        /\ n < pages => full < Len(all)
        /\ n >= pages => full >= Len(all)
    BY <1>1, PageArithmetic
  <1>3. Answer(all, n) = [rows |-> rows, total |-> Len(all), pages |-> pages]
    BY DEF Answer
  <1> HIDE DEF from, full, pages
  <1>4. to \in Nat /\ to <= Len(all)
    BY <1>1, <1>2
  <1>5. \A i \in (from + 1)..to : all[i] \in Orders
    BY <1>1, <1>2, <1>4
  <1> HIDE DEF to
  <1>6. /\ part \in Seq(Orders)
        /\ Len(part) = IF from + 1 <= to THEN to - (from + 1) + 1 ELSE 0
        /\ \A i \in 1..(to - (from + 1) + 1) : part[i] = all[(from + 1) + i - 1]
    BY <1>2, <1>4, <1>5, SubSeqProperties
  <1> HIDE DEF part
  <1>7. Len(part) = (IF from < to THEN to - from ELSE 0) /\ DOMAIN part = 1..Len(part)
    BY <1>2, <1>4, <1>6
  <1>8. \A i \in DOMAIN part : from + i \in DOMAIN all /\ part[i] = all[from + i]
    BY <1>1, <1>2, <1>4, <1>6, <1>7
  <1>9. \A o \in Orders : Row(o) \in Rows
    BY DEF Row, Rows
  <1>10. rows \in Seq(Rows) /\ Len(rows) = Len(part) /\ DOMAIN rows = DOMAIN part
    <2>1. \A i \in DOMAIN part : rows[i] \in Rows
      BY <1>6, <1>9
    <2>2. Len(part) \in Nat
      BY <1>6
    <2>3. rows \in [1..Len(part) -> Rows]
      BY <1>7, <2>1
    <2>4. rows \in Seq(Rows)
      BY <2>2, <2>3
    <2> QED
      BY <1>7, <2>2, <2>3, <2>4
  <1>11. from < Len(all) => from < to
    BY <1>1, <1>2 DEF to
  <1>12. (n < pages => to = full) /\ (n >= pages => to = Len(all))
    <2>1. full >= Len(all) => ~(full < Len(all))
      BY <1>1, <1>2
    <2>2. full < Len(all) => to = full
      BY DEF to
    <2>3. ~(full < Len(all)) => to = Len(all)
      BY DEF to
    <2> QED
      BY <1>2, <2>1, <2>2, <2>3
  <1> QED
    BY <1>2, <1>3, <1>7, <1>8, <1>10, <1>11, <1>12 DEF from, full, to

-------------------------------------------------------------------------------
(* The lookups of one payment.                                                 *)

LEMMA CurrentIs ==
    ASSUME Undecided # {}
    PROVE  /\ Current \in Payments /\ Current \in Undecided
           /\ \A q \in Undecided : Current <= q
  <1>1. Undecided \in SUBSET Nat
    BY RemoteAssumption DEF Undecided
  <1>2. \E p \in Undecided : \A q \in Undecided : p <= q
    BY <1>1, Keeping!LeastNatural
  <1>3. Current \in Undecided /\ \A q \in Undecided : Current <= q
    BY <1>2 DEF Current
  <1> QED
    BY <1>3 DEF Undecided

LEMMA FieldsAre ==
    ASSUME NEW p
    PROVE  \/ /\ PlatformNo[p] = NoNumber
              /\ Len(Fields(p)) = 1 /\ Fields(p)[1] = "order_num"
           \/ /\ PlatformNo[p] # NoNumber
              /\ Len(Fields(p)) = 2
              /\ Fields(p)[1] = "order_num" /\ Fields(p)[2] = "out_trade_no"
  BY DEF Fields

LEMMA ChannelsAre ==
    /\ Len(Channels) \in Nat
    /\ DOMAIN Channels = 1..Len(Channels)
    /\ \A i \in 1..Len(Channels) : Channels[i] \in ChannelSet
    /\ \A c \in ChannelSet : \E i \in 1..Len(Channels) : Channels[i] = c
  BY RemoteAssumption DEF ChannelSet, ToSet

\* Each lookup asks a selected channel for a number that the payment has.
LEMMA LookupIs ==
    ASSUME NEW p, NEW n \in 1..Lookups(p)
    PROVE  /\ ChannelAt(p, n) \in ChannelSet
           /\ \A o : HitAt(p, n, o) => Names(p, o)
  <1> DEFINE C == Len(Channels)
  <1>1. C \in Nat
    BY ChannelsAre
  <1>2. CASE PlatformNo[p] = NoNumber
    <2>1. Len(Fields(p)) = 1 /\ Fields(p)[1] = "order_num"
      BY <1>2, FieldsAre
    <2>2. n \in 1..C
      BY <1>1, <2>1 DEF Lookups
    <2>3. ((n - 1) \div 1) + 1 = n /\ ((n - 1) % 1) + 1 = 1
      BY <1>1, <2>2
    <2>4. FieldAt(p, n) = "order_num" /\ ChannelAt(p, n) = Channels[n]
      BY <2>1, <2>3 DEF FieldAt, ChannelAt
    <2> QED
      BY <2>2, <2>4, ChannelsAre DEF HitAt, Names
  <1>3. CASE PlatformNo[p] # NoNumber
    <2>1. Len(Fields(p)) = 2 /\ Fields(p)[1] = "order_num" /\ Fields(p)[2] = "out_trade_no"
      BY <1>3, FieldsAre
    <2>2. n \in 1..(C * 2)
      BY <2>1 DEF Lookups
    <2> DEFINE k == ((n - 1) \div 2) + 1
               f == ((n - 1) % 2) + 1
    <2>3. k \in 1..C /\ f \in {1, 2}
      BY <1>1, <2>2
    <2>4. FieldAt(p, n) = Fields(p)[f] /\ ChannelAt(p, n) = Channels[k]
      BY <2>1 DEF FieldAt, ChannelAt
    <2> HIDE DEF k, f
    <2>5. FieldAt(p, n) \in {"order_num", "out_trade_no"}
      BY <2>1, <2>3, <2>4
    <2> QED
      BY <1>3, <2>3, <2>4, <2>5, ChannelsAre DEF HitAt, Names
  <1> QED
    BY <1>2, <1>3

\* Every number of the payment is asked for in every selected channel.
LEMMA LookupsCover ==
    ASSUME NEW p, NEW c \in ChannelSet, NEW o, Names(p, o)
    PROVE  \E n \in 1..Lookups(p) : ChannelAt(p, n) = c /\ HitAt(p, n, o)
  <1> DEFINE C == Len(Channels)
  <1>1. PICK i \in 1..C : Channels[i] = c
    BY ChannelsAre
  <1>2. C \in Nat
    BY ChannelsAre
  <1>3. CASE PlatformNo[p] = NoNumber
    <2>1. Len(Fields(p)) = 1 /\ Fields(p)[1] = "order_num"
      BY <1>3, FieldsAre
    <2>2. i \in 1..Lookups(p)
      BY <1>2, <2>1 DEF Lookups
    <2>3. ((i - 1) \div 1) + 1 = i /\ ((i - 1) % 1) + 1 = 1
      BY <1>2
    <2>4. FieldAt(p, i) = "order_num" /\ ChannelAt(p, i) = c
      BY <1>1, <2>1, <2>3 DEF FieldAt, ChannelAt
    <2>5. HitAt(p, i, o)
      BY <1>3, <2>4 DEF HitAt, Names
    <2> QED
      BY <2>2, <2>4, <2>5
  <1>4. CASE PlatformNo[p] # NoNumber
    <2>1. Len(Fields(p)) = 2 /\ Fields(p)[1] = "order_num" /\ Fields(p)[2] = "out_trade_no"
      BY <1>4, FieldsAre
    <2> DEFINE n == 2 * (i - 1) + 1
    <2>2. n \in 1..Lookups(p) /\ n + 1 \in 1..Lookups(p)
      BY <1>2, <2>1 DEF Lookups
    <2>3. /\ ((n - 1) \div 2) + 1 = i /\ ((n - 1) % 2) + 1 = 1
          /\ (((n + 1) - 1) \div 2) + 1 = i /\ (((n + 1) - 1) % 2) + 1 = 2
      BY <1>2
    <2> HIDE DEF n
    <2>4. /\ FieldAt(p, n) = "order_num" /\ ChannelAt(p, n) = c
          /\ FieldAt(p, n + 1) = "out_trade_no" /\ ChannelAt(p, n + 1) = c
      BY <1>1, <2>1, <2>3 DEF FieldAt, ChannelAt
    <2>5. HitAt(p, n, o) \/ HitAt(p, n + 1, o)
      BY <1>4, <2>4 DEF HitAt, Names
    <2> QED
      BY <2>2, <2>4, <2>5
  <1> QED
    BY <1>3, <1>4

\* So after all lookups every listed order that the payment names was in reach.
LEMMA SeenIsAll ==
    ASSUME NEW p, lookup \in Nat, lookup > Lookups(p)
    PROVE  Seen(p) = Holding(p)
  <1>1. Lookups(p) \in Nat
    BY ChannelsAre, FieldsAre DEF Lookups
  <1>2. \A n \in 1..Lookups(p) : n < lookup
    BY <1>1
  <1>3. Seen(p) \subseteq Holding(p)
    BY LookupIs DEF Seen, Holding, Listed
  <1>4. ASSUME NEW o \in Holding(p) PROVE o \in Seen(p)
    <2>1. o \in Listed /\ Names(p, o)
      BY DEF Holding
    <2>2. PICK c \in ChannelSet : o \in ToSet(list[c])
      BY <2>1 DEF Listed, ToSet
    <2>3. PICK n \in 1..Lookups(p) : ChannelAt(p, n) = c /\ HitAt(p, n, o)
      BY <2>1, <2>2, LookupsCover
    <2> QED
      BY <1>2, <2>1, <2>2, <2>3 DEF Seen
  <1> QED
    BY <1>3, <1>4

\* What is filed: the last row of each key, and what was found under the others.
LEMMA FiledIs ==
    ASSUME NEW rows \in Seq(Rows)
    PROVE  LET keys == {Key(rows[i].order) : i \in DOMAIN rows}
               filed == Filed(rows)
           IN /\ DOMAIN filed = DOMAIN found \cup keys
              /\ \A k \in keys : \E i \in DOMAIN rows :
                    Key(rows[i].order) = k /\ filed[k] = rows[i]
              /\ \A k \in DOMAIN found \ keys : filed[k] = found[k]
  <1> DEFINE keys == {Key(rows[i].order) : i \in DOMAIN rows}
             last(k) == CHOOSE i \in DOMAIN rows :
                           /\ Key(rows[i].order) = k
                           /\ \A j \in DOMAIN rows : Key(rows[j].order) = k => j <= i
  <1>1. Filed(rows) = [k \in DOMAIN found \cup keys |->
                          IF k \in keys THEN rows[last(k)] ELSE found[k]]
    BY DEF Filed
  <1>2. ASSUME NEW k \in keys
        PROVE  last(k) \in DOMAIN rows /\ Key(rows[last(k)].order) = k
    <2> DEFINE I == {i \in DOMAIN rows : Key(rows[i].order) = k}
    <2>1. Len(rows) \in Nat /\ I \in SUBSET (0..Len(rows)) /\ I # {}
      BY <1>2
    <2>2. \E i \in I : \A j \in I : j <= i
      <3> HIDE DEF I
      <3> QED
        BY <2>1, Keeping!GreatestNatural
    <2>3. \E i \in DOMAIN rows :
             /\ Key(rows[i].order) = k
             /\ \A j \in DOMAIN rows : Key(rows[j].order) = k => j <= i
      BY <2>2
    <2> QED
      BY <2>3
  <1> HIDE DEF keys, last
  <1> QED
    BY <1>1, <1>2 DEF keys

-------------------------------------------------------------------------------
(* The verdict on one payment.                                                 *)

LEMMA EvaluateType ==
    ASSUME NEW p, NEW row, NEW match
    PROVE  Evaluate(p, row, match) \in {"amount_mismatch", "remote_status_not_success", match}
  BY DEF Evaluate

LEMMA CompareType ==
    ASSUME NEW p, NEW rows, NEW match
    PROVE  Compare(p, rows, match) \in {"amount_mismatch", "remote_status_not_success",
                                        "order_reference_conflict", "none", match}
  <1> DEFINE primary == {i \in DOMAIN rows : OrderNum[rows[i].order] = MerchantNo[p]}
             secondary == {i \in DOMAIN rows : OutTradeNo[rows[i].order] = PlatformNo[p]}
             exact == IF PlatformNo[p] = NoNumber THEN primary ELSE primary \cap secondary
             e == Evaluate(p, rows[CHOOSE i \in exact : TRUE], match)
  <1>1. e \in {"amount_mismatch", "remote_status_not_success", match}
    BY EvaluateType
  <1>2. Compare(p, rows, match) = CASE Cardinality(exact) = 1 -> e
             [] Cardinality(exact) # 1 /\ primary \cup secondary # {} ->
                   "order_reference_conflict"
             [] OTHER -> "none"
    BY DEF Compare
  <1> HIDE DEF e, exact, primary, secondary
  <1> QED
    BY <1>1, <1>2

LEMMA OrdersFinite == IsFiniteSet(Orders)
  BY RemoteAssumption DEF IsFiniteSet, ToSet

\* A payment without a counterpart among the rows is named by none of them.
LEMMA NoneNamed ==
    ASSUME NEW p, NEW rows, NEW match,
           match # "none", Compare(p, rows, match) = "none"
    PROVE  \A i \in DOMAIN rows : ~Names(p, rows[i].order)
  <1> DEFINE primary == {i \in DOMAIN rows : OrderNum[rows[i].order] = MerchantNo[p]}
             secondary == {i \in DOMAIN rows : OutTradeNo[rows[i].order] = PlatformNo[p]}
             exact == IF PlatformNo[p] = NoNumber THEN primary ELSE primary \cap secondary
             e == Evaluate(p, rows[CHOOSE i \in exact : TRUE], match)
             one == Cardinality(exact) = 1
             any == primary \cup secondary # {}
  <1>1. e # "none"
    BY EvaluateType
  <1>2. Compare(p, rows, match) = CASE one -> e
             [] ~one /\ any -> "order_reference_conflict"
             [] OTHER -> "none"
    BY DEF Compare
  <1>3. ~any
    <2> HIDE DEF e, one, any
    <2> QED
      BY <1>1, <1>2
  <1> QED
    BY <1>3 DEF Names

\* Who is matched is matched by a row that bears its numbers and its amount, and
\* its success if it has been paid.
LEMMA MatchedBy ==
    ASSUME NEW p, NEW rows, NEW match \in {"matched", "matched_after_recheck"},
           \A i \in DOMAIN rows : rows[i].success \in BOOLEAN,
           Compare(p, rows, match) = match
    PROVE  \E i \in DOMAIN rows :
              /\ OrderNum[rows[i].order] = MerchantNo[p]
              /\ PlatformNo[p] = NoNumber \/ OutTradeNo[rows[i].order] = PlatformNo[p]
              /\ Amount[rows[i].order] = Due[p]
              /\ Paid[p] => rows[i].success
  <1> DEFINE primary == {i \in DOMAIN rows : OrderNum[rows[i].order] = MerchantNo[p]}
             secondary == {i \in DOMAIN rows : OutTradeNo[rows[i].order] = PlatformNo[p]}
             exact == IF PlatformNo[p] = NoNumber THEN primary ELSE primary \cap secondary
             i0 == CHOOSE i \in exact : TRUE
             e == Evaluate(p, rows[i0], match)
             one == Cardinality(exact) = 1
             any == primary \cup secondary # {}
  <1>1. Compare(p, rows, match) = CASE one -> e
             [] ~one /\ any -> "order_reference_conflict"
             [] OTHER -> "none"
    BY DEF Compare
  <1>2. one /\ e = match
    <2> HIDE DEF e, one, any
    <2> QED
      BY <1>1
  <1>3. exact # {}
    <2> HIDE DEF exact
    <2> QED
      BY <1>2, FS_EmptySet
  <1>4. i0 \in exact
    BY <1>3
  <1>5. /\ i0 \in DOMAIN rows
        /\ OrderNum[rows[i0].order] = MerchantNo[p]
        /\ PlatformNo[p] = NoNumber \/ OutTradeNo[rows[i0].order] = PlatformNo[p]
    BY <1>4
  <1> HIDE DEF i0, exact
  <1>6. Amount[rows[i0].order] = Due[p] /\ (Paid[p] => rows[i0].success)
    BY <1>2 DEF Evaluate
  <1> QED
    BY <1>5, <1>6

\* On rows that show what stands at some places, the comparison says what those
\* places say that hold an order the payment names.
LEMMA CompareSays ==
    ASSUME NEW p, NEW rows, NEW match, NEW P, IsFiniteSet(P),
           \A x \in P : x[2] \in Orders, Shows(rows, P)
    PROVE  LET H == {x \in P : Names(p, x[2])}
           IN Compare(p, rows, match) = IF H = {} THEN "none" ELSE Said(p, H, match)
  <1> DEFINE primary == {i \in DOMAIN rows : OrderNum[rows[i].order] = MerchantNo[p]}
             secondary == {i \in DOMAIN rows : OutTradeNo[rows[i].order] = PlatformNo[p]}
             exact == IF PlatformNo[p] = NoNumber THEN primary ELSE primary \cap secondary
             H == {x \in P : Names(p, x[2])}
             meant == {x \in H : /\ OrderNum[x[2]] = MerchantNo[p]
                                 /\ PlatformNo[p] = NoNumber \/ OutTradeNo[x[2]] = PlatformNo[p]}
  <1>0. PICK place :
            /\ \A i \in DOMAIN rows : place[i] \in P /\ rows[i] = Row(place[i][2])
            /\ \A i, j \in DOMAIN rows : place[i] = place[j] => i = j
            /\ \A x \in P : \E i \in DOMAIN rows : place[i] = x
    BY DEF Shows
  <1>1. IsFiniteSet(DOMAIN rows)
    <2> DEFINE f == [i \in DOMAIN rows |-> place[i]]
    <2>1. f \in Injection(DOMAIN rows, P)
      BY <1>0 DEF Injection, IsInjective
    <2> HIDE DEF f
    <2> QED
      BY <2>1, FS_Injection
  <1>2. IsFiniteSet(exact) /\ IsFiniteSet(meant)
    <2>1. exact \in SUBSET DOMAIN rows /\ meant \in SUBSET P
      OBVIOUS
    <2> HIDE DEF exact, meant
    <2> QED
      BY <1>1, <2>1, FS_Subset
  <1>3. \A i \in DOMAIN rows : /\ place[i] \in P /\ place[i][2] \in Orders
                               /\ rows[i] = Row(place[i][2])
                               /\ rows[i].order = place[i][2]
    BY <1>0 DEF Row
  <1>4. \A i \in DOMAIN rows : i \in exact <=> place[i] \in meant
    BY <1>3 DEF Names
  <1>5. primary \cup secondary = {i \in DOMAIN rows : place[i] \in H}
    BY <1>3, RemoteAssumption DEF Names
  <1>6. primary \cup secondary = {} <=> H = {}
    <2>1. \A x \in H : \E i \in DOMAIN rows : place[i] = x
      BY <1>0
    <2> HIDE DEF primary, secondary, H
    <2> QED
      BY <1>5, <2>1
  <1>7. exact # {} => H # {}
    BY <1>3, <1>4
  <1>8. ASSUME NEW i, exact = {i} PROVE meant = {place[i]}
    <2>1. meant \subseteq P /\ exact \subseteq DOMAIN rows
      OBVIOUS
    <2> HIDE DEF exact, meant
    <2>2. \A x \in meant : \E j \in exact : place[j] = x
      BY <1>0, <1>4, <2>1
    <2> QED
      BY <1>4, <1>8, <2>1, <2>2
  <1>9. ASSUME NEW x, meant = {x}
        PROVE  \E i \in DOMAIN rows : exact = {i} /\ place[i] = x
    <2>1. x \in P /\ exact \subseteq DOMAIN rows
      BY <1>9
    <2>2. PICK i \in DOMAIN rows : place[i] = x
      BY <1>0, <2>1
    <2> HIDE DEF exact, meant
    <2>3. exact = {i}
      BY <1>0, <1>4, <1>9, <2>1, <2>2
    <2> QED
      BY <2>2, <2>3
  <1>10. Cardinality(exact) = 1 <=> Cardinality(meant) = 1
    <2> HIDE DEF exact, meant
    <2>1. Cardinality(exact) = 1 <=> \E i : exact = {i}
      BY <1>2, FS_Singleton
    <2>2. Cardinality(meant) = 1 <=> \E x : meant = {x}
      BY <1>2, FS_Singleton
    <2> QED
      BY <1>8, <1>9, <2>1, <2>2
  <1> DEFINE one == Cardinality(exact) = 1
             e == Evaluate(p, rows[CHOOSE i \in exact : TRUE], match)
             any == primary \cup secondary # {}
  <1>11. Compare(p, rows, match) = CASE one -> e
             [] ~one /\ any -> "order_reference_conflict"
             [] OTHER -> "none"
    BY DEF Compare
  <1>12. Said(p, H, match) = IF Cardinality(meant) = 1
                               THEN Evaluate(p, Row((CHOOSE x \in meant : TRUE)[2]), match)
                               ELSE "order_reference_conflict"
    BY DEF Said
  <1>13. CASE one
    <2>1. PICK x : meant = {x}
      <3> HIDE DEF exact, meant
      <3> QED
        BY <1>2, <1>10, <1>13, FS_Singleton
    <2>2. PICK i \in DOMAIN rows : exact = {i} /\ place[i] = x
      BY <1>9, <2>1
    <2> HIDE DEF exact, meant
    <2>3. (CHOOSE j \in exact : TRUE) = i /\ (CHOOSE y \in meant : TRUE) = x
      BY <2>1, <2>2
    <2>4. rows[i] = Row(x[2])
      BY <1>3, <2>2
    <2>5. e = Said(p, H, match)
      BY <1>10, <1>12, <1>13, <2>3, <2>4
    <2>6. H # {}
      BY <1>7, <2>2
    <2>7. Compare(p, rows, match) = e
      <3> HIDE DEF one, e, any
      <3> QED
        BY <1>11, <1>13
    <2> QED
      BY <2>5, <2>6, <2>7
  <1>14. CASE ~one
    <2>1. Compare(p, rows, match) = IF any THEN "order_reference_conflict" ELSE "none"
      <3> HIDE DEF one, e, any
      <3> QED
        BY <1>11, <1>14
    <2>2. Said(p, H, match) = "order_reference_conflict"
      BY <1>10, <1>12, <1>14
    <2> QED
      BY <1>6, <2>1, <2>2
  <1> QED
    BY <1>13, <1>14

-------------------------------------------------------------------------------
(* Types and phases.                                                           *)

TypeInv == TypeOK /\ Phase

\* The queries whose answer a step uses.
LEMMA FetchTypes ==
    ASSUME TypeInv, at <= Len(Channels)
    PROVE  /\ Channels[at] \in ChannelSet
           /\ Listing \in Seq(Orders)
           /\ ToSet(Listing) = ToSet(list[Channels[at]]) \cap Queried
           /\ Answer(Listing, page).rows \in Seq(Rows)
           /\ page \in Nat \ {0} /\ settled \subseteq Orders
  <1>1. Channels[at] \in ChannelSet
    <2>1. at \in 1..Len(Channels)
      BY ChannelsAre DEF TypeInv, TypeOK
    <2> QED
      BY <2>1, ChannelsAre
  <1>2. list[Channels[at]] \in Seq(Orders) /\ page \in Nat \ {0} /\ settled \subseteq Orders
    BY <1>1 DEF TypeInv, TypeOK
  <1>3. Listing \in Seq(Orders \cap Queried) /\ ToSet(Listing) = ToSet(list[Channels[at]]) \cap Queried
    BY <1>2, KeptIs DEF Listing
  <1>4. Listing \in Seq(Orders)
    <2> HIDE DEF Listing
    <2> QED
      BY <1>3
  <1> QED
    BY <1>1, <1>2, <1>3, <1>4, AnswerIs

Hits(p) == Kept(list[LookupChannel(p)], {o \in Orders : Hit(p, o)})

LEMMA LookupTypes ==
    ASSUME TypeInv, NEW p, lookup <= Lookups(p)
    PROVE  /\ lookup \in 1..Lookups(p)
           /\ LookupChannel(p) = ChannelAt(p, lookup)
           /\ \A o : Hit(p, o) <=> HitAt(p, lookup, o)
           /\ Hits(p) \in Seq(Orders)
           /\ ToSet(Hits(p)) = {o \in ToSet(list[ChannelAt(p, lookup)]) : HitAt(p, lookup, o)}
           /\ Answer(Hits(p), 1).rows \in Seq(Rows)
           /\ settled \subseteq Orders
  <1>1. lookup \in 1..Lookups(p)
    <2>1. Lookups(p) \in Nat
      BY ChannelsAre, FieldsAre DEF Lookups
    <2> QED
      BY <2>1 DEF TypeInv, TypeOK
  <1>2. LookupChannel(p) = ChannelAt(p, lookup)
    BY DEF LookupChannel, ChannelAt
  <1>3. \A o : Hit(p, o) <=> HitAt(p, lookup, o)
    BY DEF Hit, HitAt, LookupField, FieldAt
  <1>4. list[ChannelAt(p, lookup)] \in Seq(Orders) /\ settled \subseteq Orders
    BY <1>1, LookupIs DEF TypeInv, TypeOK
  <1> DEFINE S == {o \in Orders : Hit(p, o)}
  <1>5. /\ Hits(p) \in Seq(Orders \cap S)
        /\ ToSet(Hits(p)) = ToSet(list[ChannelAt(p, lookup)]) \cap S
    BY <1>2, <1>4, KeptIs DEF Hits
  <1>6. Hits(p) \in Seq(Orders)
    <2> HIDE DEF S
    <2> QED
      BY <1>5
  <1>7. ToSet(list[ChannelAt(p, lookup)]) \subseteq Orders
    BY <1>4 DEF ToSet
  <1>8. ToSet(Hits(p)) = {o \in ToSet(list[ChannelAt(p, lookup)]) : HitAt(p, lookup, o)}
    BY <1>3, <1>5, <1>7
  <1> QED
    BY <1>1, <1>2, <1>3, <1>4, <1>6, <1>8, AnswerIs

\* What stays, in each kind of step.
LEMMA MoveTypes ==
    ASSUME TypeInv, NEW o \in Orders, Appear(o) \/ Disappear(o) \/ Settle(o)
    PROVE  TypeInv'
  <1>1. Move
    BY DEF Appear, Disappear, Settle
  <1>2. list' \in [ChannelSet -> Seq(Orders)]
    <2>1. CASE Appear(o)
      <3>1. Channel[o] \in ChannelSet /\ list[Channel[o]] \in Seq(Orders)
        BY <2>1 DEF Appear, TypeInv, TypeOK
      <3>2. <<o>> \o list[Channel[o]] \in Seq(Orders)
        BY <3>1
      <3> QED
        BY <2>1, <3>2 DEF Appear, TypeInv, TypeOK
    <2>2. CASE Disappear(o)
      <3> DEFINE c == Channel[o]
                 kept == Kept(list[c], Orders \ {o})
      <3>1. ASSUME c \in ChannelSet PROVE kept \in Seq(Orders)
        <4>1. list[c] \in Seq(Orders)
          BY <3>1 DEF TypeInv, TypeOK
        <4>2. kept \in Seq(Orders \cap (Orders \ {o}))
          BY <4>1, KeptIs
        <4> HIDE DEF kept
        <4> QED
          BY <4>2
      <3>2. list' = [list EXCEPT ![c] = kept]
        BY <2>2 DEF Disappear
      <3> HIDE DEF c, kept
      <3> QED
        BY <3>1, <3>2 DEF TypeInv, TypeOK
    <2>3. CASE Settle(o)
      BY <2>3 DEF Settle, TypeInv, TypeOK
    <2> QED
      BY <2>1, <2>2, <2>3
  <1>3. settled' \subseteq Orders /\ steady' \subseteq Orders
    BY DEF Appear, Disappear, Settle, TypeInv, TypeOK
  <1>4. past' \subseteq Rows
    <2>1. \A q \in Orders : [order |-> q, success |-> q \in settled'] \in Rows
      BY DEF Rows
    <2>2. Listed' \subseteq Orders
      BY DEF Listed
    <2>3. past' = past \cup {[order |-> q, success |-> q \in settled'] : q \in Listed'}
      BY <1>1 DEF Move
    <2> QED
      BY <2>1, <2>2, <2>3 DEF TypeInv, TypeOK
  <1>5. moves' \in 0..MaxMoves
    BY <1>1, RemoteAssumption DEF Move, TypeInv, TypeOK
  <1>6. UNCHANGED <<stage, at, page, count, fetched, lookup, found, complete, verdict, trouble>>
    BY <1>1 DEF Move, bulk, search
  <1>7. TypeOK'
    BY <1>2, <1>3, <1>4, <1>5, <1>6 DEF TypeInv, TypeOK
  <1>8. Phase'
    BY <1>6 DEF TypeInv, Phase, Undecided
  <1> QED
    BY <1>7, <1>8 DEF TypeInv

LEMMA FetchTypesKept ==
    ASSUME TypeInv, FetchPage \/ FetchFails
    PROVE  TypeInv'
  <1>1. stage = "fetch" /\ at <= Len(Channels)
    BY DEF FetchPage, FetchFails
  <1> DEFINE rows == Answer(Listing, page).rows
  <1>2. rows \in Seq(Rows) /\ Len(rows) \in Nat
    BY <1>1, FetchTypes
  <1> HIDE DEF rows
  <1>3. at \in 1..(Len(Channels) + 1) /\ page \in Nat \ {0} /\ count \in Nat /\ fetched \in Seq(Rows)
    BY DEF TypeInv, TypeOK
  <1>4. /\ at' \in 1..(Len(Channels) + 1) /\ page' \in Nat \ {0} /\ count' \in Nat
        /\ fetched' \in Seq(Rows)
        /\ stage' \in {"fetch", "incomplete"}
    <2>1. CASE Abandon
      BY <1>3, <2>1 DEF Abandon, bulk
    <2>2. CASE FetchPage /\ ~Abandon
      <3>1. \/ /\ page' = page + 1 /\ count' = count + Len(rows)
               /\ fetched' = fetched \o rows /\ UNCHANGED <<at, stage>>
            \/ /\ at' = at + 1 /\ page' = 1 /\ count' = 0
               /\ fetched' = fetched \o rows /\ UNCHANGED stage
        BY <2>2 DEF FetchPage, NextChannel, Listing, rows
      <3>2. at + 1 \in 1..(Len(Channels) + 1)
        BY <1>1, <1>3, ChannelsAre
      <3>3. fetched \o rows \in Seq(Rows)
        BY <1>2, <1>3
      <3>4. CASE page' = page + 1 /\ count' = count + Len(rows) /\ fetched' = fetched \o rows
                 /\ UNCHANGED <<at, stage>>
        BY <1>1, <1>2, <1>3, <3>3, <3>4
      <3>5. CASE at' = at + 1 /\ page' = 1 /\ count' = 0 /\ fetched' = fetched \o rows
                 /\ UNCHANGED stage
        BY <1>1, <3>2, <3>3, <3>5
      <3> QED
        BY <3>1, <3>4, <3>5
    <2> QED
      BY <2>1, <2>2 DEF FetchFails
  <1>5. UNCHANGED <<list, settled, moves, lookup, found, complete, verdict, steady, past, trouble>>
    BY DEF FetchPage, FetchFails, Abandon, remote, search
  <1>6. TypeOK'
    BY <1>4, <1>5 DEF TypeInv, TypeOK
  <1>7. Phase'
    BY <1>1, <1>4, <1>5 DEF TypeInv, Phase
  <1> QED
    BY <1>6, <1>7 DEF TypeInv

LEMMA CompareTypesKept ==
    ASSUME TypeInv, CompareAll
    PROVE  TypeInv'
  <1>1. verdict' \in [Payments -> Verdicts \cup {"none"}]
    <2> DEFINE rows == Kept(fetched, {row \in Rows : row.order \in InWindow})
    <2>1. verdict' = [p \in Payments |-> Compare(p, rows, "matched")]
      BY DEF CompareAll
    <2>2. \A p \in Payments : Compare(p, rows, "matched") \in Verdicts \cup {"none"}
      BY CompareType DEF Verdicts
    <2> HIDE DEF rows
    <2> QED
      BY <2>1, <2>2
  <1>2. /\ stage = "fetch" /\ stage' \in {"recheck", "done"} /\ fetched' = <<>>
        /\ steady' \subseteq Orders
        /\ stage' = "recheck" => Undecided' # {}
    BY DEF CompareAll, Undecided, Listed
  <1>3. UNCHANGED <<list, settled, moves, at, page, count, lookup, found, complete, past, trouble>>
    BY DEF CompareAll, remote, search
  <1>4. TypeOK'
    BY <1>1, <1>2, <1>3 DEF TypeInv, TypeOK
  <1>5. Phase'
    BY <1>2, <1>3 DEF TypeInv, Phase
  <1> QED
    BY <1>4, <1>5 DEF TypeInv

LEMMA LookUpTypesKept ==
    ASSUME TypeInv, LookUp \/ LookUpFails
    PROVE  TypeInv'
  <1> DEFINE p == Current
             answer == Answer(Hits(p), 1)
  <1>1. stage = "recheck" /\ lookup <= Lookups(p) /\ Undecided # {}
    BY DEF LookUp, LookUpFails, TypeInv, Phase
  <1>2. p \in Payments
    BY <1>1, CurrentIs
  <1>3. \A k \in DOMAIN found' : found'[k] \in Rows
    <2>1. CASE LookUp
      <3>1. found' = Filed(answer.rows)
        BY <2>1 DEF LookUp, Hits
      <3>2. answer.rows \in Seq(Rows)
        BY <1>1, LookupTypes
      <3>3. \A i \in DOMAIN answer.rows : answer.rows[i] \in Rows
        BY <3>2
      <3>4. \A k \in DOMAIN found : found[k] \in Rows
        BY DEF TypeInv, TypeOK
      <3> DEFINE rows == answer.rows
                 keys == {Key(rows[i].order) : i \in DOMAIN rows}
      <3>5. /\ DOMAIN found' = DOMAIN found \cup keys
            /\ \A k \in keys : \E i \in DOMAIN rows :
                  Key(rows[i].order) = k /\ found'[k] = rows[i]
            /\ \A k \in DOMAIN found \ keys : found'[k] = found[k]
        <4> HIDE DEF answer
        <4> QED
          BY <3>1, <3>2, FiledIs
      <3>6. \A i \in DOMAIN rows : rows[i] \in Rows
        BY <3>3
      <3> HIDE DEF keys, rows
      <3> QED
        BY <3>4, <3>5, <3>6
    <2>2. CASE LookUpFails
      BY <2>2 DEF LookUpFails, TypeInv, TypeOK
    <2> QED
      BY <2>1, <2>2
  <1>4. /\ lookup' = lookup + 1
        /\ complete' \in BOOLEAN
        /\ trouble' = trouble \/ trouble' = trouble \cup {p}
        /\ UNCHANGED <<list, settled, moves, stage, at, page, count, fetched, verdict, steady, past>>
    BY DEF LookUp, LookUpFails, NoteLookup, remote, bulk, TypeInv, TypeOK
  <1> HIDE DEF p
  <1>5. TypeOK'
    BY <1>2, <1>3, <1>4 DEF TypeInv, TypeOK
  <1>6. Phase'
    BY <1>1, <1>4 DEF TypeInv, Phase, Undecided
  <1> QED
    BY <1>5, <1>6 DEF TypeInv

LEMMA ConcludeTypesKept ==
    ASSUME TypeInv, Conclude
    PROVE  TypeInv'
  <1> DEFINE p == Current
             compared == Compare(p, found, "matched_after_recheck")
             said == IF compared = "none"
                       THEN IF complete THEN "confirmed_missing" ELSE "recheck_inconclusive"
                       ELSE compared
  <1>1. stage = "recheck" /\ Undecided # {}
    BY DEF Conclude, TypeInv, Phase
  <1>2. p \in Undecided /\ p \in Payments
    BY <1>1, CurrentIs
  <1>3. verdict' = [verdict EXCEPT ![p] = said]
    BY DEF Conclude
  <1>4. said \in Verdicts
    BY CompareType DEF Verdicts
  <1>5. /\ stage' = (IF Undecided = {p} THEN "done" ELSE "recheck")
        /\ lookup' = 1 /\ found' = <<>> /\ complete' = TRUE
        /\ steady' \subseteq Orders
        /\ UNCHANGED <<list, settled, moves, at, page, count, fetched, past, trouble>>
    BY DEF Conclude, remote, bulk, Listed
  <1> HIDE DEF p, said
  <1>6. TypeOK'
    BY <1>2, <1>3, <1>4, <1>5 DEF TypeInv, TypeOK
  <1>7. Undecided' = Undecided \ {p}
    <2>1. "none" \notin Verdicts
      BY DEF Verdicts
    <2> QED
      BY <1>2, <1>3, <1>4, <2>1 DEF TypeInv, TypeOK, Undecided
  <1>8. Phase'
    BY <1>1, <1>2, <1>5, <1>7 DEF Phase
  <1> QED
    BY <1>6, <1>8 DEF TypeInv

LEMMA InitTypes == Init => TypeInv
  <1> SUFFICES ASSUME Init PROVE TypeInv
    OBVIOUS
  <1>1. PICK present \in SUBSET Orders :
           /\ list = [c \in ChannelSet |->
                        Kept(Catalogue, {o \in present : Channel[o] = c})]
           /\ settled \in SUBSET present
           /\ past = {[order |-> o, success |-> o \in settled] : o \in present}
    BY DEF Init
  <1>2. list \in [ChannelSet -> Seq(Orders)]
    <2>1. ASSUME NEW c \in ChannelSet
          PROVE  Kept(Catalogue, {o \in present : Channel[o] = c}) \in Seq(Orders)
      <3> DEFINE S == {o \in present : Channel[o] = c}
      <3>1. Kept(Catalogue, S) \in Seq(Orders \cap S)
        BY RemoteAssumption, KeptIs
      <3> HIDE DEF S
      <3>2. Kept(Catalogue, S) \in Seq(Orders)
        BY <3>1
      <3> QED
        BY <3>2 DEF S
    <2> QED
      BY <1>1, <2>1
  <1>3. past \subseteq Rows /\ settled \subseteq Orders
    <2>1. \A o \in Orders : [order |-> o, success |-> o \in settled] \in Rows
      BY DEF Rows
    <2> QED
      BY <1>1, <2>1
  <1>4. Len(Channels) \in Nat /\ MaxMoves \in Nat
    BY ChannelsAre, RemoteAssumption
  <1>5. TypeOK
    BY <1>2, <1>3, <1>4 DEF Init, TypeOK
  <1>6. Phase
    BY DEF Init, Phase
  <1> QED
    BY <1>5, <1>6 DEF TypeInv

LEMMA StepTypes == TypeInv /\ [Next]_vars => TypeInv'
  <1> SUFFICES ASSUME TypeInv, [Next]_vars PROVE TypeInv'
    OBVIOUS
  <1>1. CASE UNCHANGED vars
    BY <1>1 DEF vars, remote, bulk, search, TypeInv, TypeOK, Phase, Undecided
  <1>2. CASE Remote
    BY <1>2, MoveTypes DEF Remote
  <1>3. CASE Run
    BY <1>3, FetchTypesKept, CompareTypesKept, LookUpTypesKept, ConcludeTypesKept DEF Run
  <1> QED
    BY <1>1, <1>2, <1>3 DEF Next

\* Every variable keeps its type: the pages, the lookups and the filing of rows
\* stay within the listings, the channels and the payments.
THEOREM TypeCorrect == Spec => []TypeOK
  <1>1. TypeInv => TypeOK
    BY DEF TypeInv
  <1> QED
    BY InitTypes, StepTypes, <1>1, PTL DEF Spec

-------------------------------------------------------------------------------
(* Trouble.                                                                    *)

LEMMA SameSearch ==
    ASSUME UNCHANGED verdict PROVE Undecided' = Undecided /\ Current' = Current
  <1>1. Undecided' = Undecided
    BY DEF Undecided
  <1> QED
    BY <1>1 DEF Current

LEMMA NoteIs ==
    ASSUME NEW p, NEW whole \in BOOLEAN, complete \in BOOLEAN, NoteLookup(p, whole)
    PROVE  \/ whole /\ complete' = complete /\ trouble' = trouble
           \/ ~whole /\ complete' = FALSE /\ trouble' = trouble \cup {p}
  <1>1. CASE whole = TRUE
    BY <1>1 DEF NoteLookup
  <1>2. CASE whole = FALSE
    BY <1>2 DEF NoteLookup
  <1> QED
    BY <1>1, <1>2

TroubleInv == TroubleKnown /\ TroubleIsNotMissing

LEMMA StepTrouble == TypeInv /\ TroubleInv /\ [Next]_vars => TroubleInv'
  <1> SUFFICES ASSUME TypeInv, TroubleInv, [Next]_vars PROVE TroubleInv'
    OBVIOUS
  <1>1. CASE UNCHANGED <<stage, complete, verdict, trouble>>
    BY <1>1, SameSearch DEF TroubleInv, TroubleKnown, TroubleIsNotMissing
  <1>2. CASE UNCHANGED vars
    BY <1>1, <1>2 DEF vars, search
  <1>3. CASE Remote
    BY <1>1, <1>3 DEF Remote, Appear, Disappear, Settle, Move, search
  <1>4. CASE FetchPage \/ FetchFails \/ CompareAll
    <2>1. trouble = {} /\ trouble' = trouble
      BY <1>4 DEF TypeInv, Phase, FetchPage, FetchFails, CompareAll, Abandon
    <2> QED
      BY <2>1 DEF TroubleInv, TroubleKnown, TroubleIsNotMissing
  <1>5. CASE LookUp \/ LookUpFails
    <2> DEFINE p == Current
    <2>1. /\ stage = "recheck" /\ UNCHANGED <<stage, verdict>>
          /\ Undecided # {}
      BY <1>5 DEF LookUp, LookUpFails, TypeInv, Phase
    <2>2. \/ complete' = complete /\ trouble' = trouble
          \/ ~complete' /\ trouble' = trouble \cup {p}
      <3>1. \E whole \in BOOLEAN : NoteLookup(p, whole)
        <4> DEFINE whole == Answer(Hits(p), 1).pages <= 1
        <4>1. CASE LookUp
          <5>1. NoteLookup(p, whole) /\ whole \in BOOLEAN
            BY <4>1 DEF LookUp, Hits
          <5> HIDE DEF whole
          <5> QED
            BY <5>1
        <4>2. CASE LookUpFails
          BY <4>2 DEF LookUpFails
        <4> QED
          BY <1>5, <4>1, <4>2
      <3> QED
        BY <3>1, NoteIs DEF TypeInv, TypeOK
    <2>3. verdict[p] = "none" /\ Current' = p
      BY <2>1, CurrentIs, SameSearch DEF Undecided
    <2> HIDE DEF p
    <2> QED
      BY <2>1, <2>2, <2>3 DEF TroubleInv, TroubleKnown, TroubleIsNotMissing, p
  <1>6. CASE Conclude
    <2> DEFINE p == Current
               compared == Compare(p, found, "matched_after_recheck")
               said == IF compared = "none"
                         THEN IF complete THEN "confirmed_missing" ELSE "recheck_inconclusive"
                         ELSE compared
    <2>1. verdict' = [verdict EXCEPT ![p] = said] /\ trouble' = trouble
      BY <1>6 DEF Conclude
    <2>2. said # "none" /\ (~complete => said # "confirmed_missing")
      BY CompareType
    <2> HIDE DEF said
    <2>3. verdict \in [Payments -> Verdicts \cup {"none"}] /\ trouble \subseteq Payments
      BY DEF TypeInv, TypeOK
    <2>4. ASSUME NEW q \in trouble
          PROVE  verdict'[q] # "none" /\ verdict'[q] # "confirmed_missing"
      <3>1. CASE q = p
        <4>1. verdict'[q] = said
          BY <2>1, <2>3, <3>1
        <4>2. verdict[q] = "none"
          BY <1>6, <3>1, CurrentIs DEF Conclude, TypeInv, Phase, Undecided
        <4> QED
          BY <2>2, <4>1, <4>2 DEF TroubleInv, TroubleKnown
      <3>2. CASE q # p
        BY <2>1, <2>3, <3>2 DEF TroubleInv, TroubleKnown, TroubleIsNotMissing
      <3> QED
        BY <3>1, <3>2
    <2> QED
      BY <2>1, <2>4 DEF TroubleInv, TroubleKnown, TroubleIsNotMissing
  <1> QED
    BY <1>2, <1>3, <1>4, <1>5, <1>6 DEF Next, Run

\* No payment with a lookup that failed, or whose answer had more pages, is
\* confirmed missing, whichever of its lookups that was.
THEOREM TroubleNeverMissing == Spec => []TroubleIsNotMissing
  <1>1. Init => TroubleInv
    BY DEF Init, TroubleInv, TroubleKnown, TroubleIsNotMissing
  <1>2. TroubleInv => TroubleIsNotMissing
    BY DEF TroubleInv
  <1> QED
    BY InitTypes, StepTypes, <1>1, StepTrouble, <1>2, PTL DEF Spec

-------------------------------------------------------------------------------
(* Witnesses.                                                                  *)

WitnessInv == Witnessed /\ MatchHasWitness

\* What an answer shows is listed.
LEMMA ShownIsListed ==
    ASSUME NEW c \in ChannelSet, NEW all \in Seq(Orders),
           ToSet(all) \subseteq ToSet(list[c]),
           NEW n \in Nat \ {0}, settled \subseteq Orders
    PROVE  \A i \in DOMAIN Answer(all, n).rows :
              \E o \in ToSet(all) : o \in Listed /\ Answer(all, n).rows[i] = Row(o)
  <1> DEFINE rows == Answer(all, n).rows
             from == (n - 1) * PageSize
  <1>1. \A i \in DOMAIN rows : from + i \in DOMAIN all /\ rows[i] = Row(all[from + i])
    BY AnswerIs
  <1>2. \A j \in DOMAIN all : all[j] \in ToSet(all) /\ all[j] \in Orders
    BY DEF ToSet
  <1>3. \A o \in ToSet(all) : o \in Orders => o \in Listed
    BY DEF ToSet, Listed
  <1> HIDE DEF rows, from
  <1> QED
    BY <1>1, <1>2, <1>3 DEF rows

LEMMA StepWitness == TypeInv /\ WitnessInv /\ [Next]_vars => WitnessInv'
  <1> SUFFICES ASSUME TypeInv, WitnessInv, [Next]_vars PROVE WitnessInv'
    OBVIOUS
  <1>1. CASE UNCHANGED vars
    BY <1>1 DEF vars, remote, bulk, search, WitnessInv, Witnessed, MatchHasWitness, Listed, Row
  <1>2. CASE Remote
    <2>1. Move
      BY <1>2 DEF Remote, Appear, Disappear, Settle
    <2>2. /\ past' = past \cup {[order |-> o, success |-> o \in settled'] : o \in Listed'}
          /\ UNCHANGED <<fetched, found, verdict>>
      BY <2>1 DEF Move, bulk, search
    <2>3. \A o \in Listed' : Row(o)' \in past'
      BY <2>2 DEF Row
    <2>4. past \subseteq past'
      BY <2>2
    <2>5. Witnessed'
      BY <2>2, <2>3, <2>4 DEF WitnessInv, Witnessed
    <2>6. MatchHasWitness'
      BY <2>2, <2>4 DEF WitnessInv, MatchHasWitness
    <2> QED
      BY <2>5, <2>6 DEF WitnessInv
  <1>3. CASE FetchPage \/ FetchFails
    <2> DEFINE rows == Answer(Listing, page).rows
    <2>1. at <= Len(Channels) /\ UNCHANGED <<list, settled, found, verdict, past>>
      BY <1>3 DEF FetchPage, FetchFails, Abandon, remote, search
    <2>2. fetched' = fetched \/ fetched' = fetched \o rows
      BY <1>3 DEF FetchPage, FetchFails, Abandon, bulk, Listing
    <2>3. \A i \in DOMAIN rows : \E o \in Listed : rows[i] = Row(o)
      BY <2>1, FetchTypes, ShownIsListed
    <2>4. \A i \in DOMAIN rows : rows[i] \in past
      <3> HIDE DEF rows
      <3> QED
        BY <2>3 DEF WitnessInv, Witnessed
    <2>5. fetched \in Seq(Rows) /\ rows \in Seq(Rows)
      BY <2>1, FetchTypes DEF TypeInv, TypeOK
    <2> HIDE DEF rows
    <2>6. \A i \in DOMAIN fetched' : fetched'[i] \in past
      <3>1. CASE fetched' = fetched
        BY <3>1 DEF WitnessInv, Witnessed
      <3>2. CASE fetched' = fetched \o rows
        <4>1. /\ DOMAIN fetched' = 1..(Len(fetched) + Len(rows))
              /\ \A i \in DOMAIN fetched' :
                    \/ i \in DOMAIN fetched /\ fetched'[i] = fetched[i]
                    \/ i - Len(fetched) \in DOMAIN rows /\ fetched'[i] = rows[i - Len(fetched)]
          BY <2>5, <3>2
        <4> QED
          BY <2>4, <4>1 DEF WitnessInv, Witnessed
      <3> QED
        BY <2>2, <3>1, <3>2
    <2> QED
      BY <2>1, <2>6 DEF WitnessInv, Witnessed, MatchHasWitness, Listed, Row
  <1>4. CASE CompareAll
    <2> DEFINE S == {row \in Rows : row.order \in InWindow}
               rows == Kept(fetched, S)
    <2>1. verdict' = [p \in Payments |-> Compare(p, rows, "matched")]
      BY <1>4 DEF CompareAll
    <2>2. fetched' = <<>> /\ UNCHANGED <<list, settled, found, past>>
      BY <1>4 DEF CompareAll, remote, search
    <2>3. rows \in Seq(Rows \cap S) /\ ToSet(rows) = ToSet(fetched) \cap S
      BY KeptIs DEF TypeInv, TypeOK
    <2> HIDE DEF rows, S
    <2>4. \A i \in DOMAIN rows : rows[i] \in past /\ rows[i].success \in BOOLEAN
      <3>1. \A i \in DOMAIN rows : rows[i] \in Rows /\ rows[i] \in ToSet(fetched)
        BY <2>3 DEF ToSet
      <3>2. \A row \in Rows : row.success \in BOOLEAN
        BY DEF Rows
      <3> QED
        BY <3>1, <3>2 DEF ToSet, WitnessInv, Witnessed
    <2>5. ASSUME NEW p \in Payments, verdict'[p] \in {"matched", "matched_after_recheck"}
          PROVE  \E row \in past :
                    /\ OrderNum[row.order] = MerchantNo[p]
                    /\ PlatformNo[p] = NoNumber \/ OutTradeNo[row.order] = PlatformNo[p]
                    /\ Amount[row.order] = Due[p]
                    /\ Paid[p] => row.success
      <3>1. verdict'[p] = Compare(p, rows, "matched")
        BY <2>1
      <3>2. Compare(p, rows, "matched") = "matched"
        BY <2>5, <3>1, CompareType
      <3> QED
        BY <2>4, <3>2, MatchedBy
    <2>6. MatchHasWitness'
      BY <2>2, <2>5 DEF MatchHasWitness
    <2>7. Witnessed'
      BY <2>2 DEF WitnessInv, Witnessed, Listed, Row
    <2> QED
      BY <2>6, <2>7 DEF WitnessInv
  <1>5. CASE LookUp
    <2> DEFINE p == Current
               rows == Answer(Hits(p), 1).rows
               keys == {Key(rows[i].order) : i \in DOMAIN rows}
    <2>1. /\ lookup <= Lookups(p) /\ found' = Filed(rows)
          /\ UNCHANGED <<list, settled, fetched, verdict, past>>
      BY <1>5 DEF LookUp, Hits, remote, bulk
    <2>2. rows \in Seq(Rows) /\ \A i \in DOMAIN rows : \E o \in Listed : rows[i] = Row(o)
      BY <2>1, LookupTypes, LookupIs, ShownIsListed
    <2>3. /\ DOMAIN found' = DOMAIN found \cup keys
          /\ \A k \in keys : \E i \in DOMAIN rows :
                Key(rows[i].order) = k /\ found'[k] = rows[i]
          /\ \A k \in DOMAIN found \ keys : found'[k] = found[k]
      <3> HIDE DEF rows
      <3> QED
        BY <2>1, <2>2, FiledIs
    <2> HIDE DEF rows, keys
    <2>4. \A k \in DOMAIN found' : found'[k] \in past
      BY <2>2, <2>3 DEF WitnessInv, Witnessed
    <2> QED
      BY <2>1, <2>4 DEF WitnessInv, Witnessed, MatchHasWitness, Listed, Row
  <1>6. CASE LookUpFails
    BY <1>6 DEF LookUpFails, remote, bulk, WitnessInv, Witnessed, MatchHasWitness, Listed, Row
  <1>7. CASE Conclude
    <2> DEFINE p == Current
               compared == Compare(p, found, "matched_after_recheck")
               said == IF compared = "none"
                         THEN IF complete THEN "confirmed_missing" ELSE "recheck_inconclusive"
                         ELSE compared
    <2>1. /\ verdict' = [verdict EXCEPT ![p] = said]
          /\ found' = <<>> /\ UNCHANGED <<list, settled, fetched, past>>
      BY <1>7 DEF Conclude, remote, bulk
    <2>2. said \in {"matched", "matched_after_recheck"} => compared = "matched_after_recheck"
      BY CompareType
    <2>3. \A k \in DOMAIN found : found[k] \in past /\ found[k].success \in BOOLEAN
      <3>1. \A row \in Rows : row.success \in BOOLEAN
        BY DEF Rows
      <3> QED
        BY <3>1 DEF TypeInv, TypeOK, WitnessInv, Witnessed
    <2>4. ASSUME NEW q \in Payments, verdict'[q] \in {"matched", "matched_after_recheck"}
          PROVE  \E row \in past :
                    /\ OrderNum[row.order] = MerchantNo[q]
                    /\ PlatformNo[q] = NoNumber \/ OutTradeNo[row.order] = PlatformNo[q]
                    /\ Amount[row.order] = Due[q]
                    /\ Paid[q] => row.success
      <3>1. CASE q = p
        <4>1. verdict'[q] = said
          BY <2>1, <3>1 DEF TypeInv, TypeOK
        <4>2. compared = "matched_after_recheck"
          BY <2>2, <2>4, <4>1
        <4> QED
          BY <2>3, <3>1, <4>2, MatchedBy
      <3>2. CASE q # p
        <4>1. verdict'[q] = verdict[q]
          BY <2>1, <3>2 DEF TypeInv, TypeOK
        <4> QED
          BY <2>4, <4>1 DEF WitnessInv, MatchHasWitness
      <3> QED
        BY <3>1, <3>2
    <2>5. MatchHasWitness'
      BY <2>1, <2>4 DEF MatchHasWitness
    <2>6. Witnessed'
      BY <2>1 DEF WitnessInv, Witnessed, Listed, Row
    <2> QED
      BY <2>5, <2>6 DEF WitnessInv
  <1> QED
    BY <1>1, <1>2, <1>3, <1>4, <1>5, <1>6, <1>7 DEF Next, Run

LEMMA InitWitness == Init => WitnessInv
  <1> SUFFICES ASSUME Init PROVE WitnessInv
    OBVIOUS
  <1>1. PICK present \in SUBSET Orders :
           /\ list = [c \in ChannelSet |->
                        Kept(Catalogue, {o \in present : Channel[o] = c})]
           /\ past = {[order |-> o, success |-> o \in settled] : o \in present}
    BY DEF Init
  <1>2. ASSUME NEW o \in Listed PROVE o \in present
    <2>1. PICK c \in ChannelSet : o \in ToSet(list[c])
      BY DEF Listed, ToSet
    <2> DEFINE S == {q \in present : Channel[q] = c}
    <2>2. ToSet(list[c]) = ToSet(Catalogue) \cap S
      BY <1>1, RemoteAssumption, KeptIs
    <2> QED
      BY <2>1, <2>2
  <1>3. \A o \in Listed : Row(o) \in past
    BY <1>1, <1>2 DEF Row
  <1> QED
    BY <1>3 DEF Init, WitnessInv, Witnessed, MatchHasWitness

\* Whatever the remote system changes meanwhile, a payment is matched only by an
\* order with its numbers and its amount that some answer could show, and as
\* successful if the payment is.
THEOREM MatchesAreWitnessed == Spec => []MatchHasWitness
  <1>1. WitnessInv => MatchHasWitness
    BY DEF WitnessInv
  <1> QED
    BY InitTypes, StepTypes, InitWitness, StepWitness, <1>1, PTL DEF Spec

-------------------------------------------------------------------------------
(* Missing orders.                                                             *)

\* A change at the remote concerns one order.
LEMMA MoveIs ==
    ASSUME TypeInv, NEW q \in Orders, Appear(q) \/ Disappear(q) \/ Settle(q),
           NEW c \in ChannelSet
    PROVE  /\ \A o \in ToSet(list'[c]) : o # q => o \in ToSet(list[c])
           /\ \A o \in ToSet(list[c]) : o # q => o \in ToSet(list'[c])
           /\ Appear(q) => q \notin Listed /\ ToSet(list[c]) \subseteq ToSet(list'[c])
           /\ Disappear(q) => ToSet(list'[c]) \subseteq ToSet(list[c])
           /\ Settle(q) => list' = list
  <1>1. list[c] \in Seq(Orders)
    BY DEF TypeInv, TypeOK
  <1>2. CASE Settle(q)
    <2>1. list' = list /\ q \in Listed
      BY <1>2 DEF Settle
    <2>2. ~Appear(q) /\ (Disappear(q) => ToSet(list'[c]) \subseteq ToSet(list[c]))
      BY <2>1 DEF Appear
    <2> QED
      BY <2>1, <2>2
  <1>3. CASE Appear(q)
    <2>1. q \notin Listed /\ ~Disappear(q) /\ ~Settle(q)
      BY <1>3 DEF Appear, Disappear, Settle
    <2>2. list'[c] = list[c] \/ list'[c] = <<q>> \o list[c]
      BY <1>3 DEF Appear, TypeInv, TypeOK
    <2>3. ToSet(list'[c]) = ToSet(list[c]) \/ ToSet(list'[c]) = ToSet(list[c]) \cup {q}
      <3>1. CASE list'[c] = list[c]
        BY <3>1
      <3>2. CASE list'[c] = <<q>> \o list[c]
        <4>1. /\ DOMAIN list'[c] = 1..(Len(list[c]) + 1)
              /\ list'[c][1] = q
              /\ \A i \in 1..Len(list[c]) : list'[c][i + 1] = list[c][i]
              /\ DOMAIN list[c] = 1..Len(list[c]) /\ Len(list[c]) \in Nat
          BY <1>1, <3>2
        <4>2. \A i \in 1..(Len(list[c]) + 1) : i = 1 \/ (i - 1 \in 1..Len(list[c]) /\ i = (i - 1) + 1)
          BY <4>1
        <4>3. ToSet(list'[c]) \subseteq ToSet(list[c]) \cup {q}
          <5>1. ASSUME NEW i \in DOMAIN list'[c], i # 1
                PROVE  \E j \in DOMAIN list[c] : list'[c][i] = list[c][j]
            <6>1. i - 1 \in DOMAIN list[c] /\ i = (i - 1) + 1
              BY <4>1, <4>2, <5>1
            <6>2. list'[c][(i - 1) + 1] = list[c][i - 1]
              BY <4>1, <6>1
            <6> QED
              BY <6>1, <6>2
          <5> QED
            BY <4>1, <5>1 DEF ToSet
        <4>4. \A i \in 1..Len(list[c]) : i + 1 \in 1..(Len(list[c]) + 1)
          BY <4>1
        <4>5. 1 \in 1..(Len(list[c]) + 1)
          BY <4>1
        <4>6. ToSet(list[c]) \cup {q} \subseteq ToSet(list'[c])
          BY <4>1, <4>4, <4>5 DEF ToSet
        <4> QED
          BY <4>3, <4>6
      <3> QED
        BY <2>2, <3>1, <3>2
    <2> QED
      BY <2>1, <2>3
  <1>4. CASE Disappear(q)
    <2>1. q \in Listed /\ ~Appear(q)
      BY <1>4 DEF Disappear, Appear
    <2>2. list'[c] = list[c] \/ list'[c] = Kept(list[c], Orders \ {q})
      BY <1>4 DEF Disappear, TypeInv, TypeOK
    <2>3. ToSet(list[c]) \subseteq Orders
      BY <1>1 DEF ToSet
    <2>4. /\ ToSet(list'[c]) \subseteq ToSet(list[c])
          /\ \A o \in ToSet(list[c]) : o # q => o \in ToSet(list'[c])
      <3>1. ToSet(Kept(list[c], Orders \ {q})) = ToSet(list[c]) \cap (Orders \ {q})
        BY <1>1, KeptIs
      <3> QED
        BY <2>2, <2>3, <3>1
    <2>5. Settle(q) => list' = list
      BY DEF Settle
    <2> QED
      BY <2>1, <2>4, <2>5
  <1> QED
    BY <1>2, <1>3, <1>4

LEMMA ListedIs ==
    \A o : o \in Listed <=> o \in Orders /\ \E c \in ChannelSet : o \in ToSet(list[c])
  BY DEF Listed, ToSet

LEMMA ListedNextIs ==
    \A o : o \in Listed' <=> o \in Orders /\ \E c \in ChannelSet : o \in ToSet(list'[c])
  BY DEF Listed, ToSet

\* What a lookup files.
LEMMA LookUpFiles ==
    ASSUME TypeInv, LookUp
    PROVE  LET p == Current
               rows == Answer(Hits(p), 1).rows
               keys == {Key(rows[i].order) : i \in DOMAIN rows}
           IN /\ lookup \in 1..Lookups(p) /\ p \in Payments
              /\ rows \in Seq(Rows)
              /\ \A i \in DOMAIN rows :
                    \E o \in ToSet(Hits(p)) : o \in Listed /\ rows[i] = Row(o)
              /\ DOMAIN found' = DOMAIN found \cup keys
              /\ \A k \in keys : \E i \in DOMAIN rows :
                    Key(rows[i].order) = k /\ found'[k] = rows[i]
              /\ \A k \in DOMAIN found \ keys : found'[k] = found[k]
              /\ ToSet(Hits(p)) # {} => keys # {}
  <1> DEFINE p == Current
             answer == Answer(Hits(p), 1)
             rows == answer.rows
             keys == {Key(rows[i].order) : i \in DOMAIN rows}
  <1>1. lookup <= Lookups(p) /\ found' = Filed(rows) /\ stage = "recheck"
    BY DEF LookUp, Hits
  <1>2. p \in Payments
    BY <1>1, CurrentIs DEF TypeInv, Phase
  <1>3. /\ lookup \in 1..Lookups(p) /\ rows \in Seq(Rows)
        /\ Hits(p) \in Seq(Orders) /\ settled \subseteq Orders
        /\ ToSet(Hits(p)) \subseteq ToSet(list[ChannelAt(p, lookup)])
    BY <1>1, LookupTypes
  <1>4. \A i \in DOMAIN rows : \E o \in ToSet(Hits(p)) : o \in Listed /\ rows[i] = Row(o)
    BY <1>3, LookupIs, ShownIsListed
  <1>5. /\ DOMAIN found' = DOMAIN found \cup keys
        /\ \A k \in keys : \E i \in DOMAIN rows :
              Key(rows[i].order) = k /\ found'[k] = rows[i]
        /\ \A k \in DOMAIN found \ keys : found'[k] = found[k]
    <2> HIDE DEF rows
    <2> QED
      BY <1>1, <1>3, FiledIs
  <1>6. ASSUME ToSet(Hits(p)) # {} PROVE keys # {}
    <2>1. Len(Hits(p)) \in Nat /\ Len(Hits(p)) # 0
      BY <1>3, <1>6 DEF ToSet
    <2> DEFINE from == (1 - 1) * PageSize
               to == IF 1 * PageSize < Len(Hits(p)) THEN 1 * PageSize ELSE Len(Hits(p))
    <2>2. from = 0 /\ 1 * PageSize = PageSize /\ PageSize \in Nat \ {0}
      BY RemoteAssumption
    <2>3. /\ Len(rows) = IF from < to THEN to - from ELSE 0
          /\ DOMAIN rows = 1..Len(rows)
          /\ from < Len(Hits(p)) => from < to
      BY <1>3, AnswerIs
    <2> DEFINE n == Len(Hits(p))
    <2>4. Len(rows) \in Nat /\ Len(rows) > 0
      <3>1. n \in Nat /\ n > 0 /\ to = IF PageSize < n THEN PageSize ELSE n
        BY <2>1, <2>2
      <3>2. to \in Nat /\ to > 0
        <4> HIDE DEF n, to
        <4> QED
          BY <2>2, <3>1
      <3> HIDE DEF rows, from, to
      <3> QED
        BY <2>2, <2>3, <3>2
    <2>5. 1 \in DOMAIN rows
      BY <2>3, <2>4
    <2> QED
      BY <2>5
  <1> QED
    BY <1>2, <1>3, <1>4, <1>5, <1>6

LEMMA StepSearch == TypeInv /\ SearchSound /\ [Next]_vars => SearchSound'
  <1> SUFFICES ASSUME TypeInv, SearchSound, [Next]_vars, stage' = "recheck"
               PROVE  /\ steady' \subseteq Listed'
                      /\ \A k \in DOMAIN found' : Names(Current', found'[k].order)
                      /\ complete' /\ steady' \cap Seen(Current)' # {} => DOMAIN found' # {}
    BY DEF SearchSound
  <1> DEFINE p == Current
  <1>1. CASE UNCHANGED vars
    BY <1>1, SameSearch DEF vars, remote, search, SearchSound, Listed, Seen
  <1>2. CASE Remote
    <2>1. PICK q \in Orders : Appear(q) \/ Disappear(q) \/ Settle(q)
      BY <1>2 DEF Remote
    <2>2. UNCHANGED <<stage, lookup, found, complete, verdict>>
      BY <2>1 DEF Appear, Disappear, Settle, Move, search
    <2>3. Current' = p
      BY <2>2, SameSearch
    <2>4. steady \subseteq Listed
      BY <2>2 DEF SearchSound
    <2>5. steady' = steady \/ (Disappear(q) /\ steady' = steady \ {q})
      BY <2>1 DEF Appear, Disappear, Settle
    <2>6. ASSUME NEW o \in steady', NEW c \in ChannelSet
          PROVE  o \in ToSet(list[c]) <=> o \in ToSet(list'[c])
      <3>1. CASE o # q
        BY <2>1, <3>1, MoveIs
      <3>2. CASE o = q
        <4>1. q \in Listed /\ ~Appear(q)
          BY <2>4, <2>5, <3>2, <2>1, MoveIs
        <4>2. ~Disappear(q)
          BY <3>2, <4>1 DEF Disappear
        <4> QED
          BY <2>1, <4>1, <4>2, MoveIs
      <3> QED
        BY <3>1, <3>2
    <2>7. steady' \subseteq Listed'
      BY <2>4, <2>5, <2>6, ListedIs, ListedNextIs
    <2>8. steady' \cap Seen(Current)' \subseteq steady \cap Seen(p)
      <3> SUFFICES ASSUME NEW o \in steady', o \in Seen(Current)' PROVE o \in Seen(p)
        BY <2>5
      <3>1. PICK n \in 1..Lookups(p) :
               n < lookup /\ o \in ToSet(list'[ChannelAt(p, n)]) /\ HitAt(p, n, o)
        BY <2>2, <2>3 DEF Seen
      <3>2. o \in ToSet(list[ChannelAt(p, n)])
        BY <2>6, <3>1, LookupIs
      <3> QED
        BY <2>4, <2>5, <3>1, <3>2 DEF Seen
    <2> QED
      BY <2>2, <2>3, <2>7, <2>8 DEF SearchSound
  <1>3. CASE FetchPage \/ FetchFails
    BY <1>3 DEF FetchPage, FetchFails, Abandon
  <1>4. CASE CompareAll \/ Conclude
    <2>1. steady' = Listed /\ list' = list /\ found' = <<>> /\ lookup' = 1
      BY <1>4 DEF CompareAll, Conclude, remote, search, TypeInv, Phase
    <2>2. steady' \subseteq Listed'
      BY <2>1 DEF Listed
    <2>3. Seen(Current)' = {}
      <3>1. \A n \in 1..Lookups(Current') : ~(n < lookup')
        BY <2>1
      <3> QED
        BY <3>1 DEF Seen
    <2> QED
      BY <2>1, <2>2, <2>3
  <1>5. CASE LookUp
    <2> DEFINE rows == Answer(Hits(p), 1).rows
               keys == {Key(rows[i].order) : i \in DOMAIN rows}
    <2>1. /\ lookup \in 1..Lookups(p) /\ p \in Payments
          /\ \A i \in DOMAIN rows :
                \E o \in ToSet(Hits(p)) : o \in Listed /\ rows[i] = Row(o)
          /\ DOMAIN found' = DOMAIN found \cup keys
          /\ \A k \in keys : \E i \in DOMAIN rows :
                Key(rows[i].order) = k /\ found'[k] = rows[i]
          /\ \A k \in DOMAIN found \ keys : found'[k] = found[k]
          /\ ToSet(Hits(p)) # {} => keys # {}
      BY <1>5, LookUpFiles
    <2>2. /\ stage = "recheck" /\ lookup <= Lookups(p) /\ lookup' = lookup + 1
          /\ UNCHANGED <<list, verdict, steady>>
      BY <1>5 DEF LookUp, remote
    <2>3. Current' = p
      BY <2>2, SameSearch
    <2>4. ToSet(Hits(p)) = {o \in ToSet(list[ChannelAt(p, lookup)]) : HitAt(p, lookup, o)}
      BY <2>2, LookupTypes
    <2>5. \A i \in DOMAIN rows : Names(p, rows[i].order)
      <3>1. \A o \in ToSet(Hits(p)) : Names(p, o)
        BY <2>1, <2>4, LookupIs
      <3>2. \A o : Row(o).order = o
        BY DEF Row
      <3> HIDE DEF rows
      <3> QED
        BY <2>1, <3>1, <3>2
    <2> HIDE DEF rows, keys
    <2>6. \A k \in DOMAIN found' : Names(p, found'[k].order)
      BY <2>1, <2>2, <2>5 DEF SearchSound
    <2>7. ASSUME complete', NEW o \in steady', o \in Seen(Current)'
          PROVE  DOMAIN found' # {}
      <3>1. complete
        <4>1. complete' = (complete /\ Answer(Hits(p), 1).pages <= 1)
          BY <1>5 DEF LookUp, NoteLookup, Hits
        <4> QED
          BY <2>7, <4>1
      <3>2. PICK n \in 1..Lookups(p) :
               n < lookup + 1 /\ o \in ToSet(list[ChannelAt(p, n)]) /\ HitAt(p, n, o)
        BY <2>2, <2>3, <2>7 DEF Seen
      <3>3. CASE n < lookup
        <4>1. o \in Seen(p)
          BY <2>2, <3>2, <3>3 DEF Seen, SearchSound
        <4> QED
          BY <2>1, <2>2, <3>1, <4>1 DEF SearchSound
      <3>4. CASE n = lookup
        BY <2>1, <2>4, <3>2, <3>4
      <3> QED
        BY <2>1, <3>2, <3>3, <3>4
    <2>8. steady' \subseteq Listed'
      BY <2>2 DEF SearchSound, Listed
    <2> QED
      BY <2>3, <2>6, <2>7, <2>8
  <1>6. CASE LookUpFails
    <2>1. /\ UNCHANGED <<stage, list, found, verdict, steady>> /\ ~complete'
      BY <1>6 DEF LookUpFails, NoteLookup, remote
    <2>2. Current' = p
      BY <2>1, SameSearch
    <2> QED
      BY <2>1, <2>2 DEF SearchSound, Listed
  <1> QED
    BY <1>1, <1>2, <1>3, <1>4, <1>5, <1>6 DEF Next, Run

\* The verdict of missing is given by Conclude alone, after all lookups.
LEMMA StepMissing ==
    TypeInv /\ SearchSound /\ [Next]_vars =>
        [\A p \in Payments :
            verdict[p] = "none" /\ verdict'[p] = "confirmed_missing" =>
                \A o \in steady : ~Names(p, o)]_vars
  <1> SUFFICES ASSUME TypeInv, SearchSound, Next,
                      NEW p \in Payments,
                      verdict[p] = "none", verdict'[p] = "confirmed_missing",
                      NEW o \in steady, Names(p, o)
               PROVE  FALSE
    OBVIOUS
  <1>1. verdict' # verdict
    OBVIOUS
  <1>2. CASE CompareAll
    <2> DEFINE rows == Kept(fetched, {row \in Rows : row.order \in InWindow})
    <2>1. verdict'[p] = Compare(p, rows, "matched")
      BY <1>2 DEF CompareAll
    <2> QED
      BY <2>1, CompareType
  <1>3. CASE Conclude
    <2> DEFINE c == Current
               compared == Compare(c, found, "matched_after_recheck")
               said == IF compared = "none"
                         THEN IF complete THEN "confirmed_missing" ELSE "recheck_inconclusive"
                         ELSE compared
    <2>1. verdict' = [verdict EXCEPT ![c] = said] /\ stage = "recheck" /\ lookup > Lookups(c)
      BY <1>3 DEF Conclude
    <2>2. p = c /\ said = "confirmed_missing"
      <3> HIDE DEF said, c
      <3> QED
        BY <2>1 DEF TypeInv, TypeOK
    <2>3. compared = "none" /\ complete
      BY <2>2, CompareType
    <2>4. \A k \in DOMAIN found : ~Names(c, found[k].order)
      BY <2>3, NoneNamed
    <2>5. DOMAIN found = {}
      BY <2>1, <2>4 DEF SearchSound
    <2>6. o \in Listed /\ o \in Orders
      BY <2>1 DEF SearchSound, TypeInv, TypeOK
    <2>7. Seen(c) = Holding(c)
      BY <2>1, SeenIsAll DEF TypeInv, TypeOK
    <2>8. o \in Seen(c)
      BY <2>2, <2>6, <2>7 DEF Holding
    <2> QED
      BY <2>1, <2>3, <2>5, <2>8 DEF SearchSound
  <1>4. CASE Remote \/ FetchPage \/ FetchFails \/ LookUp \/ LookUpFails
    <2>1. verdict' = verdict
      BY <1>4 DEF Remote, Appear, Disappear, Settle, Move, FetchPage, FetchFails, Abandon,
                  LookUp, LookUpFails
    <2> QED
      BY <1>1, <2>1
  <1> QED
    BY <1>2, <1>3, <1>4 DEF Next, Run

\* No payment is confirmed missing while a selected channel lists an order with
\* one of its numbers and did so all through its search.
THEOREM MissingOrdersAreAbsent == Spec => MissingIsAbsent
  <1>1. Init => SearchSound
    BY DEF Init, SearchSound
  <1> QED
    BY InitTypes, StepTypes, <1>1, StepSearch, StepMissing, PTL DEF Spec, MissingIsAbsent

-------------------------------------------------------------------------------
(* A remote system that stands still.                                          *)

StillInv == Faithful /\ StillRemoteSaysSo

LEMMA ShowsNothing ==
    Shows(<<>>, {})
  BY DEF Shows

LEMMA ShowsBoth ==
    ASSUME NEW a \in Seq(Rows), NEW b \in Seq(Rows), NEW S, NEW T,
           Shows(a, S), Shows(b, T), S \cap T = {}
    PROVE  Shows(a \o b, S \cup T)
  <1>1. PICK pa : /\ \A i \in DOMAIN a : pa[i] \in S /\ a[i] = Row(pa[i][2])
                  /\ \A i, j \in DOMAIN a : pa[i] = pa[j] => i = j
                  /\ \A x \in S : \E i \in DOMAIN a : pa[i] = x
    BY DEF Shows
  <1>2. PICK pb : /\ \A i \in DOMAIN b : pb[i] \in T /\ b[i] = Row(pb[i][2])
                  /\ \A i, j \in DOMAIN b : pb[i] = pb[j] => i = j
                  /\ \A x \in T : \E i \in DOMAIN b : pb[i] = x
    BY DEF Shows
  <1> DEFINE m == Len(a)
             n == Len(b)
             c == a \o b
             pc == [i \in 1..(m + n) |-> IF i \in 1..m THEN pa[i] ELSE pb[i - m]]
  <1>3. /\ m \in Nat /\ n \in Nat /\ DOMAIN a = 1..m /\ DOMAIN b = 1..n
        /\ DOMAIN c = 1..(m + n)
        /\ \A i \in 1..m : i \in 1..(m + n) /\ c[i] = a[i] /\ pc[i] = pa[i]
        /\ \A i \in 1..n : /\ m + i \in 1..(m + n) /\ c[m + i] = b[i]
                           /\ pc[m + i] = pb[i]
    <2>1. \A i \in 1..n : /\ (m + i) - m = i /\ m + i > m /\ m + i \in 1..(m + n)
                          /\ m + i \notin 1..m
      OBVIOUS
    <2> QED
      BY <2>1
  <1> HIDE DEF c, m, n, pc
  <1>4. ASSUME NEW i \in DOMAIN c
        PROVE  \/ i \in DOMAIN a /\ c[i] = a[i] /\ pc[i] = pa[i]
               \/ \E j \in DOMAIN b : i = m + j /\ c[i] = b[j] /\ pc[i] = pb[j]
    <2>1. i \in 1..m \/ (i - m \in 1..n /\ i = m + (i - m))
      BY <1>3
    <2> QED
      BY <1>3, <2>1
  <1>5. \A i \in DOMAIN c : pc[i] \in S \cup T /\ c[i] = Row(pc[i][2])
    BY <1>1, <1>2, <1>4
  <1>6. ASSUME NEW i \in DOMAIN c, NEW j \in DOMAIN c, pc[i] = pc[j]
        PROVE  i = j
    BY <1>1, <1>2, <1>4, <1>6
  <1>7. ASSUME NEW x \in S \cup T PROVE \E i \in DOMAIN c : pc[i] = x
    <2>1. CASE x \in S
      BY <1>1, <1>3, <2>1
    <2>2. CASE x \in T
      BY <1>2, <1>3, <2>2
    <2> QED
      BY <2>1, <2>2
  <1>8. Shows(c, S \cup T)
    BY <1>5, <1>6, <1>7 DEF Shows
  <1> QED
    BY <1>8 DEF c

\* An answer shows its part of the orders once, if they are listed once.
LEMMA ShowsAnswer ==
    ASSUME NEW all \in Seq(Orders), IsInjective(all),
           NEW n \in Nat \ {0}, NEW c, settled \subseteq Orders,
           (n - 1) * PageSize <= Len(all)
    PROVE  LET from == (n - 1) * PageSize
               to == IF n * PageSize < Len(all) THEN n * PageSize ELSE Len(all)
           IN Shows(Answer(all, n).rows,
                    {<<c, all[i]>> : i \in {j \in DOMAIN all : from < j /\ j <= to}})
  <1> DEFINE rows == Answer(all, n).rows
             from == (n - 1) * PageSize
             full == n * PageSize
             to == IF full < Len(all) THEN full ELSE Len(all)
             part == {j \in DOMAIN all : from < j /\ j <= to}
             L == Len(rows)
  <1>1. /\ from \in Nat /\ full = from + PageSize /\ PageSize \in Nat \ {0}
        /\ Len(all) \in Nat /\ DOMAIN all = 1..Len(all) /\ from <= Len(all)
    BY PageArithmetic, RemoteAssumption
  <1>2. /\ L = (IF from < to THEN to - from ELSE 0)
        /\ DOMAIN rows = 1..L
        /\ \A i \in DOMAIN rows : from + i \in DOMAIN all /\ rows[i] = Row(all[from + i])
    BY AnswerIs
  <1> HIDE DEF rows, from, full, L
  <1>3. to \in Nat /\ from <= to /\ to <= Len(all)
    BY <1>1
  <1> HIDE DEF to
  <1>4. L = to - from
    BY <1>1, <1>2, <1>3
  <1>5. \A i \in 1..L : from + i \in part
    BY <1>1, <1>3, <1>4
  <1>6. \A j \in part : j - from \in 1..L /\ from + (j - from) = j
    BY <1>1, <1>3, <1>4
  <1> DEFINE place == [i \in DOMAIN rows |-> <<c, all[from + i]>>]
  <1>7. \A i \in DOMAIN rows : /\ place[i] \in {<<c, all[k]>> : k \in part}
                               /\ rows[i] = Row(place[i][2])
    BY <1>2, <1>4, <1>5
  <1>8. ASSUME NEW i \in DOMAIN rows, NEW j \in DOMAIN rows, place[i] = place[j]
        PROVE  i = j
    <2>1. from + i \in DOMAIN all /\ from + j \in DOMAIN all /\ all[from + i] = all[from + j]
      BY <1>2, <1>8
    <2>2. from + i = from + j
      BY <2>1 DEF IsInjective
    <2>3. i \in Int /\ j \in Int
      BY <1>1, <1>2, <1>3, <1>4
    <2> QED
      BY <1>1, <2>2, <2>3
  <1>9. \A x \in {<<c, all[k]>> : k \in part} : \E i \in DOMAIN rows : place[i] = x
    <2> SUFFICES ASSUME NEW j \in part PROVE \E i \in DOMAIN rows : place[i] = <<c, all[j]>>
      OBVIOUS
    <2>1. j - from \in DOMAIN rows /\ from + (j - from) = j
      BY <1>2, <1>4, <1>6
    <2> QED
      BY <2>1
  <1> HIDE DEF place
  <1> QED
    BY <1>7, <1>8, <1>9 DEF Shows, rows, from, full, to

\* A first page that is the only one shows them all.
LEMMA ShowsWhole ==
    ASSUME NEW all \in Seq(Orders), IsInjective(all), settled \subseteq Orders,
           Answer(all, 1).pages <= 1
    PROVE  LET rows == Answer(all, 1).rows
           IN /\ \A i \in DOMAIN rows : /\ rows[i].order \in ToSet(all)
                                        /\ rows[i] = Row(rows[i].order)
              /\ \A o \in ToSet(all) : \E i \in DOMAIN rows : rows[i].order = o
  <1>1. PICK n \in Nat \ {0} : n = 1
    OBVIOUS
  <1> DEFINE answer == Answer(all, n)
             from == (n - 1) * PageSize
             full == n * PageSize
             to == IF full < Len(all) THEN full ELSE Len(all)
             part == {j \in DOMAIN all : from < j /\ j <= to}
             c == "here"
             P == {<<c, all[i]>> : i \in part}
  <1>2. from = 0 /\ Len(all) \in Nat /\ DOMAIN all = 1..Len(all)
    <2>1. n - 1 = 0 /\ 0 * PageSize = 0
      BY <1>1, RemoteAssumption
    <2> QED
      BY <2>1
  <1>3. from <= Len(all)
    <2> HIDE DEF from
    <2> QED
      BY <1>2
  <1>4. Shows(answer.rows, P)
    <2> HIDE DEF c
    <2> QED
      BY <1>3, ShowsAnswer
  <1>5. answer.pages \in Nat /\ (n >= answer.pages => to = Len(all))
    BY AnswerIs
  <1>6. answer.pages <= n
    BY <1>1
  <1> HIDE DEF answer, from, to, c
  <1>7. part = DOMAIN all
    BY <1>2, <1>5, <1>6
  <1> DEFINE rows == answer.rows
  <1>8. PICK place : /\ \A i \in DOMAIN rows : place[i] \in P /\ rows[i] = Row(place[i][2])
                     /\ \A x \in P : \E i \in DOMAIN rows : place[i] = x
    BY <1>4 DEF Shows
  <1> HIDE DEF rows
  <1>9. \A i \in DOMAIN rows : rows[i].order \in ToSet(all) /\ rows[i] = Row(rows[i].order)
    BY <1>7, <1>8 DEF ToSet, Row
  <1>10. ASSUME NEW o \in ToSet(all) PROVE \E i \in DOMAIN rows : rows[i].order = o
    <2>1. PICK k \in DOMAIN all : all[k] = o
      BY DEF ToSet
    <2>2. <<c, o>> \in P
      BY <1>7, <2>1
    <2>3. PICK i \in DOMAIN rows : place[i] = <<c, o>>
      BY <1>8, <2>2
    <2> QED
      BY <1>8, <2>3 DEF Row
  <1> QED
    BY <1>1, <1>9, <1>10 DEF rows, answer

\* Of rows that show some places, those that are kept show the places kept.
LEMMA ShowsKept ==
    ASSUME NEW rows \in Seq(Rows), NEW P, NEW T, Shows(rows, P)
    PROVE  Shows(Kept(rows, {row \in Rows : row.order \in T}), {x \in P : x[2] \in T})
  <1> DEFINE K == {row \in Rows : row.order \in T}
             kept == Kept(rows, K)
             Q == {x \in P : x[2] \in T}
  <1>1. PICK place : /\ \A i \in DOMAIN rows : place[i] \in P /\ rows[i] = Row(place[i][2])
                     /\ \A i, j \in DOMAIN rows : place[i] = place[j] => i = j
                     /\ \A x \in P : \E i \in DOMAIN rows : place[i] = x
    BY DEF Shows
  <1>2. PICK g : /\ \A i \in DOMAIN kept : g[i] \in DOMAIN rows /\ kept[i] = rows[g[i]]
                 /\ \A i, j \in DOMAIN kept : g[i] = g[j] => i = j
                 /\ \A j \in DOMAIN rows : rows[j] \in K => \E i \in DOMAIN kept : g[i] = j
    <2> HIDE DEF K, Q
    <2>1. \A U : \E h :
             /\ \A i \in DOMAIN Kept(rows, U) : /\ h[i] \in DOMAIN rows
                                                /\ Kept(rows, U)[i] = rows[h[i]]
             /\ \A i, j \in DOMAIN Kept(rows, U) : h[i] = h[j] => i = j
             /\ \A j \in DOMAIN rows :
                   rows[j] \in U => \E i \in DOMAIN Kept(rows, U) : h[i] = j
      BY KeptPlaces
    <2> QED
      BY <2>1
  <1>3. \A i \in DOMAIN kept : kept[i] \in K
    <2>1. ToSet(kept) = ToSet(rows) \cap K
      BY KeptIs
    <2> HIDE DEF kept, K
    <2> QED
      BY <2>1 DEF ToSet
  <1>4. \A i \in DOMAIN rows : rows[i] \in K <=> place[i] \in Q
    <2>1. \A i \in DOMAIN rows : rows[i] \in Rows /\ rows[i].order = place[i][2]
      BY <1>1 DEF Row
    <2> QED
      BY <1>1, <2>1
  <1> HIDE DEF kept, K
  <1> DEFINE new == [i \in DOMAIN kept |-> place[g[i]]]
  <1>5. \A i \in DOMAIN kept : new[i] \in Q /\ kept[i] = Row(new[i][2])
    BY <1>1, <1>2, <1>3, <1>4
  <1>6. \A i, j \in DOMAIN kept : new[i] = new[j] => i = j
    BY <1>1, <1>2
  <1>7. ASSUME NEW x \in Q PROVE \E i \in DOMAIN kept : new[i] = x
    <2>1. PICK j \in DOMAIN rows : place[j] = x
      BY <1>1
    <2>2. PICK i \in DOMAIN kept : g[i] = j
      BY <1>2, <1>4, <2>1
    <2> QED
      BY <2>1, <2>2
  <1> HIDE DEF new
  <1> QED
    BY <1>5, <1>6, <1>7 DEF Shows, kept, K

\* Rows of other orders are filed beside what is found, or replace it.
LEMMA FilesBoth ==
    ASSUME NEW rows \in Seq(Rows), NEW S, NEW T, Files(S),
           \A i \in DOMAIN rows : rows[i].order \in T /\ rows[i] = Row(rows[i].order),
           \A o \in T : \E i \in DOMAIN rows : rows[i].order = o,
           found' = Filed(rows), settled' = settled
    PROVE  Files(S \cup T)'
  <1> DEFINE filed == Filed(rows)
             keys == {Key(rows[i].order) : i \in DOMAIN rows}
  <1>1. /\ DOMAIN filed = DOMAIN found \cup keys
        /\ \A k \in keys : \E i \in DOMAIN rows :
              Key(rows[i].order) = k /\ filed[k] = rows[i]
        /\ \A k \in DOMAIN found \ keys : filed[k] = found[k]
    BY FiledIs
  <1> HIDE DEF filed
  <1>2. \A k \in keys : /\ k = Key(filed[k].order)
                        /\ filed[k].order \in T /\ filed[k] = Row(filed[k].order)
    BY <1>1
  <1>3. \A k \in DOMAIN found \ keys : /\ k = Key(filed[k].order)
                                       /\ filed[k].order \in S /\ filed[k] = Row(filed[k].order)
    BY <1>1 DEF Files
  <1>4. \A o \in T : Key(o) \in keys
    OBVIOUS
  <1>5. \A o \in S : Key(o) \in DOMAIN found
    BY DEF Files
  <1> HIDE DEF keys
  <1>6. \A k \in DOMAIN filed : /\ k = Key(filed[k].order)
                                /\ filed[k].order \in S \cup T /\ filed[k] = Row(filed[k].order)
    BY <1>1, <1>2, <1>3
  <1>7. \A o \in S \cup T : Key(o) \in DOMAIN filed
    BY <1>1, <1>4, <1>5
  <1>8. found' = filed
    BY DEF filed
  <1> QED
    BY <1>6, <1>7, <1>8 DEF Files, Row

\* The next page shows what is left of the channel, or a page of it.
LEMMA FetchShows ==
    ASSUME TypeInv, Faithful, moves = 0, FetchPage, stage' = "fetch"
    PROVE  /\ Shows(fetched', FetchedPlaces')
           /\ at' <= Len(Channels) => (page' - 1) * PageSize <= Len(Listing')
  <1> DEFINE from == (page - 1) * PageSize
             full == page * PageSize
             to == IF full < Len(Listing) THEN full ELSE Len(Listing)
             answer == Answer(Listing, page)
             rows == answer.rows
             New == {<<at, Listing[i]>> : i \in {j \in DOMAIN Listing : from < j /\ j <= to}}
             c == Channels[at]
  <1>1. /\ stage = "fetch" /\ at <= Len(Channels) /\ at \in 1..Len(Channels)
        /\ fetched' = fetched \o rows /\ list' = list /\ settled' = settled
        /\ \/ page < answer.pages /\ page' = page + 1 /\ at' = at
           \/ page >= answer.pages /\ page' = 1 /\ at' = at + 1
    <2>1. ~Abandon
      BY DEF Abandon
    <2>2. at \in 1..Len(Channels)
      BY ChannelsAre DEF FetchPage, TypeInv, TypeOK
    <2> QED
      BY <2>1, <2>2 DEF FetchPage, NextChannel, Listing, remote
  <1>2. /\ c \in ChannelSet /\ Listing \in Seq(Orders)
        /\ ToSet(Listing) = ToSet(list[c]) \cap Queried
        /\ rows \in Seq(Rows) /\ page \in Nat \ {0} /\ settled \subseteq Orders
        /\ Len(Listing) \in Nat /\ DOMAIN Listing = 1..Len(Listing)
    BY <1>1, FetchTypes
  <1>3. /\ Shows(fetched, FetchedPlaces) /\ from <= Len(Listing)
        /\ IsInjective(list[c])
    BY <1>1, <1>2 DEF Faithful, Listings
  <1>4. IsInjective(Listing)
    <2>1. list[c] \in Seq(Orders)
      BY <1>2 DEF TypeInv, TypeOK
    <2> QED
      BY <1>3, <2>1, KeptIs DEF Listing
  <1>5. Shows(rows, New)
    BY <1>2, <1>3, <1>4, ShowsAnswer
  <1>6. /\ full = from + PageSize /\ from \in Nat /\ full \in Nat /\ PageSize \in Nat \ {0}
        /\ page < answer.pages => to = full
        /\ page >= answer.pages => to = Len(Listing)
    <2>1. full = from + PageSize /\ from \in Nat /\ PageSize \in Nat \ {0}
      BY <1>2, PageArithmetic, RemoteAssumption
    <2>2. /\ page < answer.pages => to = full
          /\ page >= answer.pages => to = Len(Listing)
      BY <1>2, AnswerIs
    <2> HIDE DEF from, full, to, answer
    <2> QED
      BY <2>1, <2>2
  <1>7. to \in Nat /\ from <= to /\ to <= Len(Listing)
    <2> HIDE DEF from, full
    <2> QED
      BY <1>2, <1>3, <1>6
  <1>8. FetchedPlaces = Earlier(at) \cup FirstOf(at, Listing, from)
    BY <1>1 DEF FetchedPlaces
  <1> HIDE DEF from, full, to, answer, rows
  <1>9. FetchedPlaces \cap New = {}
    <2> SUFFICES ASSUME NEW i \in DOMAIN Listing, from < i, <<at, Listing[i]>> \in FetchedPlaces
                 PROVE  FALSE
      OBVIOUS
    <2>1. at \in Nat /\ ~(at < at)
      BY <1>1
    <2>2. <<at, Listing[i]>> \notin Earlier(at)
      BY <2>1 DEF Earlier
    <2>3. PICK j \in DOMAIN Listing : j <= from /\ Listing[j] = Listing[i]
      BY <1>8, <2>2 DEF FirstOf
    <2>4. j = i
      BY <1>4, <2>3 DEF IsInjective
    <2> QED
      BY <1>2, <1>6, <2>3, <2>4
  <1>10. Shows(fetched', FetchedPlaces \cup New)
    BY <1>1, <1>2, <1>3, <1>5, <1>9, ShowsBoth DEF TypeInv, TypeOK
  <1>11. FirstOf(at, Listing, from) \cup New = FirstOf(at, Listing, to)
    <2>1. \A j \in DOMAIN Listing : j <= to <=> (j <= from \/ (from < j /\ j <= to))
      BY <1>2, <1>6, <1>7
    <2> QED
      BY <2>1 DEF FirstOf
  <1>12. CASE page < answer.pages /\ page' = page + 1 /\ at' = at
    <2>1. Listing' = Listing
      BY <1>1, <1>12 DEF Listing
    <2>2. (page' - 1) * PageSize = full
      BY <1>2, <1>12 DEF full
    <2>3. FetchedPlaces' = Earlier(at) \cup FirstOf(at, Listing, full)
      <3>1. FetchedPlaces' = Earlier(at') \cup FirstOf(at', Listing', (page' - 1) * PageSize)
        BY <1>1, <1>12 DEF FetchedPlaces, Earlier, FirstOf
      <3> QED
        BY <1>12, <2>1, <2>2, <3>1
    <2>4. FetchedPlaces' = FetchedPlaces \cup New
      BY <1>6, <1>8, <1>11, <1>12, <2>3
    <2> QED
      BY <1>2, <1>6, <1>7, <1>10, <1>12, <2>1, <2>2, <2>4
  <1>13. CASE page >= answer.pages /\ page' = 1 /\ at' = at + 1
    <2>1. FirstOf(at, Listing, to) = {<<at, o>> : o \in ToSet(Listing)}
      <3>1. \A j \in DOMAIN Listing : j <= Len(Listing)
        BY <1>2
      <3>2. \A j \in DOMAIN Listing : j <= to
        BY <1>6, <1>13, <3>1
      <3> HIDE DEF Listing
      <3> QED
        BY <3>2 DEF FirstOf, ToSet
    <2>2. (page' - 1) * PageSize = 0
      BY <1>6, <1>13
    <2>3. Earlier(at + 1) = Earlier(at) \cup {<<at, o>> : o \in ToSet(Listing)}
      <3>1. \A b \in 1..Len(Channels) : b < at + 1 <=> b < at \/ b = at
        BY <1>1
      <3>2. {x \in (1..Len(Channels)) \X Queried : x[1] = at /\ x[2] \in ToSet(list[c])}
              = {<<at, o>> : o \in ToSet(Listing)}
        BY <1>1, <1>2
      <3>3. Earlier(at + 1) = Earlier(at) \cup
              {x \in (1..Len(Channels)) \X Queried : x[1] = at /\ x[2] \in ToSet(list[c])}
        BY <3>1 DEF Earlier
      <3> QED
        BY <3>2, <3>3
    <2>4. ASSUME at + 1 <= Len(Channels)
          PROVE  Len(Listing') \in Nat /\ DOMAIN Listing' = 1..Len(Listing')
      <3>1. Channels[at + 1] \in ChannelSet
        BY <1>1, <2>4, ChannelsAre
      <3>2. list[Channels[at + 1]] \in Seq(Orders)
        BY <3>1 DEF TypeInv, TypeOK
      <3>3. Listing' = Kept(list[Channels[at + 1]], Queried)
        BY <1>1, <1>13 DEF Listing
      <3>4. Listing' \in Seq(Orders \cap Queried)
        BY <3>2, <3>3, KeptIs
      <3> HIDE DEF Listing
      <3> QED
        BY <3>4
    <2>5. FetchedPlaces' = Earlier(at + 1)
      <3>1. FetchedPlaces' = Earlier(at + 1) \cup
               (IF at + 1 <= Len(Channels) THEN FirstOf(at + 1, Listing', 0) ELSE {})
        BY <1>1, <1>13, <2>2 DEF FetchedPlaces, Earlier, FirstOf
      <3>2. at + 1 <= Len(Channels) => FirstOf(at + 1, Listing', 0) = {}
        BY <2>4 DEF FirstOf
      <3> QED
        BY <3>1, <3>2
    <2>6. FetchedPlaces' = FetchedPlaces \cup New
      BY <1>8, <1>11, <2>1, <2>3, <2>5
    <2> QED
      BY <1>10, <1>13, <2>2, <2>4, <2>6
  <1> QED
    BY <1>1, <1>12, <1>13 DEF answer

\* Nothing is said of a payment without a verdict, and what was said of the
\* others still holds when nothing it speaks of has changed.
LEMMA HoldingStays ==
    ASSUME UNCHANGED list
    PROVE  /\ \A p, S : Places(p, S)' = Places(p, S)
           /\ \A p : Holding(p)' = Holding(p)
  BY DEF Places, Holding, Listed

LEMMA SaidStays ==
    ASSUME UNCHANGED <<list, settled, moves>>, StillRemoteSaysSo,
           trouble \subseteq trouble',
           \A p \in Payments : verdict'[p] = verdict[p] \/ verdict'[p] = "none"
    PROVE  StillRemoteSaysSo'
  <1>1. /\ \A p, S : Places(p, S)' = Places(p, S)
        /\ \A p : Holding(p)' = Holding(p)
    BY HoldingStays
  <1>2. \A p, S, match : Said(p, S, match)' = Said(p, S, match)
    BY DEF Said, Row
  <1> QED
    BY <1>1, <1>2 DEF StillRemoteSaysSo

\* A search that begins has seen nothing and found nothing.
LEMMA SearchBegins ==
    ASSUME found' = <<>>, lookup' = 1
    PROVE  Files(Seen(Current))'
  <1>1. Seen(Current)' = {}
    <2>1. \A n \in 1..Lookups(Current') : ~(n < lookup')
      OBVIOUS
    <2> QED
      BY <2>1 DEF Seen
  <1>2. DOMAIN found' = {}
    OBVIOUS
  <1> QED
    BY <1>1, <1>2 DEF Files

LEMMA InitStill == ASSUME Init PROVE StillInv
  <1>1. TypeInv
    BY InitTypes
  <1>2. PICK present \in SUBSET Orders :
           list = [c \in ChannelSet |-> Kept(Catalogue, {o \in present : Channel[o] = c})]
    BY DEF Init
  <1>3. Listings
    <2> SUFFICES ASSUME NEW c \in ChannelSet PROVE IsInjective(list[c])
      BY DEF Listings
    <2> DEFINE S == {o \in present : Channel[o] = c}
    <2>1. list[c] = Kept(Catalogue, S)
      BY <1>2
    <2>2. IsInjective(Catalogue) /\ Catalogue \in Seq(Orders)
      BY RemoteAssumption DEF IsInjective
    <2> HIDE DEF S
    <2> QED
      BY <2>1, <2>2, KeptIs
  <1>4. (page - 1) * PageSize = 0
    BY RemoteAssumption DEF Init
  <1>5. at <= Len(Channels) => Len(Listing) \in Nat /\ DOMAIN Listing = 1..Len(Listing)
    BY <1>1, FetchTypes
  <1>6. FetchedPlaces = {}
    <2>1. Earlier(at) = {}
      <3>1. at = 1 /\ \A c \in 1..Len(Channels) : ~(c < 1)
        BY ChannelsAre DEF Init
      <3> QED
        BY <3>1 DEF Earlier
    <2>2. at <= Len(Channels) => FirstOf(at, Listing, 0) = {}
      BY <1>5 DEF FirstOf
    <2> QED
      BY <1>4, <2>1, <2>2 DEF FetchedPlaces
  <1>7. Shows(fetched, FetchedPlaces)
    BY <1>6, ShowsNothing DEF Init
  <1>8. stage = "fetch" /\ \A p \in Payments : verdict[p] = "none"
    BY DEF Init
  <1>9. Faithful
    BY <1>3, <1>4, <1>5, <1>7, <1>8 DEF Faithful
  <1>10. StillRemoteSaysSo
    BY <1>8 DEF StillRemoteSaysSo
  <1> QED
    BY <1>9, <1>10 DEF StillInv

\* The rows of the window say of each payment what its places say.
LEMMA CompareStill ==
    ASSUME TypeInv, StillInv, moves = 0, CompareAll
    PROVE  StillInv'
  <1> DEFINE S == Queried \cap InWindow
             rows == Kept(fetched, {row \in Rows : row.order \in InWindow})
             All == {x \in (1..Len(Channels)) \X Queried : x[2] \in ToSet(list[Channels[x[1]]])}
             P == {x \in All : x[2] \in InWindow}
  <1>1. /\ stage = "fetch" /\ at > Len(Channels)
        /\ verdict' = [p \in Payments |-> Compare(p, rows, "matched")]
        /\ stage' \in {"recheck", "done"} /\ trouble' = trouble
        /\ UNCHANGED <<list, settled, moves, lookup, found, complete>>
    BY DEF CompareAll, remote, search
  <1>2. found' = <<>> /\ lookup' = 1 /\ complete' /\ trouble' = {}
    BY <1>1 DEF TypeInv, Phase
  <1>3. FetchedPlaces = All
    <2>1. \A c \in 1..Len(Channels) : c < at
      BY <1>1, ChannelsAre DEF TypeInv, TypeOK
    <2>2. ~(at <= Len(Channels))
      BY <1>1, ChannelsAre DEF TypeInv, TypeOK
    <2> QED
      BY <2>1, <2>2 DEF FetchedPlaces, Earlier
  <1>4. Shows(rows, P)
    <2>1. Shows(fetched, All)
      BY <1>1, <1>3 DEF StillInv, Faithful
    <2>2. fetched \in Seq(Rows)
      BY DEF TypeInv, TypeOK
    <2> HIDE DEF All
    <2> QED
      BY <2>1, <2>2, ShowsKept
  <1>5. IsFiniteSet(P) /\ \A x \in P : x[2] \in Orders
    <2>1. IsFiniteSet(1..Len(Channels))
      BY ChannelsAre, FS_Interval
    <2>2. IsFiniteSet((1..Len(Channels)) \X Orders)
      BY <2>1, OrdersFinite, FS_Product
    <2>3. Queried \subseteq Orders
      BY RemoteAssumption
    <2>4. P \in SUBSET ((1..Len(Channels)) \X Orders)
      BY <2>3
    <2> HIDE DEF P
    <2> QED
      BY <2>2, <2>4, FS_Subset
  <1>6. ASSUME NEW p \in Payments
        PROVE  verdict'[p] = IF Places(p, S) = {} THEN "none" ELSE Said(p, Places(p, S), "matched")
    <2>1. Places(p, S) = {x \in P : Names(p, x[2])}
      BY DEF Places
    <2>2. verdict'[p] = Compare(p, rows, "matched")
      BY <1>1
    <2> HIDE DEF rows, S, P
    <2> QED
      BY <1>4, <1>5, <2>1, <2>2, CompareSays
  <1>7. \A p, T : Places(p, T)' = Places(p, T)
    BY <1>1, HoldingStays
  <1>8. \A p, T, match : Said(p, T, match)' = Said(p, T, match)
    BY <1>1 DEF Said, Row
  <1>9. \A p, T : Said(p, T, "matched") # "none"
    BY EvaluateType DEF Said
  <1> HIDE DEF rows
  <1>10. StillRemoteSaysSo'
    BY <1>6, <1>7, <1>8 DEF StillRemoteSaysSo
  <1>11. \A p \in Payments : verdict'[p] = "none" => Places(p, S)' = {}
    BY <1>6, <1>7, <1>9
  <1>12. Listings'
    BY <1>1 DEF StillInv, Faithful, Listings
  <1>13. Faithful'
    BY <1>1, <1>2, <1>11, <1>12, SearchBegins DEF Faithful
  <1> QED
    BY <1>10, <1>13 DEF StillInv

\* A lookup whose answer is whole files the orders it can hit.
LEMMA LookUpStill ==
    ASSUME TypeInv, StillInv, moves = 0, LookUp
    PROVE  StillInv'
  <1> DEFINE p == Current
             answer == Answer(Hits(p), 1)
             whole == answer.pages <= 1
             c == ChannelAt(p, lookup)
  <1>1. /\ stage = "recheck" /\ lookup <= Lookups(p) /\ lookup' = lookup + 1
        /\ found' = Filed(answer.rows)
        /\ NoteLookup(p, whole) /\ whole \in BOOLEAN
        /\ UNCHANGED <<list, settled, moves, stage, verdict>>
    BY DEF LookUp, Hits, remote
  <1>2. /\ lookup \in 1..Lookups(p)
        /\ Hits(p) \in Seq(Orders) /\ answer.rows \in Seq(Rows) /\ settled \subseteq Orders
        /\ ToSet(Hits(p)) = {o \in ToSet(list[c]) : HitAt(p, lookup, o)}
    BY <1>1, LookupTypes
  <1>3. c \in ChannelSet /\ list[c] \in Seq(Orders)
    BY <1>2, LookupIs DEF TypeInv, TypeOK
  <1>4. Current' = p
    BY <1>1, SameSearch
  <1>5. trouble \subseteq trouble'
    BY <1>1 DEF NoteLookup
  <1>6. StillRemoteSaysSo'
    BY <1>1, <1>5, SaidStays DEF StillInv
  <1>7. ASSUME p \notin trouble'
        PROVE  complete' /\ Files(Seen(Current))'
    <2>1. p \notin trouble /\ whole /\ complete' = complete
      <3> HIDE DEF whole, p
      <3>1. \/ whole /\ complete' = complete /\ trouble' = trouble
            \/ ~whole /\ complete' = FALSE /\ trouble' = trouble \cup {p}
        BY <1>1, NoteIs DEF TypeInv, TypeOK
      <3> QED
        BY <1>7, <3>1
    <2>2. complete /\ Files(Seen(p))
      BY <1>1, <2>1 DEF StillInv, Faithful
    <2>3. IsInjective(Hits(p))
      <3>1. IsInjective(list[c]) /\ c = LookupChannel(p)
        BY <1>1, <1>3, LookupTypes DEF StillInv, Faithful, Listings
      <3> QED
        BY <1>3, <3>1, KeptIs DEF Hits
    <2> DEFINE all == Hits(p)
               rows == answer.rows
    <2>4. /\ \A i \in DOMAIN rows : /\ rows[i].order \in ToSet(all)
                                    /\ rows[i] = Row(rows[i].order)
          /\ \A o \in ToSet(all) : \E i \in DOMAIN rows : rows[i].order = o
      BY <1>2, <2>1, <2>3, ShowsWhole
    <2> DEFINE seen == Seen(p)
               hit == ToSet(all)
    <2>5. rows \in Seq(Rows) /\ found' = Filed(rows) /\ settled' = settled /\ Files(seen)
      BY <1>1, <1>2, <2>2
    <2> HIDE DEF rows, all
    <2>6. Seen(Current)' = Seen(p) \cup ToSet(all)
      <3>1. \A n \in 1..Lookups(p) : n < lookup + 1 <=> n < lookup \/ n = lookup
        BY <1>2
      <3>2. Listed' = Listed
        BY <1>1 DEF Listed
      <3>3. Seen(Current)' = {o \in Listed : \E n \in 1..Lookups(p) :
                                  /\ n < lookup + 1
                                  /\ o \in ToSet(list[ChannelAt(p, n)])
                                  /\ HitAt(p, n, o)}
        BY <1>1, <1>4, <3>2 DEF Seen
      <3>4. ToSet(all) \subseteq Listed
        <4>1. ToSet(all) \subseteq Orders
          BY <1>2 DEF ToSet, all
        <4> QED
          BY <1>2, <1>3, <4>1, ListedIs DEF all
      <3> HIDE DEF p
      <3> QED
        BY <1>2, <3>1, <3>3, <3>4 DEF Seen, all
    <2>7. \A S, T : /\ Files(S)
                    /\ \A i \in DOMAIN rows : rows[i].order \in T /\ rows[i] = Row(rows[i].order)
                    /\ \A o \in T : \E i \in DOMAIN rows : rows[i].order = o
                    => Files(S \cup T)'
      BY <2>5, FilesBoth
    <2>8. \A S : S = Seen(p) \cup ToSet(all) => Files(S)'
      BY <2>4, <2>5, <2>7
    <2>9. Files(Seen(Current))'
      BY <2>6, <2>8 DEF Files
    <2> QED
      BY <2>1, <2>2, <2>9
  <1>8. \A q, T : Places(q, T)' = Places(q, T)
    BY <1>1, HoldingStays
  <1>9. Listings'
    BY <1>1 DEF StillInv, Faithful, Listings
  <1>10. Faithful'
    BY <1>1, <1>4, <1>7, <1>8, <1>9 DEF StillInv, Faithful
  <1> QED
    BY <1>6, <1>10 DEF StillInv

\* What is found is one of the ways to keep one order of each key.
LEMMA FoundIsFiling ==
    ASSUME NEW S \in SUBSET Orders, Files(S)
    PROVE  \E P \in Filings(S) :
              /\ IsFiniteSet(P) /\ Shows(found, P)
              /\ \A x \in P : x[2] \in S
              /\ P = {} <=> S = {}
  <1> DEFINE T == {found[k].order : k \in DOMAIN found}
             P == {<<Key(o), o>> : o \in T}
  <1>1. \A k \in DOMAIN found : /\ k = Key(found[k].order)
                                /\ found[k].order \in S /\ found[k] = Row(found[k].order)
    BY DEF Files
  <1>2. \A o \in S : Key(o) \in DOMAIN found
    BY DEF Files
  <1>3. T \in SUBSET S
    BY <1>1
  <1>4. OnePerKey(T, S)
    <2>1. ASSUME NEW o \in S PROVE \E t \in T : Key(t) = Key(o)
      BY <1>1, <1>2
    <2>2. ASSUME NEW t \in T, NEW u \in T, Key(t) = Key(u) PROVE t = u
      BY <1>1, <2>2
    <2> HIDE DEF T
    <2> QED
      BY <2>1, <2>2 DEF OnePerKey
  <1>5. Shows(found, P)
    <2> DEFINE place == [k \in DOMAIN found |-> <<k, found[k].order>>]
    <2>1. \A k \in DOMAIN found : place[k] \in P /\ found[k] = Row(place[k][2])
      BY <1>1
    <2>2. \A k, l \in DOMAIN found : place[k] = place[l] => k = l
      OBVIOUS
    <2>3. \A x \in P : \E k \in DOMAIN found : place[k] = x
      BY <1>1
    <2> HIDE DEF place, P
    <2> QED
      BY <2>1, <2>2, <2>3 DEF Shows
  <1>6. \A x \in P : x[2] \in T /\ x = <<Key(x[2]), x[2]>>
    OBVIOUS
  <1>7. P = {} <=> S = {}
    <2>1. S # {} => T # {}
      BY <1>4 DEF OnePerKey
    <2> HIDE DEF T
    <2> QED
      BY <1>3, <2>1
  <1>8. P \in Filings(S)
    <2> HIDE DEF T
    <2> QED
      BY <1>3, <1>4 DEF Filings
  <1> HIDE DEF P, T
  <1>9. IsFiniteSet(P)
    <2> DEFINE f == [x \in P |-> x[2]]
    <2>1. f \in Injection(P, Orders)
      <3>1. f \in [P -> Orders]
        BY <1>3, <1>6
      <3>2. \A x, y \in P : f[x] = f[y] => x = y
        BY <1>6
      <3> QED
        BY <3>1, <3>2 DEF Injection, IsInjective
    <2> HIDE DEF f
    <2> QED
      BY <2>1, OrdersFinite, FS_Injection
  <1> QED
    BY <1>3, <1>5, <1>6, <1>7, <1>8, <1>9

\* After a whole search the verdict is what the orders of all channels say.
LEMMA ConcludeStill ==
    ASSUME TypeInv, StillInv, moves = 0, Conclude
    PROVE  StillInv'
  <1> DEFINE p == Current
             S == Queried \cap InWindow
             all == Holding(p)
             compared == Compare(p, found, "matched_after_recheck")
             said == IF compared = "none"
                       THEN IF complete THEN "confirmed_missing" ELSE "recheck_inconclusive"
                       ELSE compared
  <1>1. /\ stage = "recheck" /\ lookup > Lookups(p)
        /\ verdict' = [verdict EXCEPT ![p] = said]
        /\ stage' \in {"recheck", "done"}
        /\ lookup' = 1 /\ found' = <<>> /\ complete' = TRUE
        /\ UNCHANGED <<list, settled, moves, trouble>>
    BY DEF Conclude, remote
  <1>2. p \in Payments /\ verdict[p] = "none"
    BY <1>1, CurrentIs DEF TypeInv, Phase, Undecided
  <1>3. Places(p, S) = {} /\ \A q \in Payments : verdict[q] = "none" => Places(q, S) = {}
    BY <1>1, <1>2 DEF StillInv, Faithful
  <1>4. ASSUME p \notin trouble
        PROVE  \/ all # {} /\ \E rows \in Filings(all) :
                                 said = Said(p, rows, "matched_after_recheck")
               \/ all = {} /\ said = "confirmed_missing"
    <2>1. complete /\ Files(Seen(p))
      BY <1>1, <1>4 DEF StillInv, Faithful
    <2>2. Seen(p) = all
      BY <1>1, SeenIsAll DEF TypeInv, TypeOK
    <2>3. all \in SUBSET Orders /\ \A o \in all : Names(p, o)
      BY DEF Holding, Listed
    <2> HIDE DEF all, p
    <2>4. Files(all)
      BY <2>1, <2>2
    <2>5. PICK P \in Filings(all) :
             /\ IsFiniteSet(P) /\ Shows(found, P)
             /\ \A x \in P : x[2] \in all
             /\ P = {} <=> all = {}
      BY <2>3, <2>4, FoundIsFiling
    <2>6. {x \in P : Names(p, x[2])} = P /\ \A x \in P : x[2] \in Orders
      BY <2>3, <2>5
    <2>7. compared = IF P = {} THEN "none" ELSE Said(p, P, "matched_after_recheck")
      BY <2>5, <2>6, CompareSays
    <2>8. Said(p, P, "matched_after_recheck") # "none"
      BY EvaluateType DEF Said
    <2> HIDE DEF compared
    <2> QED
      BY <2>1, <2>5, <2>7, <2>8
  <1> HIDE DEF p, said
  <1>5. said # "none"
    BY CompareType DEF said
  <1>6. \A q \in Payments : verdict'[q] = IF q = p THEN said ELSE verdict[q]
    BY <1>1 DEF TypeInv, TypeOK
  <1>7. /\ \A q, T : Places(q, T)' = Places(q, T)
        /\ \A q : Holding(q)' = Holding(q)
    BY <1>1, HoldingStays
  <1>8. \A q, T, match : Said(q, T, match)' = Said(q, T, match)
    BY <1>1 DEF Said, Row
  <1>9. StillRemoteSaysSo'
    <2> SUFFICES ASSUME NEW q \in Payments \ trouble, verdict'[q] # "none"
                 PROVE  \/ /\ Places(q, S) # {}
                           /\ verdict'[q] = Said(q, Places(q, S), "matched")
                        \/ /\ Places(q, S) = {} /\ Holding(q) # {}
                           /\ \E rows \in Filings(Holding(q)) :
                                 verdict'[q] = Said(q, rows, "matched_after_recheck")
                        \/ /\ Places(q, S) = {} /\ Holding(q) = {}
                           /\ verdict'[q] = "confirmed_missing"
      BY <1>1, <1>7, <1>8 DEF StillRemoteSaysSo
    <2>1. CASE q = p
      BY <1>3, <1>4, <1>6, <2>1
    <2>2. CASE q # p
      BY <1>6, <2>2 DEF StillInv, StillRemoteSaysSo
    <2> QED
      BY <2>1, <2>2
  <1>10. \A q \in Payments : verdict'[q] = "none" => Places(q, S)' = {}
    BY <1>3, <1>5, <1>6, <1>7
  <1>11. Listings'
    BY <1>1 DEF StillInv, Faithful, Listings
  <1>12. Faithful'
    BY <1>1, <1>10, <1>11, SearchBegins DEF Faithful
  <1> QED
    BY <1>9, <1>12 DEF StillInv

LEMMA StepStill ==
    TypeInv /\ StillInv /\ [Next]_vars => StillInv'
  <1> SUFFICES ASSUME TypeInv, StillInv, [Next]_vars PROVE StillInv'
    OBVIOUS
  <1>1. CASE moves' # 0
    BY <1>1 DEF StillInv, Faithful, StillRemoteSaysSo
  <1>2. CASE UNCHANGED vars
    <2>1. UNCHANGED <<list, settled, moves, stage, at, page, fetched, lookup, found, complete,
                      verdict, trouble>>
      BY <1>2 DEF vars, remote, bulk, search
    <2>2. StillRemoteSaysSo'
      BY <2>1, SaidStays DEF StillInv
    <2>3. Current' = Current /\ \A p, T : Places(p, T)' = Places(p, T)
      BY <2>1, SameSearch, HoldingStays
    <2>4. Listings' = Listings /\ FetchedPlaces' = FetchedPlaces /\ Listing' = Listing
      BY <2>1 DEF Listings, FetchedPlaces, Earlier, FirstOf, Listing
    <2>5. Shows(fetched, FetchedPlaces)' = Shows(fetched, FetchedPlaces)
      BY <2>1, <2>4 DEF Shows, Row
    <2>6. Files(Seen(Current))' = Files(Seen(Current))
      BY <2>1, <2>3 DEF Files, Row, Seen, Listed
    <2>7. Faithful'
      BY <2>1, <2>3, <2>4, <2>5, <2>6 DEF StillInv, Faithful
    <2> QED
      BY <2>2, <2>7 DEF StillInv
  <1>3. CASE Remote
    <2>1. moves' = moves + 1 /\ moves \in Nat
      BY <1>3 DEF Remote, Appear, Disappear, Settle, Move, TypeInv, TypeOK
    <2> QED
      BY <1>1, <2>1
  <1>4. CASE moves' = 0 /\ (FetchPage \/ FetchFails)
    <2>1. /\ stage = "fetch" /\ stage' \in {"fetch", "incomplete"}
          /\ UNCHANGED <<list, settled, moves, verdict, trouble>>
      BY <1>4 DEF FetchPage, FetchFails, Abandon, remote
    <2>2. StillRemoteSaysSo'
      BY <2>1, SaidStays DEF StillInv
    <2>3. Listings'
      BY <1>4, <2>1 DEF StillInv, Faithful, Listings
    <2>4. stage' = "fetch" => FetchPage
      BY <1>4, <2>1 DEF FetchFails, Abandon
    <2>5. ASSUME stage' = "fetch"
          PROVE  /\ Shows(fetched, FetchedPlaces)'
                 /\ at' <= Len(Channels) => (page' - 1) * PageSize <= Len(Listing')
      <3>1. FetchPage /\ moves = 0
        BY <1>4, <2>1, <2>4, <2>5
      <3>2. /\ Shows(fetched', FetchedPlaces')
            /\ at' <= Len(Channels) => (page' - 1) * PageSize <= Len(Listing')
        BY <2>5, <3>1, FetchShows DEF StillInv
      <3>3. Shows(fetched, FetchedPlaces)'
        BY <2>1, <3>2 DEF Shows, Row
      <3> QED
        BY <3>2, <3>3
    <2>6. Faithful'
      BY <2>1, <2>3, <2>5 DEF Faithful
    <2> QED
      BY <2>2, <2>6 DEF StillInv
  <1>5. CASE moves' = 0 /\ CompareAll
    <2>1. moves = 0
      BY <1>5 DEF CompareAll, remote
    <2> QED
      BY <1>5, <2>1, CompareStill
  <1>6. CASE moves' = 0 /\ LookUp
    <2>1. moves = 0
      BY <1>6 DEF LookUp, remote
    <2> QED
      BY <1>6, <2>1, LookUpStill
  <1>7. CASE moves' = 0 /\ LookUpFails
    <2>1. /\ stage = "recheck" /\ UNCHANGED <<list, settled, moves, stage, verdict>>
          /\ trouble' = trouble \cup {Current}
      BY <1>7 DEF LookUpFails, NoteLookup, remote
    <2>2. StillRemoteSaysSo'
      BY <2>1, SaidStays DEF StillInv
    <2>3. Current' = Current /\ \A p, T : Places(p, T)' = Places(p, T)
      BY <2>1, SameSearch, HoldingStays
    <2>4. Listings'
      BY <1>7, <2>1 DEF StillInv, Faithful, Listings
    <2>5. Faithful'
      BY <1>7, <2>1, <2>3, <2>4 DEF StillInv, Faithful
    <2> QED
      BY <2>2, <2>5 DEF StillInv
  <1>8. CASE moves' = 0 /\ Conclude
    <2>1. moves = 0
      BY <1>8 DEF Conclude, remote
    <2> QED
      BY <1>8, <2>1, ConcludeStill
  <1> QED
    BY <1>1, <1>2, <1>3, <1>4, <1>5, <1>6, <1>7, <1>8 DEF Next, Run

\* While the remote system stands still and answers, the paging and the order of
\* the lookups make no difference: each verdict is what the orders of the window
\* say, those of a channel selected twice twice, or else what the orders of all
\* channels say, of which exact_search keeps one under each key.
THEOREM StillRemoteIsReported == Spec => []StillRemoteSaysSo
  <1>1. Init => StillInv
    BY InitStill
  <1>2. TypeInv /\ StillInv /\ [Next]_vars => StillInv'
    BY StepStill
  <1>3. StillInv => StillRemoteSaysSo
    BY DEF StillInv
  <1> QED
    BY InitTypes, StepTypes, <1>1, <1>2, <1>3, PTL DEF Spec
===============================================================================
