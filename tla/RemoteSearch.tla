----------------------------- MODULE RemoteSearch -----------------------------
(* How one run compares the payments of a file with the remote system: the     *)
(* listing of each selected channel is fetched page by page, the payments      *)
(* without a counterpart are searched one by one, and each payment gets a      *)
(* verdict.  The remote system goes on meanwhile: orders appear, disappear and *)
(* are paid between two calls.  A step is one call, or the local work between  *)
(* two calls.                                                                  *)
EXTENDS Naturals, SequencesExt

CONSTANTS
    Orders,      \* remote orders
    Catalogue,   \* the orders as a listing shows them, newest first
    OrderNum,    \* order_num of each order
    OutTradeNo,  \* out_trade_no of each order
    Amount,      \* amount of each order
    Channel,     \* channel of each order
    Identified,  \* the orders that come with an id
    Queried,     \* the orders created in the window, widened by the buffers
    InWindow,    \* the orders whose remote time is in the window
    Channels,    \* the selected channels, in order
    Payments,    \* payments of the file that are not decided by the import: 1..n
    MerchantNo, PlatformNo, Paid, Due,  \* of each payment; Due is its amount
    NoNumber,    \* the platform number of a payment without one
    PageSize,
    MaxMoves     \* bound: changes at the remote during a run

ChannelSet == ToSet(Channels)

ASSUME RemoteAssumption ==
    /\ Catalogue \in Seq(Orders) /\ ToSet(Catalogue) = Orders
    /\ \A i, j \in DOMAIN Catalogue : Catalogue[i] = Catalogue[j] => i = j
    /\ Channels \in Seq(ChannelSet)
    /\ Payments \subseteq Nat
    /\ Identified \subseteq Orders
    /\ Queried \subseteq Orders
    /\ InWindow \subseteq Orders
    /\ \A o \in Orders : OutTradeNo[o] # NoNumber
    /\ PageSize \in Nat \ {0}
    /\ MaxMoves \in Nat

VARIABLES
    list,      \* the remote listing of each channel, newest first
    settled,   \* the orders with the remote success status
    moves,     \* changes at the remote so far
    stage,     \* of the run: fetch, recheck, done, incomplete
    at,        \* position of the channel that is fetched
    page,      \* the next page of it
    count,     \* rows of it fetched so far
    fetched,   \* the rows fetched, of all channels
    lookup,    \* position of the next lookup for the payment searched now
    found,     \* what its lookups found, by the key exact_search files it under
    complete,  \* no lookup for it was cut short or failed
    verdict,   \* of each payment
    steady,    \* history: the orders listed ever since its search began
    past,      \* history: rows an answer could have held so far
    trouble    \* history: payments with a lookup that failed or was cut short

\* The elements of s that are in S, in their order.
KeepNext(S, kept, x) == IF x \in S THEN Append(kept, x) ELSE kept
Kept(s, S) == FoldLeft(LAMBDA kept, x : KeepNext(S, kept, x), <<>>, s)

remote == <<list, settled, moves>>
bulk == <<at, page, count, fetched>>
search == <<lookup, found, complete>>
vars == <<remote, stage, bulk, search, verdict, steady, past, trouble>>

-------------------------------------------------------------------------------
(* The verdict on one payment: reconciliation_engine.py.                       *)

\* A row of an answer is an order and whether it was paid at the time.
Row(o) == [order |-> o, success |-> o \in settled]
Rows == [order : Orders, success : BOOLEAN]

Verdicts == {"matched", "matched_after_recheck", "amount_mismatch",
             "order_reference_conflict", "remote_status_not_success",
             "confirmed_missing", "recheck_inconclusive"}

Evaluate(p, row, match) ==
    CASE Amount[row.order] # Due[p] -> "amount_mismatch"
      [] Amount[row.order] = Due[p] /\ Paid[p] /\ ~row.success ->
            "remote_status_not_success"
      [] OTHER -> match

\* Mutation: the platform number is not asked for again.
CompareMerchant(p, rows, match) ==
    LET primary == {i \in DOMAIN rows : OrderNum[rows[i].order] = MerchantNo[p]}
    IN IF primary # {} THEN Evaluate(p, rows[CHOOSE i \in primary : TRUE], match)
       ELSE "none"

\* rows is a sequence of rows, or any function to rows: their number counts, not
\* their order.  "none" says that the payment has no counterpart.
Compare(p, rows, match) ==
    LET primary == {i \in DOMAIN rows : OrderNum[rows[i].order] = MerchantNo[p]}
        secondary == {i \in DOMAIN rows : OutTradeNo[rows[i].order] = PlatformNo[p]}
        exact == IF PlatformNo[p] = NoNumber THEN primary
                                             ELSE primary \cap secondary
    IN CASE Cardinality(exact) = 1 ->
                Evaluate(p, rows[CHOOSE i \in exact : TRUE], match)
         [] Cardinality(exact) # 1 /\ primary \cup secondary # {} ->
                "order_reference_conflict"
         [] OTHER -> "none"

-------------------------------------------------------------------------------
Listed == {o \in Orders : \E c \in ChannelSet : \E i \in DOMAIN list[c] : list[c][i] = o}

Undecided == {p \in Payments : verdict[p] = "none"}
Current == CHOOSE p \in Undecided : \A q \in Undecided : p <= q

TypeOK ==
    /\ list \in [ChannelSet -> Seq(Orders)]
    /\ settled \subseteq Orders
    /\ moves \in 0..MaxMoves
    /\ stage \in {"fetch", "recheck", "done", "incomplete"}
    /\ at \in 1..(Len(Channels) + 1)
    /\ page \in Nat \ {0}
    /\ count \in Nat
    /\ fetched \in Seq(Rows)
    /\ lookup \in Nat \ {0}
    /\ \A k \in DOMAIN found : found[k] \in Rows
    /\ complete \in BOOLEAN
    /\ verdict \in [Payments -> Verdicts \cup {"none"}]
    /\ steady \subseteq Orders
    /\ past \subseteq Rows
    /\ trouble \subseteq Payments

Init ==
    /\ \E present \in SUBSET Orders :
          /\ list = [c \in ChannelSet |->
                       Kept(Catalogue, {o \in present : Channel[o] = c})]
          /\ settled \in SUBSET present
          /\ past = {[order |-> o, success |-> o \in settled] : o \in present}
    /\ moves = 0
    /\ stage = "fetch"
    /\ at = 1 /\ page = 1 /\ count = 0 /\ fetched = <<>>
    /\ lookup = 1 /\ found = <<>> /\ complete = TRUE
    /\ verdict = [p \in Payments |-> "none"]
    /\ steady = {}
    /\ trouble = {}

-------------------------------------------------------------------------------
(* The remote system, until the run is over.                                   *)

Running == stage \notin {"done", "incomplete"}

Move ==
    /\ Running
    /\ moves < MaxMoves
    /\ moves' = moves + 1
    /\ past' = past \cup {[order |-> o, success |-> o \in settled'] : o \in Listed'}
    /\ UNCHANGED <<stage, bulk, search, verdict, trouble>>

\* A new order goes to the head of its channel's listing.
Appear(o) ==
    /\ o \notin Listed /\ Channel[o] \in ChannelSet
    /\ list' = [list EXCEPT ![Channel[o]] = <<o>> \o @]
    /\ UNCHANGED <<settled, steady>>
    /\ Move

Disappear(o) ==
    /\ o \in Listed
    /\ list' = [list EXCEPT ![Channel[o]] = Kept(@, Orders \ {o})]
    /\ settled' = settled \ {o}
    /\ steady' = steady \ {o}
    /\ Move

\* An order is paid, or its payment is taken back.
Settle(o) ==
    /\ o \in Listed
    /\ settled' = IF o \in settled THEN settled \ {o} ELSE settled \cup {o}
    /\ UNCHANGED <<list, steady>>
    /\ Move

\* The answer to a query that all these orders match: a page of them, and how
\* many they are.
Answer(all, n) ==
    LET rows == SubSeq(all, (n - 1) * PageSize + 1,
                       IF n * PageSize < Len(all) THEN n * PageSize ELSE Len(all))
    IN [rows |-> [i \in DOMAIN rows |-> Row(rows[i])],
        total |-> Len(all),
        pages |-> (Len(all) + PageSize - 1) \div PageSize]

-------------------------------------------------------------------------------
(* fetch_all_charge_orders.                                                    *)

Abandon ==
    /\ stage' = "incomplete"
    /\ UNCHANGED <<remote, bulk, search, verdict, steady, past, trouble>>

\* Mutation: the pages of the next channel are counted from zero.
NextChannelFromZero ==
    /\ at' = at + 1
    /\ page' = 0
    /\ count' = 0

NextChannel ==
    /\ at' = at + 1
    /\ page' = 1
    /\ count' = 0

\* One page; after the last one the rows of the channel must be as many as the
\* total that page reported.
FetchPage ==
    LET listing == Kept(list[Channels[at]], Queried)
        answer == Answer(listing, page)
        rows == count + Len(answer.rows)
    IN /\ stage = "fetch"
       /\ at <= Len(Channels)
       /\ \/ /\ page < answer.pages
             /\ page' = page + 1
             /\ count' = rows
             /\ fetched' = fetched \o answer.rows
             /\ UNCHANGED <<at, remote, stage, search, verdict, steady, past, trouble>>
          \/ /\ page >= answer.pages
             /\ rows = answer.total
             /\ NextChannel
             /\ fetched' = fetched \o answer.rows
             /\ UNCHANGED <<remote, stage, search, verdict, steady, past, trouble>>
          \/ /\ page >= answer.pages
             /\ rows # answer.total
             /\ Abandon

\* A call fails, or its answer is malformed: no comparison.
FetchFails ==
    /\ stage = "fetch"
    /\ at <= Len(Channels)
    /\ Abandon

\* Every channel is fetched: keep the rows in the window, decide what they
\* decide, and start with the search of the first payment left.
CompareAll ==
    LET inWindow == Kept(fetched, {row \in Rows : row.order \in InWindow})
    IN /\ stage = "fetch"
       /\ at > Len(Channels)
       /\ verdict' = [p \in Payments |-> Compare(p, inWindow, "matched")]
       /\ stage' = IF \E p \in Payments : verdict'[p] = "none" THEN "recheck" ELSE "done"
       /\ fetched' = <<>>
       /\ steady' = Listed
       /\ UNCHANGED <<remote, at, page, count, search, past, trouble>>

-------------------------------------------------------------------------------
(* exact_search, for one payment after the other.                              *)

Fields(p) == IF PlatformNo[p] = NoNumber THEN <<"order_num">>
                                         ELSE <<"order_num", "out_trade_no">>
Lookups(p) == Len(Channels) * Len(Fields(p))
LookupChannel(p) == Channels[((lookup - 1) \div Len(Fields(p))) + 1]
LookupField(p) == Fields(p)[((lookup - 1) % Len(Fields(p))) + 1]

Hit(p, o) == IF LookupField(p) = "order_num" THEN OrderNum[o] = MerchantNo[p]
                                             ELSE OutTradeNo[o] = PlatformNo[p]

\* A found row is filed under its id or else its number; a later one replaces it.
Key(o) == IF o \in Identified THEN <<"id", o>> ELSE <<"number", OrderNum[o]>>

Filed(rows) ==
    LET keys == {Key(rows[i].order) : i \in DOMAIN rows}
        last(k) == CHOOSE i \in DOMAIN rows :
                      /\ Key(rows[i].order) = k
                      /\ \A j \in DOMAIN rows : Key(rows[j].order) = k => j <= i
    IN [k \in DOMAIN found \cup keys |-> IF k \in keys THEN rows[last(k)] ELSE found[k]]

\* Mutation: what counts is the last lookup.
NoteLast(p, whole) ==
    /\ complete' = whole
    /\ trouble' = IF whole THEN trouble ELSE trouble \cup {p}

NoteLookup(p, whole) ==
    /\ complete' = (complete /\ whole)
    /\ trouble' = IF whole THEN trouble ELSE trouble \cup {p}

\* Mutation: one field is enough, the second is not looked up.
LookUpOnce ==
    LET p == Current
        hits == Kept(list[LookupChannel(p)], {o \in Orders : Hit(p, o)})
        answer == Answer(hits, 1)
    IN /\ stage = "recheck"
       /\ lookup <= Lookups(p)
       /\ found' = Filed(answer.rows)
       /\ NoteLookup(p, answer.pages <= 1)
       /\ lookup' = Lookups(p) + 1
       /\ UNCHANGED <<remote, stage, bulk, verdict, steady, past>>

LookUp ==
    LET p == Current
        hits == Kept(list[LookupChannel(p)], {o \in Orders : Hit(p, o)})
        answer == Answer(hits, 1)
    IN /\ stage = "recheck"
       /\ lookup <= Lookups(p)
       /\ found' = Filed(answer.rows)
       /\ NoteLookup(p, answer.pages <= 1)
       /\ lookup' = lookup + 1
       /\ UNCHANGED <<remote, stage, bulk, verdict, steady, past>>

\* A failed lookup is passed over and remembered.
LookUpFails ==
    LET p == Current
    IN /\ stage = "recheck"
       /\ lookup <= Lookups(p)
       /\ NoteLookup(p, FALSE)
       /\ lookup' = lookup + 1
       /\ UNCHANGED <<remote, stage, bulk, found, verdict, steady, past>>

\* The verdict on the payment searched, then the next one.
Conclude ==
    LET p == Current
        compared == Compare(p, found, "matched_after_recheck")
        absent == IF complete THEN "confirmed_missing" ELSE "recheck_inconclusive"
    IN /\ stage = "recheck"
       /\ lookup > Lookups(p)
       /\ verdict' = [verdict EXCEPT ![p] = IF compared = "none" THEN absent ELSE compared]
       /\ stage' = IF Undecided = {p} THEN "done" ELSE "recheck"
       /\ lookup' = 1 /\ found' = <<>> /\ complete' = TRUE
       /\ steady' = Listed
       /\ UNCHANGED <<remote, bulk, past, trouble>>

Remote == \E o \in Orders : Appear(o) \/ Disappear(o) \/ Settle(o)

Run == \/ FetchPage \/ FetchFails \/ CompareAll
       \/ LookUp \/ LookUpFails \/ Conclude

Next == Remote \/ Run

Spec == Init /\ [][Next]_vars

-------------------------------------------------------------------------------
(* Properties.                                                                 *)

Names(p, o) ==
    \/ OrderNum[o] = MerchantNo[p]
    \/ PlatformNo[p] # NoNumber /\ OutTradeNo[o] = PlatformNo[p]

\* No payment is confirmed missing while a selected channel lists an order with
\* one of its numbers, and did so all through its search, whatever the remote
\* system changed and however the paging of the bulk fetch went astray.
MissingIsAbsent ==
    [][\A p \in Payments :
          verdict[p] = "none" /\ verdict'[p] = "confirmed_missing" =>
              \A o \in steady : ~Names(p, o)]_vars

\* A payment is matched by one order that bears its numbers and its amount and
\* that some answer could show as successful if the payment is.
MatchHasWitness ==
    \A p \in Payments :
        verdict[p] \in {"matched", "matched_after_recheck"} =>
            \E row \in past :
                /\ OrderNum[row.order] = MerchantNo[p]
                /\ PlatformNo[p] = NoNumber \/ OutTradeNo[row.order] = PlatformNo[p]
                /\ Amount[row.order] = Due[p]
                /\ Paid[p] => row.success

\* A lookup that failed, or whose answer has more pages, never ends in a missing
\* order, wherever among the lookups it comes.
TroubleIsNotMissing ==
    \A p \in trouble : verdict[p] # "confirmed_missing"

\* While the remote system stands still and answers, each verdict is what the
\* orders it holds say: of the fetched window first, a channel that is selected
\* twice giving its orders twice; else of all channels, where exact_search keeps
\* one of the orders without an id that share a number.
Places(p, S) ==
    {x \in (1..Len(Channels)) \X S : x[2] \in ToSet(list[Channels[x[1]]]) /\ Names(p, x[2])}
Holding(p) == {o \in Listed : Names(p, o)}
OnePerKey(T, S) ==
    /\ \A o \in S : \E t \in T : Key(t) = Key(o)
    /\ \A t, u \in T : Key(t) = Key(u) => t = u
Filings(S) ==
    {{<<Key(o), o>> : o \in T} : T \in {U \in SUBSET S : OnePerKey(U, S)}}

\* What rows say that hold an order each.
Said(p, rows, match) ==
    LET exact == {row \in rows :
                     /\ OrderNum[row[2]] = MerchantNo[p]
                     /\ PlatformNo[p] = NoNumber \/ OutTradeNo[row[2]] = PlatformNo[p]}
    IN IF Cardinality(exact) = 1
         THEN Evaluate(p, Row((CHOOSE row \in exact : TRUE)[2]), match)
         ELSE "order_reference_conflict"

StillRemoteSaysSo ==
    moves = 0 =>
        \A p \in Payments \ trouble :
            LET listed == Places(p, Queried \cap InWindow)
                filings == Filings(Holding(p))
            IN verdict[p] # "none" =>
                  \/ listed # {} /\ verdict[p] = Said(p, listed, "matched")
                  \/ /\ listed = {} /\ Holding(p) # {}
                     /\ \E rows \in filings :
                           verdict[p] = Said(p, rows, "matched_after_recheck")
                  \/ listed = {} /\ Holding(p) = {} /\ verdict[p] = "confirmed_missing"
===============================================================================
