---------------------------- MODULE MCPaymentImport -----------------------------
(* Small instances of PaymentImport: every file of up to three rows out of a   *)
(* few, in several layouts, against three templates.                           *)
EXTENDS PaymentImport

\* Version 2 of a platform's template asks for more than version 1, and a third
\* template for another sheet.
Template1 == [signature |-> {"No", "Amount", "State", "Time"}, sheets |-> {"pay", "CSV"},
              business |-> "payin",
              mapping |-> [merchant |-> "No", platform |-> "Ref", amount |-> "Amount",
                           status |-> "State", times |-> {"Time"}]]
Template2 == [Template1 EXCEPT !.signature = @ \cup {"Ref"}]
Template3 == [Template2 EXCEPT !.signature = @ \cup {"Fee"}, !.sheets = {"other"},
                        !.business = "payout"]
ThreeTemplates == <<Template3, Template1, Template2>>

FullHeader == <<"No", "Ref", "Amount", "State", " Time">>
ShortHeader == <<"No", "_", "Amount", "State", "Time">>
TwiceHeader == <<"No", "Ref", "Amount", "State", "Time", "Amount">>

\* The rows: an order, the same with its amount and its time spelled otherwise,
\* with another state, out of the window, without a readable time, amount or
\* number; with another number of the platform; another order with the platform's
\* number of the first; a blank line.
Order(no, amount, state, time) == <<no, "r", amount, state, time, "200">>
RowPool ==
    {Order("a", "100", "ok", "t1"), Order("a", "100.0", "ok", "t1"),
     Order(" a", "100", "ok", "t1 again"), Order("a", "100", "failed", "t1"),
     Order("a", "100", "ok", "t9"), Order("a", "100", "ok", "soon"),
     <<"a", "s", "100", "ok", "t1", "200">>,
     Order("b", "100", "ok", "t1"), Order("b", "?", "ok", "t1"),
     Order("_", "100", "ok", "t1"), <<"_", "  ", "_", "_", "_", "_">>}

Sheet(name, lines) == [name |-> name, lines |-> lines]
Title == <<"_", "payments of the day">>

Layouts(body) ==
    {[cut |-> FALSE, sheets |-> <<Sheet("pay", <<header>> \o body)>>] :
        header \in {FullHeader, TwiceHeader}}
    \cup {[cut |-> FALSE, sheets |-> <<Sheet("other", <<Title, FullHeader>>),
                                       Sheet("pay", <<Title, ShortHeader>> \o body)>>],
          [cut |-> TRUE, sheets |-> <<Sheet("CSV", <<FullHeader>> \o body)>>]}

SmallFiles == UNION {Layouts(<<r, s, t>>) : r \in RowPool, s \in RowPool, t \in RowPool}

Everything == {"_", "payments of the day", "No", "Ref", "Amount", "State", "Time",
               "a", "b", "r", "s", "100", "100.0", "200", "?", "ok", "failed",
               "t1", "t1 again", "t9", "soon"}
Asked == [header_row : 0..2, business : {"payin", "payout"}, time_field : {"Time", "Ref"}]
Stripped == [cell \in {" a", " Time", "  "} |->
               IF cell = " a" THEN "a" ELSE IF cell = " Time" THEN "Time" ELSE "_"]
Amounts == [text \in {"100", "100.0", "200"} |-> IF text = "200" THEN 200 ELSE 100]
Times == [text \in {"t1", "t1 again", "t9"} |-> IF text = "t9" THEN 9 ELSE 1]
Day == 1..5
===============================================================================
