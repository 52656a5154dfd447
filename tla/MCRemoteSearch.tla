---------------------------- MODULE MCRemoteSearch ----------------------------
(* Small instances of RemoteSearch: two channels, pages of two rows.           *)
(* o1, o2 and o3 share a channel, so that a page boundary runs through it; o4, *)
(* in the other one, bears the merchant number of o1 and has no id; o2 and o5  *)
(* share a number without an id, o5 in the other channel and created outside   *)
(* the queried range; o2 and o3 were paid outside the window.                  *)
EXTENDS RemoteSearch

FiveOrders == {"o1", "o2", "o3", "o4", "o5"}
NewestFirst == <<"o5", "o4", "o3", "o2", "o1">>

NumOf == [o \in Orders |-> CASE o \in {"o1", "o4"} -> "A" [] o \in {"o2", "o5"} -> "B"
                             [] o = "o3" -> "C"]
TradeOf == [o \in Orders |-> CASE o = "o1" -> "a" [] o = "o2" -> "b"
                               [] o = "o3" -> "c" [] o = "o4" -> "x" [] o = "o5" -> "d"]
AmountOf == [o \in Orders |-> IF o \in {"o3", "o5"} THEN 2 ELSE 1]
ChannelOf == [o \in Orders |-> IF o \in {"o4", "o5"} THEN "c2" ELSE "c1"]
WithId == {"o1", "o3"}
NotLate == Orders \ {"o5"}
PaidInTime == {"o1", "o4"}
TwoChannels == <<"c1", "c2">>
OneTwice == <<"c1", "c2", "c2">>

\* Payment 1 is that of o1, payment 2 names o2 and o5 by the merchant number only,
\* payment 3 bears the platform number of o3 under another merchant number.
ThreePayments == {1, 2, 3}
MerchantOf == [p \in Payments |-> CASE p = 1 -> "A" [] p = 2 -> "B" [] p = 3 -> "Z"]
PlatformOf == [p \in Payments |-> CASE p = 1 -> "a" [] p = 2 -> "-" [] p = 3 -> "c"]
PaidOf == [p \in Payments |-> p # 2]
DueOf == [p \in Payments |-> 1]
===============================================================================
