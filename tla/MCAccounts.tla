------------------------------ MODULE MCAccounts -------------------------------
(* A small instance of Accounts: an administrator and an account to be created.*)
EXTENDS Accounts

TwoUsers == {"alice", "bob"}
OnlyAlice == {"alice"}
LoginNames == [l1 |-> "alice", l2 |-> "bob", l3 |-> "bob"]
AliceIsIn == {"l1"}
ThreeLogins == DOMAIN LoginNames
TwoEdits == {"e1", "e2"}
OneCreate == {"c1"}
CreatedNames == [c \in Creates |-> "bob"]

Asks(role, active, reset) == [role |-> role, active |-> active, reset |-> reset]
SomeChanges ==
    {Asks("user", "keep", FALSE), Asks("admin", "yes", FALSE),
     Asks("keep", "no", TRUE)}
===============================================================================
