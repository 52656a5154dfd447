--------------------------- MODULE MCBatchLifecycle ---------------------------
(* Small instances of BatchLifecycle for TLC.  Requests are named after what   *)
(* they do and the batch they name.                                            *)
EXTENDS BatchLifecycle

OneBatch == {1}
TwoBatches == {1, 2}
NoRequests == {}
OneConfirmer == {"confirm1"}
TwoConfirmers == {"confirm1", "confirm2"}
DoubleConfirm == {"confirm1", "confirm1_again"}
OneCanceller == {"cancel1"}
DoubleCancel == {"cancel1", "cancel1_again"}
OneWorker == {"w1"}
TwoWorkers == {"w1", "w2"}

\* Each request names batch 1, except the one on batch 2.
TargetOf == [q \in Requests |-> IF q = "confirm2" THEN 2 ELSE 1]

\* Another user than the one who confirms cancels.
UsersOf == [q \in Requests |-> IF q = "cancel1" THEN "bob" ELSE "alice"]
===============================================================================
