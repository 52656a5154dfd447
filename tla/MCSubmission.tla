----------------------------- MODULE MCSubmission -----------------------------
(* Small instances of Submission: two uploads of one comparison and reruns.    *)
EXTENDS Submission

TwoUploads == {"u1", "u2"}
ThreeReruns == {"r1", "r2", "r3"}
NoReruns == {}
OneComparison == {"c"}
SameComparison == [u \in Uploads |-> "c"]
===============================================================================
