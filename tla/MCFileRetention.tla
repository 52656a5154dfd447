--------------------------- MODULE MCFileRetention ----------------------------
(* Small instances of FileRetention: two uploads of one content, a rerun.      *)
EXTENDS FileRetention

OneFile == {"f"}
TwoUploads == {"u1", "u2"}
OneRerun == {"r1"}
NoReruns == {}
FirstAges == {"u1"}
SameFile == [u \in Uploads |-> "f"]
===============================================================================
