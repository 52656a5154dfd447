---------------------------- MODULE MCSourceConfig ----------------------------
(* Small instances of SourceConfig: two administrators edit, one tests, while  *)
(* a batch is uploaded and run.                                                *)
EXTENDS SourceConfig, TLC

CONSTANTS e1, e2, u1, u2, s1, s2

TwoEditors == {e1, e2}
OneTester == {"tester"}
OneBatch == {"b1"}
TwoUrls == {u1, u2}
TwoSecrets == {s1, s2}

\* Editors, URLs and secrets are only compared.
Alike ==
    Permutations(TwoEditors) \cup Permutations(TwoUrls) \cup Permutations(TwoSecrets)
===============================================================================
