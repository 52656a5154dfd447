-------------------------- MODULE ResultPublication ---------------------------
(* What users may rely on, whatever happens inside: a batch gets at most one   *)
(* verdict from the workers, its results become visible together with the      *)
(* verdict "completed" and with no other, and neither is ever taken back.      *)
(* Cancellation is not a verdict: it may come before, after or instead of one. *)
(* Of a disputed batch nothing is promised.                                    *)

CONSTANTS Batches, Verdicts

VARIABLES
    verdicts,  \* the verdicts announced for each batch
    visible,   \* the batches whose final results can be read
    disputed   \* the batches that more than one run may decide

Init ==
    /\ verdicts = [b \in Batches |-> {}]
    /\ visible = {}
    /\ disputed = {}

Keep(b) ==
    /\ verdicts'[b] = verdicts[b]
    /\ b \in visible' <=> b \in visible

Decide(b, v) ==
    /\ verdicts[b] = {}
    /\ verdicts'[b] = {v}
    /\ b \in visible' <=> v = "completed"

Next ==
    /\ disputed \subseteq disputed'
    /\ \A b \in Batches \ disputed' : Keep(b) \/ \E v \in Verdicts : Decide(b, v)

Spec == Init /\ [][Next]_<<verdicts, visible, disputed>>
===============================================================================
