-------------------------- MODULE BatchStateMachine ---------------------------
(* What batch_state.py promises of a batch, as a machine of its own: the       *)
(* status of a batch only ever moves along ALLOWED_TRANSITIONS, so a terminal  *)
(* status is for good.  BatchLifecycle is the program; which batches are       *)
(* exempt from the promise there, it says itself.                              *)
EXTENDS BatchState

CONSTANT Batches

VARIABLES status, exempt

Init ==
    /\ status = [b \in Batches |-> "awaiting_confirmation"]
    /\ exempt = {}

Stay(b) == status'[b] = status[b]

Move(b) == status'[b] \in ALLOWED_TRANSITIONS[status[b]]

Next ==
    /\ exempt \subseteq exempt'
    /\ \A b \in Batches \ exempt' : Stay(b) \/ Move(b)

Spec == Init /\ [][Next]_<<status, exempt>>
===============================================================================
