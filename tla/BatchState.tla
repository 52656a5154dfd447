------------------------------ MODULE BatchState ------------------------------
(* The status graph of a reconciliation batch (batch_state.py): the statuses,  *)
(* the terminal and the cancellable ones, and the transitions that             *)
(* ensure_transition lets through.  No state of its own: the abstract machine  *)
(* and the detailed lifecycle both use it.                                     *)

TERMINAL_BATCH_STATUSES ==
    {"completed", "failed", "comparison_incomplete", "cancelled"}

CANCELLABLE_BATCH_STATUSES ==
    {"queued", "validating", "fetching_remote", "comparing", "rechecking"}

Status ==
    {"uploaded", "awaiting_confirmation", "cancelling"}
        \cup CANCELLABLE_BATCH_STATUSES \cup TERMINAL_BATCH_STATUSES

\* A status without a row of its own (every terminal one) allows nothing.
ALLOWED_TRANSITIONS ==
    [s \in Status |->
        CASE s = "uploaded" -> {"awaiting_confirmation", "failed"}
          [] s = "awaiting_confirmation" -> {"queued", "failed"}
          [] s = "queued" -> {"validating", "cancelling", "failed"}
          [] s = "validating" -> {"fetching_remote", "cancelling", "failed"}
          [] s = "fetching_remote" ->
                {"comparing", "cancelling", "failed", "comparison_incomplete"}
          [] s = "comparing" ->
                {"rechecking", "completed", "cancelling", "failed",
                 "comparison_incomplete"}
          [] s = "rechecking" ->
                {"completed", "cancelling", "failed", "comparison_incomplete"}
          [] s = "cancelling" -> {"cancelled"}
          [] OTHER -> {}]
===============================================================================
