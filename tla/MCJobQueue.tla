----------------------------- MODULE MCJobQueue -----------------------------
(* Two workers, and two jobs in turn with at most two attempts each.       *)
EXTENDS JobQueue
=============================================================================
