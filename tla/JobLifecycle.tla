---------------------------- MODULE JobLifecycle ----------------------------
(***************************************************************************)
(* What backend/jobs/models.py promises of a durable job: the statuses it  *)
(* goes through (_TRANSITIONS) and the attempts it may use.                *)
(***************************************************************************)
EXTENDS Naturals

CONSTANTS JobIds, MaxAttempts

VARIABLES status, attempts

Statuses == {"ABSENT", "PENDING", "RUNNING", "RETRY",
             "SUCCEEDED", "FAILED", "CANCELLED"}

\* _TRANSITIONS, with the insertion of the row.
Targets == [s \in Statuses |->
    CASE s = "ABSENT"  -> {"PENDING"}
      [] s = "PENDING" -> {"RUNNING", "CANCELLED"}
      [] s = "RUNNING" -> {"RETRY", "SUCCEEDED", "FAILED", "CANCELLED"}
      [] s = "RETRY"   -> {"RUNNING", "CANCELLED"}
      [] OTHER         -> {}]

Init ==
    /\ status = [j \in JobIds |-> "ABSENT"]
    /\ attempts = [j \in JobIds |-> 0]

\* One job moves: a new attempt is counted when it starts, a retry needs an
\* attempt that is left, and a job fails when none is.
Moves(j) ==
    /\ status'[j] \in Targets[status[j]]
    /\ attempts'[j] = IF status'[j] = "RUNNING" THEN attempts[j] + 1
                                                ELSE attempts[j]
    /\ attempts'[j] <= MaxAttempts
    /\ status'[j] = "RETRY" => attempts'[j] < MaxAttempts
    /\ status'[j] = "FAILED" => attempts'[j] = MaxAttempts

Stays(j) == status'[j] = status[j] /\ attempts'[j] = attempts[j]

\* recover_expired moves several jobs at once.
Next ==
    /\ status' \in [JobIds -> Statuses]
    /\ attempts' \in [JobIds -> Nat]
    /\ \A j \in JobIds : Moves(j) \/ Stays(j)

Spec == Init /\ [][Next]_<<status, attempts>>
=============================================================================
