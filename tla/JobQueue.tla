------------------------------ MODULE JobQueue ------------------------------
(***************************************************************************)
(* The durable job table of backend/jobs/repository.py and the loop that   *)
(* every rag-worker process runs over it (backend/worker/runner.py).       *)
(*                                                                         *)
(* Each store call is one committed PostgreSQL transaction                 *)
(* (PostgreSQLJobStore), hence one action.  Time is relative: a RUNNING    *)
(* row keeps the ticks left before lease_expires_at, a RETRY row the ticks *)
(* left before available_at, and Tick lets time pass for every row at      *)
(* once.  Nothing obliges a worker to beat before its lease runs out: the  *)
(* event loop may be blocked by a parser or an object store call.          *)
(***************************************************************************)
EXTENDS Naturals, FiniteSets

CONSTANTS
    Workers,      \* worker identities: lease_owner is <hostname>-<pid>
    NoWorker,     \* lease_owner IS NULL
    Docs,         \* logical documents
    JobIds,       \* primary keys that may be handed out
    NoJob,        \* claim_next returned None
    JobTypes,     \* the job types in use
    Revisions,    \* document_revision
    MaxAttempts,  \* jobs.max_attempts
    LeaseTicks,   \* lease_for
    RetryTicks,   \* retry_after
    MaxCrashes    \* bound on the crashes of worker processes

ASSUME JobQueueAssumption ==
    /\ NoWorker \notin Workers
    /\ NoJob \notin JobIds
    /\ JobTypes \subseteq
         {"INDEX_DOCUMENT", "DELETE_DOCUMENT", "REINDEX_DOCUMENT"}
    /\ Revisions \subseteq Nat \ {0}
    /\ MaxAttempts \in Nat \ {0}
    /\ LeaseTicks \in Nat \ {0}
    /\ RetryTicks \in Nat
    /\ MaxCrashes \in Nat

VARIABLES
    jobs,      \* the rows of graph_blizz.jobs, by id
    pc,        \* where each worker is in Worker.run_once
    task,      \* the claimed job of each worker, as claim_next returned it
    beating,   \* the heartbeat task of the current job has not raised
    stop,      \* the stop event of the process is set
    crashes    \* crashes so far

jobVars == <<jobs, pc, task, beating, stop, crashes>>

-----------------------------------------------------------------------------
(* Rows.                                                                   *)

ActiveStatuses   == {"PENDING", "RUNNING", "RETRY"}
TerminalStatuses == {"SUCCEEDED", "FAILED"}

JobStatuses      == ActiveStatuses \cup TerminalStatuses

Owners   == Workers \cup {NoWorker}
Attempts == 0 .. MaxAttempts
Leases   == 0 .. LeaseTicks    \* ticks left; 0 is an expired lease
Waits    == 0 .. RetryTicks    \* ticks left before available_at

Row == [status : JobStatuses, doc : Docs, type : JobTypes, rev : Revisions,
        attempts : Attempts, owner : Owners, lease : Leases, wait : Waits]

NewRow(d, t, r) ==
    [status |-> "PENDING", doc |-> d, type |-> t, rev |-> r, attempts |-> 0,
     owner |-> NoWorker, lease |-> 0, wait |-> 0]

\* Faulty variant: a waiting retry does not count.
HasActiveJob_NoRetry(d) ==
    \E j \in DOMAIN jobs :
      jobs[j].doc = d /\ jobs[j].status \in {"PENDING", "RUNNING"}

HasActiveJob(d) ==
    \E j \in DOMAIN jobs : jobs[j].doc = d /\ jobs[j].status \in ActiveStatuses

\* Faulty variants: an expired lease is taken over on the spot; a failed
\* job is taken up again; a retry is forgotten.
Claimable_TakesOver(j) ==
    \/ jobs[j].status \in {"PENDING", "RETRY"} /\ jobs[j].wait = 0
    \/ jobs[j].status = "RUNNING" /\ jobs[j].lease = 0
Claimable_Failed(j) ==
    jobs[j].status \in {"PENDING", "RETRY", "FAILED"} /\ jobs[j].wait = 0
Claimable_PendingOnly(j) ==
    jobs[j].status = "PENDING" /\ jobs[j].wait = 0

Claimable(j) ==
    /\ jobs[j].status \in {"PENDING", "RETRY"}
    /\ jobs[j].wait = 0
    /\ jobs[j].attempts < MaxAttempts

\* The fence shared by heartbeat, succeed, fail and the complete_*_for_job
\* statements, without its comparison of lease_expires_at with now().
OwnsAttempt(w, j) ==
    /\ j \in DOMAIN jobs
    /\ jobs[j].status = "RUNNING"
    /\ jobs[j].owner = w
    /\ jobs[j].attempts = task[w].attempt

LeaseLive(j) == jobs[j].lease > 0

\* Faulty variant: the statement does not look at lease_expires_at.
Fenced_NoExpiry(w) == OwnsAttempt(w, task[w].job)

\* The fence as a transaction of its own evaluates it.
Fenced(w) == OwnsAttempt(w, task[w].job) /\ LeaseLive(task[w].job)

\* The fence inside the processing transaction: now() is the time at which
\* that transaction began, and the lease was live then or it was not.
FencedSinceBegin(w) == OwnsAttempt(w, task[w].job) /\ task[w].live

\* Faulty variant: only the first claim counts as an attempt.
Leased_FirstOnly(row, w) ==
    [row EXCEPT !.status = "RUNNING", !.owner = w, !.lease = LeaseTicks,
                !.attempts = IF row.status = "PENDING" THEN @ + 1 ELSE @]

Leased(row, w) ==
    [row EXCEPT !.status = "RUNNING", !.attempts = @ + 1,
                !.owner = w, !.lease = LeaseTicks]

Released(row, s) ==
    [row EXCEPT !.status = s, !.owner = NoWorker, !.lease = 0]

\* Faulty variant: off by one.
RetriedOrFailed_OffByOne(row) ==
    IF row.attempts <= MaxAttempts
    THEN [Released(row, "RETRY") EXCEPT !.wait = RetryTicks]
    ELSE Released(row, "FAILED")

\* The CASE attempts < max_attempts of fail and recover_expired.
RetriedOrFailed(row) ==
    IF row.attempts < MaxAttempts
    THEN [Released(row, "RETRY") EXCEPT !.wait = RetryTicks]
    ELSE Released(row, "FAILED")

\* Faulty variant: every RUNNING row is taken for an orphan.
Expired_AnyRunning(row) == row.status = "RUNNING"

Expired(row) == row.status = "RUNNING" /\ row.lease = 0

Earlier(n) == IF n = 0 THEN 0 ELSE n - 1

Aged(row) == [row EXCEPT !.lease = Earlier(@), !.wait = Earlier(@)]

NoTask == [job |-> NoJob, attempt |-> 0, live |-> FALSE]

-----------------------------------------------------------------------------
TypeOK ==
    /\ DOMAIN jobs \subseteq JobIds
    /\ jobs \in [DOMAIN jobs -> Row]
    /\ pc \in [Workers -> {"idle", "claiming", "working", "succeeding",
                           "failing", "down", "stopped"}]
    /\ task \in [Workers -> [job : JobIds \cup {NoJob},
                             attempt : Attempts,
                             live : BOOLEAN]]
    /\ beating \in [Workers -> BOOLEAN]
    /\ stop \in [Workers -> BOOLEAN]
    /\ crashes \in 0 .. MaxCrashes

Init ==
    /\ jobs = [j \in {} |-> NoJob]
    /\ pc = [w \in Workers |-> "idle"]
    /\ task = [w \in Workers |-> NoTask]
    /\ beating = [w \in Workers |-> FALSE]
    /\ stop = [w \in Workers |-> FALSE]
    /\ crashes = 0

-----------------------------------------------------------------------------
(* The API's side: create_indexing, create_deletion and                    *)
(* create_workspace_reindex insert a PENDING row.  The partial unique      *)
(* index uq_jobs_active_document_mutation refuses a second active one.     *)

CreateJob(d, t, r) ==
    /\ ~HasActiveJob(d)
    /\ JobIds \ DOMAIN jobs # {}
    /\ LET j == CHOOSE i \in JobIds : i \notin DOMAIN jobs
       IN  jobs' = [i \in DOMAIN jobs \cup {j} |->
                      IF i = j THEN NewRow(d, t, r) ELSE jobs[i]]
    /\ UNCHANGED <<pc, task, beating, stop, crashes>>

-----------------------------------------------------------------------------
(* Worker.run_once.                                                        *)

\* Faulty variant: there is no second look.
RecoverExpired_NoSecondLook(w) ==
    /\ pc[w] = "idle"
    /\ jobs' = [j \in DOMAIN jobs |-> IF Expired(jobs[j])
                                      THEN RetriedOrFailed(jobs[j])
                                      ELSE jobs[j]]
    /\ pc' = [pc EXCEPT ![w] = "claiming"]
    /\ UNCHANGED <<task, beating, stop, crashes>>

\* recover_expired, then the second look at the stop event, which may have
\* been set since the first.
RecoverExpired(w) ==
    /\ pc[w] = "idle"
    /\ jobs' = [j \in DOMAIN jobs |-> IF Expired(jobs[j])
                                      THEN RetriedOrFailed(jobs[j])
                                      ELSE jobs[j]]
    /\ pc' = [pc EXCEPT ![w] = IF stop[w] THEN "stopped" ELSE "claiming"]
    /\ UNCHANGED <<task, beating, stop, crashes>>

\* The first look: run leaves its loop.
StopClaiming(w) ==
    /\ pc[w] = "idle" /\ stop[w]
    /\ pc' = [pc EXCEPT ![w] = "stopped"]
    /\ UNCHANGED <<jobs, task, beating, stop, crashes>>

\* claim_next.  Which of several available rows comes first depends on
\* timestamps and on the rows other claims hold (SKIP LOCKED): any may.
ClaimNext(w) ==
    /\ pc[w] = "claiming"
    /\ \E j \in DOMAIN jobs :
         /\ Claimable(j)
         /\ jobs' = [jobs EXCEPT ![j] = Leased(@, w)]
         /\ task' = [task EXCEPT ![w] =
                       [job |-> j, attempt |-> Leased(jobs[j], w).attempts,
                        live |-> FALSE]]
    /\ pc' = [pc EXCEPT ![w] = "working"]
    /\ beating' = [beating EXCEPT ![w] = TRUE]
    /\ UNCHANGED <<stop, crashes>>

\* claim_next returned None: run sleeps for poll_every or until stopped.
ClaimNothing(w) ==
    /\ pc[w] = "claiming"
    /\ \A j \in DOMAIN jobs : ~Claimable(j)
    /\ pc' = [pc EXCEPT ![w] = "idle"]
    /\ UNCHANGED <<jobs, task, beating, stop, crashes>>

\* A claimed job is being processed or its outcome recorded.
Busy == {"working", "succeeding", "failing"}

\* The heartbeat task goes on until run_once has recorded the outcome.
Beats(w) == pc[w] \in Busy /\ beating[w]

Heartbeat(w) ==
    /\ Beats(w)
    /\ Fenced(w)
    /\ jobs' = [jobs EXCEPT ![task[w].job].lease = LeaseTicks]
    /\ UNCHANGED <<pc, task, beating, stop, crashes>>

\* The fence refused the heartbeat or PostgreSQL could not be reached.
LoseHeartbeat(w) ==
    /\ Beats(w)
    /\ beating' = [beating EXCEPT ![w] = FALSE]
    /\ UNCHANGED <<jobs, pc, task, stop, crashes>>

\* Processing opens a transaction: from here on its now() stands still.
BeginTransaction(w) ==
    /\ pc[w] = "working"
    /\ task' = [task EXCEPT ![w].live = LeaseLive(task[w].job)]
    /\ UNCHANGED <<jobs, pc, beating, stop, crashes>>

\* complete_replacement_for_job and its siblings: the processing
\* transaction itself ends the job.
CompleteInProcess(w) ==
    /\ pc[w] = "working"
    /\ FencedSinceBegin(w)
    /\ jobs' = [jobs EXCEPT ![task[w].job] = Released(@, "SUCCEEDED")]
    /\ UNCHANGED <<pc, task, beating, stop, crashes>>

\* processing is done before the heartbeat is seen to have raised.
Finish(w, outcome) ==
    /\ pc[w] = "working" /\ beating[w]
    /\ pc' = [pc EXCEPT ![w] = outcome]
    /\ UNCHANGED <<jobs, task, beating, stop, crashes>>

\* The heartbeat raised: processing is cancelled and nothing is recorded.
Abandon(w) ==
    /\ pc[w] = "working" /\ ~beating[w]
    /\ pc' = [pc EXCEPT ![w] = "idle"]
    /\ task' = [task EXCEPT ![w] = NoTask]
    /\ UNCHANGED <<jobs, beating, stop, crashes>>

Record(w, at, row) ==
    /\ pc[w] = at
    /\ jobs' = IF Fenced(w) THEN [jobs EXCEPT ![task[w].job] = row] ELSE jobs
    /\ pc' = [pc EXCEPT ![w] = "idle"]
    /\ task' = [task EXCEPT ![w] = NoTask]
    /\ beating' = [beating EXCEPT ![w] = FALSE]
    /\ UNCHANGED <<stop, crashes>>

\* A refused statement updates no row and run_once does not look.
Succeed(w) == Record(w, "succeeding", Released(jobs[task[w].job], "SUCCEEDED"))

Fail(w) == Record(w, "failing", RetriedOrFailed(jobs[task[w].job]))

-----------------------------------------------------------------------------
(* Processes and time.                                                     *)

\* SIGTERM or SIGINT: the handler sets the stop event.
Signal(w) ==
    /\ pc[w] \notin {"down", "stopped"} /\ ~stop[w]
    /\ stop' = [stop EXCEPT ![w] = TRUE]
    /\ UNCHANGED <<jobs, pc, task, beating, crashes>>

\* The process is killed, or a store call outside processing raised.
Crash(w) ==
    /\ crashes < MaxCrashes
    /\ pc[w] \notin {"down", "stopped"}
    /\ crashes' = crashes + 1
    /\ pc' = [pc EXCEPT ![w] = "down"]
    /\ task' = [task EXCEPT ![w] = NoTask]
    /\ beating' = [beating EXCEPT ![w] = FALSE]
    /\ stop' = [stop EXCEPT ![w] = FALSE]
    /\ UNCHANGED jobs

\* Compose restarts the container, with the same owner string as before.
Restart(w) ==
    /\ pc[w] = "down"
    /\ pc' = [pc EXCEPT ![w] = "idle"]
    /\ UNCHANGED <<jobs, task, beating, stop, crashes>>

Tick ==
    /\ jobs' = [j \in DOMAIN jobs |-> Aged(jobs[j])]
    /\ UNCHANGED <<pc, task, beating, stop, crashes>>

RunOnce(w) ==
    \/ RecoverExpired(w)
    \/ StopClaiming(w)
    \/ ClaimNext(w)
    \/ ClaimNothing(w)
    \/ Finish(w, "succeeding")
    \/ Finish(w, "failing")
    \/ Abandon(w)
    \/ Succeed(w)
    \/ Fail(w)

WorkerStep(w) ==
    \/ RunOnce(w)
    \/ Heartbeat(w)
    \/ LoseHeartbeat(w)
    \/ BeginTransaction(w)
    \/ CompleteInProcess(w)
    \/ Signal(w)
    \/ Crash(w)
    \/ Restart(w)

Next ==
    \/ \E d \in Docs, t \in JobTypes, r \in Revisions : CreateJob(d, t, r)
    \/ \E w \in Workers : WorkerStep(w)
    \/ Tick

Spec == Init /\ [][Next]_jobVars

(***************************************************************************)
(* The loop of a live process goes on, a container is restarted, time      *)
(* passes.  Finish is part of the loop: the calls made by processing end,  *)
(* if only by their own timeouts.                                          *)
(***************************************************************************)
Fairness ==
    /\ \A w \in Workers : WF_jobVars(RunOnce(w)) /\ WF_jobVars(Restart(w))
    /\ WF_jobVars(Tick)

FairSpec == Spec /\ Fairness

-----------------------------------------------------------------------------
(* Properties.                                                             *)

\* A document has at most one job that may still change it
\* (uq_jobs_active_document_mutation, get_active_for_document).
OneActiveJobPerDocument ==
    \A i, j \in DOMAIN jobs :
      /\ jobs[i].doc = jobs[j].doc
      /\ jobs[i].status \in ActiveStatuses
      /\ jobs[j].status \in ActiveStatuses
      => i = j

\* The columns of a row fit its status: a lease exactly while RUNNING, an
\* attempt behind every started status, and FAILED only when no attempt is
\* left (Job.__post_init__ and the check constraints of revision 0005).
RowsConsistent ==
    \A j \in DOMAIN jobs :
      /\ jobs[j].status = "RUNNING" <=> jobs[j].owner # NoWorker
      /\ jobs[j].status # "RUNNING" => jobs[j].lease = 0
      /\ jobs[j].status = "PENDING" <=> jobs[j].attempts = 0
      /\ jobs[j].status = "RETRY" => jobs[j].attempts < MaxAttempts
      /\ jobs[j].status = "FAILED" => jobs[j].attempts = MaxAttempts

\* (job, attempt) is a fencing token: claim_next never hands one out twice,
\* so no two executions ever carry the same, whatever expired in between.
AttemptTokensUnique ==
    \A v, w \in Workers :
      /\ task[v].job # NoJob
      /\ task[v].job = task[w].job
      /\ task[v].attempt = task[w].attempt
      => v = w

\* While its lease is live, an attempt is ended by nobody but the worker
\* that runs it: recover_expired, a stale owner and a new claim leave the
\* row alone.
LiveLeaseProtects ==
    [][\A j \in DOMAIN jobs :
         /\ jobs[j].status = "RUNNING"
         /\ jobs[j].lease > 0
         /\ jobs'[j].status # "RUNNING" \/ jobs'[j].attempts # jobs[j].attempts
         => \E w \in Workers :
              /\ pc[w] \in Busy
              /\ task[w].job = j
              /\ task[w].attempt = jobs[j].attempts]_jobVars

\* An expired lease stays expired until the job is recovered: a late
\* heartbeat cannot bring back an attempt another worker may be taking over.
ExpiredLeaseNeverRevived ==
    [][\A j \in DOMAIN jobs :
         Expired(jobs[j]) /\ jobs'[j].lease > 0
         => jobs'[j].attempts > jobs[j].attempts]_jobVars

\* The statuses and attempts of the rows follow the transition table of
\* backend/jobs/models.py.
StatusOf == [j \in JobIds |->
               IF j \in DOMAIN jobs THEN jobs[j].status ELSE "ABSENT"]
AttemptsOf == [j \in JobIds |->
                 IF j \in DOMAIN jobs THEN jobs[j].attempts ELSE 0]

Lifecycle == INSTANCE JobLifecycle
               WITH status <- StatusOf, attempts <- AttemptsOf

FollowsLifecycle == Lifecycle!Spec

\* Every job ends, crashes and lost leases notwithstanding, unless every
\* worker was told to stop.
EveryJobEnds ==
    \A j \in JobIds :
      (j \in DOMAIN jobs)
      ~> \/ StatusOf[j] \in TerminalStatuses
         \/ \A w \in Workers : pc[w] = "stopped"

\* A signalled worker finishes what it has and stops, unless it is killed.
SignalStops == \A w \in Workers : stop[w] ~> pc[w] \in {"stopped", "down"}
=============================================================================
