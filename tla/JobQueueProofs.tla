--------------------------- MODULE JobQueueProofs ---------------------------
(* What JobQueue promises for all workers, jobs, attempts and leases.      *)
EXTENDS JobQueue, TLAPS

(***************************************************************************)
(* What the updates of a row do to it.                                     *)
(***************************************************************************)

\* A row is inserted as create_indexing and create_deletion write it.
LEMMA NewRowType ==
  ASSUME NEW d \in Docs, NEW t \in JobTypes, NEW r \in Revisions
  PROVE  NewRow(d, t, r) \in Row
BY JobQueueAssumption
DEF JobQueueAssumption, NewRow, Row, JobStatuses, ActiveStatuses,
    Owners, Attempts, Leases, Waits

\* claim_next counts an attempt and takes the lease.
LEMMA LeasedType ==
  ASSUME NEW row \in Row, NEW w \in Workers, row.attempts < MaxAttempts
  PROVE  /\ Leased(row, w) \in Row
         /\ Leased(row, w).attempts = row.attempts + 1
         /\ Leased(row, w).status = "RUNNING"
         /\ Leased(row, w).owner = w
         /\ Leased(row, w).lease = LeaseTicks
         /\ Leased(row, w).doc = row.doc
<1>1. row.attempts + 1 \in Attempts
  BY JobQueueAssumption DEF JobQueueAssumption, Row, Attempts
<1>2. LeaseTicks \in Leases /\ w \in Owners /\ "RUNNING" \in JobStatuses
  BY JobQueueAssumption
  DEF JobQueueAssumption, Leases, Owners, JobStatuses, ActiveStatuses
<1> QED BY <1>1, <1>2 DEF Leased, Row

\* A row that is released has no owner and no lease.
LEMMA ReleasedType ==
  ASSUME NEW row \in Row, NEW s \in JobStatuses
  PROVE  /\ Released(row, s) \in Row
         /\ Released(row, s).status = s
         /\ Released(row, s).attempts = row.attempts
         /\ Released(row, s).owner = NoWorker
         /\ Released(row, s).lease = 0
         /\ Released(row, s).doc = row.doc
<1>1. 0 \in Leases /\ NoWorker \in Owners
  BY JobQueueAssumption DEF JobQueueAssumption, Leases, Owners
<1> QED BY <1>1 DEF Released, Row

\* The CASE of fail and recover_expired.
LEMMA RetriedOrFailedType ==
  ASSUME NEW row \in Row
  PROVE  /\ RetriedOrFailed(row) \in Row
         /\ RetriedOrFailed(row).status =
              IF row.attempts < MaxAttempts THEN "RETRY" ELSE "FAILED"
         /\ RetriedOrFailed(row).attempts = row.attempts
         /\ RetriedOrFailed(row).owner = NoWorker
         /\ RetriedOrFailed(row).lease = 0
         /\ RetriedOrFailed(row).doc = row.doc
<1>1. RetryTicks \in Waits
  BY JobQueueAssumption DEF JobQueueAssumption, Waits
<1>2. "RETRY" \in JobStatuses /\ "FAILED" \in JobStatuses
  BY DEF JobStatuses, ActiveStatuses, TerminalStatuses
<1>3. CASE row.attempts < MaxAttempts
  <2> DEFINE rel == Released(row, "RETRY")
  <2>1. /\ rel \in Row /\ rel.status = "RETRY" /\ rel.attempts = row.attempts
        /\ rel.owner = NoWorker /\ rel.lease = 0 /\ rel.doc = row.doc
    BY <1>2, ReleasedType
  <2>2. RetriedOrFailed(row) = [rel EXCEPT !.wait = RetryTicks]
    BY <1>3 DEF RetriedOrFailed
  <2> HIDE DEF rel
  <2> QED BY <1>1, <1>3, <2>1, <2>2 DEF Row
<1>4. CASE ~(row.attempts < MaxAttempts)
  BY <1>2, <1>4, ReleasedType DEF RetriedOrFailed
<1> QED BY <1>3, <1>4

\* Time passes for a row.
LEMMA AgedType ==
  ASSUME NEW row \in Row
  PROVE  /\ Aged(row) \in Row
         /\ Aged(row).status = row.status
         /\ Aged(row).attempts = row.attempts
         /\ Aged(row).owner = row.owner
         /\ Aged(row).doc = row.doc
         /\ row.lease = 0 => Aged(row).lease = 0
<1>1. /\ row.lease \in Leases /\ Earlier(row.lease) \in Leases
      /\ row.wait \in Waits /\ Earlier(row.wait) \in Waits
      /\ Earlier(0) = 0
  BY JobQueueAssumption DEF JobQueueAssumption, Row, Leases, Waits, Earlier
<1> QED BY <1>1 DEF Aged, Row

-----------------------------------------------------------------------------
(***************************************************************************)
(* The rows, one step at a time: every action of JobQueue does one of six  *)
(* things to a row that exists, and CreateJob alone adds one.              *)
(***************************************************************************)

RowStep(j) ==
    \/ jobs'[j] = jobs[j]
    \/ jobs'[j] = Aged(jobs[j])
    \/ /\ Claimable(j)
       /\ \E w \in Workers : jobs'[j] = Leased(jobs[j], w)
    \/ /\ jobs[j].status = "RUNNING" /\ jobs[j].lease > 0
       /\ jobs'[j] = [jobs[j] EXCEPT !.lease = LeaseTicks]
    \/ Expired(jobs[j]) /\ jobs'[j] = RetriedOrFailed(jobs[j])
    \/ \E w \in Workers :
         /\ pc[w] \in Busy
         /\ task[w].job = j
         /\ OwnsAttempt(w, j)
         /\ \/ jobs'[j] = Released(jobs[j], "SUCCEEDED")
            \/ jobs'[j] = RetriedOrFailed(jobs[j])

RowAdded(i) ==
    /\ i \in JobIds \ DOMAIN jobs
    /\ \E d \in Docs, t \in JobTypes, r \in Revisions :
         /\ ~HasActiveJob(d)
         /\ jobs' = [j \in DOMAIN jobs \cup {i} |->
                       IF j = i THEN NewRow(d, t, r) ELSE jobs[j]]

RowsStep ==
    \/ \E i \in JobIds : RowAdded(i)
    \/ /\ jobs' = [j \in DOMAIN jobs |-> jobs'[j]]
       /\ \A j \in DOMAIN jobs : RowStep(j)

\* Every step of the specification is such a step.
LEMMA RowsOnlyStep ==
  ASSUME TypeOK, Next
  PROVE  RowsStep
<1> USE DEF TypeOK
<1>1. CASE \E d \in Docs, t \in JobTypes, r \in Revisions : CreateJob(d, t, r)
  <2> PICK d \in Docs, t \in JobTypes, r \in Revisions : CreateJob(d, t, r)
    BY <1>1
  <2> DEFINE i == CHOOSE i \in JobIds : i \notin DOMAIN jobs
  <2>1. i \in JobIds \ DOMAIN jobs
    BY DEF CreateJob
  <2>2. RowAdded(i)
    BY <2>1 DEF CreateJob, RowAdded
  <2> QED BY <2>1, <2>2 DEF RowsStep
<1>2. ASSUME NEW w \in Workers, WorkerStep(w)
      PROVE  RowsStep
  <2>1. CASE RecoverExpired(w)
    BY <2>1 DEF RecoverExpired, RowsStep, RowStep
  <2>2. CASE ClaimNext(w)
    BY <2>2 DEF ClaimNext, RowsStep, RowStep
  <2>3. CASE Heartbeat(w)
    BY <2>3 DEF Heartbeat, Fenced, OwnsAttempt, LeaseLive, RowsStep, RowStep
  <2>4. CASE CompleteInProcess(w)
    <3> DEFINE i == task[w].job
    <3>1. /\ pc[w] \in Busy /\ OwnsAttempt(w, i) /\ i \in DOMAIN jobs
          /\ jobs' = [jobs EXCEPT ![i] = Released(jobs[i], "SUCCEEDED")]
      BY <2>4 DEF CompleteInProcess, FencedSinceBegin, OwnsAttempt, Busy
    <3>2. jobs'[i] = Released(jobs[i], "SUCCEEDED")
      BY <3>1
    <3>3. RowStep(i)
      BY <3>1, <3>2 DEF RowStep
    <3>4. \A j \in DOMAIN jobs \ {i} : RowStep(j)
      BY <3>1 DEF RowStep
    <3> HIDE DEF i
    <3>5. jobs' = [j \in DOMAIN jobs |-> jobs'[j]]
      BY <3>1
    <3> QED BY <3>3, <3>4, <3>5 DEF RowsStep
  <2>5. CASE Succeed(w)
    BY <2>5 DEF Succeed, Record, Fenced, OwnsAttempt, Busy, RowsStep, RowStep
  <2>6. CASE Fail(w)
    BY <2>6 DEF Fail, Record, Fenced, OwnsAttempt, Busy, RowsStep, RowStep
  <2>7. CASE UNCHANGED jobs
    BY <2>7 DEF RowsStep, RowStep
  <2> QED
    BY <1>2, <2>1, <2>2, <2>3, <2>4, <2>5, <2>6, <2>7
    DEF WorkerStep, RunOnce, StopClaiming, ClaimNothing, LoseHeartbeat,
        BeginTransaction, Finish, Abandon, Signal, Crash, Restart
<1>3. CASE Tick
  BY <1>3 DEF Tick, RowsStep, RowStep
<1> QED BY <1>1, <1>2, <1>3 DEF Next

\* What such a step leaves of a row, as far as the invariants look at it.
LEMMA RowStepShape ==
  ASSUME TypeOK, NEW j \in DOMAIN jobs, RowStep(j)
  PROVE  /\ jobs'[j] \in Row
         /\ jobs'[j].doc = jobs[j].doc
         /\ \/ /\ jobs'[j].status = jobs[j].status
               /\ jobs'[j].attempts = jobs[j].attempts
               /\ jobs'[j].owner = jobs[j].owner
               /\ jobs[j].lease = 0 => jobs'[j].lease = 0
            \/ /\ jobs[j].status \in {"PENDING", "RETRY"}
               /\ jobs[j].attempts < MaxAttempts
               /\ jobs'[j].status = "RUNNING"
               /\ jobs'[j].attempts = jobs[j].attempts + 1
               /\ jobs'[j].owner \in Workers
            \/ /\ jobs[j].status = "RUNNING"
               /\ jobs'[j].attempts = jobs[j].attempts
               /\ jobs'[j].owner = NoWorker
               /\ jobs'[j].lease = 0
               /\ \/ jobs'[j].status = "SUCCEEDED"
                  \/ /\ jobs'[j].status = "RETRY"
                     /\ jobs[j].attempts < MaxAttempts
                  \/ /\ jobs'[j].status = "FAILED"
                     /\ jobs[j].attempts = MaxAttempts
<1>1. jobs[j] \in Row
  BY DEF TypeOK
<1>2. /\ jobs[j].attempts \in 0 .. MaxAttempts
      /\ MaxAttempts \in Nat
      /\ ~(jobs[j].attempts < MaxAttempts) => jobs[j].attempts = MaxAttempts
  BY <1>1, JobQueueAssumption DEF Row, Attempts, JobQueueAssumption
<1>3. "SUCCEEDED" \in JobStatuses
  BY DEF JobStatuses, TerminalStatuses
<1>4. CASE jobs'[j] = jobs[j]
  BY <1>1, <1>4
<1>5. CASE jobs'[j] = Aged(jobs[j])
  BY <1>1, <1>5, AgedType
<1>6. CASE Claimable(j) /\ \E w \in Workers : jobs'[j] = Leased(jobs[j], w)
  BY <1>1, <1>6, LeasedType DEF Claimable
<1>7. CASE /\ jobs[j].status = "RUNNING" /\ jobs[j].lease > 0
           /\ jobs'[j] = [jobs[j] EXCEPT !.lease = LeaseTicks]
  <2>1. LeaseTicks \in Leases /\ jobs[j].lease # 0
    BY <1>1, <1>7, JobQueueAssumption DEF JobQueueAssumption, Leases
  <2> QED BY <1>1, <1>7, <2>1 DEF Row
<1>8. CASE jobs[j].status = "RUNNING" /\ jobs'[j] = RetriedOrFailed(jobs[j])
  BY <1>1, <1>2, <1>8, RetriedOrFailedType
<1>9. CASE jobs[j].status = "RUNNING" /\ jobs'[j] = Released(jobs[j], "SUCCEEDED")
  BY <1>1, <1>3, <1>9, ReleasedType
<1> QED
  BY <1>4, <1>5, <1>6, <1>7, <1>8, <1>9 DEF RowStep, OwnsAttempt, Expired

-----------------------------------------------------------------------------
(***************************************************************************)
(* The inductive invariant.  TypeOK alone is not one: the lease that       *)
(* BeginTransaction looks at must be that of a row, so a worker's task     *)
(* must refer to one.  The attempt it carries was handed out by a claim,   *)
(* hence is not beyond the row's count, which makes the next claim's       *)
(* attempt new.                                                            *)
(***************************************************************************)

TaskFollowsRow ==
    \A w \in Workers :
      /\ pc[w] \in Busy => task[w].job # NoJob
      /\ task[w].job # NoJob =>
           /\ task[w].job \in DOMAIN jobs
           /\ task[w].attempt <= jobs[task[w].job].attempts

IndInv ==
    /\ TypeOK
    /\ TaskFollowsRow
    /\ OneActiveJobPerDocument
    /\ RowsConsistent
    /\ AttemptTokensUnique

LEMMA InitIndInv ==
  ASSUME Init
  PROVE  IndInv
<1>1. TypeOK
  BY JobQueueAssumption
  DEF JobQueueAssumption, Init, TypeOK, NoTask, Attempts
<1>2. TaskFollowsRow
  BY DEF Init, TaskFollowsRow, NoTask, Busy
<1>3. OneActiveJobPerDocument /\ RowsConsistent
  BY DEF Init, OneActiveJobPerDocument, RowsConsistent
<1>4. AttemptTokensUnique
  BY DEF Init, AttemptTokensUnique, NoTask
<1> QED BY <1>1, <1>2, <1>3, <1>4 DEF IndInv

\* The table keeps its type.
LEMMA RowsTyped ==
  ASSUME TypeOK, RowsStep
  PROVE  /\ DOMAIN jobs \subseteq DOMAIN jobs'
         /\ DOMAIN jobs' \subseteq JobIds
         /\ jobs' \in [DOMAIN jobs' -> Row]
<1>1. ASSUME NEW i \in JobIds, RowAdded(i)
      PROVE  /\ DOMAIN jobs \subseteq DOMAIN jobs'
             /\ DOMAIN jobs' \subseteq JobIds
             /\ jobs' \in [DOMAIN jobs' -> Row]
  BY <1>1, NewRowType DEF RowAdded, TypeOK
<1>2. CASE /\ jobs' = [j \in DOMAIN jobs |-> jobs'[j]]
           /\ \A j \in DOMAIN jobs : RowStep(j)
  <2>1. \A j \in DOMAIN jobs : jobs'[j] \in Row
    BY <1>2, RowStepShape
  <2> QED BY <1>2, <2>1 DEF TypeOK
<1> QED BY <1>1, <1>2 DEF RowsStep

LEMMA TypeStep ==
  ASSUME TypeOK, TaskFollowsRow, Next
  PROVE  TypeOK'
<1>1. /\ DOMAIN jobs' \subseteq JobIds
      /\ jobs' \in [DOMAIN jobs' -> Row]
  BY RowsOnlyStep, RowsTyped
<1>2. ASSUME NEW w \in Workers, WorkerStep(w)
      PROVE  /\ pc' \in [Workers -> {"idle", "claiming", "working",
                            "succeeding", "failing", "down", "stopped"}]
             /\ task' \in [Workers -> [job : JobIds \cup {NoJob},
                                       attempt : Attempts, live : BOOLEAN]]
             /\ beating' \in [Workers -> BOOLEAN]
             /\ stop' \in [Workers -> BOOLEAN]
             /\ crashes' \in 0 .. MaxCrashes
  <2> USE DEF TypeOK
  <2>1. NoTask \in [job : JobIds \cup {NoJob}, attempt : Attempts, live : BOOLEAN]
    BY JobQueueAssumption DEF JobQueueAssumption, NoTask, Attempts
  <2>2. CASE \/ RecoverExpired(w) \/ StopClaiming(w) \/ ClaimNothing(w)
             \/ Finish(w, "succeeding") \/ Finish(w, "failing")
             \/ Heartbeat(w) \/ LoseHeartbeat(w) \/ CompleteInProcess(w)
             \/ Signal(w) \/ Restart(w)
    BY <2>2 DEF RecoverExpired, StopClaiming, ClaimNothing, Finish, Heartbeat,
                LoseHeartbeat, CompleteInProcess, Signal, Restart
  <2>3. CASE ClaimNext(w)
    <3> PICK j \in DOMAIN jobs :
          /\ Claimable(j)
          /\ task' = [task EXCEPT ![w] =
                        [job |-> j, attempt |-> Leased(jobs[j], w).attempts,
                         live |-> FALSE]]
      BY <2>3 DEF ClaimNext
    <3>1. Leased(jobs[j], w).attempts \in Attempts
      BY LeasedType DEF Claimable, Row
    <3> QED BY <2>3, <3>1 DEF ClaimNext
  <2>4. CASE BeginTransaction(w)
    <3>1. task[w].job \in DOMAIN jobs
      BY <2>4 DEF BeginTransaction, TaskFollowsRow, Busy
    <3>2. jobs[task[w].job].lease \in 0 .. LeaseTicks
      BY <3>1 DEF Row, Leases
    <3>3. LeaseLive(task[w].job) \in BOOLEAN
      BY <3>2, JobQueueAssumption DEF JobQueueAssumption, LeaseLive
    <3> QED BY <2>4, <3>3 DEF BeginTransaction
  <2>5. CASE Abandon(w) \/ Succeed(w) \/ Fail(w)
    <3>1. /\ task' = [task EXCEPT ![w] = NoTask]
          /\ pc' = [pc EXCEPT ![w] = "idle"]
          /\ beating' = [beating EXCEPT ![w] = FALSE] \/ beating' = beating
          /\ stop' = stop /\ crashes' = crashes
      BY <2>5 DEF Abandon, Succeed, Fail, Record
    <3> QED BY <2>1, <3>1
  <2>6. CASE Crash(w)
    <3>1. crashes' \in 0 .. MaxCrashes
      BY <2>6, JobQueueAssumption DEF JobQueueAssumption, Crash
    <3> QED BY <2>1, <2>6, <3>1 DEF Crash
  <2> QED
    BY <1>2, <2>2, <2>3, <2>4, <2>5, <2>6 DEF WorkerStep, RunOnce
<1>3. CASE \/ \E d \in Docs, t \in JobTypes, r \in Revisions : CreateJob(d, t, r)
           \/ Tick
  BY <1>1, <1>3 DEF CreateJob, Tick, TypeOK
<1> QED BY <1>1, <1>2, <1>3 DEF Next, TypeOK

\* The row a worker's task refers to is never removed, and its count of
\* attempts never falls.
LEMMA AttemptsGrow ==
  ASSUME TypeOK, RowsStep, NEW j \in DOMAIN jobs
  PROVE  /\ j \in DOMAIN jobs'
         /\ jobs[j].attempts <= jobs'[j].attempts
<1>1. jobs[j].attempts \in 0 .. MaxAttempts /\ MaxAttempts \in Nat
  BY JobQueueAssumption DEF JobQueueAssumption, TypeOK, Row, Attempts
<1>2. ASSUME NEW i \in JobIds, RowAdded(i)
      PROVE  jobs[j].attempts <= jobs'[j].attempts
  <2>1. jobs'[j] = jobs[j]
    BY <1>2 DEF RowAdded
  <2> QED BY <1>1, <2>1
<1>3. ASSUME RowStep(j)
      PROVE  jobs[j].attempts <= jobs'[j].attempts
  BY <1>1, <1>3, RowStepShape
<1>4. j \in DOMAIN jobs'
  BY RowsTyped
<1> QED BY <1>2, <1>3, <1>4 DEF RowsStep

LEMMA TaskFollowsRowStep ==
  ASSUME TypeOK, TaskFollowsRow, Next
  PROVE  TaskFollowsRow'
<1>1. RowsStep
  BY RowsOnlyStep
<1>2. \A j \in DOMAIN jobs : /\ j \in DOMAIN jobs'
                            /\ jobs[j].attempts \in Nat
                            /\ jobs'[j].attempts \in Nat
                            /\ jobs[j].attempts <= jobs'[j].attempts
  <2>1. \A row \in Row : row.attempts \in Nat
    BY JobQueueAssumption DEF JobQueueAssumption, Row, Attempts
  <2> QED BY <1>1, <2>1, AttemptsGrow, RowsTyped DEF TypeOK
<1>3. ASSUME NEW v \in Workers
      PROVE  /\ pc'[v] \in Busy => task'[v].job # NoJob
             /\ task'[v].job # NoJob =>
                  /\ task'[v].job \in DOMAIN jobs'
                  /\ task'[v].attempt <= jobs'[task'[v].job].attempts
  <2>1. task[v].attempt \in Nat
    BY JobQueueAssumption DEF JobQueueAssumption, TypeOK, Attempts
  <2>2. CASE /\ task'[v].job = task[v].job
             /\ task'[v].attempt = task[v].attempt
             /\ pc'[v] \in Busy => pc[v] \in Busy
    BY <1>2, <2>1, <2>2 DEF TaskFollowsRow
  <2>3. CASE task'[v] = NoTask /\ pc'[v] \notin Busy
    BY <2>3 DEF NoTask
  <2>4. CASE ClaimNext(v)
    <3> PICK j \in DOMAIN jobs :
          /\ Claimable(j)
          /\ jobs' = [jobs EXCEPT ![j] = Leased(@, v)]
          /\ task' = [task EXCEPT ![v] =
                        [job |-> j, attempt |-> Leased(jobs[j], v).attempts,
                         live |-> FALSE]]
      BY <2>4 DEF ClaimNext
    <3>1. /\ task'[v].job = j /\ task'[v].attempt = jobs'[j].attempts
      BY DEF TypeOK
    <3>2. j # NoJob
      BY JobQueueAssumption DEF JobQueueAssumption, TypeOK
    <3> QED BY <1>2, <3>1, <3>2
  <2>5. ASSUME NEW w \in Workers, WorkerStep(w), ~ClaimNext(w)
        PROVE  \/ /\ task'[v].job = task[v].job
                  /\ task'[v].attempt = task[v].attempt
                  /\ pc'[v] \in Busy => pc[v] \in Busy
               \/ task'[v] = NoTask /\ pc'[v] \notin Busy
    <3> USE DEF TypeOK, Busy
    <3>1. CASE \/ RecoverExpired(w) \/ StopClaiming(w) \/ ClaimNothing(w)
               \/ Finish(w, "succeeding") \/ Finish(w, "failing")
               \/ Heartbeat(w) \/ LoseHeartbeat(w) \/ CompleteInProcess(w)
               \/ Signal(w) \/ Restart(w)
      BY <3>1 DEF RecoverExpired, StopClaiming, ClaimNothing, Finish,
                  Heartbeat, LoseHeartbeat, CompleteInProcess, Signal, Restart
    <3>2. CASE BeginTransaction(w)
      BY <3>2 DEF BeginTransaction
    <3>3. CASE Abandon(w) \/ Succeed(w) \/ Fail(w) \/ Crash(w)
      BY <3>3 DEF Abandon, Succeed, Fail, Record, Crash
    <3> QED BY <2>5, <3>1, <3>2, <3>3 DEF WorkerStep, RunOnce
  <2>6. ASSUME NEW w \in Workers, ClaimNext(w), w # v
        PROVE  task'[v] = task[v] /\ pc'[v] = pc[v]
    BY <2>6 DEF ClaimNext, TypeOK
  <2>7. CASE \/ \E d \in Docs, t \in JobTypes, r \in Revisions :
                  CreateJob(d, t, r)
             \/ Tick
    BY <2>2, <2>7 DEF CreateJob, Tick
  <2> QED BY <2>2, <2>3, <2>4, <2>5, <2>6, <2>7 DEF Next
<1> QED BY <1>3 DEF TaskFollowsRow

\* A row that is active after a step was active before it, unless CreateJob
\* has just inserted it; and CreateJob found no active row of its document.
LEMMA OneActiveStep ==
  ASSUME TypeOK, OneActiveJobPerDocument, RowsStep
  PROVE  OneActiveJobPerDocument'
<1>1. ASSUME NEW i \in JobIds, RowAdded(i)
      PROVE  OneActiveJobPerDocument'
  <2> PICK d \in Docs, t \in JobTypes, r \in Revisions :
        /\ ~HasActiveJob(d)
        /\ jobs' = [j \in DOMAIN jobs \cup {i} |->
                      IF j = i THEN NewRow(d, t, r) ELSE jobs[j]]
    BY <1>1 DEF RowAdded
  <2>1. NewRow(d, t, r).doc = d
    BY DEF NewRow
  <2> QED
    BY <1>1, <2>1 DEF RowAdded, OneActiveJobPerDocument, HasActiveJob
<1>2. CASE /\ jobs' = [j \in DOMAIN jobs |-> jobs'[j]]
           /\ \A j \in DOMAIN jobs : RowStep(j)
  <2>1. \A j \in DOMAIN jobs :
          /\ jobs'[j].doc = jobs[j].doc
          /\ jobs'[j].status \in ActiveStatuses =>
               jobs[j].status \in ActiveStatuses
    BY <1>2, RowStepShape DEF ActiveStatuses
  <2>2. DOMAIN jobs' = DOMAIN jobs
    BY <1>2
  <2> QED BY <2>1, <2>2 DEF OneActiveJobPerDocument
<1> QED BY <1>1, <1>2 DEF RowsStep

LEMMA RowsConsistentStep ==
  ASSUME TypeOK, RowsConsistent, RowsStep
  PROVE  RowsConsistent'
<1> DEFINE Fits(row) ==
      /\ row.status = "RUNNING" <=> row.owner # NoWorker
      /\ row.status # "RUNNING" => row.lease = 0
      /\ row.status = "PENDING" <=> row.attempts = 0
      /\ row.status = "RETRY" => row.attempts < MaxAttempts
      /\ row.status = "FAILED" => row.attempts = MaxAttempts
<1>1. ASSUME NEW i \in JobIds, RowAdded(i), NEW j \in DOMAIN jobs'
      PROVE  Fits(jobs'[j])
  <2>1. CASE j # i
    BY <1>1, <2>1 DEF RowAdded, RowsConsistent
  <2>2. CASE j = i
    BY <1>1, <2>2 DEF RowAdded, NewRow
  <2> QED BY <2>1, <2>2
<1>2. ASSUME NEW j \in DOMAIN jobs, RowStep(j)
      PROVE  Fits(jobs'[j])
  <2>1. /\ jobs[j].attempts \in Nat /\ MaxAttempts \in Nat
        /\ NoWorker \notin Workers
    BY JobQueueAssumption DEF JobQueueAssumption, TypeOK, Row, Attempts
  <2>2. Fits(jobs[j])
    BY DEF RowsConsistent
  <2> QED BY <1>2, <2>1, <2>2, RowStepShape
<1>3. \A j \in DOMAIN jobs' : Fits(jobs'[j])
  BY <1>1, <1>2 DEF RowsStep
<1> QED BY <1>3 DEF RowsConsistent

\* A claim hands out an attempt beyond all that were handed out before.
LEMMA AttemptTokensStep ==
  ASSUME TypeOK, TaskFollowsRow, AttemptTokensUnique, Next
  PROVE  AttemptTokensUnique'
<1>1. ASSUME NEW u \in Workers, ClaimNext(u)
      PROVE  AttemptTokensUnique'
  <2> PICK j \in DOMAIN jobs :
        /\ Claimable(j)
        /\ task' = [task EXCEPT ![u] =
                      [job |-> j, attempt |-> Leased(jobs[j], u).attempts,
                       live |-> FALSE]]
    BY <1>1 DEF ClaimNext
  <2>1. Leased(jobs[j], u).attempts = jobs[j].attempts + 1
    BY LeasedType DEF Claimable, TypeOK
  <2>2. jobs[j].attempts \in Nat
    BY JobQueueAssumption DEF JobQueueAssumption, TypeOK, Row, Attempts
  <2>3. ASSUME NEW w \in Workers, w # u, task[w].job = j
        PROVE  task[w].attempt # jobs[j].attempts + 1
    <3>1. /\ task[w].attempt \in Nat
          /\ j # NoJob
      BY JobQueueAssumption DEF JobQueueAssumption, TypeOK, Attempts
    <3>2. task[w].attempt <= jobs[j].attempts
      BY <2>3, <3>1 DEF TaskFollowsRow
    <3> QED BY <2>2, <3>1, <3>2
  <2>4. /\ task'[u].job = j /\ task'[u].attempt = jobs[j].attempts + 1
        /\ \A w \in Workers : w # u => task'[w] = task[w]
    BY <2>1 DEF TypeOK
  <2> QED BY <2>3, <2>4 DEF AttemptTokensUnique
<1>2. ASSUME NEW u \in Workers, WorkerStep(u), ~ClaimNext(u)
      PROVE  AttemptTokensUnique'
  <2>1. \A w \in Workers : \/ task'[w].job = NoJob
                          \/ /\ task'[w].job = task[w].job
                             /\ task'[w].attempt = task[w].attempt
    <3> USE DEF TypeOK
    <3>1. CASE BeginTransaction(u)
      BY <3>1 DEF BeginTransaction
    <3>2. CASE Abandon(u) \/ Succeed(u) \/ Fail(u) \/ Crash(u)
      BY <3>2 DEF Abandon, Succeed, Fail, Record, Crash, NoTask
    <3>3. CASE UNCHANGED task
      BY <3>3
    <3> QED
      BY <1>2, <3>1, <3>2, <3>3
      DEF WorkerStep, RunOnce, RecoverExpired, StopClaiming, ClaimNothing,
          Finish, Heartbeat, LoseHeartbeat, CompleteInProcess, Signal, Restart
  <2> QED BY <2>1 DEF AttemptTokensUnique
<1>3. CASE \/ \E d \in Docs, t \in JobTypes, r \in Revisions : CreateJob(d, t, r)
           \/ Tick
  BY <1>3 DEF CreateJob, Tick, AttemptTokensUnique
<1> QED BY <1>1, <1>2, <1>3 DEF Next

LEMMA NextIndInv ==
  ASSUME IndInv, [Next]_jobVars
  PROVE  IndInv'
<1>1. CASE Next
  BY <1>1, TypeStep, TaskFollowsRowStep, RowsOnlyStep, OneActiveStep,
     RowsConsistentStep, AttemptTokensStep
  DEF IndInv
<1>2. CASE UNCHANGED jobVars
  BY <1>2
  DEF jobVars, IndInv, TypeOK, TaskFollowsRow, OneActiveJobPerDocument,
      RowsConsistent, AttemptTokensUnique
<1> QED BY <1>1, <1>2

LEMMA Invariance == Spec => []IndInv
BY InitIndInv, NextIndInv, PTL DEF Spec

-----------------------------------------------------------------------------
(* The invariants of the runs.                                             *)

\* The rows, the workers' tasks and the bounds keep their types.
THEOREM TypeCorrect == Spec => []TypeOK
BY Invariance, PTL DEF IndInv

\* No two active jobs of one document, however many processes insert,
\* claim, retry and recover.
THEOREM OneActive == Spec => []OneActiveJobPerDocument
BY Invariance, PTL DEF IndInv

\* The check constraints of migration 0005 never refuse a statement.
THEOREM Consistent == Spec => []RowsConsistent
BY Invariance, PTL DEF IndInv

\* (job, attempt) fences: no two executions ever carry the same token.
THEOREM TokensUnique == Spec => []AttemptTokensUnique
BY Invariance, PTL DEF IndInv

-----------------------------------------------------------------------------
(* The action properties of the runs.                                      *)

LEMMA LeaseProtectsStep ==
  ASSUME TypeOK, Next, NEW j \in DOMAIN jobs,
         jobs[j].status = "RUNNING", jobs[j].lease > 0,
         jobs'[j].status # "RUNNING" \/ jobs'[j].attempts # jobs[j].attempts
  PROVE  \E w \in Workers :
           /\ pc[w] \in Busy
           /\ task[w].job = j
           /\ task[w].attempt = jobs[j].attempts
<1>1. jobs[j] \in Row /\ jobs[j].lease # 0
  <2>1. \A row \in Row : row.lease \in Nat
    BY JobQueueAssumption DEF JobQueueAssumption, Row, Leases
  <2> QED BY <2>1 DEF TypeOK
<1>2. \A i \in JobIds : RowAdded(i) => jobs'[j] = jobs[j]
  BY DEF RowAdded
<1>3. RowStep(j)
  BY <1>2, RowsOnlyStep DEF RowsStep
<1>4. /\ jobs'[j] # jobs[j] /\ jobs'[j] # Aged(jobs[j])
      /\ jobs'[j] # [jobs[j] EXCEPT !.lease = LeaseTicks]
  BY <1>1, AgedType DEF Row
<1>5. ~Claimable(j) /\ ~Expired(jobs[j])
  BY <1>1 DEF Claimable, Expired
<1> QED BY <1>3, <1>4, <1>5 DEF RowStep, OwnsAttempt

\* Nobody but its own worker ends an attempt whose lease is live.
THEOREM LeaseProtects == Spec => LiveLeaseProtects
<1>1. ASSUME IndInv, [Next]_jobVars
      PROVE  [\A j \in DOMAIN jobs :
                /\ jobs[j].status = "RUNNING"
                /\ jobs[j].lease > 0
                /\ jobs'[j].status # "RUNNING" \/ jobs'[j].attempts # jobs[j].attempts
                => \E w \in Workers :
                     /\ pc[w] \in Busy
                     /\ task[w].job = j
                     /\ task[w].attempt = jobs[j].attempts]_jobVars
  BY <1>1, LeaseProtectsStep DEF IndInv
<1> QED BY <1>1, Invariance, PTL DEF Spec, LiveLeaseProtects

\* A late heartbeat does not bring back an expired attempt.
THEOREM NeverRevived == Spec => ExpiredLeaseNeverRevived
<1>1. ASSUME TypeOK, Next, NEW j \in DOMAIN jobs,
             Expired(jobs[j]), jobs'[j].lease > 0
      PROVE  jobs'[j].attempts > jobs[j].attempts
  <2>1. \A i \in JobIds : RowAdded(i) => jobs'[j] = jobs[j]
    BY DEF RowAdded
  <2>2. RowStep(j)
    BY <1>1, <2>1, RowsOnlyStep DEF RowsStep, Expired
  <2>3. jobs'[j].lease # 0 /\ jobs[j].attempts \in Nat
    <3>1. jobs'[j] \in Row /\ jobs[j] \in Row
      BY <1>1, <2>2, RowStepShape DEF TypeOK
    <3>2. \A row \in Row : row.lease \in Nat /\ row.attempts \in Nat
      BY JobQueueAssumption DEF JobQueueAssumption, Row, Leases, Attempts
    <3> QED BY <1>1, <3>1, <3>2
  <2> QED BY <1>1, <2>2, <2>3, RowStepShape DEF Expired
<1>2. ASSUME IndInv, [Next]_jobVars
      PROVE  [\A j \in DOMAIN jobs :
                Expired(jobs[j]) /\ jobs'[j].lease > 0
                => jobs'[j].attempts > jobs[j].attempts]_jobVars
  BY <1>1, <1>2 DEF IndInv
<1> QED BY <1>2, Invariance, PTL DEF Spec, ExpiredLeaseNeverRevived

-----------------------------------------------------------------------------
(***************************************************************************)
(* JobQueue implements JobLifecycle.  A step of the table moves some jobs  *)
(* along _TRANSITIONS and leaves the others; RowsConsistent is what tells  *)
(* that a job about to be released has an attempt behind it.               *)
(***************************************************************************)

LEMMA LifecycleStep ==
  ASSUME IndInv, Next
  PROVE  [Lifecycle!Next]_<<StatusOf, AttemptsOf>>
<1> USE DEF IndInv
<1>1. RowsStep /\ TypeOK'
  BY RowsOnlyStep, TypeStep
<1>2. /\ JobStatuses \subseteq Lifecycle!Statuses
      /\ "ABSENT" \in Lifecycle!Statuses
  BY DEF JobStatuses, ActiveStatuses, TerminalStatuses, Lifecycle!Statuses
<1>3. \A row \in Row : /\ row.status \in JobStatuses
                      /\ row.attempts \in Nat /\ row.attempts <= MaxAttempts
  BY JobQueueAssumption DEF JobQueueAssumption, Row, Attempts
<1>4. StatusOf' \in [JobIds -> Lifecycle!Statuses]
  BY <1>1, <1>2, <1>3 DEF TypeOK, StatusOf
<1>5. AttemptsOf' \in [JobIds -> Nat]
  BY <1>1, <1>3 DEF TypeOK, AttemptsOf
<1>6. ASSUME NEW j \in JobIds
      PROVE  Lifecycle!Moves(j) \/ Lifecycle!Stays(j)
  <2>1. ASSUME NEW i \in JobIds, RowAdded(i)
        PROVE  Lifecycle!Moves(j) \/ Lifecycle!Stays(j)
    <3>1. CASE j = i
      <4>1. /\ StatusOf[j] = "ABSENT" /\ AttemptsOf[j] = 0
            /\ StatusOf'[j] = "PENDING" /\ AttemptsOf'[j] = 0
        BY <2>1, <3>1 DEF RowAdded, NewRow, StatusOf, AttemptsOf
      <4> QED
        BY <4>1, JobQueueAssumption
        DEF JobQueueAssumption, Lifecycle!Moves, Lifecycle!Targets,
            Lifecycle!Statuses
    <3>2. CASE j # i
      BY <2>1, <3>2 DEF RowAdded, StatusOf, AttemptsOf, Lifecycle!Stays
    <3> QED BY <3>1, <3>2
  <2>2. CASE /\ jobs' = [i \in DOMAIN jobs |-> jobs'[i]]
             /\ \A i \in DOMAIN jobs : RowStep(i)
    <3>1. CASE j \in DOMAIN jobs
      <4>1. /\ StatusOf[j] = jobs[j].status /\ AttemptsOf[j] = jobs[j].attempts
            /\ StatusOf'[j] = jobs'[j].status
            /\ AttemptsOf'[j] = jobs'[j].attempts
        BY <2>2, <3>1 DEF StatusOf, AttemptsOf
      <4>2. /\ jobs[j].attempts \in Nat /\ jobs[j].attempts <= MaxAttempts
            /\ MaxAttempts \in Nat
        BY <1>3, <3>1, JobQueueAssumption DEF JobQueueAssumption, TypeOK
      <4>3. RowStep(j)
        BY <2>2, <3>1
      <4> QED
        BY <3>1, <4>1, <4>2, <4>3, RowStepShape
        DEF Lifecycle!Moves, Lifecycle!Stays, Lifecycle!Targets,
            Lifecycle!Statuses
    <3>2. CASE j \notin DOMAIN jobs
      BY <2>2, <3>2 DEF StatusOf, AttemptsOf, Lifecycle!Stays
    <3> QED BY <3>1, <3>2
  <2> QED BY <1>1, <2>1, <2>2 DEF RowsStep
<1> QED BY <1>4, <1>5, <1>6 DEF Lifecycle!Next

\* The job table implements the lifecycle of backend/jobs/models.py.
THEOREM ImplementsLifecycle == Spec => FollowsLifecycle
<1>1. Init => Lifecycle!Init
  BY DEF Init, StatusOf, AttemptsOf, Lifecycle!Init
<1>2. ASSUME IndInv, [Next]_jobVars
      PROVE  [Lifecycle!Next]_<<StatusOf, AttemptsOf>>
  <2>1. CASE Next
    BY <1>2, <2>1, LifecycleStep
  <2>2. CASE UNCHANGED jobVars
    BY <2>2 DEF jobVars, StatusOf, AttemptsOf
  <2> QED BY <1>2, <2>1, <2>2
<1> QED
  BY <1>1, <1>2, Invariance, PTL DEF Spec, FollowsLifecycle, Lifecycle!Spec
=============================================================================
