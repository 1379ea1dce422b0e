----------------------- MODULE DocumentWorkflowProofs -----------------------
(***************************************************************************)
(* Proofs about DocumentWorkflow, for any number of documents, texts,      *)
(* revisions, workers, jobs, crashes and lost connections.                 *)
(***************************************************************************)
EXTENDS DocumentWorkflow, JobQueueProofs, RevisionLemmas

-----------------------------------------------------------------------------
(***************************************************************************)
(* The rows of jobs: every step of the workflow is one of JobQueue.        *)
(***************************************************************************)

\* What of the state the requests rely on.
SeenRevisions == \A d \in Docs : seen[d].active \in Revisions \cup {0}

\* A request adds a row or leaves jobs alone.
LEMMA RequestIsJobStep ==
  ASSUME SeenRevisions, Request
  PROVE  Next \/ UNCHANGED jobVars
<1> USE WorkflowAssumption, JobQueueAssumption
    DEF WorkflowAssumption, JobQueueAssumption
<1>1. PICK d \in Docs : \/ ReadDocument(d)
                        \/ \E c \in ContentsOf[d] : Upload(d, c) \/ Upsert(d, c)
                        \/ Delete(d)
                        \/ EndRequest(d)
  BY DEF Request
<1>2. CASE ReadDocument(d) \/ EndRequest(d)
  BY <1>2 DEF ReadDocument, EndRequest
<1>3. CASE \E c \in ContentsOf[d] : Upload(d, c) \/ Upsert(d, c)
  BY <1>3 DEF Upload, Upsert, Next
<1>4. CASE Delete(d)
  <2>1. seen[d].active \in Revisions
    BY <1>4 DEF Delete, SeenRevisions
  <2> QED BY <1>4, <2>1 DEF Delete, Next
<1> QED BY <1>1, <1>2, <1>3, <1>4

\* So does the workflow altogether: its steps are steps of JobQueue.
LEMMA WorkflowNextIsJobStep ==
  ASSUME SeenRevisions, [WorkflowNext]_vars
  PROVE  [Next]_jobVars
<1>1. CASE Request
  BY <1>1, RequestIsJobStep
<1>2. ASSUME NEW w \in Workers, Process(w)
      PROVE  WorkerStep(w) \/ UNCHANGED jobVars
  BY <1>2
  DEF Process, Connect, AcquireLock, AlreadyReady, ResetRetry, StartIndexing,
      StartReplacing, StartDeleting, RemoveOld, InsertNew, UpdateToReady,
      CommitReady, CompleteReplacement, CompleteDeletion, WorkerStep
<1>3. ASSUME NEW w \in Workers,
             Return(w) \/ Raise(w) \/ Cancel(w) \/ Loop(w) \/ Environment(w)
      PROVE  WorkerStep(w) \/ UNCHANGED jobVars
  BY <1>3
  DEF Return, Raise, Cancel, Loop, Environment, Die, DropConnection,
      WorkerStep, RunOnce
<1>4. CASE Tick
  BY <1>4 DEF Next
<1>5. CASE UNCHANGED vars
  BY <1>5 DEF vars, jobVars
<1> QED BY <1>1, <1>2, <1>3, <1>4, <1>5 DEF WorkflowNext, Next

\* A row keeps its document, type and revision, and one that has ended does
\* not become active again.
RowKept(j) ==
    /\ j \in DOMAIN jobs'
    /\ jobs'[j].doc = jobs[j].doc
    /\ jobs'[j].type = jobs[j].type
    /\ jobs'[j].rev = jobs[j].rev
    /\ jobs'[j].status \in ActiveStatuses => jobs[j].status \in ActiveStatuses

\* No step of JobQueue changes what a row is for.
LEMMA RowStepKeeps ==
  ASSUME TypeOK, NEW j \in DOMAIN jobs, RowStep(j)
  PROVE  /\ jobs'[j].type = jobs[j].type
         /\ jobs'[j].rev = jobs[j].rev
<1>1. jobs[j] \in Row
  BY DEF TypeOK
<1>2. ASSUME NEW s
      PROVE  /\ Released(jobs[j], s).type = jobs[j].type
             /\ Released(jobs[j], s).rev = jobs[j].rev
             /\ DOMAIN Released(jobs[j], s) = DOMAIN jobs[j]
  BY <1>1 DEF Released, Row
<1>3. /\ RetriedOrFailed(jobs[j]).type = jobs[j].type
      /\ RetriedOrFailed(jobs[j]).rev = jobs[j].rev
  BY <1>1, <1>2 DEF RetriedOrFailed, Row
<1>4. ASSUME NEW w \in Workers
      PROVE  /\ Leased(jobs[j], w).type = jobs[j].type
             /\ Leased(jobs[j], w).rev = jobs[j].rev
  BY <1>1 DEF Leased, Row
<1>5. /\ Aged(jobs[j]).type = jobs[j].type
      /\ Aged(jobs[j]).rev = jobs[j].rev
  BY <1>1 DEF Aged, Row
<1> QED BY <1>1, <1>2, <1>3, <1>4, <1>5 DEF RowStep, Row

\* The same of all rows there are before a step.
LEMMA RowsKept ==
  ASSUME TypeOK, [Next]_jobVars, NEW j \in DOMAIN jobs
  PROVE  RowKept(j)
<1>1. CASE UNCHANGED jobs
  BY <1>1 DEF RowKept
<1>2. ASSUME NEW i \in JobIds, RowAdded(i)
      PROVE  RowKept(j)
  BY <1>2 DEF RowAdded, RowKept
<1>3. CASE /\ jobs' = [i \in DOMAIN jobs |-> jobs'[i]]
           /\ \A i \in DOMAIN jobs : RowStep(i)
  <2>1. RowStep(j) /\ j \in DOMAIN jobs'
    BY <1>3
  <2>2. jobs'[j].status \in ActiveStatuses => jobs[j].status \in ActiveStatuses
    BY <2>1, RowStepShape DEF ActiveStatuses
  <2> QED BY <2>1, <2>2, RowStepShape, RowStepKeeps DEF RowKept
<1> QED BY <1>1, <1>2, <1>3, RowsOnlyStep DEF RowsStep, jobVars

-----------------------------------------------------------------------------
(***************************************************************************)
(* Executions and the locks they hold.                                     *)
(***************************************************************************)

\* The types of executions and locks.
ProcTyped ==
    /\ lock \in [Docs -> Workers \cup {NoWorker}]
    /\ proc \in [Workers -> [step : Steps, old : Revisions \cup {0},
                             linked : BOOLEAN]]
    /\ drops \in 0 .. MaxFaults

\* Only an execution that is processing has a place in process, and until a
\* connection is lost it is connected from the first statement on.
ProcFollowsPc ==
    \A w \in Workers :
      /\ pc[w] # "working" => proc[w] = Out
      /\ proc[w].linked => proc[w].step # "out"
      /\ drops = 0 /\ proc[w].step # "out" => proc[w].linked

\* A connected execution that is past pg_advisory_lock holds its lock.
LockHeld ==
    \A w \in Workers :
      proc[w].linked /\ proc[w].step # "waiting" => lock[DocOf(w)] = w

\* What a step leaves of the execution of worker v.
ProcStep(v) ==
    \/ proc'[v] = Out
    \/ /\ pc[v] = "working" /\ pc'[v] = "working"
       /\ task'[v].job = task[v].job
       /\ \/ proc'[v] = proc[v]
          \/ proc[v].step = "out" /\ proc'[v].step = "waiting" /\ proc'[v].linked
          \/ /\ proc[v].step = "waiting" /\ proc'[v].step = "locked"
             /\ proc[v].linked /\ proc'[v].linked
             /\ lock[DocOf(v)] = NoWorker /\ lock'[DocOf(v)] = v
          \/ /\ proc[v].step \notin {"out", "waiting"}
             /\ proc'[v].step \notin {"out", "waiting"}
             /\ proc'[v].linked = proc[v].linked
             /\ proc'[v].step = "readying"
                => docs[DocOf(v)].status = "INDEXING" /\ docs' = docs
          \/ proc'[v].step = proc[v].step /\ ~proc'[v].linked /\ drops' # 0

\* A lock goes to a worker when nobody has it, and from its holder only when
\* that one's connection ends.
LockStep(d) ==
    lock[d] # NoWorker => \/ lock'[d] = lock[d]
                          \/ ~proc'[lock[d]].linked

\* The two fields of an execution that is not in process.
LEMMA OutFields == Out.step = "out" /\ Out.linked = FALSE
BY DEF Out

\* The job of an execution, and its document.
LEMMA JobOfTyped ==
  ASSUME TypeOK, TaskFollowsRow, NEW w \in Workers, pc[w] = "working"
  PROVE  task[w].job \in DOMAIN jobs /\ JobOf(w) \in Row /\ DocOf(w) \in Docs
<1>1. task[w].job \in DOMAIN jobs
  BY DEF TaskFollowsRow, Busy
<1>2. JobOf(w) \in Row
  BY <1>1 DEF TypeOK, JobOf
<1> QED BY <1>1, <1>2 DEF Row, DocOf

\* What one step in process leaves of each execution.
LEMMA ProcessSteps ==
  ASSUME TypeOK, TaskFollowsRow, ProcTyped, ProcFollowsPc,
         NEW w \in Workers, Process(w), NEW v \in Workers
  PROVE  ProcStep(v)
<1> USE DEF ProcTyped
<1>1. (pc[w] = "working" /\ proc[w].step # "out") \/ Connect(w)
  BY DEF Process, AcquireLock, AlreadyReady, ResetRetry, StartIndexing,
         StartReplacing, StartDeleting, RemoveOld, InsertNew, UpdateToReady,
         CommitReady, CompleteReplacement, CompleteDeletion, AtLinked, At
<1>2. pc' = pc /\ task'[v].job = task[v].job
  <2>1. BeginTransaction(w) \/ UNCHANGED <<pc, task>>
    BY DEF Process, Connect, AcquireLock, AlreadyReady, ResetRetry, StartIndexing,
           StartReplacing, StartDeleting, RemoveOld, InsertNew, UpdateToReady,
           CommitReady, CompleteReplacement, CompleteDeletion,
           CompleteInProcess, jobVars
  <2>2. task[v].job = [task[v] EXCEPT !.live = LeaseLive(task[w].job)].job
    BY DEF TypeOK
  <2> QED BY <2>1, <2>2 DEF BeginTransaction, TypeOK
<1>3. CASE v # w
  <2>1. proc'[v] = proc[v]
    BY <1>3
    DEF Process, Connect, AcquireLock, AlreadyReady, ResetRetry, StartIndexing,
        StartReplacing, StartDeleting, RemoveOld, InsertNew, UpdateToReady,
        CommitReady, CompleteReplacement, CompleteDeletion, GoTo
  <2> QED BY <1>2, <2>1 DEF ProcStep, ProcFollowsPc
<1>4. CASE v = w
  <2> USE <1>2, <1>4 DEF ProcStep, At, AtLinked, GoTo
  <2>1. CASE Connect(w)
    BY <2>1 DEF Connect
  <2>2. CASE AcquireLock(w)
    BY <2>2, JobOfTyped DEF AcquireLock
  <2>3. CASE AlreadyReady(w) \/ StartIndexing(w) \/ StartReplacing(w) \/ StartDeleting(w)
    BY <2>3 DEF AlreadyReady, StartIndexing, StartReplacing, StartDeleting
  <2>4. CASE ResetRetry(w)
    BY <2>4 DEF ResetRetry
  <2>5. CASE RemoveOld(w) \/ InsertNew(w)
    BY <2>5 DEF RemoveOld, InsertNew
  <2>6. CASE UpdateToReady(w)
    BY <2>6 DEF UpdateToReady
  <2>7. CASE CommitReady(w) \/ CompleteReplacement(w) \/ CompleteDeletion(w)
    BY <2>7 DEF CommitReady, CompleteReplacement, CompleteDeletion
  <2> QED
    BY <2>1, <2>2, <2>3, <2>4, <2>5, <2>6, <2>7 DEF Process
<1> QED BY <1>3, <1>4

\* The same for every step of the workflow.
LEMMA ProcSteps ==
  ASSUME TypeOK, TaskFollowsRow, ProcTyped, ProcFollowsPc, [WorkflowNext]_vars,
         NEW v \in Workers
  PROVE  ProcStep(v)
<1> USE DEF ProcTyped
<1>1. CASE UNCHANGED <<pc, task, proc>>
  BY <1>1 DEF ProcStep, ProcFollowsPc
<1>2. ASSUME NEW w \in Workers, Leave(w),
             \A u \in Workers \ {w} : pc'[u] = pc[u] /\ task'[u] = task[u]
      PROVE  ProcStep(v)
  BY <1>2 DEF Leave, ProcStep, ProcFollowsPc
<1>3. ASSUME NEW w \in Workers, Return(w) \/ Raise(w) \/ Cancel(w) \/ Die(w)
      PROVE  /\ Leave(w)
             /\ \A u \in Workers \ {w} : pc'[u] = pc[u] /\ task'[u] = task[u]
  BY <1>3
  DEF Return, Raise, Cancel, Die, Finish, Abandon, Crash, TypeOK
<1>4. ASSUME NEW w \in Workers, Loop(w)
      PROVE  ProcStep(v)
  <2>1. /\ proc' = proc
        /\ pc[w] # "working"
        /\ \A u \in Workers \ {w} : pc'[u] = pc[u] /\ task'[u] = task[u]
    BY <1>4
    DEF Loop, docVars, RecoverExpired, ClaimNext, ClaimNothing, Succeed, Fail,
        Record, TypeOK
  <2> QED BY <2>1 DEF ProcStep, ProcFollowsPc
<1>5. ASSUME NEW w \in Workers, DropConnection(w)
      PROVE  ProcStep(v)
  <2>1. drops' # 0
    BY <1>5, WorkflowAssumption DEF WorkflowAssumption, DropConnection
  <2>2. /\ pc' = pc /\ task' = task /\ pc[w] = "working"
        /\ proc' = [proc EXCEPT ![w].linked = FALSE]
    BY <1>5 DEF DropConnection, jobVars
  <2>3. /\ proc'[w].step = proc[w].step /\ ~proc'[w].linked
        /\ v # w => proc'[v] = proc[v]
    BY <2>2
  <2>4. v # w => ProcStep(v)
    BY <2>2, <2>3 DEF ProcStep, ProcFollowsPc
  <2> QED BY <2>1, <2>2, <2>3, <2>4 DEF ProcStep
<1>6. ASSUME NEW w \in Workers, Heartbeat(w) \/ LoseHeartbeat(w) \/ Restart(w),
             UNCHANGED docVars
      PROVE  ProcStep(v)
  <2>1. /\ proc' = proc /\ task' = task
        /\ \/ pc' = pc
           \/ pc[w] = "down" /\ pc' = [pc EXCEPT ![w] = "idle"]
    BY <1>6 DEF Heartbeat, LoseHeartbeat, Restart, docVars
  <2>2. pc'[v] = pc[v] \/ pc[v] # "working"
    BY <2>1 DEF TypeOK
  <2> QED BY <2>1, <2>2 DEF ProcStep, ProcFollowsPc
<1>7. Request \/ (Tick /\ UNCHANGED docVars) \/ UNCHANGED vars
      => UNCHANGED <<pc, task, proc>>
  BY DEF Request, ReadDocument, Upload, Upsert, Delete, EndRequest, CreateJob,
         Commit, Tick, docVars, vars, jobVars
<1>8. ASSUME NEW w \in Workers, Environment(w)
      PROVE  ProcStep(v)
  BY <1>2, <1>3, <1>5, <1>6, <1>8 DEF Environment
<1> QED
  BY <1>1, <1>2, <1>3, <1>4, <1>7, <1>8, ProcessSteps DEF WorkflowNext

\* A lock is lost only together with the connection that holds it.
LEMMA LockSteps ==
  ASSUME ProcTyped, [WorkflowNext]_vars, NEW d \in Docs
  PROVE  LockStep(d)
<1>1. CASE lock' = lock
  BY <1>1 DEF LockStep
<1>2. ASSUME NEW w \in Workers, lock' = Unlocked(w), ~proc'[w].linked
      PROVE  LockStep(d)
  BY <1>2 DEF Unlocked, LockStep
<1>3. ASSUME NEW w \in Workers, Return(w) \/ Raise(w) \/ Cancel(w) \/ Die(w)
      PROVE  lock' = Unlocked(w) /\ ~proc'[w].linked
  BY <1>3, OutFields DEF Return, Raise, Cancel, Die, Leave, ProcTyped
<1>4. ASSUME NEW w \in Workers, DropConnection(w)
      PROVE  lock' = Unlocked(w) /\ ~proc'[w].linked
  BY <1>4 DEF DropConnection, ProcTyped
<1>5. ASSUME NEW w \in Workers, AcquireLock(w)
      PROVE  LockStep(d)
  BY <1>5 DEF AcquireLock, LockStep, ProcTyped
<1>6. ASSUME NEW w \in Workers, Process(w)
      PROVE  lock' = lock \/ AcquireLock(w)
  BY <1>6
  DEF Process, Connect, AlreadyReady, ResetRetry, StartIndexing,
      StartReplacing, StartDeleting, RemoveOld, InsertNew, UpdateToReady,
      CommitReady, CompleteReplacement, CompleteDeletion
<1>7. ASSUME NEW w \in Workers,
             Loop(w) \/ (Environment(w) /\ ~Die(w) /\ ~DropConnection(w))
      PROVE  lock' = lock
  BY <1>7 DEF Loop, Environment, docVars
<1>8. Request \/ (Tick /\ UNCHANGED docVars) \/ UNCHANGED vars => lock' = lock
  BY DEF Request, ReadDocument, Upload, Upsert, Delete, EndRequest,
         Commit, docVars, vars
<1>9. ASSUME NEW w \in Workers, Environment(w)
      PROVE  LockStep(d)
  BY <1>1, <1>2, <1>3, <1>4, <1>7, <1>9
<1>10. ASSUME NEW w \in Workers, Process(w)
      PROVE  LockStep(d)
  BY <1>1, <1>5, <1>6, <1>10
<1> QED
  BY <1>1, <1>2, <1>3, <1>7, <1>8, <1>9, <1>10 DEF WorkflowNext

\* Rows keep their document, so an execution keeps its own.
LEMMA DocOfKept ==
  ASSUME TypeOK, TaskFollowsRow, [Next]_jobVars, NEW w \in Workers,
         pc[w] = "working", task'[w].job = task[w].job
  PROVE  DocOf(w)' = DocOf(w)
BY JobOfTyped, RowsKept DEF RowKept, DocOf, JobOf

\* An execution has a place in process only while its worker processes.
LEMMA ProcFollowsPcStep ==
  ASSUME TypeOK, TaskFollowsRow, ProcTyped, ProcFollowsPc, [WorkflowNext]_vars
  PROVE  ProcFollowsPc'
<1> SUFFICES ASSUME NEW w \in Workers
             PROVE  /\ pc'[w] # "working" => proc'[w] = Out
                    /\ proc'[w].linked => proc'[w].step # "out"
                    /\ drops' = 0 /\ proc'[w].step # "out" => proc'[w].linked
  BY DEF ProcFollowsPc
<1>1. drops' = drops \/ drops' = drops + 1
  BY DEF WorkflowNext, Request, ReadDocument, Upload, Upsert, Delete, EndRequest,
         Commit, Process, Connect, AcquireLock, AlreadyReady, ResetRetry,
         StartIndexing, StartReplacing, StartDeleting, RemoveOld, InsertNew,
         UpdateToReady, CommitReady, CompleteReplacement, CompleteDeletion,
         Return, Raise, Cancel, Loop, Environment, Die, DropConnection,
         docVars, vars
<1>2. drops' = 0 => drops = 0
  BY <1>1, WorkflowAssumption DEF WorkflowAssumption, ProcTyped
<1>3. ProcStep(w)
  BY ProcSteps
<1>4. CASE proc'[w] = Out
  BY <1>4, OutFields
<1>5. CASE proc'[w] # Out
  BY <1>2, <1>3, <1>5 DEF ProcStep, ProcFollowsPc
<1> QED BY <1>4, <1>5

\* The lock stays with the connected execution that is past it.
LEMMA LockHeldStep ==
  ASSUME TypeOK, TaskFollowsRow, ProcTyped, ProcFollowsPc, LockHeld,
         [Next]_jobVars, [WorkflowNext]_vars
  PROVE  LockHeld'
<1> SUFFICES ASSUME NEW w \in Workers, proc'[w].linked, proc'[w].step # "waiting"
             PROVE  lock'[DocOf(w)'] = w
  BY DEF LockHeld
<1>1. ProcStep(w) /\ proc'[w] # Out
  BY ProcSteps, OutFields
<1>2. pc[w] = "working" /\ task'[w].job = task[w].job
  BY <1>1 DEF ProcStep
<1>3. DocOf(w)' = DocOf(w) /\ DocOf(w) \in Docs
  BY <1>2, DocOfKept, JobOfTyped
<1>4. lock'[DocOf(w)] = w \/ lock[DocOf(w)] = w
  BY <1>1 DEF ProcStep, LockHeld
<1>5. w # NoWorker
  BY JobQueueAssumption DEF JobQueueAssumption
<1> QED BY <1>3, <1>4, <1>5, LockSteps DEF LockStep

-----------------------------------------------------------------------------
(***************************************************************************)
(* Documents: what a step does to their rows.                              *)
(***************************************************************************)

\* The types of documents and reads.
DocsTyped ==
    /\ docs \in [Docs -> [status : DocStatuses,
                          active : Revisions \cup {0},
                          revs : Seq(Contents)]]
    /\ seen \in [Docs -> [status : {"NONE", "ABSENT", "PRESENT", "GONE"},
                          active : Revisions \cup {0}]]

\* Statuses of a document whose first revision has not become active.
BeforeActive == {"UPLOADED", "INDEXING", "FAILED"}

\* No document changes, and no job is added.
DocsStay ==
    /\ docs' = docs
    /\ DOMAIN jobs' = DOMAIN jobs
    /\ seen' = seen \/ \E d \in Docs : ReadDocument(d) \/ EndRequest(d)

\* An execution changes its document: always connected and past the lock.
WorkerChanges(w) ==
    /\ pc[w] = "working" /\ proc[w].linked
    /\ proc[w].step # "waiting" /\ proc'[w].step # "readying"
    /\ DOMAIN jobs' = DOMAIN jobs /\ seen' = seen
    /\ \/ /\ docs[DocOf(w)].status \in BeforeActive
          /\ \E s \in BeforeActive : SetDoc(DocOf(w), s)
       \/ /\ proc[w].step = "readying"
          /\ SetReady(DocOf(w), JobOf(w).rev)
       \/ /\ docs[DocOf(w)].status = "UPDATING"
          /\ JobOf(w).status \in ActiveStatuses
          /\ jobs'[task[w].job].status = "SUCCEEDED"
          /\ SetReady(DocOf(w), JobOf(w).rev)
       \/ /\ docs[DocOf(w)].status = "DELETING"
          /\ SetDoc(DocOf(w), "DELETED")

\* A request changes a document and adds its job.
RequestChanges(d) ==
    \/ \E c \in ContentsOf[d] : Upload(d, c) \/ Upsert(d, c)
    \/ Delete(d)

\* Workers add no rows.
LEMMA WorkerStepDomain ==
  ASSUME TypeOK, TaskFollowsRow, NEW w \in Workers, WorkerStep(w)
  PROVE  DOMAIN jobs' = DOMAIN jobs
BY DEF WorkerStep, RunOnce, RecoverExpired, StopClaiming, ClaimNext,
       ClaimNothing, Finish, Abandon, Succeed, Fail, Record, Heartbeat,
       LoseHeartbeat, BeginTransaction, CompleteInProcess, Signal, Crash,
       Restart, TypeOK

\* What a step in process does to the documents.
LEMMA ProcessChanges ==
  ASSUME TypeOK, TaskFollowsRow, ProcTyped, NEW w \in Workers, Process(w)
  PROVE  DocsStay \/ WorkerChanges(w)
<1>1. DOMAIN jobs' = DOMAIN jobs
  <2>1. jobs' = jobs \/ CompleteInProcess(w)
    BY DEF Process, Connect, AcquireLock, AlreadyReady, ResetRetry,
           StartIndexing, StartReplacing, StartDeleting, RemoveOld, InsertNew,
           UpdateToReady, CommitReady, CompleteReplacement, CompleteDeletion,
           BeginTransaction, jobVars
  <2> QED BY <2>1 DEF CompleteInProcess, TypeOK
<1>2. seen' = seen
  BY DEF Process, Connect, AcquireLock, AlreadyReady, ResetRetry,
         StartIndexing, StartReplacing, StartDeleting, RemoveOld, InsertNew,
         UpdateToReady, CommitReady, CompleteReplacement, CompleteDeletion
<1>3. CASE ResetRetry(w) \/ StartIndexing(w)
  BY <1>1, <1>2, <1>3
  DEF ResetRetry, StartIndexing, WorkerChanges, AtLinked, At, GoTo, ProcTyped,
      BeforeActive
<1>4. CASE CommitReady(w)
  BY <1>1, <1>2, <1>4
  DEF CommitReady, WorkerChanges, AtLinked, At, GoTo, ProcTyped
<1>5. CASE CompleteReplacement(w) \/ CompleteDeletion(w)
  <2>1. /\ JobOf(w).status \in ActiveStatuses
        /\ jobs'[task[w].job].status = "SUCCEEDED"
    <3>1. /\ task[w].job \in DOMAIN jobs
          /\ jobs[task[w].job].status = "RUNNING"
          /\ jobs' = [jobs EXCEPT ![task[w].job] = Released(@, "SUCCEEDED")]
      BY <1>5 DEF CompleteReplacement, CompleteDeletion, CompleteInProcess,
                  FencedSinceBegin, OwnsAttempt
    <3>2. Released(jobs[task[w].job], "SUCCEEDED").status = "SUCCEEDED"
      BY <3>1 DEF Released, TypeOK, Row
    <3> QED BY <3>1, <3>2 DEF JobOf, ActiveStatuses, TypeOK
  <2> QED
    BY <1>1, <1>2, <1>5, <2>1
    DEF CompleteReplacement, CompleteDeletion, WorkerChanges, AtLinked, At,
        GoTo, ProcTyped
<1> QED
  BY <1>1, <1>2, <1>3, <1>4, <1>5
  DEF DocsStay, Process, Connect, AcquireLock, AlreadyReady, StartReplacing,
      StartDeleting, RemoveOld, InsertNew, UpdateToReady

\* What the end of an execution does to the documents.
LEMMA EndChanges ==
  ASSUME TypeOK, TaskFollowsRow, ProcTyped, NEW w \in Workers,
         Return(w) \/ Raise(w) \/ Cancel(w)
  PROVE  DocsStay \/ WorkerChanges(w)
<1>1. /\ jobs' = jobs /\ seen' = seen
      /\ pc[w] = "working"
      /\ proc' = [proc EXCEPT ![w] = Out]
      /\ docs' = docs \/ MarkFailed(w)
  BY DEF Return, Raise, Cancel, Finish, Abandon, Leave
<1>2. CASE MarkFailed(w)
  BY <1>1, <1>2, OutFields
  DEF MarkFailed, DocsStay, WorkerChanges, BeforeActive, ProcTyped
<1> QED BY <1>1, <1>2 DEF DocsStay

\* What any step does to them.
LEMMA DocsStep ==
  ASSUME TypeOK, TaskFollowsRow, ProcTyped, [WorkflowNext]_vars
  PROVE  \/ DocsStay
         \/ \E w \in Workers : WorkerChanges(w)
         \/ \E d \in Docs : RequestChanges(d)
<1>1. CASE Request
  BY <1>1 DEF Request, ReadDocument, EndRequest, DocsStay, RequestChanges, jobVars
<1>2. ASSUME NEW w \in Workers, Loop(w) \/ Environment(w)
      PROVE  DocsStay
  <2>1. docs' = docs /\ seen' = seen
    BY <1>2 DEF Loop, Environment, Die, DropConnection, docVars
  <2>2. WorkerStep(w) \/ jobs' = jobs
    BY <1>2 DEF Loop, Environment, Die, DropConnection, WorkerStep, RunOnce,
                jobVars
  <2> QED BY <2>1, <2>2, WorkerStepDomain DEF DocsStay
<1>3. CASE Tick /\ UNCHANGED docVars
  BY <1>3 DEF Tick, docVars, DocsStay
<1>4. CASE UNCHANGED vars
  BY <1>4 DEF vars, DocsStay
<1> QED
  BY <1>1, <1>2, <1>3, <1>4, ProcessChanges, EndChanges DEF WorkflowNext

-----------------------------------------------------------------------------
(***************************************************************************)
(* The inductive invariant.  A document that is READY has the revision of  *)
(* any INDEX_DOCUMENT job it still has, because a replacement is the only  *)
(* way to a further revision, begins with the document's one active job,   *)
(* and leaves READY until that job has succeeded; while a first revision   *)
(* becomes active when there is no other.                                  *)
(***************************************************************************)

\* Revisions that documents, reads and jobs name exist.
RevisionsThere ==
    /\ \A d \in Docs : /\ docs[d].active <= Len(docs[d].revs)
                       /\ seen[d].active <= Len(docs[d].revs)
    /\ \A j \in DOMAIN jobs : jobs[j].rev <= Len(docs[jobs[j].doc].revs)

\* A document that a request has found absent is absent.
AbsentIsEmpty ==
    \A d \in Docs : docs[d].status = "ABSENT" \/ seen[d].status = "ABSENT"
                   => docs[d] = Absent

\* Until its first revision is active a document has no other.
FirstRevision ==
    \A d \in Docs : docs[d].status \in BeforeActive
                   => docs[d].active = 0 /\ Len(docs[d].revs) = 1

\* The active job of a document under replacement is for the newest revision.
UpdateIsNewest ==
    \A j \in DOMAIN jobs :
      /\ jobs[j].status \in ActiveStatuses
      /\ docs[jobs[j].doc].status = "UPDATING"
      => jobs[j].rev = Len(docs[jobs[j].doc].revs)

\* What becomes READY without the fence of a replacement is INDEXING.
ReadyingIsFirst ==
    \A w \in Workers :
      proc[w].linked /\ proc[w].step = "readying"
      => docs[DocOf(w)].status = "INDEXING"

\* What the rows say of the documents.
DocsInv ==
    /\ RevisionsThere
    /\ AbsentIsEmpty
    /\ FirstRevision
    /\ UpdateIsNewest
    /\ ReadyingIsFirst
    /\ ReadyMeansThisRevision

\* What holds of the executions.
Executions ==
    /\ ProcTyped
    /\ ProcFollowsPc
    /\ LockHeld

\* What a well-typed state says of numbers.
LEMMA Numbers ==
  ASSUME TypeOK, DocsTyped
  PROVE  /\ \A d \in Docs : /\ docs[d].active \in Nat
                            /\ seen[d].active \in Nat
                            /\ Len(docs[d].revs) \in Nat
         /\ \A j \in DOMAIN jobs : /\ jobs[j].rev \in Nat \ {0}
                                   /\ jobs[j].doc \in Docs
<1>1. Revisions \cup {0} \subseteq Nat /\ Revisions \subseteq Nat \ {0}
  BY JobQueueAssumption DEF JobQueueAssumption
<1>2. \A d \in Docs : /\ docs[d].active \in Revisions \cup {0}
                     /\ seen[d].active \in Revisions \cup {0}
                     /\ docs[d].revs \in Seq(Contents)
  BY DEF DocsTyped
<1>3. \A j \in DOMAIN jobs : jobs[j].rev \in Revisions /\ jobs[j].doc \in Docs
  BY DEF TypeOK, Row
<1>4. ASSUME NEW d \in Docs
      PROVE  Len(docs[d].revs) \in Nat
  BY <1>2
<1>5. ASSUME NEW d \in Docs
      PROVE  docs[d].active \in Nat /\ seen[d].active \in Nat
  BY <1>1, <1>2
<1>6. ASSUME NEW j \in DOMAIN jobs
      PROVE  jobs[j].rev \in Nat \ {0} /\ jobs[j].doc \in Docs
  BY <1>1, <1>3
<1> QED BY <1>4, <1>5, <1>6

\* A status move, and a revision that becomes active.
LEMMA DocWritten ==
  ASSUME DocsTyped, NEW d \in Docs, NEW s, NEW r
  PROVE  /\ SetDoc(d, s) =>
              /\ docs'[d].status = s
              /\ docs'[d].active = docs[d].active
              /\ docs'[d].revs = docs[d].revs
              /\ \A e \in Docs \ {d} : docs'[e] = docs[e]
         /\ SetReady(d, r) =>
              /\ docs'[d].status = "READY"
              /\ docs'[d].active = r
              /\ docs'[d].revs = docs[d].revs
              /\ \A e \in Docs \ {d} : docs'[e] = docs[e]
<1>1. DOMAIN docs = Docs /\ DOMAIN docs[d] = {"status", "active", "revs"}
  BY DEF DocsTyped
<1> QED BY <1>1 DEF SetDoc, SetReady

\* DocsInv over a step that leaves the documents alone: only rows, reads and
\* places in process may change.
LEMMA DocsStayKeeps ==
  ASSUME TypeOK, TaskFollowsRow, DocsTyped, Executions, DocsInv,
         [Next]_jobVars, [WorkflowNext]_vars, DocsStay
  PROVE  DocsInv'
<1> USE DEF DocsInv
<1>1. \A j \in DOMAIN jobs : RowKept(j)
  BY RowsKept
<1>2. docs' = docs /\ DOMAIN jobs' = DOMAIN jobs
  BY DEF DocsStay
<1>3. ASSUME NEW d \in Docs
      PROVE  \/ seen'[d] = seen[d]
             \/ seen'[d] = NoRequest
             \/ /\ seen'[d].active = docs[d].active
                /\ seen'[d].status = "ABSENT" => docs[d].status = "ABSENT"
  BY DEF DocsStay, ReadDocument, EndRequest, Standing, DocsTyped
<1>4. RevisionsThere'
  BY <1>1, <1>2, <1>3, Numbers DEF RevisionsThere, RowKept, NoRequest
<1>5. AbsentIsEmpty'
  BY <1>2, <1>3 DEF AbsentIsEmpty, NoRequest
<1>6. FirstRevision'
  BY <1>2 DEF FirstRevision
<1>7. UpdateIsNewest'
  BY <1>1, <1>2 DEF UpdateIsNewest, RowKept
<1>8. ReadyMeansThisRevision'
  BY <1>1, <1>2 DEF ReadyMeansThisRevision, RowKept
<1>9. ReadyingIsFirst'
  <2> SUFFICES ASSUME NEW v \in Workers, proc'[v].linked,
                      proc'[v].step = "readying"
               PROVE  docs'[DocOf(v)'].status = "INDEXING"
    BY DEF ReadyingIsFirst
  <2>1. ProcStep(v) /\ proc'[v] # Out
    BY ProcSteps, OutFields DEF Executions
  <2>2. DocOf(v)' = DocOf(v)
    BY <2>1, DocOfKept DEF ProcStep
  <2> QED BY <1>2, <2>1, <2>2 DEF ProcStep, ReadyingIsFirst
<1> QED BY <1>4, <1>5, <1>6, <1>7, <1>8, <1>9

\* DocsInv over a commit of a worker.
LEMMA WorkerChangesKeeps ==
  ASSUME TypeOK, TaskFollowsRow, OneActiveJobPerDocument, DocsTyped,
         Executions, DocsInv, [Next]_jobVars, [WorkflowNext]_vars,
         NEW w \in Workers, WorkerChanges(w)
  PROVE  DocsInv'
<1> USE DEF DocsInv
<1> DEFINE e == DocOf(w)
<1>1. \A j \in DOMAIN jobs : RowKept(j)
  BY RowsKept
<1>2. /\ DOMAIN jobs' = DOMAIN jobs /\ seen' = seen
      /\ task[w].job \in DOMAIN jobs /\ e \in Docs
      /\ JobOf(w) = jobs[task[w].job] /\ e = jobs[task[w].job].doc
  BY JobOfTyped DEF WorkerChanges, JobOf, DocOf
<1>3. /\ \A d \in Docs \ {e} : docs'[d] = docs[d]
      /\ docs'[e].revs = docs[e].revs
  BY <1>2, DocWritten DEF WorkerChanges
<1>4. \/ /\ docs[e].status \in BeforeActive
         /\ docs'[e].status \in BeforeActive
         /\ docs'[e].active = docs[e].active
      \/ /\ docs[e].status = "INDEXING"
         /\ docs'[e].status = "READY"
         /\ docs'[e].active = jobs[task[w].job].rev
      \/ /\ docs[e].status = "UPDATING"
         /\ jobs[task[w].job].status \in ActiveStatuses
         /\ jobs'[task[w].job].status = "SUCCEEDED"
         /\ docs'[e].status = "READY"
         /\ docs'[e].active = jobs[task[w].job].rev
      \/ /\ docs[e].status = "DELETING"
         /\ docs'[e].status = "DELETED"
         /\ docs'[e].active = docs[e].active
  BY <1>2, DocWritten DEF WorkerChanges, ReadyingIsFirst
<1>5. docs[e].revs # << >> /\ docs[e] # Absent
  BY <1>2, Numbers DEF RevisionsThere, Absent
<1>6. RevisionsThere'
  <2>1. \A d \in Docs : docs'[d].revs = docs[d].revs
    BY <1>3
  <2>2. docs'[e].active = docs[e].active \/ docs'[e].active = jobs[task[w].job].rev
    BY <1>4
  <2>3. \A d \in Docs : docs'[d].active <= Len(docs'[d].revs)
    BY <1>2, <1>3, <2>1, <2>2 DEF RevisionsThere
  <2>4. \A d \in Docs : seen'[d].active <= Len(docs'[d].revs)
    BY <1>2, <2>1 DEF RevisionsThere
  <2>5. \A j \in DOMAIN jobs' : jobs'[j].rev <= Len(docs'[jobs'[j].doc].revs)
    BY <1>1, <1>2, <2>1, Numbers DEF RevisionsThere, RowKept
  <2> QED BY <2>3, <2>4, <2>5 DEF RevisionsThere
<1>7. AbsentIsEmpty'
  BY <1>2, <1>3, <1>4, <1>5 DEF AbsentIsEmpty, BeforeActive
<1>8. FirstRevision'
  BY <1>2, <1>3, <1>4 DEF FirstRevision, BeforeActive
<1>9. UpdateIsNewest'
  BY <1>1, <1>2, <1>3, <1>4, Numbers DEF UpdateIsNewest, RowKept, BeforeActive
<1>10. ReadyMeansThisRevision'
  <2> SUFFICES ASSUME NEW j \in DOMAIN jobs, jobs'[j].type = "INDEX_DOCUMENT",
                      jobs'[j].status \in ActiveStatuses,
                      docs'[jobs'[j].doc].status = "READY"
               PROVE  docs'[jobs'[j].doc].active = jobs'[j].rev
    BY <1>2 DEF ReadyMeansThisRevision
  <2>1. /\ jobs'[j].doc = jobs[j].doc /\ jobs'[j].rev = jobs[j].rev
        /\ jobs[j].type = "INDEX_DOCUMENT" /\ jobs[j].status \in ActiveStatuses
    BY <1>1 DEF RowKept
  <2>2. CASE jobs[j].doc # e
    BY <1>3, <2>1, <2>2, Numbers DEF ReadyMeansThisRevision
  <2>3. CASE jobs[j].doc = e /\ docs[e].status = "INDEXING"
    <3>1. Len(docs[e].revs) = 1
      BY <1>2, <2>3 DEF FirstRevision, BeforeActive
    <3>2. ASSUME NEW i \in DOMAIN jobs, jobs[i].doc = e
          PROVE  jobs[i].rev = 1
      <4>1. jobs[i].rev <= Len(docs[jobs[i].doc].revs)
        BY DEF RevisionsThere
      <4>2. jobs[i].rev \in Nat /\ jobs[i].rev # 0
        BY Numbers
      <4>3. jobs[i].rev <= 1
        BY <3>1, <3>2, <4>1
      <4> QED BY <4>2, <4>3
    <3>3. docs'[e].active = jobs[task[w].job].rev
      BY <1>4, <2>1, <2>3 DEF BeforeActive
    <3> QED BY <1>2, <2>1, <2>3, <3>2, <3>3
  <2>4. CASE jobs[j].doc = e /\ docs[e].status = "UPDATING"
    <3>1. j = task[w].job
      BY <1>2, <1>4, <2>1, <2>4 DEF OneActiveJobPerDocument, BeforeActive
    <3> QED BY <1>4, <2>4, <3>1 DEF ActiveStatuses, BeforeActive
  <2> QED BY <1>4, <2>1, <2>2, <2>3, <2>4 DEF BeforeActive
<1>11. ReadyingIsFirst'
  <2> SUFFICES ASSUME NEW v \in Workers, proc'[v].linked,
                      proc'[v].step = "readying"
               PROVE  docs'[DocOf(v)'].status = "INDEXING"
    BY DEF ReadyingIsFirst
  <2>1. ProcStep(v) /\ proc'[v] # Out /\ v # w
    BY ProcSteps, OutFields DEF Executions, WorkerChanges
  <2>2. DocOf(v)' = DocOf(v) /\ DocOf(v) \in Docs
    BY <2>1, DocOfKept, JobOfTyped DEF ProcStep
  <2>3. CASE proc'[v] = proc[v]
    <3>1. docs[DocOf(v)].status = "INDEXING" /\ lock[DocOf(v)] = v
      BY <2>3 DEF ReadyingIsFirst, Executions, LockHeld
    <3>2. lock[e] = w
      BY DEF Executions, LockHeld, WorkerChanges
    <3> QED BY <1>3, <2>1, <2>2, <3>1, <3>2
  <2>4. CASE docs[DocOf(v)].status = "INDEXING" /\ docs' = docs
    BY <2>2, <2>4
  <2> QED BY <2>1, <2>3, <2>4 DEF ProcStep
<1> QED BY <1>6, <1>7, <1>8, <1>9, <1>10, <1>11

\* What a request that changes a document finds, writes and asks for.
LEMMA RequestShape ==
  ASSUME DocsTyped, DocsInv, NEW d \in Docs, RequestChanges(d)
  PROVE  /\ docs[d] = Absent \/ docs[d].status = "READY"
         /\ \A e \in Docs \ {d} : docs'[e] = docs[e] /\ seen'[e] = seen[e]
         /\ seen'[d] = NoRequest
         /\ ~HasActiveJob(d)
         /\ proc' = proc /\ task' = task /\ pc' = pc
         /\ \E t \in JobTypes, r \in Revisions :
              /\ \A j \in DOMAIN jobs' \ DOMAIN jobs : jobs'[j] = NewRow(d, t, r)
              /\ \A j \in DOMAIN jobs : jobs'[j] = jobs[j]
              /\ \/ /\ docs'[d].status = "UPLOADED" /\ docs'[d].active = 0
                    /\ Len(docs'[d].revs) = 1 /\ r = 1 /\ docs[d] = Absent
                 \/ /\ docs'[d].status = "UPDATING"
                    /\ docs'[d].active = docs[d].active
                    /\ Len(docs'[d].revs) = Len(docs[d].revs) + 1
                    /\ r = Len(docs'[d].revs)
                 \/ /\ docs'[d].status = "DELETING"
                    /\ docs'[d].active = docs[d].active
                    /\ docs'[d].revs = docs[d].revs
                    /\ r = seen[d].active
<1> USE DEF DocsTyped
<1>1. ASSUME NEW t, NEW r, CreateJob(d, t, r)
      PROVE  /\ \A j \in DOMAIN jobs' \ DOMAIN jobs : jobs'[j] = NewRow(d, t, r)
             /\ \A j \in DOMAIN jobs : jobs'[j] = jobs[j]
             /\ ~HasActiveJob(d) /\ pc' = pc /\ task' = task
  BY <1>1 DEF CreateJob
<1>2. ASSUME Commit(d)
      PROVE  /\ seen'[d] = NoRequest /\ proc' = proc
             /\ \A e \in Docs \ {d} : seen'[e] = seen[e]
  BY <1>2 DEF Commit
<1>3. ASSUME NEW c \in ContentsOf[d], Upload(d, c)
      PROVE  /\ docs'[d].status = "UPLOADED" /\ docs'[d].active = 0
             /\ Len(docs'[d].revs) = 1
             /\ \A e \in Docs \ {d} : docs'[e] = docs[e]
             /\ docs[d] = Absent
             /\ CreateJob(d, "INDEX_DOCUMENT", 1) /\ Commit(d)
             /\ "INDEX_DOCUMENT" \in JobTypes /\ 1 \in Revisions
  BY <1>3, WorkflowAssumption DEF WorkflowAssumption, Upload, DocsInv, AbsentIsEmpty
<1>4. ASSUME NEW c \in ContentsOf[d], Upsert(d, c)
      PROVE  /\ docs'[d].status = "UPDATING"
             /\ docs'[d].active = docs[d].active
             /\ Len(docs'[d].revs) = Len(docs[d].revs) + 1
             /\ \A e \in Docs \ {d} : docs'[e] = docs[e]
             /\ docs[d].status = "READY"
             /\ CreateJob(d, "INDEX_DOCUMENT", Len(docs'[d].revs)) /\ Commit(d)
             /\ "INDEX_DOCUMENT" \in JobTypes /\ Len(docs'[d].revs) \in Revisions
  <2>1. c \in Contents
    BY WorkflowAssumption DEF WorkflowAssumption
  <2>2. docs'[d] = [docs[d] EXCEPT !.status = "UPDATING", !.revs = Append(@, c)]
    BY <1>4 DEF Upsert
  <2>3. docs'[d].revs = Append(docs[d].revs, c) /\ docs[d].revs \in Seq(Contents)
    BY <2>2
  <2>4. Len(docs'[d].revs) = Len(docs[d].revs) + 1
    BY <2>1, <2>3
  <2> QED BY <1>4, <2>2, <2>4, WorkflowAssumption DEF WorkflowAssumption, Upsert
<1>5. ASSUME Delete(d)
      PROVE  /\ docs'[d].status = "DELETING"
             /\ docs'[d].active = docs[d].active
             /\ docs'[d].revs = docs[d].revs
             /\ \A e \in Docs \ {d} : docs'[e] = docs[e]
             /\ docs[d].status = "READY"
             /\ CreateJob(d, "DELETE_DOCUMENT", seen[d].active) /\ Commit(d)
             /\ "DELETE_DOCUMENT" \in JobTypes /\ seen[d].active \in Revisions
  BY <1>5, DocWritten, WorkflowAssumption DEF WorkflowAssumption, Delete
<1>6. CASE \E c \in ContentsOf[d] : Upload(d, c)
  BY <1>1, <1>2, <1>3, <1>6
<1>7. CASE \E c \in ContentsOf[d] : Upsert(d, c)
  <2> DEFINE r == Len(docs'[d].revs)
  <2>1. PICK c \in ContentsOf[d] : Upsert(d, c)
    BY <1>7
  <2>2. CreateJob(d, "INDEX_DOCUMENT", r) /\ Commit(d)
    BY <1>4, <2>1
  <2>3. /\ \A j \in DOMAIN jobs' \ DOMAIN jobs :
             jobs'[j] = NewRow(d, "INDEX_DOCUMENT", r)
        /\ \A j \in DOMAIN jobs : jobs'[j] = jobs[j]
        /\ ~HasActiveJob(d) /\ pc' = pc /\ task' = task
    BY <1>1, <2>2
  <2>4. r \in Revisions /\ "INDEX_DOCUMENT" \in JobTypes
    BY <1>4, <2>1
  <2> QED BY <1>2, <1>4, <2>1, <2>2, <2>3, <2>4
<1>8. CASE Delete(d)
  BY <1>1, <1>2, <1>5, <1>8
<1> QED BY <1>6, <1>7, <1>8 DEF RequestChanges

\* DocsInv over such a request.
LEMMA RequestKeeps ==
  ASSUME TypeOK, TaskFollowsRow, DocsTyped, Executions, DocsInv,
         [Next]_jobVars, NEW d \in Docs, RequestChanges(d)
  PROVE  DocsInv'
<1> USE DEF DocsInv
<1>1. PICK t \in JobTypes, r \in Revisions :
        /\ \A j \in DOMAIN jobs' \ DOMAIN jobs : jobs'[j] = NewRow(d, t, r)
        /\ \A j \in DOMAIN jobs : jobs'[j] = jobs[j]
        /\ \/ /\ docs'[d].status = "UPLOADED" /\ docs'[d].active = 0
              /\ Len(docs'[d].revs) = 1 /\ r = 1 /\ docs[d] = Absent
           \/ /\ docs'[d].status = "UPDATING"
              /\ docs'[d].active = docs[d].active
              /\ Len(docs'[d].revs) = Len(docs[d].revs) + 1
              /\ r = Len(docs'[d].revs)
           \/ /\ docs'[d].status = "DELETING"
              /\ docs'[d].active = docs[d].active
              /\ docs'[d].revs = docs[d].revs
              /\ r = seen[d].active
  BY RequestShape
<1>2. /\ docs[d] = Absent \/ docs[d].status = "READY"
      /\ \A e \in Docs \ {d} : docs'[e] = docs[e] /\ seen'[e] = seen[e]
      /\ seen'[d] = NoRequest
      /\ proc' = proc /\ task' = task /\ pc' = pc
  BY RequestShape
<1>3. \A j \in DOMAIN jobs : jobs[j].status \in ActiveStatuses => jobs[j].doc # d
  BY RequestShape DEF HasActiveJob
<1>4. /\ NewRow(d, t, r).doc = d /\ NewRow(d, t, r).rev = r
      /\ NewRow(d, t, r).status = "PENDING"
  BY DEF NewRow
<1>5. /\ docs'[d].active <= Len(docs'[d].revs)
      /\ Len(docs[d].revs) <= Len(docs'[d].revs)
      /\ r <= Len(docs'[d].revs)
  <2>1. /\ docs[d].active <= Len(docs[d].revs)
        /\ seen[d].active <= Len(docs[d].revs)
        /\ docs[d].active \in Nat /\ seen[d].active \in Nat
        /\ Len(docs[d].revs) \in Nat
    BY Numbers DEF RevisionsThere
  <2>2. docs[d] = Absent => Len(docs[d].revs) = 0
    BY DEF Absent
  <2>3. CASE docs'[d].active = 0 /\ Len(docs'[d].revs) = 1 /\ r = 1 /\ docs[d] = Absent
    BY <2>2, <2>3
  <2>4. CASE /\ docs'[d].active = docs[d].active
             /\ Len(docs'[d].revs) = Len(docs[d].revs) + 1
             /\ r = Len(docs'[d].revs)
    BY <2>1, <2>4
  <2>5. CASE /\ docs'[d].active = docs[d].active
             /\ docs'[d].revs = docs[d].revs
             /\ r = seen[d].active
    BY <2>1, <2>5
  <2> QED BY <1>1, <2>3, <2>4, <2>5
<1>6. RevisionsThere'
  <2>1. ASSUME NEW e \in Docs
        PROVE  Len(docs[e].revs) <= Len(docs'[e].revs)
    <3>1. Len(docs[e].revs) \in Nat
      BY Numbers
    <3> QED BY <1>2, <1>5, <3>1
  <2>2. ASSUME NEW e \in Docs
        PROVE  /\ docs'[e].active <= Len(docs'[e].revs)
               /\ seen'[e].active <= Len(docs'[e].revs)
    <3>1. CASE e = d
      BY <1>1, <1>2, <1>5, <3>1, Numbers DEF NoRequest
    <3>2. CASE e # d
      BY <1>2, <3>2 DEF RevisionsThere
    <3> QED BY <3>1, <3>2
  <2>3. ASSUME NEW j \in DOMAIN jobs'
        PROVE  jobs'[j].rev <= Len(docs'[jobs'[j].doc].revs)
    <3>1. CASE j \in DOMAIN jobs
      <4> DEFINE e == jobs[j].doc
      <4>1. /\ e \in Docs /\ jobs[j].rev \in Nat /\ Len(docs[e].revs) \in Nat
            /\ jobs'[j] = jobs[j]
        BY <1>1, <3>1, Numbers
      <4>2. jobs[j].rev <= Len(docs[e].revs)
        BY <3>1 DEF RevisionsThere
      <4>3. Len(docs[e].revs) <= Len(docs'[e].revs)
        BY <2>1, <4>1
      <4>4. e \in Docs \ {d} => docs'[e] = docs[e]
        BY <1>2
      <4>5. CASE e = d
        <5>1. jobs[j].rev <= Len(docs[d].revs) /\ Len(docs[d].revs) <= Len(docs'[d].revs)
          BY <4>2, <4>3, <4>5
        <5>2. Len(docs'[d].revs) \in Nat
          BY <1>1, <4>1, <4>5
        <5> QED BY <4>1, <4>5, <5>1, <5>2
      <4> QED BY <4>1, <4>2, <4>4, <4>5
    <3>2. CASE j \notin DOMAIN jobs
      BY <1>1, <1>4, <1>5, <3>2
    <3> QED BY <3>1, <3>2
  <2> QED BY <2>2, <2>3 DEF RevisionsThere
<1>7. AbsentIsEmpty'
  BY <1>1, <1>2 DEF AbsentIsEmpty, NoRequest
<1>8. FirstRevision'
  BY <1>1, <1>2 DEF FirstRevision, BeforeActive
<1>9. UpdateIsNewest'
  BY <1>1, <1>2, <1>3, <1>4, Numbers DEF UpdateIsNewest
<1>10. ReadyMeansThisRevision'
  BY <1>1, <1>2, <1>3, <1>4, Numbers DEF ReadyMeansThisRevision
<1>11. ReadyingIsFirst'
  <2> SUFFICES ASSUME NEW v \in Workers, proc[v].linked,
                      proc[v].step = "readying"
               PROVE  docs'[DocOf(v)'].status = "INDEXING"
    BY <1>2 DEF ReadyingIsFirst
  <2>1. pc[v] = "working"
    BY OutFields DEF Executions, ProcFollowsPc
  <2>2. DocOf(v)' = DocOf(v) /\ DocOf(v) \in Docs
    BY <1>2, <2>1, DocOfKept, JobOfTyped
  <2>3. docs[DocOf(v)].status = "INDEXING"
    BY DEF ReadyingIsFirst
  <2> QED BY <1>2, <2>2, <2>3 DEF Absent
<1> QED BY <1>6, <1>7, <1>8, <1>9, <1>10, <1>11

-----------------------------------------------------------------------------
(* Types.                                                                  *)

\* Documents and reads keep their types.
LEMMA DocsTypedStep ==
  ASSUME TypeOK, TaskFollowsRow, DocsTyped, ProcTyped, [WorkflowNext]_vars
  PROVE  DocsTyped'
<1> USE DEF DocsTyped
<1>1. NoRequest \in [status : {"NONE", "ABSENT", "PRESENT", "GONE"},
                     active : Revisions \cup {0}]
  BY DEF NoRequest
<1>2. CASE DocsStay
  <2>1. ASSUME NEW d \in Docs, ReadDocument(d) \/ EndRequest(d)
        PROVE  seen' \in [Docs -> [status : {"NONE", "ABSENT", "PRESENT", "GONE"},
                                   active : Revisions \cup {0}]]
    <3>1. Standing(docs[d].status) \in {"NONE", "ABSENT", "PRESENT", "GONE"}
      BY DEF Standing
    <3>2. CASE ReadDocument(d)
      BY <3>1, <3>2 DEF ReadDocument
    <3>3. CASE EndRequest(d)
      BY <1>1, <3>3 DEF EndRequest
    <3> QED BY <2>1, <3>2, <3>3
  <2> QED BY <1>2, <2>1 DEF DocsStay
<1>3. ASSUME NEW w \in Workers, WorkerChanges(w)
      PROVE  DocsTyped'
  <2>1. JobOf(w).rev \in Revisions /\ DocOf(w) \in Docs
    BY <1>3, JobOfTyped DEF WorkerChanges, Row
  <2>2. ASSUME NEW s \in DocStatuses, SetDoc(DocOf(w), s)
        PROVE  DocsTyped'
    BY <1>3, <2>1, <2>2, ZenonT(60) DEF SetDoc, WorkerChanges
  <2>3. CASE SetReady(DocOf(w), JobOf(w).rev)
    BY <1>3, <2>1, <2>3, ZenonT(60) DEF SetReady, WorkerChanges, DocStatuses
  <2>4. BeforeActive \cup {"DELETED"} \subseteq DocStatuses
    BY DEF BeforeActive, DocStatuses
  <2> QED BY <1>3, <2>2, <2>3, <2>4 DEF WorkerChanges
<1>4. ASSUME NEW d \in Docs, RequestChanges(d)
      PROVE  DocsTyped'
  <2>1. seen' \in [Docs -> [status : {"NONE", "ABSENT", "PRESENT", "GONE"},
                            active : Revisions \cup {0}]]
    BY <1>1, <1>4 DEF RequestChanges, Upload, Upsert, Delete, Commit
  <2>2. ASSUME NEW c \in ContentsOf[d], Upload(d, c)
        PROVE  DocsTyped'
    <3>1. c \in Contents
      BY WorkflowAssumption DEF WorkflowAssumption
    <3>2. <<c>> \in Seq(Contents) /\ "UPLOADED" \in DocStatuses
      BY <3>1 DEF DocStatuses
    <3> QED BY <2>1, <2>2, <3>2 DEF Upload
  <2>3. ASSUME NEW c \in ContentsOf[d], Upsert(d, c)
        PROVE  DocsTyped'
    <3>1. c \in Contents
      BY WorkflowAssumption DEF WorkflowAssumption
    <3>2. Append(docs[d].revs, c) \in Seq(Contents) /\ "UPDATING" \in DocStatuses
      BY <3>1 DEF DocStatuses
    <3> QED BY <2>1, <2>3, <3>2, SMTT(30) DEF Upsert
  <2>4. CASE Delete(d)
    BY <2>1, <2>4, ZenonT(60) DEF Delete, SetDoc, DocStatuses
  <2> QED BY <1>4, <2>2, <2>3, <2>4 DEF RequestChanges
<1> QED BY <1>2, <1>3, <1>4, DocsStep

\* Executions and locks keep their types.
LEMMA ProcTypedStep ==
  ASSUME TypeOK, TaskFollowsRow, DocsTyped, ProcTyped, [WorkflowNext]_vars
  PROVE  ProcTyped'
<1> USE DEF ProcTyped
<1>1. Out \in [step : Steps, old : Revisions \cup {0}, linked : BOOLEAN]
  BY DEF Out, Steps
<1>2. CASE UNCHANGED <<lock, proc, drops>>
  BY <1>2
<1>3. ASSUME NEW w \in Workers, Process(w)
      PROVE  ProcTyped'
  <2> USE DEF GoTo, AtLinked, At, Steps
  <2>1. pc[w] = "working"
    BY <1>3 DEF Process, Connect, AcquireLock, AlreadyReady, ResetRetry,
                StartIndexing, StartReplacing, StartDeleting, RemoveOld,
                InsertNew, UpdateToReady, CommitReady, CompleteReplacement,
                CompleteDeletion
  <2>2. docs[DocOf(w)].active \in Revisions \cup {0}
    BY <2>1, JobOfTyped DEF DocsTyped
  <2>3. CASE Connect(w)
    BY <2>3 DEF Connect
  <2>4. CASE AcquireLock(w)
    BY <2>4 DEF AcquireLock
  <2>5. CASE \/ AlreadyReady(w) \/ StartIndexing(w) \/ ResetRetry(w)
             \/ UpdateToReady(w) \/ CommitReady(w)
    BY <2>5 DEF AlreadyReady, StartIndexing, ResetRetry, UpdateToReady, CommitReady
  <2>6. CASE StartReplacing(w) \/ StartDeleting(w)
    BY <2>2, <2>6 DEF StartReplacing, StartDeleting
  <2>7. CASE RemoveOld(w) \/ InsertNew(w)
    BY <2>7 DEF RemoveOld, InsertNew
  <2>8. CASE CompleteReplacement(w) \/ CompleteDeletion(w)
    BY <2>8 DEF CompleteReplacement, CompleteDeletion
  <2> QED BY <1>3, <2>3, <2>4, <2>5, <2>6, <2>7, <2>8 DEF Process
<1>4. ASSUME NEW w \in Workers, Leave(w), drops' = drops
      PROVE  ProcTyped'
  BY <1>1, <1>4 DEF Leave, Unlocked
<1>5. ASSUME NEW w \in Workers, Return(w) \/ Raise(w) \/ Cancel(w) \/ Die(w)
      PROVE  Leave(w) /\ drops' = drops
  BY <1>5 DEF Return, Raise, Cancel, Die
<1>6. ASSUME NEW w \in Workers, DropConnection(w)
      PROVE  ProcTyped'
  <2>1. drops' \in 0 .. MaxFaults
    BY <1>6, WorkflowAssumption, JobQueueAssumption
    DEF WorkflowAssumption, JobQueueAssumption, DropConnection, TypeOK
  <2> QED BY <1>6, <2>1 DEF DropConnection, Unlocked
<1>7. ASSUME NEW w \in Workers,
             Loop(w) \/ ((Heartbeat(w) \/ LoseHeartbeat(w) \/ Restart(w))
                         /\ UNCHANGED docVars)
      PROVE  UNCHANGED <<lock, proc, drops>>
  BY <1>7 DEF Loop, docVars
<1>8. Request \/ (Tick /\ UNCHANGED docVars) \/ UNCHANGED vars
      => UNCHANGED <<lock, proc, drops>>
  BY DEF Request, ReadDocument, Upload, Upsert, Delete, EndRequest, Commit,
         docVars, vars
<1>9. ASSUME NEW w \in Workers, Environment(w)
      PROVE  ProcTyped'
  BY <1>2, <1>4, <1>5, <1>6, <1>7, <1>9 DEF Environment
<1> QED
  BY <1>2, <1>3, <1>4, <1>5, <1>7, <1>8, <1>9 DEF WorkflowNext

\* LightRAG is given nothing but uploaded texts, and their chunks.
LEMMA IndexTypedStep ==
  ASSUME TypeOK, TaskFollowsRow, DocsTyped, ProcTyped, RevisionsThere,
         index \subseteq Entries, [WorkflowNext]_vars
  PROVE  index' \subseteq Entries
<1>1. ASSUME NEW w \in Workers, RemoveOld(w)
      PROVE  index' \subseteq Entries
  BY <1>1 DEF RemoveOld
<1>2. ASSUME NEW w \in Workers, InsertNew(w)
      PROVE  index' \subseteq Entries
  <2>1. /\ task[w].job \in DOMAIN jobs /\ DocOf(w) \in Docs
        /\ JobOf(w) = jobs[task[w].job]
    BY <1>2, JobOfTyped DEF InsertNew, At, JobOf
  <2>2. /\ JobOf(w).rev \in Nat /\ JobOf(w).rev # 0
        /\ JobOf(w).rev <= Len(docs[DocOf(w)].revs)
    BY <2>1, Numbers DEF RevisionsThere, DocOf
  <2>3. docs[DocOf(w)].revs \in Seq(Contents)
    BY <2>1 DEF DocsTyped
  <2>4. Content(DocOf(w), JobOf(w).rev) \in Contents
    BY <2>2, <2>3 DEF Content
  <2>5. JobOf(w).rev \in Revisions
    BY <2>1 DEF TypeOK, Row
  <2> DEFINE named == IF proc[w].step = "inserting" THEN JobOf(w).rev
                      ELSE proc[w].old
             new == Entry(DocOf(w), JobOf(w).rev, named)
  <2>6. named \in Revisions \cup {0}
    BY <2>5 DEF ProcTyped
  <2>7. new \in Entries
    <3> HIDE DEF named
    <3> QED BY <2>1, <2>4, <2>6 DEF Entry, Entries
  <2>8. index' = index \cup {new}
    BY <1>2 DEF InsertNew
  <2> QED BY <2>7, <2>8
<1>3. ASSUME NEW w \in Workers, Process(w)
      PROVE  index' = index \/ RemoveOld(w) \/ InsertNew(w)
  BY <1>3
  DEF Process, Connect, AcquireLock, AlreadyReady, ResetRetry, StartIndexing,
      StartReplacing, StartDeleting, UpdateToReady, CommitReady,
      CompleteReplacement, CompleteDeletion
<1>4. ASSUME NEW w \in Workers,
             Return(w) \/ Raise(w) \/ Cancel(w) \/ Loop(w) \/ Environment(w)
      PROVE  index' = index
  BY <1>4 DEF Return, Raise, Cancel, Loop, Environment, Die, DropConnection, docVars
<1>5. Request \/ (Tick /\ UNCHANGED docVars) \/ UNCHANGED vars => index' = index
  BY DEF Request, ReadDocument, Upload, Upsert, Delete, EndRequest, Commit,
         docVars, vars
<1> QED BY <1>1, <1>2, <1>3, <1>4, <1>5 DEF WorkflowNext

-----------------------------------------------------------------------------
(* The invariant holds, and what follows.                                  *)

\* The invariant.
WInv ==
    /\ IndInv
    /\ DocsTyped
    /\ index \subseteq Entries
    /\ Executions
    /\ DocsInv

\* The invariant holds at first.
LEMMA InitWInv ==
  ASSUME WorkflowInit
  PROVE  WInv
<1> USE WorkflowAssumption DEF WorkflowAssumption, WorkflowInit
<1>1. IndInv
  BY InitIndInv
<1>2. DocsTyped /\ index \subseteq Entries
  <2>1. << >> \in Seq(Contents)
    OBVIOUS
  <2> QED BY <2>1 DEF DocsTyped, Absent, NoRequest, DocStatuses
<1>3. ProcTyped
  BY DEF ProcTyped, Out, Steps
<1>4. ProcFollowsPc /\ LockHeld
  BY DEF ProcFollowsPc, LockHeld, Out
<1>5. DOMAIN jobs = {}
  BY DEF Init
<1>6. DocsInv
  BY <1>5
  DEF DocsInv, RevisionsThere, AbsentIsEmpty, FirstRevision, UpdateIsNewest,
      ReadyingIsFirst, ReadyMeansThisRevision, Absent, NoRequest, Out, BeforeActive
<1> QED BY <1>1, <1>2, <1>3, <1>4, <1>6 DEF WInv, Executions

\* Every step keeps it, and is a step of JobQueue.
LEMMA NextWInv ==
  ASSUME WInv, [WorkflowNext]_vars
  PROVE  WInv' /\ [Next]_jobVars
<1> USE DEF WInv, Executions
<1>1. TypeOK /\ TaskFollowsRow /\ OneActiveJobPerDocument
  BY DEF IndInv
<1>2. [Next]_jobVars
  BY WorkflowNextIsJobStep DEF SeenRevisions, DocsTyped
<1>3. IndInv'
  BY <1>2, NextIndInv
<1>4. DocsTyped' /\ ProcTyped'
  BY <1>1, DocsTypedStep, ProcTypedStep
<1>5. ProcFollowsPc' /\ LockHeld'
  BY <1>1, <1>2, ProcFollowsPcStep, LockHeldStep
<1>6. index' \subseteq Entries
  BY <1>1, IndexTypedStep DEF DocsInv
<1>7. DocsInv'
  BY <1>1, <1>2, DocsStep, DocsStayKeeps, WorkerChangesKeeps, RequestKeeps
<1> QED BY <1>2, <1>3, <1>4, <1>5, <1>6, <1>7

\* The invariant the theorems below rest on.
THEOREM WInvHolds == WorkflowSpec => []WInv
<1>1. WorkflowInit => WInv
  BY InitWInv
<1>2. WInv /\ [WorkflowNext]_vars => WInv'
  BY NextWInv
<1> QED BY <1>1, <1>2, PTL DEF WorkflowSpec

\* Documents, requests, locks, executions and the index keep their types.
THEOREM WorkflowTypeCorrect == WorkflowSpec => []WorkflowTypeOK
<1>1. WInv => WorkflowTypeOK
  BY DEF WInv, IndInv, DocsTyped, Executions, ProcTyped, WorkflowTypeOK
<1> QED BY <1>1, WInvHolds, PTL

\* The workflow implements the job queue: requests and executions change rows
\* of jobs in no other way than JobQueue has it.
THEOREM ImplementsJobQueue == WorkflowSpec => JobQueueSpec
<1>1. WorkflowInit => Init
  BY DEF WorkflowInit
<1>2. WInv /\ [WorkflowNext]_vars => [Next]_jobVars
  BY NextWInv
<1> QED BY <1>1, <1>2, WInvHolds, PTL DEF WorkflowSpec, JobQueueSpec, Spec

\* Two executions past the advisory lock of a document are never connected
\* at once, however leases expire, workers die and connections are lost.
THEOREM OneMutator == WorkflowSpec => []OneMutatorPerDocument
<1>1. ASSUME WInv
      PROVE  OneMutatorPerDocument
  <2>1. ASSUME NEW w \in Workers, PastLock(w), proc[w].linked \/ drops = 0
        PROVE  lock[DocOf(w)] = w
    BY <1>1, <2>1 DEF WInv, Executions, ProcFollowsPc, LockHeld, PastLock
  <2> QED BY <2>1 DEF OneMutatorPerDocument
<1> QED BY <1>1, WInvHolds, PTL

\* An INDEX_DOCUMENT job that meets a READY document is for the revision that
\* is active.
THEOREM ReadyIsThisRevision == WorkflowSpec => []ReadyMeansThisRevision
<1>1. WInv => ReadyMeansThisRevision
  BY DEF WInv, DocsInv
<1> QED BY <1>1, WInvHolds, PTL

\* The active revision never moves back, and no revision is rewritten.
LEMMA RevisionsGrow ==
  ASSUME WInv, [WorkflowNext]_vars, NEW d \in Docs
  PROVE  /\ docs'[d].active >= docs[d].active
         /\ \A r \in DOMAIN docs[d].revs : docs'[d].revs[r] = docs[d].revs[r]
<1> USE DEF WInv
<1>1. /\ TypeOK /\ TaskFollowsRow /\ ProcTyped /\ DocsTyped
      /\ RevisionsThere /\ FirstRevision /\ UpdateIsNewest /\ ReadyingIsFirst
      /\ AbsentIsEmpty
  BY DEF IndInv, Executions, DocsInv
<1>2. /\ docs[d].active \in Nat /\ Len(docs[d].revs) \in Nat
      /\ docs[d].active <= Len(docs[d].revs)
  BY <1>1, Numbers DEF RevisionsThere
<1>3. CASE docs'[d] = docs[d]
  BY <1>2, <1>3
<1>4. ASSUME NEW w \in Workers, WorkerChanges(w)
      PROVE  /\ docs'[d].active >= docs[d].active
             /\ docs'[d].revs = docs[d].revs
  <2> DEFINE r == JobOf(w).rev
  <2>1. /\ DocOf(w) \in Docs /\ task[w].job \in DOMAIN jobs
        /\ JobOf(w) = jobs[task[w].job] /\ DocOf(w) = jobs[task[w].job].doc
    BY <1>1, <1>4, JobOfTyped DEF WorkerChanges, JobOf, DocOf
  <2>2. r \in Nat
    BY <1>1, <2>1, Numbers
  <2>3. CASE DocOf(w) # d
    BY <1>1, <1>2, <1>4, <2>1, <2>3, DocWritten DEF WorkerChanges
  <2>4. CASE DocOf(w) = d /\ \E s : SetDoc(d, s)
    BY <1>1, <1>2, <2>4, DocWritten, SMTT(30)
  <2>5. CASE DocOf(w) = d /\ docs[d].active = 0 /\ SetReady(d, r)
    BY <1>1, <2>2, <2>5, DocWritten
  <2>6. CASE DocOf(w) = d /\ r = Len(docs[d].revs) /\ SetReady(d, r)
    BY <1>1, <1>2, <2>6, DocWritten
  <2>7. docs[DocOf(w)].status = "INDEXING" => docs[DocOf(w)].active = 0
    BY <1>1, <2>1 DEF FirstRevision, BeforeActive
  <2>8. /\ docs[DocOf(w)].status = "UPDATING"
        /\ JobOf(w).status \in ActiveStatuses
        => r = Len(docs[DocOf(w)].revs)
    BY <1>1, <2>1 DEF UpdateIsNewest
  <2>9. proc[w].step = "readying" => docs[DocOf(w)].status = "INDEXING"
    BY <1>1, <1>4 DEF ReadyingIsFirst, WorkerChanges
  <2> QED
    BY <1>4, <2>3, <2>4, <2>5, <2>6, <2>7, <2>8, <2>9 DEF WorkerChanges
<1>5. ASSUME NEW e \in Docs, RequestChanges(e)
      PROVE  /\ docs'[d].active >= docs[d].active
             /\ \A r \in DOMAIN docs[d].revs : docs'[d].revs[r] = docs[d].revs[r]
  <2>1. CASE e # d
    BY <1>1, <1>3, <1>5, <2>1, RequestShape
  <2>2. CASE e = d /\ \E c \in ContentsOf[d] : Upload(d, c)
    <3>1. docs[d] = Absent
      BY <1>1, <2>2 DEF Upload, AbsentIsEmpty
    <3>2. docs'[d].active = 0
      BY <1>1, <2>2 DEF Upload, DocsTyped
    <3> QED BY <3>1, <3>2 DEF Absent
  <2>3. ASSUME NEW c \in ContentsOf[d], Upsert(d, c)
        PROVE  /\ docs'[d].active >= docs[d].active
               /\ \A r \in DOMAIN docs[d].revs : docs'[d].revs[r] = docs[d].revs[r]
    <3>1. c \in Contents
      BY WorkflowAssumption DEF WorkflowAssumption
    <3>2. /\ docs'[d].revs = Append(docs[d].revs, c)
          /\ docs'[d].active = docs[d].active
          /\ docs[d].revs \in Seq(Contents)
      BY <1>1, <2>3 DEF Upsert, DocsTyped
    <3> QED BY <1>2, <3>1, <3>2
  <2>4. CASE e = d /\ Delete(d)
    BY <1>1, <1>2, <2>4, DocWritten DEF Delete
  <2> QED BY <1>5, <2>1, <2>2, <2>3, <2>4 DEF RequestChanges
<1> QED BY <1>1, <1>3, <1>4, <1>5, DocsStep DEF DocsStay

-----------------------------------------------------------------------------
(***************************************************************************)
(* Jobs and their effects.  run_once reports a job as SUCCEEDED after      *)
(* processing has returned, in a transaction of its own: the report is     *)
(* right because the attempt that makes it has seen the effect, which no   *)
(* later step takes back.                                                  *)
(***************************************************************************)

\* Processing has committed, and the success of the job is to be recorded.
Reporting(w) ==
    pc[w] = "succeeding" \/ (pc[w] = "working" /\ proc[w].step = "done")

\* An attempt that still owns its job reports what has happened.
ReportsEffect ==
    \A w \in Workers :
      Reporting(w) /\ OwnsAttempt(w, task[w].job)
      => /\ JobOf(w).type = "INDEX_DOCUMENT"
         /\ docs[DocOf(w)].active >= JobOf(w).rev

\* Places in process that belong to indexing and replacing, and to deleting.
IndexSteps == {"indexing", "indexed", "readying",
               "removing", "inserting", "inserted"}
DeleteSteps == {"deleting", "removed"}

\* INDEX_DOCUMENT jobs index and replace, DELETE_DOCUMENT jobs delete.
StepsFitJobs ==
    \A w \in Workers :
      pc[w] = "working"
      => /\ proc[w].step \in IndexSteps => JobOf(w).type = "INDEX_DOCUMENT"
         /\ proc[w].step \in DeleteSteps => JobOf(w).type = "DELETE_DOCUMENT"

\* Where the executions that report come from.
LEMMA ReportingComes ==
  ASSUME TypeOK, TaskFollowsRow, ProcTyped, ProcFollowsPc, [WorkflowNext]_vars,
         NEW v \in Workers, Reporting(v)'
  PROVE  \/ /\ Reporting(v)
            /\ task'[v].job = task[v].job /\ task'[v].attempt = task[v].attempt
         \/ AlreadyReady(v) \/ CommitReady(v)
         \/ CompleteReplacement(v) \/ CompleteDeletion(v)
<1> DEFINE Stays == /\ Reporting(v)
                    /\ task'[v].job = task[v].job
                    /\ task'[v].attempt = task[v].attempt
<1> USE DEF Reporting, ProcTyped
<1>1. CASE pc'[v] = pc[v] /\ proc'[v] = proc[v] /\ task'[v] = task[v]
  BY <1>1
<1>2. ASSUME NEW w \in Workers, w # v, Process(w)
      PROVE  Stays
  <2>1. pc' = pc /\ proc'[v] = proc[v]
    BY <1>2
    DEF Process, Connect, AcquireLock, AlreadyReady, ResetRetry, StartIndexing,
        StartReplacing, StartDeleting, RemoveOld, InsertNew, UpdateToReady,
        CommitReady, CompleteReplacement, CompleteDeletion, GoTo,
        BeginTransaction, CompleteInProcess, jobVars
  <2>2. BeginTransaction(w) \/ task' = task
    BY <1>2
    DEF Process, Connect, AcquireLock, AlreadyReady, ResetRetry, StartIndexing,
        StartReplacing, StartDeleting, RemoveOld, InsertNew, UpdateToReady,
        CommitReady, CompleteReplacement, CompleteDeletion, CompleteInProcess,
        jobVars
  <2> QED BY <1>2, <2>1, <2>2 DEF BeginTransaction, TypeOK
<1>3. ASSUME Process(v)
      PROVE  \/ AlreadyReady(v) \/ CommitReady(v)
             \/ CompleteReplacement(v) \/ CompleteDeletion(v)
  <2> USE DEF GoTo, AtLinked, At
  <2>1. ~Connect(v) /\ ~AcquireLock(v)
    BY DEF Connect, AcquireLock, BeginTransaction, jobVars
  <2>2. ~ResetRetry(v) /\ ~StartIndexing(v) /\ ~StartReplacing(v) /\ ~StartDeleting(v)
    BY DEF ResetRetry, StartIndexing, StartReplacing, StartDeleting,
           BeginTransaction, jobVars
  <2>3. ~RemoveOld(v) /\ ~InsertNew(v) /\ ~UpdateToReady(v)
    BY DEF RemoveOld, InsertNew, UpdateToReady, jobVars
  <2> QED BY <1>3, <2>1, <2>2, <2>3 DEF Process
<1>4. ASSUME NEW w \in Workers, Return(w) \/ Raise(w) \/ Cancel(w) \/ Die(w)
      PROVE  Stays
  <2>1. /\ \A u \in Workers \ {w} : /\ pc'[u] = pc[u] /\ task'[u] = task[u]
                                    /\ proc'[u] = proc[u]
        /\ proc'[w].step = "out"
    BY <1>4, OutFields
    DEF Return, Raise, Cancel, Die, Leave, Finish, Abandon, Crash, TypeOK
  <2>2. w = v => pc'[w] = "succeeding"
    BY <2>1
  <2>3. w = v => Return(w)
    BY <1>4, <2>2 DEF Raise, Cancel, Die, Finish, Abandon, Crash, TypeOK
  <2> QED BY <2>1, <2>3 DEF Return, At, Finish
<1>5. ASSUME NEW w \in Workers, Loop(w) \/ (Restart(w) /\ UNCHANGED docVars)
      PROVE  Stays
  <2>1. /\ \A u \in Workers \ {w} : pc'[u] = pc[u] /\ task'[u] = task[u]
        /\ proc' = proc
        /\ pc[w] # "working" /\ pc'[w] # "succeeding"
    BY <1>5
    DEF Loop, Restart, docVars, RecoverExpired, ClaimNext, ClaimNothing,
        Succeed, Fail, Record, TypeOK
  <2>2. proc[w].step = "out"
    BY <2>1, OutFields DEF ProcFollowsPc
  <2> QED BY <2>1, <2>2
<1>6. ASSUME NEW w \in Workers, DropConnection(w)
      PROVE  Stays
  BY <1>6 DEF DropConnection, jobVars
<1>7. ASSUME NEW w \in Workers,
             (Heartbeat(w) \/ LoseHeartbeat(w)) /\ UNCHANGED docVars
      PROVE  Stays
  BY <1>7 DEF Heartbeat, LoseHeartbeat, docVars
<1>8. Request \/ (Tick /\ UNCHANGED docVars) \/ UNCHANGED vars => Stays
  BY <1>1
  DEF Request, ReadDocument, Upload, Upsert, Delete, EndRequest, Commit,
      CreateJob, Tick, docVars, vars, jobVars
<1>9. ASSUME NEW w \in Workers, Environment(w)
      PROVE  Stays
  BY <1>4, <1>5, <1>6, <1>7, <1>9 DEF Environment
<1> HIDE DEF Stays
<1>10. \/ Stays
       \/ AlreadyReady(v) \/ CommitReady(v)
       \/ CompleteReplacement(v) \/ CompleteDeletion(v)
  BY <1>2, <1>3, <1>4, <1>5, <1>8, <1>9 DEF WorkflowNext
<1> QED BY <1>10 DEF Stays

\* An attempt that owns its job has owned it since it was claimed.
LEMMA OwnsBefore ==
  ASSUME TypeOK, TaskFollowsRow, [Next]_jobVars, NEW w \in Workers,
         pc[w] \in Busy, task'[w].job = task[w].job,
         task'[w].attempt = task[w].attempt, OwnsAttempt(w, task[w].job)'
  PROVE  OwnsAttempt(w, task[w].job)
<1> DEFINE j == task[w].job
<1>1. j \in DOMAIN jobs /\ task[w].attempt <= jobs[j].attempts
  BY DEF TaskFollowsRow
<1>2. jobs[j].attempts \in Nat /\ task[w].attempt \in Nat /\ w # NoWorker
  BY <1>1, JobQueueAssumption DEF JobQueueAssumption, TypeOK, Row, Attempts
<1>3. /\ jobs'[j].status = "RUNNING" /\ jobs'[j].owner = w
      /\ jobs'[j].attempts = task[w].attempt
  BY DEF OwnsAttempt
<1>4. CASE jobs'[j] = jobs[j]
  BY <1>1, <1>3, <1>4 DEF OwnsAttempt
<1>5. CASE RowStep(j)
  BY <1>1, <1>2, <1>3, <1>5, RowStepShape DEF OwnsAttempt
<1>6. \A i \in JobIds : RowAdded(i) => jobs'[j] = jobs[j]
  BY <1>1 DEF RowAdded
<1> QED BY <1>1, <1>4, <1>5, <1>6, RowsOnlyStep DEF RowsStep, jobVars

\* Every step keeps StepsFitJobs.
LEMMA StepsFitJobsStep ==
  ASSUME WInv, StepsFitJobs, [WorkflowNext]_vars
  PROVE  StepsFitJobs'
<1> SUFFICES ASSUME NEW v \in Workers, pc'[v] = "working",
                    proc'[v].step \in IndexSteps \cup DeleteSteps
             PROVE  /\ proc'[v].step \in IndexSteps
                       => JobOf(v).type' = "INDEX_DOCUMENT"
                    /\ proc'[v].step \in DeleteSteps
                       => JobOf(v).type' = "DELETE_DOCUMENT"
  BY DEF StepsFitJobs
<1> USE DEF IndexSteps, DeleteSteps
<1>1. /\ TypeOK /\ TaskFollowsRow /\ ProcTyped /\ ProcFollowsPc
  BY DEF WInv, IndInv, Executions
<1>2. ProcStep(v) /\ proc'[v] # Out
  BY <1>1, ProcSteps, OutFields
<1>3. pc[v] = "working" /\ task'[v].job = task[v].job
  BY <1>2 DEF ProcStep
<1>4. JobOf(v).type' = JobOf(v).type
  BY <1>1, <1>3, NextWInv, JobOfTyped, RowsKept DEF RowKept, JobOf
<1> DEFINE SameSide == /\ proc'[v].step \in IndexSteps => proc[v].step \in IndexSteps
                       /\ proc'[v].step \in DeleteSteps => proc[v].step \in DeleteSteps
<1>5. CASE SameSide
  BY <1>3, <1>4, <1>5 DEF StepsFitJobs
<1>6. CASE StartIndexing(v) \/ StartReplacing(v)
  BY <1>1, <1>4, <1>6
  DEF StartIndexing, StartReplacing, GoTo, ProcTyped
<1>7. CASE StartDeleting(v)
  BY <1>1, <1>4, <1>7 DEF StartDeleting, ProcTyped
<1>8. SameSide \/ StartIndexing(v) \/ StartReplacing(v) \/ StartDeleting(v)
  <2> USE <1>1 DEF ProcTyped
  <2>1. proc'[v].step = proc[v].step => SameSide
    OBVIOUS
  <2>2. ASSUME NEW w \in Workers, w # v, Process(w)
        PROVE  proc'[v] = proc[v]
    BY <2>2
    DEF Process, Connect, AcquireLock, AlreadyReady, ResetRetry, StartIndexing,
        StartReplacing, StartDeleting, RemoveOld, InsertNew, UpdateToReady,
        CommitReady, CompleteReplacement, CompleteDeletion, GoTo
  <2>3. ASSUME Process(v)
        PROVE  \/ SameSide
               \/ StartIndexing(v) \/ StartReplacing(v) \/ StartDeleting(v)
    <3> USE DEF GoTo, AtLinked, At
    <3>1. ~Connect(v) /\ ~AcquireLock(v) /\ ~AlreadyReady(v)
      BY DEF Connect, AcquireLock, AlreadyReady
    <3>2. ResetRetry(v) => proc'[v] = proc[v]
      BY DEF ResetRetry
    <3>3. RemoveOld(v) \/ InsertNew(v) \/ UpdateToReady(v) => SameSide
      BY DEF RemoveOld, InsertNew, UpdateToReady
    <3>4. ~CommitReady(v) /\ ~CompleteReplacement(v) /\ ~CompleteDeletion(v)
      BY DEF CommitReady, CompleteReplacement, CompleteDeletion
    <3> HIDE DEF SameSide
    <3> QED BY <2>1, <2>3, <3>1, <3>2, <3>3, <3>4 DEF Process
  <2>4. ASSUME NEW w \in Workers, Return(w) \/ Raise(w) \/ Cancel(w) \/ Die(w)
        PROVE  proc'[v] = proc[v]
    BY <1>2, <2>4 DEF Return, Raise, Cancel, Die, Leave
  <2>5. ASSUME NEW w \in Workers, DropConnection(w)
        PROVE  proc'[v].step = proc[v].step
    BY <2>5 DEF DropConnection
  <2>6. ASSUME NEW w \in Workers,
               Loop(w) \/ ((Heartbeat(w) \/ LoseHeartbeat(w) \/ Restart(w))
                           /\ UNCHANGED docVars)
        PROVE  proc'[v] = proc[v]
    BY <2>6 DEF Loop, docVars
  <2>7. Request \/ (Tick /\ UNCHANGED docVars) \/ UNCHANGED vars => proc'[v] = proc[v]
    BY DEF Request, ReadDocument, Upload, Upsert, Delete, EndRequest, Commit,
           docVars, vars
  <2>8. ASSUME NEW w \in Workers, Environment(w)
        PROVE  proc'[v].step = proc[v].step
    BY <2>4, <2>5, <2>6, <2>8 DEF Environment
  <2> HIDE DEF SameSide
  <2> QED
    BY <2>1, <2>2, <2>3, <2>4, <2>6, <2>7, <2>8 DEF WorkflowNext
<1> QED BY <1>5, <1>6, <1>7, <1>8

\* Every step keeps ReportsEffect.
LEMMA ReportsEffectStep ==
  ASSUME WInv, StepsFitJobs, ReportsEffect, [WorkflowNext]_vars
  PROVE  ReportsEffect'
<1> SUFFICES ASSUME NEW v \in Workers, Reporting(v)',
                    OwnsAttempt(v, task[v].job)'
             PROVE  /\ JobOf(v).type' = "INDEX_DOCUMENT"
                    /\ docs'[DocOf(v)'].active >= JobOf(v).rev'
  BY DEF ReportsEffect
<1>1. /\ TypeOK /\ TaskFollowsRow /\ ProcTyped /\ ProcFollowsPc /\ DocsTyped
      /\ ReadyMeansThisRevision /\ [Next]_jobVars
  BY NextWInv DEF WInv, IndInv, Executions, DocsInv
<1>2. ASSUME pc[v] \in Busy, task'[v].job = task[v].job
      PROVE  /\ JobOf(v).type' = JobOf(v).type /\ JobOf(v).rev' = JobOf(v).rev
             /\ DocOf(v)' = DocOf(v)
             /\ task[v].job \in DOMAIN jobs
             /\ DocOf(v) \in Docs /\ JobOf(v).rev \in Nat
  <2>1. task[v].job \in DOMAIN jobs
    BY <1>1, <1>2 DEF TaskFollowsRow
  <2> QED
    BY <1>1, <1>2, <2>1, RowsKept, Numbers DEF RowKept, JobOf, DocOf
<1>3. CASE /\ Reporting(v) /\ task'[v].job = task[v].job
           /\ task'[v].attempt = task[v].attempt
  <2>1. pc[v] \in Busy
    BY <1>3 DEF Reporting, Busy
  <2>2. OwnsAttempt(v, task[v].job)
    BY <1>1, <1>3, <2>1, OwnsBefore
  <2>3. JobOf(v).type = "INDEX_DOCUMENT" /\ docs[DocOf(v)].active >= JobOf(v).rev
    BY <1>3, <2>2 DEF ReportsEffect
  <2>4. /\ docs'[DocOf(v)].active >= docs[DocOf(v)].active
        /\ docs[DocOf(v)].active \in Nat
    BY <1>1, <1>2, <1>3, <2>1, RevisionsGrow, Numbers
  <2>5. docs'[DocOf(v)].active \in Nat
    <3>1. docs'[DocOf(v)].active \in Revisions \cup {0}
      BY <1>2, <1>3, <2>1, NextWInv DEF WInv, DocsTyped
    <3>2. Revisions \cup {0} \subseteq Nat
      BY JobQueueAssumption DEF JobQueueAssumption
    <3> QED BY <3>1, <3>2
  <2> QED BY <1>2, <1>3, <2>1, <2>3, <2>4, <2>5
<1>4. CASE AlreadyReady(v)
  <2>1. /\ jobs' = jobs /\ pc' = pc /\ task' = task /\ docs' = docs
        /\ pc[v] = "working" /\ JobOf(v).type = "INDEX_DOCUMENT"
        /\ docs[DocOf(v)].status = "READY"
    BY <1>4 DEF AlreadyReady, AtLinked, At, jobVars
  <2>2. JobOf(v).status \in ActiveStatuses
    BY <2>1 DEF OwnsAttempt, ActiveStatuses, JobOf
  <2>3. docs[DocOf(v)].active = JobOf(v).rev
    BY <1>1, <1>2, <2>1, <2>2 DEF ReadyMeansThisRevision, Busy, JobOf, DocOf
  <2> QED BY <1>2, <2>1, <2>3 DEF Busy
<1>5. CASE CommitReady(v)
  <2>1. /\ pc' = pc /\ task' = task
        /\ pc[v] = "working" /\ proc[v].step = "readying"
        /\ SetReady(DocOf(v), JobOf(v).rev)
    BY <1>5 DEF CommitReady, AtLinked, At, jobVars
  <2>2. docs'[DocOf(v)].active = JobOf(v).rev
    BY <1>1, <1>2, <2>1, DocWritten DEF Busy
  <2>3. JobOf(v).type = "INDEX_DOCUMENT"
    BY <2>1 DEF StepsFitJobs, IndexSteps
  <2> QED BY <1>2, <2>1, <2>2, <2>3 DEF Busy
<1>6. ~CompleteReplacement(v) /\ ~CompleteDeletion(v)
  <2> SUFFICES ASSUME CompleteInProcess(v)
               PROVE  FALSE
    BY DEF CompleteReplacement, CompleteDeletion
  <2>1. /\ task[v].job \in DOMAIN jobs /\ task' = task
        /\ jobs' = [jobs EXCEPT ![task[v].job] = Released(@, "SUCCEEDED")]
    BY DEF CompleteInProcess, FencedSinceBegin, OwnsAttempt
  <2>2. jobs'[task[v].job].status = "SUCCEEDED"
    BY <1>1, <2>1 DEF Released, TypeOK, Row
  <2> QED BY <2>1, <2>2 DEF OwnsAttempt
<1> QED BY <1>1, <1>3, <1>4, <1>5, <1>6, ReportingComes

\* A job becomes SUCCEEDED inside the processing transaction or by a report.
LEMMA SuccessComes ==
  ASSUME TypeOK, TaskFollowsRow, [WorkflowNext]_vars, NEW j \in DOMAIN jobs,
         jobs[j].status # "SUCCEEDED", jobs'[j].status = "SUCCEEDED"
  PROVE  \E w \in Workers :
           /\ task[w].job = j
           /\ \/ CompleteReplacement(w) \/ CompleteDeletion(w)
              \/ /\ Reporting(w) /\ OwnsAttempt(w, j)
                 /\ docs' = docs
<1> USE DEF TypeOK
<1>1. jobs[j] \in Row /\ jobs'[j] # jobs[j]
  OBVIOUS
<1>2. /\ Aged(jobs[j]).status # "SUCCEEDED"
      /\ RetriedOrFailed(jobs[j]).status # "SUCCEEDED"
      /\ \A w \in Workers : Leased(jobs[j], w).status # "SUCCEEDED"
  BY <1>1 DEF Aged, RetriedOrFailed, Released, Leased, Row
<1>3. ASSUME NEW w \in Workers, Process(w)
      PROVE  /\ task[w].job = j
             /\ CompleteReplacement(w) \/ CompleteDeletion(w)
  <2>1. \/ jobs' = jobs
        \/ CompleteReplacement(w) \/ CompleteDeletion(w)
    BY <1>3
    DEF Process, Connect, AcquireLock, AlreadyReady, ResetRetry, StartIndexing,
        StartReplacing, StartDeleting, RemoveOld, InsertNew, UpdateToReady,
        CommitReady, BeginTransaction, jobVars
  <2>2. jobs' = jobs \/ jobs' = [jobs EXCEPT ![task[w].job] = Released(@, "SUCCEEDED")]
    BY <2>1 DEF CompleteReplacement, CompleteDeletion, CompleteInProcess
  <2> QED BY <1>1, <2>1, <2>2
<1>4. ASSUME NEW w \in Workers, Loop(w)
      PROVE  /\ task[w].job = j /\ Reporting(w) /\ OwnsAttempt(w, j)
             /\ docs' = docs
  <2>1. ~RecoverExpired(w) /\ ~ClaimNothing(w)
    BY <1>1, <1>2 DEF RecoverExpired, ClaimNothing
  <2>2. ~ClaimNext(w)
    BY <1>1, <1>2 DEF ClaimNext
  <2>3. Fail(w) => FALSE
    BY <1>1, <1>2 DEF Fail, Record
  <2>4. Succeed(w) => task[w].job = j /\ Reporting(w) /\ OwnsAttempt(w, j)
    BY <1>1 DEF Succeed, Record, Fenced, Reporting
  <2> QED BY <1>4, <2>1, <2>2, <2>3, <2>4 DEF Loop, docVars
<1>5. ASSUME NEW w \in Workers,
             Return(w) \/ Raise(w) \/ Cancel(w) \/ Environment(w)
      PROVE  FALSE
  <2>1. jobs' = jobs \/ Heartbeat(w)
    BY <1>5 DEF Return, Raise, Cancel, Environment, Die, DropConnection, Finish,
                Abandon, Crash, LoseHeartbeat, Restart, jobVars
  <2>2. ~Heartbeat(w)
    BY <1>1 DEF Heartbeat, Row
  <2> QED BY <1>1, <2>1, <2>2
<1>6. ~Request
  <2>1. ASSUME NEW d, NEW t, NEW r, CreateJob(d, t, r)
        PROVE  jobs'[j] = jobs[j]
    BY <2>1 DEF CreateJob
  <2>2. ASSUME NEW d \in Docs, NEW c \in ContentsOf[d], Upload(d, c) \/ Upsert(d, c)
        PROVE  FALSE
    BY <1>1, <2>1, <2>2 DEF Upload, Upsert
  <2>3. ASSUME NEW d \in Docs, Delete(d)
        PROVE  FALSE
    BY <1>1, <2>1, <2>3 DEF Delete
  <2>4. ASSUME NEW d \in Docs, ReadDocument(d) \/ EndRequest(d)
        PROVE  FALSE
    BY <1>1, <2>4 DEF ReadDocument, EndRequest, jobVars
  <2> QED BY <2>2, <2>3, <2>4 DEF Request
<1>7. ~Tick /\ ~UNCHANGED vars
  BY <1>1, <1>2 DEF Tick, vars
<1> QED BY <1>3, <1>4, <1>5, <1>6, <1>7 DEF WorkflowNext

\* How a document may move on its way.
LEMMA StatusMoves ==
  ASSUME WInv, [WorkflowNext]_vars, NEW d \in Docs
  PROVE  \/ docs'[d] = docs[d]
         \/ /\ docs[d].status \in BeforeActive /\ docs'[d].status \in BeforeActive
            /\ docs'[d].active = docs[d].active /\ docs'[d].revs = docs[d].revs
         \/ /\ docs[d].status \in {"INDEXING", "UPDATING"}
            /\ docs'[d].status = "READY"
         \/ docs[d].status = "DELETING" /\ docs'[d].status = "DELETED"
         \/ /\ docs[d] = Absent \/ docs[d].status = "READY"
            /\ RequestChanges(d)
<1>1. /\ TypeOK /\ TaskFollowsRow /\ ProcTyped /\ DocsTyped /\ DocsInv
      /\ ReadyingIsFirst
  BY DEF WInv, IndInv, Executions, DocsInv
<1>2. ASSUME NEW w \in Workers, WorkerChanges(w), docs'[d] # docs[d]
      PROVE  \/ /\ docs[d].status \in BeforeActive /\ docs'[d].status \in BeforeActive
                /\ docs'[d].active = docs[d].active /\ docs'[d].revs = docs[d].revs
             \/ /\ docs[d].status \in {"INDEXING", "UPDATING"}
                /\ docs'[d].status = "READY"
             \/ docs[d].status = "DELETING" /\ docs'[d].status = "DELETED"
  <2>1. DocOf(w) \in Docs
    BY <1>1, <1>2, JobOfTyped DEF WorkerChanges
  <2>2. DocOf(w) = d
    BY <1>1, <1>2, <2>1, DocWritten DEF WorkerChanges
  <2>3. proc[w].step = "readying" => docs[d].status = "INDEXING"
    BY <1>1, <1>2, <2>2 DEF WorkerChanges, ReadyingIsFirst
  <2> QED BY <1>1, <1>2, <2>2, <2>3, DocWritten DEF WorkerChanges
<1>3. ASSUME NEW e \in Docs, RequestChanges(e)
      PROVE  \/ docs'[d] = docs[d]
             \/ /\ docs[d] = Absent \/ docs[d].status = "READY"
                /\ RequestChanges(d)
  BY <1>1, <1>3, RequestShape
<1> QED BY <1>1, <1>2, <1>3, DocsStep DEF DocsStay

\* Every step keeps SuccessHadEffect.
LEMMA SuccessHadEffectStep ==
  ASSUME WInv, StepsFitJobs, ReportsEffect, SuccessHadEffect, [WorkflowNext]_vars
  PROVE  SuccessHadEffect'
<1> SUFFICES ASSUME NEW j \in DOMAIN jobs', jobs'[j].status = "SUCCEEDED"
             PROVE  IF jobs'[j].type = "INDEX_DOCUMENT"
                    THEN docs'[jobs'[j].doc].active >= jobs'[j].rev
                    ELSE docs'[jobs'[j].doc].status = "DELETED"
  BY DEF SuccessHadEffect
<1>1. /\ TypeOK /\ TaskFollowsRow /\ DocsTyped /\ [Next]_jobVars
  BY NextWInv DEF WInv, IndInv
<1>2. j \in DOMAIN jobs
  <2>1. ASSUME NEW i \in JobIds, RowAdded(i)
        PROVE  j \in DOMAIN jobs
    BY <2>1 DEF RowAdded, NewRow
  <2> QED BY <1>1, <2>1, RowsOnlyStep DEF RowsStep, jobVars
<1> DEFINE d == jobs[j].doc
<1>3. /\ jobs'[j].doc = d /\ jobs'[j].type = jobs[j].type
      /\ jobs'[j].rev = jobs[j].rev /\ jobs[j].rev \in Nat /\ d \in Docs
  BY <1>1, <1>2, RowsKept, Numbers DEF RowKept
<1>4. /\ docs[d].active \in Nat /\ docs'[d].active \in Nat
      /\ docs'[d].active >= docs[d].active
  <2>1. docs'[d].active \in Revisions \cup {0}
    BY <1>3, NextWInv DEF WInv, DocsTyped
  <2>2. Revisions \cup {0} \subseteq Nat
    BY JobQueueAssumption DEF JobQueueAssumption
  <2> QED BY <1>1, <1>3, <2>1, <2>2, Numbers, RevisionsGrow
<1>5. docs[d].status = "DELETED" => docs'[d].status = "DELETED"
  BY <1>3, StatusMoves DEF BeforeActive, Absent
<1>6. CASE jobs[j].status = "SUCCEEDED"
  BY <1>2, <1>3, <1>4, <1>5, <1>6 DEF SuccessHadEffect
<1>7. CASE jobs[j].status # "SUCCEEDED"
  <2>1. PICK w \in Workers :
          /\ task[w].job = j
          /\ \/ CompleteReplacement(w) \/ CompleteDeletion(w)
             \/ Reporting(w) /\ OwnsAttempt(w, j) /\ docs' = docs
    BY <1>1, <1>2, <1>7, SuccessComes
  <2>2. JobOf(w) = jobs[j] /\ DocOf(w) = d
    BY <2>1 DEF JobOf, DocOf
  <2>3. CASE CompleteReplacement(w)
    <3>1. /\ SetReady(d, jobs[j].rev)
          /\ pc[w] = "working" /\ proc[w].step = "inserted"
      BY <2>2, <2>3 DEF CompleteReplacement, AtLinked, At
    <3>2. jobs[j].type = "INDEX_DOCUMENT"
      BY <2>2, <3>1 DEF StepsFitJobs, IndexSteps
    <3>3. docs'[d].active = jobs[j].rev
      BY <1>1, <1>3, <3>1, DocWritten
    <3> QED BY <1>3, <3>2, <3>3
  <2>4. CASE CompleteDeletion(w)
    <3>1. /\ SetDoc(d, "DELETED")
          /\ pc[w] = "working" /\ proc[w].step = "removed"
      BY <2>2, <2>4 DEF CompleteDeletion, AtLinked, At
    <3>2. jobs[j].type = "DELETE_DOCUMENT"
      BY <2>2, <3>1 DEF StepsFitJobs, DeleteSteps
    <3>3. docs'[d].status = "DELETED"
      BY <1>1, <1>3, <3>1, DocWritten
    <3> QED BY <1>3, <3>2, <3>3
  <2>5. CASE Reporting(w) /\ OwnsAttempt(w, j) /\ docs' = docs
    BY <1>3, <1>4, <2>1, <2>2, <2>5 DEF ReportsEffect
  <2> QED BY <2>1, <2>3, <2>4, <2>5
<1> QED BY <1>6, <1>7

\* A request that changes a document adds the job that takes it on.
LEMMA RequestAddsJob ==
  ASSUME DocsTyped, DocsInv, NEW d \in Docs, RequestChanges(d)
  PROVE  \E j \in DOMAIN jobs' :
           /\ jobs'[j].doc = d /\ jobs'[j].status = "PENDING"
           /\ \/ /\ docs'[d].status \in {"UPLOADED", "UPDATING"}
                 /\ jobs'[j].type = "INDEX_DOCUMENT"
                 /\ jobs'[j].rev = Len(docs'[d].revs)
                 /\ jobs'[j].rev > docs'[d].active
              \/ /\ docs'[d].status = "DELETING"
                 /\ jobs'[j].type = "DELETE_DOCUMENT"
<1> USE DEF DocsTyped
<1>1. ASSUME NEW t, NEW r, CreateJob(d, t, r)
      PROVE  \E j \in DOMAIN jobs' : /\ jobs'[j].doc = d /\ jobs'[j].type = t
                                     /\ jobs'[j].rev = r
                                     /\ jobs'[j].status = "PENDING"
  BY <1>1 DEF CreateJob, NewRow
<1>2. ASSUME NEW c \in ContentsOf[d], Upload(d, c)
      PROVE  /\ docs'[d].status = "UPLOADED" /\ docs'[d].active = 0
             /\ Len(docs'[d].revs) = 1 /\ CreateJob(d, "INDEX_DOCUMENT", 1)
  BY <1>2 DEF Upload
<1>3. ASSUME NEW c \in ContentsOf[d], Upsert(d, c)
      PROVE  /\ docs'[d].status = "UPDATING"
             /\ Len(docs'[d].revs) > docs'[d].active
             /\ CreateJob(d, "INDEX_DOCUMENT", Len(docs'[d].revs))
  <2>1. c \in Contents
    BY WorkflowAssumption DEF WorkflowAssumption
  <2>2. docs'[d] = [docs[d] EXCEPT !.status = "UPDATING", !.revs = Append(@, c)]
    BY <1>3 DEF Upsert
  <2>3. docs'[d].revs = Append(docs[d].revs, c) /\ docs[d].revs \in Seq(Contents)
    BY <2>2
  <2>4. Len(docs'[d].revs) = Len(docs[d].revs) + 1
    BY <2>1, <2>3
  <2>5. /\ docs'[d].active = docs[d].active
        /\ docs[d].active <= Len(docs[d].revs)
    BY <2>2 DEF DocsInv, RevisionsThere
  <2>6. docs[d].active \in Nat /\ Len(docs[d].revs) \in Nat
    <3>1. Revisions \cup {0} \subseteq Nat
      BY JobQueueAssumption DEF JobQueueAssumption
    <3> QED BY <2>3, <3>1
  <2> QED BY <1>3, <2>2, <2>4, <2>5, <2>6 DEF Upsert
<1>4. ASSUME Delete(d)
      PROVE  /\ docs'[d].status = "DELETING"
             /\ CreateJob(d, "DELETE_DOCUMENT", seen[d].active)
  BY <1>4, DocWritten DEF Delete
<1>5. CASE \E c \in ContentsOf[d] : Upload(d, c)
  <2>1. PICK c \in ContentsOf[d] : Upload(d, c)
    BY <1>5
  <2>2. /\ docs'[d].status = "UPLOADED" /\ docs'[d].active = 0
        /\ Len(docs'[d].revs) = 1 /\ CreateJob(d, "INDEX_DOCUMENT", 1)
    BY <1>2, <2>1
  <2>3. PICK j \in DOMAIN jobs' : /\ jobs'[j].doc = d
                                 /\ jobs'[j].type = "INDEX_DOCUMENT"
                                 /\ jobs'[j].rev = 1
                                 /\ jobs'[j].status = "PENDING"
    BY <1>1, <2>2
  <2> QED BY <2>2, <2>3
<1>6. CASE \E c \in ContentsOf[d] : Upsert(d, c)
  <2>1. PICK c \in ContentsOf[d] : Upsert(d, c)
    BY <1>6
  <2> DEFINE r == Len(docs'[d].revs)
  <2>2. /\ docs'[d].status = "UPDATING" /\ r > docs'[d].active
        /\ CreateJob(d, "INDEX_DOCUMENT", r)
    BY <1>3, <2>1
  <2> HIDE DEF r
  <2>3. PICK j \in DOMAIN jobs' : /\ jobs'[j].doc = d
                                 /\ jobs'[j].type = "INDEX_DOCUMENT"
                                 /\ jobs'[j].rev = r
                                 /\ jobs'[j].status = "PENDING"
    BY <1>1, <2>2
  <2> QED BY <2>2, <2>3 DEF r
<1>7. CASE Delete(d)
  BY <1>1, <1>4, <1>7
<1> QED BY <1>5, <1>6, <1>7 DEF RequestChanges

\* Every step keeps PendingChangeHasJob.
LEMMA PendingChangeHasJobStep ==
  ASSUME WInv, PendingChangeHasJob, SuccessHadEffect', [WorkflowNext]_vars
  PROVE  PendingChangeHasJob'
<1>1. /\ TypeOK /\ DocsTyped /\ DocsInv /\ [Next]_jobVars
  BY NextWInv DEF WInv, IndInv
<1>2. \A j \in DOMAIN jobs : RowKept(j)
  BY <1>1, RowsKept
<1>3. ASSUME NEW d \in Docs,
             docs'[d].status \in {"UPLOADED", "INDEXING", "FAILED", "UPDATING"}
      PROVE  \E j \in DOMAIN jobs' :
               /\ jobs'[j].doc = d
               /\ jobs'[j].type = "INDEX_DOCUMENT"
               /\ jobs'[j].rev = Len(docs'[d].revs)
               /\ jobs'[j].rev > docs'[d].active
               /\ jobs'[j].status # "SUCCEEDED"
  <2>1. CASE /\ docs[d].status \in {"UPLOADED", "INDEXING", "FAILED", "UPDATING"}
             /\ docs'[d].active = docs[d].active /\ docs'[d].revs = docs[d].revs
    <3>1. PICK j \in DOMAIN jobs : /\ jobs[j].doc = d
                                   /\ jobs[j].type = "INDEX_DOCUMENT"
                                   /\ jobs[j].rev = Len(docs[d].revs)
                                   /\ jobs[j].rev > docs[d].active
      BY <2>1 DEF PendingChangeHasJob, JobsOf
    <3>2. /\ j \in DOMAIN jobs' /\ jobs'[j].doc = d
          /\ jobs'[j].type = "INDEX_DOCUMENT" /\ jobs'[j].rev = jobs[j].rev
      BY <1>2, <3>1 DEF RowKept
    <3>3. jobs[j].rev \in Nat /\ docs[d].active \in Nat
      BY <1>1, Numbers
    <3>4. jobs'[j].status # "SUCCEEDED"
      BY <2>1, <3>1, <3>2, <3>3 DEF SuccessHadEffect
    <3> QED BY <2>1, <3>1, <3>2, <3>4
  <2>2. CASE RequestChanges(d)
    BY <1>1, <1>3, <2>2, RequestAddsJob
  <2> QED BY <1>3, <2>1, <2>2, StatusMoves DEF BeforeActive
<1>4. ASSUME NEW d \in Docs, docs'[d].status = "DELETING"
      PROVE  \E j \in DOMAIN jobs' :
               /\ jobs'[j].doc = d
               /\ jobs'[j].type = "DELETE_DOCUMENT"
               /\ jobs'[j].status # "SUCCEEDED"
  <2>1. CASE docs[d].status = "DELETING"
    <3>1. PICK j \in DOMAIN jobs : jobs[j].doc = d /\ jobs[j].type = "DELETE_DOCUMENT"
      BY <2>1 DEF PendingChangeHasJob, JobsOf
    <3>2. /\ j \in DOMAIN jobs' /\ jobs'[j].doc = d
          /\ jobs'[j].type = "DELETE_DOCUMENT"
      BY <1>2, <3>1 DEF RowKept
    <3> QED BY <1>4, <3>2 DEF SuccessHadEffect
  <2>2. CASE RequestChanges(d)
    BY <1>1, <1>4, <2>2, RequestAddsJob
  <2> QED BY <1>4, <2>1, <2>2, StatusMoves DEF BeforeActive
<1> QED BY <1>3, <1>4 DEF PendingChangeHasJob, JobsOf

\* The two properties of this part are invariant together with what they need.
LEMMA EffectsHold ==
  WorkflowSpec => [](/\ WInv /\ StepsFitJobs /\ ReportsEffect
                    /\ SuccessHadEffect /\ PendingChangeHasJob)
<1> DEFINE EInv == /\ WInv /\ StepsFitJobs /\ ReportsEffect
                   /\ SuccessHadEffect /\ PendingChangeHasJob
<1>1. WorkflowInit => EInv
  <2> SUFFICES ASSUME WorkflowInit
               PROVE  EInv
    OBVIOUS
  <2>1. WInv
    BY InitWInv
  <2>2. DOMAIN jobs = {} /\ \A w \in Workers : pc[w] = "idle"
    BY DEF WorkflowInit, Init
  <2>3. StepsFitJobs /\ ReportsEffect /\ SuccessHadEffect
    BY <2>2 DEF StepsFitJobs, ReportsEffect, Reporting, SuccessHadEffect
  <2>4. PendingChangeHasJob
    BY DEF PendingChangeHasJob, WorkflowInit, Absent
  <2> QED BY <2>1, <2>3, <2>4
<1>2. EInv /\ [WorkflowNext]_vars => EInv'
  BY NextWInv, StepsFitJobsStep, ReportsEffectStep, SuccessHadEffectStep,
     PendingChangeHasJobStep
<1> QED BY <1>1, <1>2, PTL DEF WorkflowSpec

\* A job is SUCCEEDED only when its document has the revision it was for, or
\* is deleted: reports that come late, twice or from an attempt that was
\* taken away included.
THEOREM SuccessIsReal == WorkflowSpec => []SuccessHadEffect
BY EffectsHold, PTL

\* A document on its way always has a job that takes it on, or that job has
\* used up its attempts.
THEOREM NoChangeForgotten == WorkflowSpec => []PendingChangeHasJob
BY EffectsHold, PTL

-----------------------------------------------------------------------------
(***************************************************************************)
(* DocumentWorkflow implements DocumentLifecycle: the revisions up to the  *)
(* active one are the history of the document, and there is at most one    *)
(* beyond.  A step changes one document, and moves it on in one way.       *)
(***************************************************************************)

\* Which of its revisions is the active one, by the status of a document.
ActiveByStatus ==
    \A d \in Docs :
      /\ docs[d].status \in {"READY", "DELETING", "DELETED"}
         => docs[d].active >= 1 /\ docs[d].active = Len(docs[d].revs)
      /\ docs[d].status = "UPDATING"
         => docs[d].active >= 1 /\ docs[d].active + 1 = Len(docs[d].revs)

\* The active revision is the newest but while a newer one is on its way.
LEMMA ActiveByStatusStep ==
  ASSUME WInv, ActiveByStatus, [WorkflowNext]_vars
  PROVE  ActiveByStatus'
<1> SUFFICES ASSUME NEW d \in Docs
             PROVE  /\ docs'[d].status \in {"READY", "DELETING", "DELETED"}
                       => /\ docs'[d].active >= 1
                          /\ docs'[d].active = Len(docs'[d].revs)
                    /\ docs'[d].status = "UPDATING"
                       => /\ docs'[d].active >= 1
                          /\ docs'[d].active + 1 = Len(docs'[d].revs)
  BY DEF ActiveByStatus
<1>1. /\ TypeOK /\ TaskFollowsRow /\ ProcTyped /\ DocsTyped /\ DocsInv
      /\ RevisionsThere /\ FirstRevision /\ UpdateIsNewest /\ ReadyingIsFirst
  BY DEF WInv, IndInv, Executions, DocsInv
<1>2. CASE docs'[d] = docs[d]
  BY <1>2 DEF ActiveByStatus
<1>3. ASSUME NEW w \in Workers, WorkerChanges(w), DocOf(w) = d
      PROVE  /\ docs'[d].revs = docs[d].revs
             /\ \/ docs'[d].status \in BeforeActive
                \/ /\ docs'[d].status = "READY"
                   /\ docs'[d].active = Len(docs[d].revs)
                   /\ docs'[d].active >= 1
                \/ /\ docs[d].status = "DELETING" /\ docs'[d].status = "DELETED"
                   /\ docs'[d].active = docs[d].active
  <2> DEFINE r == JobOf(w).rev
  <2>1. /\ task[w].job \in DOMAIN jobs
        /\ JobOf(w) = jobs[task[w].job] /\ d = jobs[task[w].job].doc
    BY <1>1, <1>3, JobOfTyped DEF WorkerChanges, JobOf, DocOf
  <2>2. r \in Nat /\ r >= 1 /\ r <= Len(docs[d].revs)
    BY <1>1, <2>1, Numbers DEF RevisionsThere
  <2>3. CASE proc[w].step = "readying" /\ SetReady(d, r)
    <3>1. docs[d].status = "INDEXING"
      BY <1>1, <1>3, <2>3 DEF ReadyingIsFirst, WorkerChanges
    <3>2. Len(docs[d].revs) = 1
      BY <1>1, <3>1 DEF FirstRevision, BeforeActive
    <3> QED BY <1>1, <2>2, <2>3, <3>2, DocWritten
  <2>4. CASE /\ docs[d].status = "UPDATING"
             /\ JobOf(w).status \in ActiveStatuses
             /\ SetReady(d, r)
    <3>1. r = Len(docs[d].revs)
      BY <1>1, <2>1, <2>4 DEF UpdateIsNewest
    <3> QED BY <1>1, <2>2, <2>4, <3>1, DocWritten
  <2>5. CASE \E s \in BeforeActive : SetDoc(d, s)
    BY <1>1, <2>5, DocWritten
  <2>6. CASE docs[d].status = "DELETING" /\ SetDoc(d, "DELETED")
    BY <1>1, <2>6, DocWritten
  <2> QED BY <1>3, <2>3, <2>4, <2>5, <2>6 DEF WorkerChanges
<1>4. ASSUME NEW w \in Workers, WorkerChanges(w), DocOf(w) # d
      PROVE  docs'[d] = docs[d]
  <2>1. DocOf(w) \in Docs
    BY <1>1, <1>4, JobOfTyped DEF WorkerChanges
  <2> QED BY <1>1, <1>4, <2>1, DocWritten DEF WorkerChanges
<1>5. ASSUME NEW w \in Workers, WorkerChanges(w), DocOf(w) = d
      PROVE  /\ docs'[d].status \in {"READY", "DELETING", "DELETED"}
                => /\ docs'[d].active >= 1
                   /\ docs'[d].active = Len(docs'[d].revs)
             /\ docs'[d].status # "UPDATING"
  BY <1>3, <1>5 DEF BeforeActive, ActiveByStatus
<1>6. ASSUME NEW e \in Docs, RequestChanges(e), e # d
      PROVE  docs'[d] = docs[d]
  BY <1>1, <1>6, RequestShape
<1>7. ASSUME RequestChanges(d)
      PROVE  \/ docs'[d].status = "UPLOADED"
             \/ /\ docs[d].status = "READY" /\ docs'[d].status = "UPDATING"
                /\ docs'[d].active = docs[d].active
                /\ Len(docs'[d].revs) = Len(docs[d].revs) + 1
             \/ /\ docs[d].status = "READY" /\ docs'[d].status = "DELETING"
                /\ docs'[d].active = docs[d].active
                /\ docs'[d].revs = docs[d].revs
  <2>1. CASE \E c \in ContentsOf[d] : Upload(d, c)
    BY <1>1, <2>1 DEF Upload, DocsTyped
  <2>2. CASE \E c \in ContentsOf[d] : Upsert(d, c)
    <3>1. PICK c \in ContentsOf[d] : Upsert(d, c)
      BY <2>2
    <3>2. /\ c \in Contents /\ docs[d].revs \in Seq(Contents)
          /\ docs'[d] = [docs[d] EXCEPT !.status = "UPDATING", !.revs = Append(@, c)]
          /\ docs[d].status = "READY"
      BY <1>1, <3>1, WorkflowAssumption DEF WorkflowAssumption, Upsert, DocsTyped
    <3>3. docs'[d].revs = Append(docs[d].revs, c)
      BY <1>1, <3>2 DEF DocsTyped
    <3>4. Len(docs'[d].revs) = Len(docs[d].revs) + 1
      BY <3>2, <3>3
    <3> QED BY <1>1, <3>2, <3>4 DEF DocsTyped
  <2>3. CASE Delete(d)
    BY <1>1, <2>3, DocWritten DEF Delete
  <2> QED BY <1>7, <2>1, <2>2, <2>3 DEF RequestChanges
<1>8. CASE RequestChanges(d)
  BY <1>7, <1>8 DEF ActiveByStatus
<1> QED
  BY <1>1, <1>2, <1>4, <1>5, <1>6, <1>8, DocsStep DEF DocsStay

\* No step changes two documents.
LEMMA OneDocumentChanges ==
  ASSUME WInv, [WorkflowNext]_vars, NEW d \in Docs, docs'[d] # docs[d],
         NEW e \in Docs, e # d
  PROVE  docs'[e] = docs[e]
<1>1. TypeOK /\ TaskFollowsRow /\ ProcTyped /\ DocsTyped /\ DocsInv
  BY DEF WInv, IndInv, Executions
<1>2. ASSUME NEW w \in Workers, WorkerChanges(w)
      PROVE  docs'[e] = docs[e]
  <2>1. DocOf(w) \in Docs
    BY <1>1, <1>2, JobOfTyped DEF WorkerChanges
  <2> QED BY <1>1, <1>2, <2>1, DocWritten DEF WorkerChanges
<1>3. ASSUME NEW b \in Docs, RequestChanges(b)
      PROVE  docs'[e] = docs[e]
  BY <1>1, <1>3, RequestShape
<1> QED BY <1>1, <1>2, <1>3, DocsStep DEF DocsStay

\* Only a request adds a revision.
LEMMA RevisionsByRequest ==
  ASSUME WInv, [WorkflowNext]_vars, NEW d \in Docs, ~RequestChanges(d)
  PROVE  docs'[d].revs = docs[d].revs
<1>1. TypeOK /\ TaskFollowsRow /\ ProcTyped /\ DocsTyped /\ DocsInv
  BY DEF WInv, IndInv, Executions
<1>2. ASSUME NEW w \in Workers, WorkerChanges(w)
      PROVE  docs'[d].revs = docs[d].revs
  <2>1. DocOf(w) \in Docs
    BY <1>1, <1>2, JobOfTyped DEF WorkerChanges
  <2> QED BY <1>1, <1>2, <2>1, DocWritten DEF WorkerChanges
<1>3. ASSUME NEW e \in Docs, RequestChanges(e)
      PROVE  docs'[d].revs = docs[d].revs
  BY <1>1, <1>3, RequestShape
<1> QED BY <1>1, <1>2, <1>3, DocsStep DEF DocsStay

\* How a document moves.
LEMMA DocumentMoves ==
  ASSUME WInv, ActiveByStatus, [WorkflowNext]_vars,
         NEW d \in Docs, docs'[d] # docs[d]
  PROVE  LET p == docs[d]
             q == docs'[d]
         IN  \/ /\ p.status \in BeforeActive /\ q.status \in BeforeActive
                /\ q.revs = p.revs /\ q.active = p.active
             \/ /\ p.status \in {"INDEXING", "UPDATING"} /\ q.status = "READY"
                /\ q.revs = p.revs
                /\ p.active + 1 = Len(p.revs) /\ q.active = Len(p.revs)
             \/ /\ p.status = "DELETING" /\ q.status = "DELETED"
                /\ q.revs = p.revs /\ q.active = p.active
             \/ /\ p.status = "READY" /\ q.status = "DELETING"
                /\ q.revs = p.revs /\ q.active = p.active
                /\ p.active = Len(p.revs) /\ p.active >= 1
             \/ /\ p.status \in {"ABSENT", "READY"}
                /\ q.status \in {"UPLOADED", "UPDATING"}
                /\ p.active = Len(p.revs) /\ q.active = p.active
                /\ \E c \in ContentsOf[d] : q.revs = Append(p.revs, c)
<1>1. /\ DocsTyped /\ DocsInv /\ FirstRevision /\ AbsentIsEmpty
      /\ ActiveByStatus'
  BY ActiveByStatusStep DEF WInv, DocsInv
<1>2. /\ docs[d].active \in Nat /\ Len(docs[d].revs) \in Nat
      /\ docs[d].revs \in Seq(Contents)
  BY <1>1, Numbers DEF WInv, IndInv, DocsTyped
<1>3. CASE ~RequestChanges(d)
  <2>1. docs'[d].revs = docs[d].revs
    BY <1>3, RevisionsByRequest
  <2>2. docs'[d].status \in {"READY", "DELETED"}
        => docs'[d].active = Len(docs'[d].revs)
    BY <1>1 DEF ActiveByStatus
  <2>3. /\ docs[d].status = "INDEXING" => docs[d].active + 1 = Len(docs[d].revs)
        /\ docs[d].status = "UPDATING" => docs[d].active + 1 = Len(docs[d].revs)
        /\ docs[d].status = "DELETING" => docs[d].active = Len(docs[d].revs)
    <3>1. docs[d].status = "INDEXING"
          => docs[d].active = 0 /\ Len(docs[d].revs) = 1
      BY <1>1 DEF FirstRevision, BeforeActive
    <3>2. /\ docs[d].status = "UPDATING" => docs[d].active + 1 = Len(docs[d].revs)
          /\ docs[d].status = "DELETING" => docs[d].active = Len(docs[d].revs)
      BY DEF ActiveByStatus
    <3>3. docs[d].status = "INDEXING" => docs[d].active + 1 = Len(docs[d].revs)
      <4>1. CASE docs[d].status = "INDEXING"
        <5>1. docs[d].active = 0 /\ Len(docs[d].revs) = 1
          BY <3>1, <4>1
        <5> QED BY <5>1
      <4> QED BY <4>1
    <3> QED BY <3>2, <3>3
  <2> QED BY <1>3, <2>1, <2>2, <2>3, StatusMoves
<1>4. ASSUME NEW c \in ContentsOf[d], Upload(d, c)
      PROVE  /\ docs[d] = Absent
             /\ docs'[d] = [status |-> "UPLOADED", active |-> 0, revs |-> <<c>>]
  BY <1>1, <1>4 DEF Upload, AbsentIsEmpty, DocsTyped
<1>5. CASE \E c \in ContentsOf[d] : Upload(d, c)
  <2>1. PICK c \in ContentsOf[d] : Upload(d, c)
    BY <1>5
  <2>2. <<c>> = Append(<< >>, c)
    OBVIOUS
  <2>3. /\ docs'[d].revs = <<c>> /\ docs[d].revs = << >>
        /\ docs[d].status = "ABSENT" /\ docs'[d].status = "UPLOADED"
        /\ docs[d].active = 0 /\ docs'[d].active = 0
    <3>1. /\ docs[d] = Absent
          /\ docs'[d] = [status |-> "UPLOADED", active |-> 0, revs |-> <<c>>]
      BY <1>4, <2>1
    <3> QED BY <3>1 DEF Absent
  <2>4. Len(docs[d].revs) = 0
    BY <2>3
  <2> QED BY <2>2, <2>3, <2>4
<1>6. CASE \E c \in ContentsOf[d] : Upsert(d, c)
  <2>1. PICK c \in ContentsOf[d] : Upsert(d, c)
    BY <1>6
  <2>2. /\ docs[d].status = "READY"
        /\ docs'[d] = [docs[d] EXCEPT !.status = "UPDATING", !.revs = Append(@, c)]
    BY <1>1, <2>1 DEF Upsert, DocsTyped
  <2>3. /\ docs'[d].revs = Append(docs[d].revs, c)
        /\ docs'[d].status = "UPDATING" /\ docs'[d].active = docs[d].active
    BY <1>1, <2>2 DEF DocsTyped
  <2>4. docs[d].active = Len(docs[d].revs)
    BY <2>2 DEF ActiveByStatus
  <2> QED BY <2>2, <2>3, <2>4
<1>7. CASE Delete(d)
  <2>1. /\ docs[d].status = "READY" /\ docs'[d].status = "DELETING"
        /\ docs'[d].active = docs[d].active /\ docs'[d].revs = docs[d].revs
    BY <1>1, <1>7, DocWritten DEF Delete
  <2> QED BY <2>1 DEF ActiveByStatus
<1> QED BY <1>3, <1>5, <1>6, <1>7 DEF RequestChanges

\* Every step of the workflow is one of the lifecycle, or changes nothing of
\* what the lifecycle is about.
LEMMA DocumentStep ==
  ASSUME WInv, ActiveByStatus, [WorkflowNext]_vars
  PROVE  [Documents!Next]_<<History, Coming, Phase>>
<1> DEFINE HistoryOf(q) == SubSeq(q.revs, 1, q.active)
           ComingOf(q) == SubSeq(q.revs, q.active + 1, Len(q.revs))
           PhaseOf(q) == IF q.status \in {"DELETING", "DELETED"}
                         THEN q.status ELSE "PRESENT"
<1>1. CASE \A d \in Docs : docs'[d] = docs[d]
  BY <1>1 DEF History, Coming, Phase
<1>2. ASSUME NEW d \in Docs, docs'[d] # docs[d]
      PROVE  [Documents!Next]_<<History, Coming, Phase>>
  <2> DEFINE p == docs[d]
             q == docs'[d]
  <2>1. \A e \in Docs \ {d} : docs'[e] = docs[e]
    BY <1>2, OneDocumentChanges
  <2>2. p.revs \in Seq(Contents) /\ p.active \in Nat /\ Len(p.revs) \in Nat
    BY Numbers DEF WInv, IndInv, DocsTyped
  <2>3. /\ History[d] = HistoryOf(p) /\ Coming[d] = ComingOf(p)
        /\ Phase[d] = PhaseOf(p)
    BY DEF History, Coming, Phase
  <2>4. /\ HistoryOf(q) = HistoryOf(p) => History' = History
        /\ ComingOf(q) = ComingOf(p) => Coming' = Coming
        /\ PhaseOf(q) = PhaseOf(p) => Phase' = Phase
    BY <2>1 DEF History, Coming, Phase
  <2>5. /\ History' = [History EXCEPT ![d] = HistoryOf(q)]
        /\ Coming' = [Coming EXCEPT ![d] = ComingOf(q)]
        /\ Phase' = [Phase EXCEPT ![d] = PhaseOf(q)]
    BY <2>1 DEF History, Coming, Phase
  <2>6. CASE /\ p.status \in BeforeActive /\ q.status \in BeforeActive
             /\ q.revs = p.revs /\ q.active = p.active
    BY <2>4, <2>6 DEF BeforeActive
  <2>7. CASE /\ p.status \in {"INDEXING", "UPDATING"} /\ q.status = "READY"
             /\ q.revs = p.revs
             /\ p.active + 1 = Len(p.revs) /\ q.active = Len(p.revs)
    <3>1. /\ HistoryOf(q) = HistoryOf(p) \o ComingOf(p)
          /\ ComingOf(q) = << >> /\ ComingOf(p) # << >>
          /\ PhaseOf(p) = "PRESENT" /\ PhaseOf(q) = "PRESENT"
      BY <2>2, <2>7, Divided, ZenonT(60)
    <3>2. Documents!Activate(d)
      BY <2>3, <2>4, <2>5, <3>1 DEF Documents!Activate
    <3> QED BY <3>2 DEF Documents!Next, Documents!Moves
  <2>8. CASE /\ p.status = "DELETING" /\ q.status = "DELETED"
             /\ q.revs = p.revs /\ q.active = p.active
    <3>1. Documents!Remove(d)
      BY <2>3, <2>4, <2>5, <2>8 DEF Documents!Remove
    <3> QED BY <3>1 DEF Documents!Next, Documents!Moves
  <2>9. CASE /\ p.status = "READY" /\ q.status = "DELETING"
             /\ q.revs = p.revs /\ q.active = p.active
             /\ p.active = Len(p.revs) /\ p.active >= 1
    <3>1. HistoryOf(p) = p.revs /\ ComingOf(p) = << >> /\ p.revs # << >>
      BY <2>2, <2>9, Divided
    <3>2. Documents!Withdraw(d)
      BY <2>3, <2>4, <2>5, <2>9, <3>1 DEF Documents!Withdraw
    <3> QED BY <3>2 DEF Documents!Next, Documents!Moves
  <2>10. ASSUME p.status \in {"ABSENT", "READY"},
                q.status \in {"UPLOADED", "UPDATING"},
                p.active = Len(p.revs), q.active = p.active,
                NEW c \in ContentsOf[d], q.revs = Append(p.revs, c)
         PROVE  Documents!Accept(d, c)
    <3>1. c \in Contents
      BY WorkflowAssumption DEF WorkflowAssumption
    <3>2. Len(q.revs) = Len(p.revs) + 1
      BY <2>2, <2>10, <3>1, AppendProperties
    <3>3. /\ SubSeq(p.revs, 1, Len(p.revs)) = p.revs
          /\ SubSeq(p.revs, Len(p.revs) + 1, Len(p.revs)) = << >>
          /\ SubSeq(Append(p.revs, c), 1, Len(p.revs)) = p.revs
          /\ SubSeq(Append(p.revs, c), Len(p.revs) + 1, Len(p.revs) + 1) = <<c>>
      <4>1. PICK r \in Seq(Contents) : r = p.revs
        BY <2>2
      <4>2. /\ SubSeq(r, 1, Len(r)) = r
            /\ SubSeq(r, Len(r) + 1, Len(r)) = << >>
            /\ \A e \in Contents :
                 /\ SubSeq(Append(r, e), 1, Len(r)) = r
                 /\ SubSeq(Append(r, e), Len(r) + 1, Len(r) + 1) = <<e>>
        BY Divided, Zenon
      <4> QED BY <3>1, <4>1, <4>2, Zenon
    <3>4. /\ HistoryOf(q) = HistoryOf(p) /\ ComingOf(q) = <<c>>
          /\ ComingOf(p) = << >>
      BY <2>10, <3>2, <3>3, Zenon
    <3>5. PhaseOf(p) = "PRESENT" /\ PhaseOf(q) = "PRESENT"
      BY <2>10
    <3> QED BY <2>3, <2>4, <2>5, <3>4, <3>5 DEF Documents!Accept
  <2> QED
    BY <1>2, <2>6, <2>7, <2>8, <2>9, <2>10, DocumentMoves
    DEF Documents!Next, Documents!Moves
<1> QED BY <1>1, <1>2

\* The workflow implements the lifecycle of a document: however requests with
\* old reads, executions that outlived their jobs and crashes interleave, the
\* texts of a document become active one by one, in the order in which they
\* were accepted, and what has been active is never rewritten.
THEOREM ImplementsDocumentLifecycle == WorkflowSpec => FollowsDocumentLifecycle
<1>1. ASSUME WorkflowInit
      PROVE  Documents!Init /\ ActiveByStatus
  <2>1. \A d \in Docs : docs[d] = Absent
    BY <1>1 DEF WorkflowInit
  <2>2. /\ SubSeq(<< >>, 1, 0) = << >>
        /\ SubSeq(<< >>, 0 + 1, Len(<< >>)) = << >>
    BY SubSeqEmpty
  <2>3. \A d \in Docs : History[d] = << >> /\ Coming[d] = << >>
    BY <2>1, <2>2 DEF Absent, History, Coming
  <2>4. Documents!Init
    BY <2>1, <2>3 DEF Absent, History, Coming, Phase, Documents!Init
  <2> QED BY <2>1, <2>4 DEF ActiveByStatus, Absent
<1>2. WInv /\ ActiveByStatus /\ [WorkflowNext]_vars => ActiveByStatus'
  BY ActiveByStatusStep
<1>3. WInv /\ ActiveByStatus /\ [WorkflowNext]_vars
      => [Documents!Next]_<<History, Coming, Phase>>
  BY DocumentStep
<1> QED
  BY <1>1, <1>2, <1>3, WInvHolds, PTL
  DEF WorkflowSpec, FollowsDocumentLifecycle, Documents!Spec

-----------------------------------------------------------------------------
(***************************************************************************)
(* The index: the status of a document agrees with what LightRAG holds of  *)
(* it, as long as no connection of an execution is lost.                   *)
(***************************************************************************)

\* Different documents never have the same text: LightRAG would take them for
\* one document.
TextsApart ==
    \A d, e \in Docs : d # e => ContentsOf[d] \cap ContentsOf[e] = {}

\* What LightRAG may hold of a document.
Items(d) == {Text(c) : c \in ContentsOf[d]} \cup {Chunks(d, r) : r \in Nat}

\* Every revision of a document is a text uploaded under it.
RevisionsUploaded == \A d \in Docs : docs[d].revs \in Seq(ContentsOf[d])

\* Places in process from the first decision to the last commit.
Touching == {"indexing", "indexed", "readying", "removing", "inserting",
             "inserted", "deleting", "removed"}

\* What is true of the document and the index at each of these places.
Knows(w) ==
    LET d == DocOf(w)
        old == Entry(d, proc[w].old, proc[w].old)
        new == Entry(d, JobOf(w).rev, JobOf(w).rev)
        first == Entry(d, JobOf(w).rev, 0)
    IN  /\ proc[w].step \in {"indexing", "indexed", "readying"}
           => docs[d].status = "INDEXING" /\ proc[w].old = 0
        /\ proc[w].step \in {"removing", "inserting", "inserted"}
           => docs[d].status = "UPDATING" /\ proc[w].old = docs[d].active
        /\ proc[w].step \in {"deleting", "removed"}
           => docs[d].status = "DELETING" /\ proc[w].old = docs[d].active
        /\ proc[w].step \in {"indexed", "readying"} => first \in index
        /\ proc[w].step = "inserted" => new \in index
        /\ proc[w].step \in {"inserting", "removed"} => old \notin index
        /\ proc[w].step = "inserted" /\ old \in index => old = new

\* What is true of the index by the status of the document, whoever works.
\* Of the revision before the active one only an equal text is left.
Settled(d) ==
    LET active == docs[d].active
        now == Entry(d, active, active)
        before == Entry(d, active - 1, active - 1)
    IN  /\ docs[d].status = "READY" => InsertedAs(d, active) \in index
        /\ /\ docs[d].status \in {"READY", "DELETING"}
           /\ active > 1
           /\ before \in index
           => before = now
        /\ docs[d].status = "DELETED"
           => now \notin index /\ (active > 1 => before \notin index)

\* The invariant of the index.
IndexInv ==
    drops = 0 => /\ \A w \in Workers : Knows(w)
                 /\ \A d \in Docs : Settled(d)

-----------------------------------------------------------------------------
(* Revisions.                                                              *)

\* Revisions are added by uploads alone.
LEMMA RevisionsUploadedStep ==
  ASSUME WInv, RevisionsUploaded, [WorkflowNext]_vars
  PROVE  RevisionsUploaded'
<1> SUFFICES ASSUME NEW d \in Docs
             PROVE  docs'[d].revs \in Seq(ContentsOf[d])
  BY DEF RevisionsUploaded
<1>1. /\ TypeOK /\ TaskFollowsRow /\ ProcTyped /\ DocsTyped /\ DocsInv
      /\ docs[d].revs \in Seq(ContentsOf[d])
  BY DEF WInv, IndInv, Executions, RevisionsUploaded
<1>2. ASSUME NEW w \in Workers, WorkerChanges(w)
      PROVE  docs'[d].revs = docs[d].revs
  <2>1. DocOf(w) \in Docs
    BY <1>1, <1>2, JobOfTyped DEF WorkerChanges
  <2> QED BY <1>1, <1>2, <2>1, DocWritten DEF WorkerChanges
<1>3. ASSUME NEW e \in Docs, RequestChanges(e)
      PROVE  docs'[d].revs \in Seq(ContentsOf[d])
  <2>1. CASE e # d
    BY <1>1, <1>3, <2>1, RequestShape
  <2>2. ASSUME NEW c \in ContentsOf[d], Upload(d, c)
        PROVE  docs'[d].revs = <<c>>
    BY <1>1, <2>2 DEF Upload, DocsTyped
  <2>3. ASSUME NEW c \in ContentsOf[d], Upsert(d, c)
        PROVE  docs'[d].revs = Append(docs[d].revs, c)
    BY <1>1, <2>3 DEF Upsert, DocsTyped
  <2>4. CASE Delete(d)
    BY <1>1, <2>4, DocWritten DEF Delete
  <2>5. ASSUME NEW C, NEW c \in C, NEW q \in Seq(C)
        PROVE  <<c>> \in Seq(C) /\ Append(q, c) \in Seq(C)
    OBVIOUS
  <2> QED BY <1>1, <1>3, <2>1, <2>2, <2>3, <2>4, <2>5 DEF RequestChanges
<1> QED BY <1>1, <1>2, <1>3, DocsStep DEF DocsStay

-----------------------------------------------------------------------------
(* Who changes what.                                                       *)

\* Connections that are lost stay lost.
LEMMA DropsGrow ==
  ASSUME ProcTyped, [WorkflowNext]_vars, drops' = 0
  PROVE  drops = 0
<1>1. drops' = drops \/ drops' = drops + 1
  BY DEF WorkflowNext, Request, ReadDocument, Upload, Upsert, Delete, EndRequest,
         Commit, Process, Connect, AcquireLock, AlreadyReady, ResetRetry,
         StartIndexing, StartReplacing, StartDeleting, RemoveOld, InsertNew,
         UpdateToReady, CommitReady, CompleteReplacement, CompleteDeletion,
         Return, Raise, Cancel, Loop, Environment, Die, DropConnection,
         docVars, vars
<1> QED BY <1>1, WorkflowAssumption DEF WorkflowAssumption, ProcTyped

\* An execution goes on by its own steps only, or is over.
LEMMA PlaceStep ==
  ASSUME WInv, [WorkflowNext]_vars, drops' = 0, NEW v \in Workers
  PROVE  Process(v) \/ proc'[v] = Out \/ proc'[v] = proc[v]
<1> USE DEF WInv, Executions, ProcTyped
<1>1. ASSUME NEW w \in Workers, w # v, Process(w)
      PROVE  proc'[v] = proc[v]
  BY <1>1
  DEF Process, Connect, AcquireLock, AlreadyReady, ResetRetry, StartIndexing,
      StartReplacing, StartDeleting, RemoveOld, InsertNew, UpdateToReady,
      CommitReady, CompleteReplacement, CompleteDeletion, GoTo
<1>2. ASSUME NEW w \in Workers, Return(w) \/ Raise(w) \/ Cancel(w) \/ Die(w)
      PROVE  proc'[v] = Out \/ proc'[v] = proc[v]
  BY <1>2 DEF Return, Raise, Cancel, Die, Leave
<1>3. ASSUME NEW w \in Workers, DropConnection(w)
      PROVE  FALSE
  BY <1>3, WorkflowAssumption DEF WorkflowAssumption, DropConnection
<1>4. ASSUME NEW w \in Workers, Loop(w) \/ Environment(w)
      PROVE  proc'[v] = Out \/ proc'[v] = proc[v]
  BY <1>2, <1>3, <1>4 DEF Loop, Environment, docVars
<1>5. Request \/ (Tick /\ UNCHANGED docVars) \/ UNCHANGED vars => proc' = proc
  BY DEF Request, ReadDocument, Upload, Upsert, Delete, EndRequest, Commit,
         docVars, vars
<1> QED BY <1>1, <1>2, <1>4, <1>5 DEF WorkflowNext

\* An execution that fails or is cancelled, and all that this changes.
Ends(w) ==
    /\ Return(w) \/ Raise(w) \/ Cancel(w)
    /\ index' = index

\* Documents and the index are changed by executions and by requests.
LEMMA WhoActs ==
  ASSUME [WorkflowNext]_vars
  PROVE  \/ docs' = docs /\ index' = index
         \/ \E d \in Docs : RequestChanges(d) /\ index' = index
         \/ \E w \in Workers : Process(w) \/ Ends(w)
<1>1. ASSUME NEW w \in Workers, Loop(w) \/ Environment(w)
      PROVE  docs' = docs /\ index' = index
  BY <1>1 DEF Loop, Environment, Die, DropConnection, docVars
<1>2. ASSUME NEW w \in Workers, Return(w) \/ Raise(w) \/ Cancel(w)
      PROVE  Ends(w)
  BY <1>2 DEF Ends, Return, Raise, Cancel
<1>3. CASE Request
  BY <1>3 DEF Request, RequestChanges, ReadDocument, Upload, Upsert, Delete,
              EndRequest, Commit
<1>4. (Tick /\ UNCHANGED docVars) \/ UNCHANGED vars
      => docs' = docs /\ index' = index
  BY DEF docVars, vars
<1> QED BY <1>1, <1>2, <1>3, <1>4 DEF WorkflowNext

\* Every step in process but the reset of a retry leads to another place.
LEMMA ProcessMoves ==
  ASSUME ProcTyped, NEW w \in Workers, Process(w), proc'[w] = proc[w]
  PROVE  ResetRetry(w)
<1> USE DEF ProcTyped, At, AtLinked, GoTo
<1>1. ~Connect(w) /\ ~AcquireLock(w) /\ ~AlreadyReady(w) /\ ~StartIndexing(w)
  BY DEF Connect, AcquireLock, AlreadyReady, StartIndexing
<1>2. ~StartReplacing(w) /\ ~StartDeleting(w)
  BY DEF StartReplacing, StartDeleting
<1>3. ~RemoveOld(w) /\ ~InsertNew(w) /\ ~UpdateToReady(w) /\ ~CommitReady(w)
  BY DEF RemoveOld, InsertNew, UpdateToReady, CommitReady
<1>4. ~CompleteReplacement(w) /\ ~CompleteDeletion(w)
  BY DEF CompleteReplacement, CompleteDeletion
<1> QED BY <1>1, <1>2, <1>3, <1>4 DEF Process

\* Until a connection is lost, an execution past the lock holds it.
LEMMA HoldsLock ==
  ASSUME WInv, drops = 0, NEW w \in Workers, pc[w] = "working",
         proc[w].step \notin {"out", "waiting"}
  PROVE  proc[w].linked /\ DocOf(w) \in Docs /\ lock[DocOf(w)] = w
<1>1. DocOf(w) \in Docs
  BY JobOfTyped DEF WInv, IndInv
<1> QED BY <1>1 DEF WInv, Executions, ProcFollowsPc, LockHeld

\* A revision that is there is a text uploaded under its document.
LEMMA RevisionUploaded ==
  ASSUME RevisionsUploaded, NEW d \in Docs, NEW r \in Nat, r # 0,
         r <= Len(docs[d].revs)
  PROVE  Content(d, r) \in ContentsOf[d]
BY DEF RevisionsUploaded, Content

\* So LightRAG keeps it as an item of the document.
LEMMA EntryIsItem ==
  ASSUME RevisionsUploaded, NEW d \in Docs, NEW r \in Nat, r # 0,
         r <= Len(docs[d].revs), NEW named \in Nat
  PROVE  Entry(d, r, named) \in Items(d)
<1>1. Content(d, r) \in ContentsOf[d]
  BY RevisionUploaded
<1> QED BY <1>1 DEF Entry, Items

\* No item belongs to two documents.
LEMMA ItemsApart ==
  ASSUME TextsApart, NEW d \in Docs, NEW e \in Docs, d # e
  PROVE  Items(d) \cap Items(e) = {}
<1>1. ContentsOf[d] \cap ContentsOf[e] = {}
  BY DEF TextsApart
<1> QED BY <1>1 DEF Items, Text, Chunks

\* The entries of a document follow its row.
LEMMA EntryStays ==
  ASSUME NEW d, NEW r, NEW named, docs'[d].revs = docs[d].revs
  PROVE  Entry(d, r, named)' = Entry(d, r, named)
BY DEF Entry, Content

\* The revision of the job of an execution is there.
LEMMA JobRevision ==
  ASSUME WInv, RevisionsUploaded, NEW w \in Workers, pc[w] = "working"
  PROVE  /\ DocOf(w) \in Docs
         /\ JobOf(w).rev \in Nat /\ JobOf(w).rev # 0
         /\ JobOf(w).rev <= Len(docs[DocOf(w)].revs)
         /\ \A named \in Nat : Entry(DocOf(w), JobOf(w).rev, named) \in Items(DocOf(w))
<1>1. /\ task[w].job \in DOMAIN jobs /\ DocOf(w) \in Docs
      /\ JobOf(w) = jobs[task[w].job] /\ DocOf(w) = jobs[task[w].job].doc
  BY JobOfTyped DEF WInv, IndInv, JobOf, DocOf
<1>2. /\ JobOf(w).rev \in Nat /\ JobOf(w).rev # 0
      /\ JobOf(w).rev <= Len(docs[DocOf(w)].revs)
  BY <1>1, Numbers DEF WInv, IndInv, DocsInv, RevisionsThere
<1> QED BY <1>1, <1>2, EntryIsItem

\* So is the revision it deletes.
LEMMA OldRevision ==
  ASSUME WInv, RevisionsUploaded, ActiveByStatus, NEW w \in Workers,
         pc[w] = "working", Knows(w),
         proc[w].step \in {"removing", "inserting", "inserted", "deleting", "removed"}
  PROVE  /\ docs[DocOf(w)].active \in Nat /\ docs[DocOf(w)].active # 0
         /\ proc[w].old = docs[DocOf(w)].active
         /\ Entry(DocOf(w), proc[w].old, proc[w].old) \in Items(DocOf(w))
<1> DEFINE d == DocOf(w)
<1>1. d \in Docs
  BY JobOfTyped DEF WInv, IndInv
<1>2. docs[d].active \in Nat /\ Len(docs[d].revs) \in Nat
  BY <1>1, Numbers DEF WInv, IndInv
<1>3. docs[d].status \in {"UPDATING", "DELETING"} /\ proc[w].old = docs[d].active
  BY DEF Knows
<1>4. docs[d].active >= 1 /\ docs[d].active <= Len(docs[d].revs)
  BY <1>1, <1>2, <1>3 DEF ActiveByStatus
<1> QED BY <1>1, <1>2, <1>3, <1>4, EntryIsItem

\* An execution changes nothing for documents but its own.
LEMMA OwnDocumentOnly ==
  ASSUME WInv, RevisionsUploaded, ActiveByStatus, TextsApart, drops = 0,
         NEW w \in Workers, Knows(w), Process(w) \/ Ends(w),
         NEW d \in Docs, DocOf(w) # d
  PROVE  /\ pc[w] = "working"
         /\ docs'[d] = docs[d]
         /\ \A x \in Items(d) : x \in index' <=> x \in index
<1>1. /\ TypeOK /\ TaskFollowsRow /\ ProcTyped /\ DocsTyped
  BY DEF WInv, IndInv, Executions
<1>2. pc[w] = "working"
  BY DEF Process, Connect, AcquireLock, AlreadyReady, ResetRetry, StartIndexing,
         StartReplacing, StartDeleting, RemoveOld, InsertNew, UpdateToReady,
         CommitReady, CompleteReplacement, CompleteDeletion, AtLinked, At, Ends,
         Return, Raise, Cancel, Finish, Abandon
<1>3. DocOf(w) \in Docs
  BY <1>1, <1>2, JobOfTyped
<1>4. docs'[d] = docs[d]
  <2>1. DocsStay \/ WorkerChanges(w)
    BY <1>1, ProcessChanges, EndChanges DEF Ends
  <2> QED BY <1>1, <1>3, <2>1, DocWritten DEF DocsStay, WorkerChanges
<1>5. Items(DocOf(w)) \cap Items(d) = {}
  BY <1>3, ItemsApart
<1>6. CASE RemoveOld(w)
  <2>1. Entry(DocOf(w), proc[w].old, proc[w].old) \in Items(DocOf(w))
    BY <1>2, <1>6, OldRevision DEF RemoveOld, At
  <2> QED BY <1>2, <1>4, <1>5, <1>6, <2>1 DEF RemoveOld
<1>7. CASE InsertNew(w)
  <2> DEFINE named == IF proc[w].step = "inserting" THEN JobOf(w).rev
                      ELSE proc[w].old
             new == Entry(DocOf(w), JobOf(w).rev, named)
  <2>1. named \in Nat
    <3>1. JobOf(w).rev \in Nat
      BY <1>2, JobRevision
    <3>2. Revisions \cup {0} \subseteq Nat
      BY JobQueueAssumption DEF JobQueueAssumption
    <3>3. proc[w].old \in Revisions \cup {0}
      BY <1>1 DEF ProcTyped
    <3> QED BY <3>1, <3>2, <3>3
  <2>2. new \in Items(DocOf(w))
    <3> HIDE DEF named
    <3> QED BY <1>2, <2>1, JobRevision
  <2>3. index' = index \cup {new}
    BY <1>7 DEF InsertNew
  <2> HIDE DEF named, new
  <2> QED BY <1>2, <1>4, <1>5, <2>2, <2>3
<1>8. CASE index' = index
  BY <1>2, <1>4, <1>8
<1>9. Process(w) => index' = index \/ RemoveOld(w) \/ InsertNew(w)
  BY DEF Process, Connect, AcquireLock, AlreadyReady, ResetRetry, StartIndexing,
         StartReplacing, StartDeleting, UpdateToReady, CommitReady,
         CompleteReplacement, CompleteDeletion
<1> QED BY <1>6, <1>7, <1>8, <1>9 DEF Ends

\* As long as an execution stays where it is, past the lock, nobody changes its
\* document or what LightRAG holds of it.
LEMMA LeftAlone ==
  ASSUME WInv, RevisionsUploaded, ActiveByStatus, TextsApart, IndexInv,
         [WorkflowNext]_vars, drops = 0,
         NEW v \in Workers, pc[v] = "working", proc[v].step \in Touching,
         proc'[v] = proc[v]
  PROVE  /\ docs'[DocOf(v)] = docs[DocOf(v)]
         /\ \A x \in Items(DocOf(v)) : x \in index' <=> x \in index
<1> USE DEF Touching
<1>1. /\ ProcTyped /\ DocsTyped /\ DocsInv /\ \A w \in Workers : Knows(w)
      /\ DocOf(v) \in Docs /\ lock[DocOf(v)] = v
  BY HoldsLock DEF WInv, IndInv, Executions, IndexInv
<1>2. CASE docs' = docs /\ index' = index
  BY <1>2
<1>3. ASSUME NEW d \in Docs, RequestChanges(d), index' = index
      PROVE  docs'[DocOf(v)] = docs[DocOf(v)]
  <2>1. docs[DocOf(v)].status \in {"INDEXING", "UPDATING", "DELETING"}
    BY <1>1 DEF Knows
  <2>2. docs[d] = Absent \/ docs[d].status = "READY"
    BY <1>1, <1>3, RequestShape
  <2>3. d # DocOf(v)
    BY <2>1, <2>2 DEF Absent
  <2> QED BY <1>1, <1>3, <2>3, RequestShape
<1>4. ~Process(v) /\ ~Ends(v)
  <2>1. ~ResetRetry(v)
    BY DEF ResetRetry, AtLinked, At
  <2>2. ~Process(v)
    BY <1>1, <2>1, ProcessMoves
  <2>3. ~Ends(v)
    BY <1>1, OutFields DEF Ends, Return, Raise, Cancel, Leave, ProcTyped
  <2> QED BY <2>2, <2>3
<1>5. ASSUME NEW w \in Workers, w # v, Process(w) \/ Ends(w), DocOf(w) = DocOf(v)
      PROVE  docs' = docs /\ index' = index
  <2>1. pc[w] = "working" /\ proc[w].step # "out" => lock[DocOf(w)] = w \/ proc[w].step = "waiting"
    BY HoldsLock
  <2>2. ~(pc[w] = "working" /\ proc[w].step \notin {"out", "waiting"})
    BY <1>1, <1>5, <2>1
  <2>3. CASE Process(w)
    BY <2>2, <2>3
    DEF Process, Connect, AcquireLock, AlreadyReady, ResetRetry, StartIndexing,
        StartReplacing, StartDeleting, RemoveOld, InsertNew, UpdateToReady,
        CommitReady, CompleteReplacement, CompleteDeletion, AtLinked, At
  <2>4. CASE Ends(w)
    <3>1. pc[w] = "working"
      BY <2>4 DEF Ends, Return, Raise, Cancel, Finish, Abandon, At
    <3> QED BY <2>2, <2>4, <3>1 DEF Ends, Return, Raise, Cancel, MarkFailed
  <2> QED BY <1>5, <2>3, <2>4
<1>6. ASSUME NEW w \in Workers, Process(w) \/ Ends(w)
      PROVE  /\ docs'[DocOf(v)] = docs[DocOf(v)]
             /\ \A x \in Items(DocOf(v)) : x \in index' <=> x \in index
  <2>1. CASE w = v
    BY <1>4, <1>6, <2>1
  <2>2. CASE w # v /\ DocOf(w) = DocOf(v)
    BY <1>5, <1>6, <2>2
  <2>3. CASE DocOf(w) # DocOf(v)
    BY <1>1, <1>6, <2>3, OwnDocumentOnly
  <2> QED BY <2>1, <2>2, <2>3
<1> QED BY <1>2, <1>3, <1>6, WhoActs

-----------------------------------------------------------------------------
(* What executions know.                                                   *)

\* A step in process leaves its worker knowing what it may go on with.
LEMMA ProcessKnows ==
  ASSUME WInv, NEW v \in Workers, Knows(v), Process(v),
         pc'[v] = "working", JobOf(v)'.rev = JobOf(v).rev, DocOf(v)' = DocOf(v)
  PROVE  Knows(v)'
<1> DEFINE d == DocOf(v)
<1>1. /\ ProcTyped /\ DocsTyped /\ TypeOK
      /\ pc[v] = "working" => DocOf(v) \in Docs
  BY JobOfTyped DEF WInv, IndInv, Executions
<1> USE <1>1 DEF AtLinked, At, GoTo, ProcTyped
<1>2. ASSUME proc'[v].step \notin Touching
      PROVE  Knows(v)'
  BY <1>2 DEF Touching, Knows
<1>3. CASE Connect(v) \/ AcquireLock(v) \/ AlreadyReady(v) \/ ResetRetry(v)
  <2>1. proc'[v].step \notin Touching
    BY <1>3 DEF Connect, AcquireLock, AlreadyReady, ResetRetry, Touching
  <2> QED BY <1>2, <2>1
<1>4. CASE CommitReady(v) \/ CompleteReplacement(v) \/ CompleteDeletion(v)
  <2>1. proc'[v].step \notin Touching
    BY <1>4 DEF CommitReady, CompleteReplacement, CompleteDeletion, Touching
  <2> QED BY <1>2, <2>1
<1>5. CASE StartIndexing(v)
  <2>1. /\ proc'[v].step = "indexing" /\ docs'[d].status = "INDEXING"
        /\ proc'[v].old = docs[d].active /\ docs[d].status = "UPLOADED"
    BY <1>5, DocWritten DEF StartIndexing
  <2>2. docs[d].active = 0
    BY <1>1, <1>5, <2>1
    DEF WInv, DocsInv, FirstRevision, BeforeActive, StartIndexing
  <2> QED BY <2>1, <2>2 DEF Knows
<1>6. CASE StartReplacing(v)
  <2>1. /\ proc'[v].step = "removing" /\ proc'[v].old = docs[d].active
        /\ docs' = docs /\ docs[d].status = "UPDATING"
    BY <1>6 DEF StartReplacing
  <2> QED BY <2>1 DEF Knows
<1>7. CASE StartDeleting(v)
  <2>1. /\ proc'[v].step = "deleting" /\ proc'[v].old = docs[d].active
        /\ docs' = docs /\ docs[d].status = "DELETING"
    BY <1>7 DEF StartDeleting
  <2> QED BY <2>1 DEF Knows
<1>8. CASE RemoveOld(v)
  <2>1. /\ docs' = docs /\ proc'[v].old = proc[v].old
        /\ index' = index \ {Entry(d, proc[v].old, proc[v].old)}
        /\ \/ proc[v].step = "removing" /\ proc'[v].step = "inserting"
           \/ proc[v].step = "deleting" /\ proc'[v].step = "removed"
    BY <1>8 DEF RemoveOld
  <2>2. Entry(d, proc[v].old, proc[v].old)' = Entry(d, proc[v].old, proc[v].old)
    BY <2>1 DEF Entry, Content
  <2> QED BY <2>1, <2>2 DEF Knows
<1>9. CASE InsertNew(v)
  <2> DEFINE old == Entry(d, proc[v].old, proc[v].old)
             new == Entry(d, JobOf(v).rev, JobOf(v).rev)
             first == Entry(d, JobOf(v).rev, 0)
  <2>1. /\ docs' = docs /\ proc'[v].old = proc[v].old
        /\ \/ /\ proc[v].step = "inserting" /\ proc'[v].step = "inserted"
              /\ index' = index \cup {new}
           \/ /\ proc[v].step = "indexing" /\ proc'[v].step = "indexed"
              /\ proc[v].old = 0 /\ index' = index \cup {first}
    BY <1>9 DEF InsertNew, Knows
  <2>2. old' = old /\ new' = new /\ first' = first
    BY <2>1 DEF Entry, Content
  <2> QED BY <2>1, <2>2 DEF Knows
<1>10. CASE UpdateToReady(v)
  <2>1. /\ docs' = docs /\ index' = index
        /\ proc[v].step = "indexed" /\ proc'[v].step = "readying"
    BY <1>10 DEF UpdateToReady
  <2>2. Entry(d, JobOf(v).rev, 0)' = Entry(d, JobOf(v).rev, 0)
    BY <2>1 DEF Entry, Content
  <2>3. proc'[v].old = proc[v].old
    BY <1>10 DEF UpdateToReady
  <2> QED BY <2>1, <2>2, <2>3 DEF Knows
<1> QED
  BY <1>3, <1>4, <1>5, <1>6, <1>7, <1>8, <1>9, <1>10 DEF Process

\* Any step leaves every execution knowing it.
LEMMA KnowsStep ==
  ASSUME WInv, RevisionsUploaded, ActiveByStatus, TextsApart, IndexInv,
         [WorkflowNext]_vars, drops = 0, drops' = 0, NEW v \in Workers
  PROVE  Knows(v)'
<1> DEFINE d == DocOf(v)
<1>1. /\ TypeOK /\ TaskFollowsRow /\ ProcTyped /\ ProcFollowsPc /\ Knows(v)
      /\ [Next]_jobVars
  BY NextWInv DEF WInv, IndInv, Executions, IndexInv
<1>2. CASE proc'[v].step \notin Touching
  BY <1>2 DEF Touching, Knows
<1>3. CASE proc'[v].step \in Touching
  <2>1. proc'[v] # Out /\ ProcStep(v)
    BY <1>1, <1>3, OutFields, ProcSteps DEF Touching
  <2>2. pc[v] = "working" /\ pc'[v] = "working" /\ task'[v].job = task[v].job
    BY <2>1 DEF ProcStep
  <2>3. task[v].job \in DOMAIN jobs /\ d \in Docs
    BY <1>1, <2>2, JobOfTyped
  <2>4. JobOf(v)'.rev = JobOf(v).rev /\ DocOf(v)' = d
    BY <1>1, <2>2, <2>3, RowsKept DEF RowKept, JobOf, DocOf
  <2>5. CASE Process(v)
    BY <1>1, <2>2, <2>4, <2>5, ProcessKnows
  <2>6. CASE proc'[v] = proc[v]
    <3> DEFINE r == JobOf(v).rev
               o == proc[v].old
               old == Entry(d, o, o)
               new == Entry(d, r, r)
               first == Entry(d, r, 0)
    <3>1. /\ docs'[d] = docs[d]
          /\ \A x \in Items(d) : x \in index' <=> x \in index
      BY <1>3, <2>2, <2>6, LeftAlone
    <3>2. r \in Nat /\ new \in Items(d) /\ first \in Items(d)
      BY <2>2, JobRevision
    <3>3. proc[v].step \in {"inserting", "inserted", "removed"} => old \in Items(d)
      BY <1>1, <2>2, OldRevision
    <3>4. /\ new \in index' <=> new \in index
          /\ first \in index' <=> first \in index
          /\ proc[v].step \in {"inserting", "inserted", "removed"}
             => (old \in index' <=> old \in index)
      BY <3>1, <3>2, <3>3
    <3>5. \A k, named : Entry(d, k, named) = IF docs[d].revs[k] \in Code /\ named # 0
                                           THEN Chunks(d, named)
                                           ELSE Text(docs[d].revs[k])
      BY DEF Entry, Content
    <3>6. /\ Entry(DocOf(v), JobOf(v).rev, JobOf(v).rev)' = new
          /\ Entry(DocOf(v), JobOf(v).rev, 0)' = first
          /\ Entry(DocOf(v), proc[v].old, proc[v].old)' = old
      BY <2>4, <2>6, <3>1, <3>5 DEF Entry, Content
    <3> HIDE DEF new, old, first, d, r
    <3> QED BY <1>1, <2>4, <2>6, <3>1, <3>4, <3>6 DEF Knows, new, old, first, d, r
  <2> QED BY <2>1, <2>5, <2>6, PlaceStep
<1> QED BY <1>2, <1>3

-----------------------------------------------------------------------------
(* What the status of a document says.                                     *)

\* The items of the active revision and of the one before it.
LEMMA ActiveItems ==
  ASSUME WInv, RevisionsUploaded, ActiveByStatus, NEW d \in Docs,
         docs[d].status \in {"READY", "UPDATING", "DELETING", "DELETED"}
  PROVE  /\ docs[d].active \in Nat /\ docs[d].active >= 1
         /\ docs[d].active <= Len(docs[d].revs)
         /\ \A n \in Nat : Entry(d, docs[d].active, n) \in Items(d)
         /\ docs[d].active > 1
            => Entry(d, docs[d].active - 1, docs[d].active - 1) \in Items(d)
<1>1. docs[d].active \in Nat /\ Len(docs[d].revs) \in Nat
  BY Numbers DEF WInv, IndInv
<1>2. docs[d].active >= 1 /\ docs[d].active <= Len(docs[d].revs)
  BY <1>1 DEF ActiveByStatus
<1>3. docs[d].active > 1
      => /\ docs[d].active - 1 \in Nat /\ docs[d].active - 1 # 0
         /\ docs[d].active - 1 <= Len(docs[d].revs)
  BY <1>1, <1>2
<1> QED BY <1>1, <1>2, <1>3, EntryIsItem

\* A document stays settled when nobody touches it.
LEMMA SettledStays ==
  ASSUME WInv, RevisionsUploaded, ActiveByStatus, NEW d \in Docs, Settled(d),
         docs'[d] = docs[d], \A x \in Items(d) : x \in index' <=> x \in index
  PROVE  Settled(d)'
<1>1. CASE docs[d].status \notin {"READY", "DELETING", "DELETED"}
  BY <1>1 DEF Settled
<1>2. CASE docs[d].status \in {"READY", "DELETING", "DELETED"}
  <2> DEFINE a == docs[d].active
             now == Entry(d, a, a)
             before == Entry(d, a - 1, a - 1)
             as == InsertedAs(d, a)
  <2>1. a \in Nat /\ now \in Items(d) /\ as \in Items(d)
    BY <1>2, ActiveItems DEF InsertedAs
  <2>2. a > 1 => before \in Items(d)
    BY <1>2, ActiveItems
  <2>3. /\ now \in index' <=> now \in index
        /\ as \in index' <=> as \in index
        /\ a > 1 => (before \in index' <=> before \in index)
    BY <2>1, <2>2
  <2>4. now' = now /\ before' = before /\ as' = as
    BY DEF InsertedAs, Entry, Content
  <2>5. docs'[d] = docs[d]
    OBVIOUS
  <2> HIDE DEF now, before, as
  <2> QED BY <2>3, <2>4, <2>5 DEF Settled, now, before, as
<1> QED BY <1>1, <1>2

\* A replacement that is completed has taken the old text out and put the new
\* one in.
LEMMA CompletedReplacement ==
  ASSUME WInv, RevisionsUploaded, ActiveByStatus, NEW w \in Workers, Knows(w),
         CompleteReplacement(w), NEW d \in Docs, DocOf(w) = d
  PROVE  Settled(d)'
<1> DEFINE r == JobOf(w).rev
<1>1. /\ pc[w] = "working" /\ proc[w].step = "inserted" /\ index' = index
      /\ docs[d].status = "UPDATING" /\ SetReady(d, r)
      /\ CompleteInProcess(w)
  BY DEF CompleteReplacement, AtLinked, At
<1>2. /\ task[w].job \in DOMAIN jobs /\ d \in Docs
      /\ JobOf(w) = jobs[task[w].job] /\ d = jobs[task[w].job].doc
      /\ JobOf(w).status \in ActiveStatuses
  BY <1>1, JobOfTyped
  DEF WInv, IndInv, JobOf, DocOf, CompleteInProcess, FencedSinceBegin,
      OwnsAttempt, ActiveStatuses
<1>3. r = Len(docs[d].revs)
  BY <1>1, <1>2 DEF WInv, DocsInv, UpdateIsNewest
<1>4. /\ docs'[d].status = "READY" /\ docs'[d].active = r
      /\ docs'[d].revs = docs[d].revs
  BY <1>1, <1>2, DocWritten DEF WInv
<1>5. docs[d].active \in Nat /\ r = docs[d].active + 1
  BY <1>1, <1>2, <1>3, ActiveItems DEF ActiveByStatus
<1>6. r - 1 = docs[d].active /\ proc[w].old = docs[d].active
  BY <1>1, <1>5 DEF Knows
<1>7. /\ Entry(d, r, r) \in index
      /\ Entry(d, r - 1, r - 1) \in index => Entry(d, r - 1, r - 1) = Entry(d, r, r)
  BY <1>1, <1>6 DEF Knows
<1>8. r # 1
  BY <1>1, <1>2, <1>5, ActiveItems
<1>9. /\ Entry(d, docs[d].active, docs[d].active)' = Entry(d, r, r)
      /\ Entry(d, docs[d].active - 1, docs[d].active - 1)' = Entry(d, r - 1, r - 1)
      /\ InsertedAs(d, docs[d].active)' = Entry(d, r, r)
  BY <1>4, <1>8 DEF Entry, Content, InsertedAs
<1> HIDE DEF r
<1> QED BY <1>1, <1>4, <1>7, <1>9 DEF Settled

\* A first revision becomes active when it has been inserted.
LEMMA CommittedReady ==
  ASSUME WInv, RevisionsUploaded, NEW w \in Workers, Knows(w), CommitReady(w),
         NEW d \in Docs, DocOf(w) = d
  PROVE  Settled(d)'
<1> DEFINE r == JobOf(w).rev
<1>1. /\ pc[w] = "working" /\ proc[w].step = "readying" /\ index' = index
      /\ docs[d].status = "INDEXING" /\ SetReady(d, r)
      /\ Entry(d, r, 0) \in index
  BY DEF CommitReady, AtLinked, At, Knows
<1>2. /\ docs'[d].status = "READY" /\ docs'[d].active = r
      /\ docs'[d].revs = docs[d].revs
  BY <1>1, DocWritten DEF WInv
<1>3. r = 1
  <2>1. Len(docs[d].revs) = 1
    BY <1>1 DEF WInv, DocsInv, FirstRevision, BeforeActive
  <2>2. r \in Nat /\ r # 0 /\ r <= Len(docs[DocOf(w)].revs)
    BY <1>1, JobRevision
  <2> QED BY <2>1, <2>2
<1>4. InsertedAs(d, docs[d].active)' = Entry(d, r, 0)
  BY <1>2, <1>3 DEF InsertedAs, Entry, Content
<1> HIDE DEF r
<1> QED BY <1>1, <1>2, <1>3, <1>4 DEF Settled

\* A deletion that is completed has taken the active text out, and no other
\* was left.
LEMMA CompletedDeletion ==
  ASSUME WInv, RevisionsUploaded, ActiveByStatus, NEW w \in Workers, Knows(w),
         CompleteDeletion(w), NEW d \in Docs, DocOf(w) = d, Settled(d)
  PROVE  Settled(d)'
<1> DEFINE now == Entry(d, docs[d].active, docs[d].active)
           before == Entry(d, docs[d].active - 1, docs[d].active - 1)
<1>1. /\ pc[w] = "working" /\ proc[w].step = "removed" /\ index' = index
      /\ docs[d].status = "DELETING" /\ SetDoc(d, "DELETED")
  BY DEF CompleteDeletion, AtLinked, At
<1>2. /\ docs'[d].status = "DELETED" /\ docs'[d].active = docs[d].active
      /\ docs'[d].revs = docs[d].revs
  BY <1>1, DocWritten DEF WInv
<1>3. now \notin index
  BY <1>1 DEF Knows
<1>4. docs[d].active > 1 => before \notin index
  BY <1>1, <1>3 DEF Settled
<1>5. now' = now /\ before' = before
  BY <1>2 DEF Entry, Content
<1> HIDE DEF now, before
<1> QED BY <1>1, <1>2, <1>3, <1>4, <1>5 DEF Settled, now, before

\* A step of an execution leaves its document settled.
LEMMA OwnDocumentSettled ==
  ASSUME WInv, RevisionsUploaded, ActiveByStatus, NEW w \in Workers, Knows(w),
         Process(w) \/ Ends(w), NEW d \in Docs, DocOf(w) = d, Settled(d)
  PROVE  Settled(d)'
<1> USE DEF AtLinked, At
<1>1. DocsTyped
  BY DEF WInv
<1>2. CASE docs' = docs /\ index' = index
  BY <1>2, SettledStays
<1>3. CASE CommitReady(w) \/ CompleteReplacement(w) \/ CompleteDeletion(w)
  BY <1>3, CommittedReady, CompletedReplacement, CompletedDeletion
<1>4. ASSUME NEW s \in BeforeActive, SetDoc(d, s)
      PROVE  Settled(d)'
  BY <1>1, <1>4, DocWritten DEF Settled, BeforeActive
<1>5. CASE ResetRetry(w) \/ StartIndexing(w)
  BY <1>4, <1>5 DEF ResetRetry, StartIndexing, BeforeActive
<1>6. CASE RemoveOld(w)
  <2>1. /\ docs' = docs /\ index' \subseteq index
        /\ docs[d].status \in {"UPDATING", "DELETING"}
    BY <1>6 DEF RemoveOld, Knows
  <2> DEFINE now == Entry(d, docs[d].active, docs[d].active)
             before == Entry(d, docs[d].active - 1, docs[d].active - 1)
  <2>2. now' = now /\ before' = before
    BY <2>1 DEF Entry, Content
  <2> HIDE DEF now, before
  <2> QED BY <2>1, <2>2 DEF Settled, now, before
<1>7. CASE InsertNew(w)
  <2>1. docs' = docs /\ docs[d].status \in {"UPDATING", "INDEXING"}
    BY <1>7 DEF InsertNew, Knows
  <2> QED BY <2>1 DEF Settled
<1>8. CASE Ends(w)
  BY <1>2, <1>4, <1>8
  DEF Ends, Return, Raise, Cancel, MarkFailed, BeforeActive
<1>9. CASE Connect(w) \/ AcquireLock(w) \/ AlreadyReady(w) \/ StartReplacing(w)
           \/ StartDeleting(w) \/ UpdateToReady(w)
  BY <1>2, <1>9
  DEF Connect, AcquireLock, AlreadyReady, StartReplacing, StartDeleting,
      UpdateToReady
<1> QED BY <1>3, <1>5, <1>6, <1>7, <1>8, <1>9 DEF Process

\* So does every step.
LEMMA SettledStep ==
  ASSUME WInv, RevisionsUploaded, ActiveByStatus, TextsApart, IndexInv,
         [WorkflowNext]_vars, drops = 0, NEW d \in Docs
  PROVE  Settled(d)'
<1>1. Settled(d) /\ \A w \in Workers : Knows(w)
  BY DEF IndexInv
<1>2. CASE docs' = docs /\ index' = index
  BY <1>1, <1>2, SettledStays
<1>3. ASSUME NEW e \in Docs, RequestChanges(e), index' = index
      PROVE  Settled(d)'
  <2>1. DocsTyped /\ DocsInv
    BY DEF WInv
  <2>2. CASE e # d
    BY <1>1, <1>3, <2>1, <2>2, RequestShape, SettledStays
  <2>3. CASE e = d /\ ~Delete(d)
    <3>1. docs'[d].status \in {"UPLOADED", "UPDATING"}
      BY <1>3, <2>1, <2>3 DEF RequestChanges, Upload, Upsert, DocsTyped
    <3> QED BY <3>1 DEF Settled
  <2>4. CASE e = d /\ Delete(d)
    <3>1. /\ docs[d].status = "READY" /\ docs'[d].status = "DELETING"
          /\ docs'[d].active = docs[d].active /\ docs'[d].revs = docs[d].revs
      BY <2>1, <2>4, DocWritten DEF Delete
    <3>2. /\ Entry(d, docs[d].active, docs[d].active)'
             = Entry(d, docs[d].active, docs[d].active)
          /\ Entry(d, docs[d].active - 1, docs[d].active - 1)'
             = Entry(d, docs[d].active - 1, docs[d].active - 1)
      BY <3>1 DEF Entry, Content
    <3> QED BY <1>1, <1>3, <3>1, <3>2 DEF Settled
  <2> QED BY <2>2, <2>3, <2>4
<1>4. ASSUME NEW w \in Workers, Process(w) \/ Ends(w)
      PROVE  Settled(d)'
  <2>1. CASE DocOf(w) = d
    BY <1>1, <1>4, <2>1, OwnDocumentSettled
  <2>2. CASE DocOf(w) # d
    BY <1>1, <1>4, <2>2, OwnDocumentOnly, SettledStays
  <2> QED BY <2>1, <2>2
<1> QED BY <1>2, <1>3, <1>4, WhoActs

-----------------------------------------------------------------------------
(***************************************************************************)
(* The invariant holds, and what follows.                                  *)
(***************************************************************************)

\* The invariant of the index and what it needs to know of revisions.
FullInv ==
    /\ WInv
    /\ RevisionsUploaded
    /\ ActiveByStatus
    /\ IndexInv

\* It holds at first.
LEMMA InitFullInv ==
  ASSUME WorkflowInit
  PROVE  FullInv
<1>1. docs = [d \in Docs |-> Absent] /\ proc = [w \in Workers |-> Out]
  BY DEF WorkflowInit
<1>2. RevisionsUploaded
  <2>1. \A d \in Docs : docs[d].revs = << >>
    BY <1>1 DEF Absent
  <2>2. ASSUME NEW C
        PROVE  << >> \in Seq(C)
    OBVIOUS
  <2> QED BY <2>1, <2>2 DEF RevisionsUploaded
<1>3. ActiveByStatus /\ IndexInv
  BY <1>1, OutFields DEF ActiveByStatus, IndexInv, Knows, Settled, Absent
<1> QED BY <1>2, <1>3, InitWInv DEF FullInv

\* Every step keeps it.
LEMMA NextFullInv ==
  ASSUME FullInv, TextsApart, [WorkflowNext]_vars
  PROVE  FullInv'
<1> USE DEF FullInv
<1>1. WInv' /\ RevisionsUploaded' /\ ActiveByStatus'
  BY NextWInv, RevisionsUploadedStep, ActiveByStatusStep
<1>2. IndexInv'
  <2> SUFFICES ASSUME drops' = 0
               PROVE  /\ \A w \in Workers : Knows(w)'
                      /\ \A d \in Docs : Settled(d)'
    BY DEF IndexInv
  <2>1. drops = 0
    BY DropsGrow DEF WInv, Executions
  <2> QED BY <2>1, KnowsStep, SettledStep
<1> QED BY <1>1, <1>2

\* Every reachable state satisfies it.
THEOREM FullInvHolds ==
  ASSUME TextsApart
  PROVE  WorkflowSpec => []FullInv
<1>1. WorkflowInit => FullInv
  BY InitFullInv
<1>2. FullInv /\ [WorkflowNext]_vars => FullInv'
  BY NextFullInv
<1> QED BY <1>1, <1>2, PTL DEF WorkflowSpec

\* What queries are served of a READY document is its active revision: in every
\* reachable state before a connection is lost, LightRAG holds that revision.
THEOREM ReadyIsInIndex ==
  ASSUME TextsApart
  PROVE  WorkflowSpec => []ReadyIsIndexed
<1>1. FullInv => ReadyIsIndexed
  BY DEF FullInv, IndexInv, Settled, ReadyIsIndexed
<1> QED BY <1>1, FullInvHolds, PTL

\* Of the last two revisions of a DELETED document LightRAG has neither the
\* chunks, if they are source code, nor else the text, whatever failed on the
\* way and whoever outlived its lease.
THEOREM LastRevisionsGone ==
  ASSUME TextsApart
  PROVE  WorkflowSpec => []LastRevisionsDeleted
<1>1. ASSUME FullInv
      PROVE  LastRevisionsDeleted
  <2> SUFFICES ASSUME drops = 0, NEW d \in Docs, docs[d].status = "DELETED",
                      NEW r \in DOMAIN docs[d].revs, r + 1 >= docs[d].active
               PROVE  Entry(d, r, r) \notin index
    BY DEF LastRevisionsDeleted
  <2>1. /\ docs[d].active \in Nat /\ docs[d].active >= 1
        /\ docs[d].active = Len(docs[d].revs)
    BY <1>1, ActiveItems DEF FullInv, ActiveByStatus
  <2>2. r \in 1 .. Len(docs[d].revs)
    BY <1>1 DEF FullInv, WInv, DocsTyped
  <2>3. r = docs[d].active \/ (docs[d].active > 1 /\ r = docs[d].active - 1)
    BY <2>1, <2>2
  <2> QED BY <1>1, <2>3 DEF FullInv, IndexInv, Settled
<1> QED BY <1>1, FullInvHolds, PTL
=============================================================================
