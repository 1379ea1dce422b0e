-------------------------- MODULE DocumentWorkflow --------------------------
(***************************************************************************)
(* Documents, their immutable revisions and the LightRAG index, as the API *)
(* (backend/documents/source_service.py) and the rag-worker processes      *)
(* (backend/worker/service.py, backend/indexing/service.py) change them    *)
(* through the job queue.  The state of JobQueue is part of this state,    *)
(* and every action here is an action of JobQueue or leaves it alone.      *)
(*                                                                         *)
(* Requests of the API for one document take turns under an advisory lock, *)
(* but the worker takes another one: a request first reads the document,   *)
(* and decides by what it read when it changes the document later.         *)
(* Processing is one action per commit and per call of LightRAG, so that   *)
(* anything may happen in between.                                         *)
(***************************************************************************)
EXTENDS JobQueue, Sequences

CONSTANTS
    Contents,     \* source texts, up to equality
    Code,         \* those that a parser of source code divides into chunks
    ContentsOf,   \* the texts clients upload under each document
    MaxFaults     \* bound on crashes and lost connections together

ASSUME WorkflowAssumption ==
    /\ ContentsOf \in [Docs -> SUBSET Contents]
    /\ Code \subseteq Contents
    /\ JobTypes = {"INDEX_DOCUMENT", "DELETE_DOCUMENT"}
    /\ 1 \in Revisions
    /\ MaxFaults \in Nat

VARIABLES
    docs,    \* the rows of documents, each with its document_revisions
    seen,    \* what the request that is on for a document has read of it
    index,   \* what LightRAG holds for the workspace
    lock,    \* holder of the session advisory lock of each document
    proc,    \* where each worker is in IndexingJobProcessor.process
    drops    \* connections lost so far

docVars == <<docs, seen, index, lock, proc, drops>>
vars == <<jobs, pc, task, beating, stop, crashes,
          docs, seen, index, lock, proc, drops>>

-----------------------------------------------------------------------------
DocStatuses == {"ABSENT", "UPLOADED", "INDEXING", "READY", "UPDATING",
                "DELETING", "DELETED", "FAILED"}

Steps == {"out",        \* no connection yet, or no longer
          "waiting",    \* in pg_advisory_lock
          "locked",     \* about to look at the document
          "indexing",   \* first revision: about to insert
          "indexed",    \* first revision: inserted
          "readying",   \* UPDATE to READY made, not committed
          "removing",   \* replacement: about to delete the active revision
          "inserting",  \* replacement: about to insert the new one
          "inserted",   \* replacement: about to complete
          "deleting",   \* deletion: about to delete
          "removed",    \* deletion: about to complete
          "done"}       \* committed, about to close the connection

Absent == [status |-> "ABSENT", active |-> 0, revs |-> << >>]

\* What of a status the decisions of a request depend on.
Standing(s) == IF s = "ABSENT" THEN "ABSENT"
               ELSE IF s \in {"DELETING", "DELETED"} THEN "GONE"
               ELSE "PRESENT"

NoRequest == [status |-> "NONE", active |-> 0]

Out == [step |-> "out", old |-> 0, linked |-> FALSE]

Content(d, r) == docs[d].revs[r]

\* What LightRAG has is a whole text, under its content hash, or the chunks of
\* a revision, under its number; all of these are one entry here.
Text(c) == <<"text", c>>
Chunks(d, r) == <<"chunks", d, r>>

Entries == {Text(c) : c \in Contents}
             \cup {Chunks(d, r) : d \in Docs, r \in Revisions}

\* code_chunk_documents: a revision of source code is kept as its chunks when
\* a number is named for it; without one, here 0, it is a whole text.
Entry(d, r, named) ==
    IF Content(d, r) \in Code /\ named # 0 THEN Chunks(d, named)
    ELSE Text(Content(d, r))

\* get and lock_for_upsert: the active revision, or else the newest one,
\* which is the first as long as none is active.
SeenContent(d) == Content(d, IF seen[d].active = 0 THEN 1 ELSE seen[d].active)

JobOf(w) == jobs[task[w].job]
DocOf(w) == JobOf(w).doc

At(w, s) == pc[w] = "working" /\ proc[w].step = s

\* The database connection of processing is there.
AtLinked(w, s) == At(w, s) /\ proc[w].linked

GoTo(w, s) == proc' = [proc EXCEPT ![w].step = s]

SetDoc(d, s) == docs' = [docs EXCEPT ![d].status = s]

SetReady(d, r) == docs' = [docs EXCEPT ![d].status = "READY", ![d].active = r]

WorkflowTypeOK ==
    /\ TypeOK
    /\ docs \in [Docs -> [status : DocStatuses,
                          active : Revisions \cup {0},
                          revs : Seq(Contents)]]
    /\ seen \in [Docs -> [status : {"NONE", "ABSENT", "PRESENT", "GONE"},
                          active : Revisions \cup {0}]]
    /\ index \subseteq Entries
    /\ lock \in [Docs -> Workers \cup {NoWorker}]
    /\ proc \in [Workers -> [step : Steps, old : Revisions \cup {0},
                             linked : BOOLEAN]]
    /\ drops \in 0 .. MaxFaults

WorkflowInit ==
    /\ Init
    /\ docs = [d \in Docs |-> Absent]
    /\ seen = [d \in Docs |-> NoRequest]
    /\ index = {}
    /\ lock = [d \in Docs |-> NoWorker]
    /\ proc = [w \in Workers |-> Out]
    /\ drops = 0

-----------------------------------------------------------------------------
(* Requests of API clients.                                                *)

\* lock_for_upsert: pg_advisory_xact_lock, and a read that locks no row.
ReadDocument(d) ==
    /\ seen[d] = NoRequest
    /\ seen' = [seen EXCEPT ![d] = [status |-> Standing(docs[d].status),
                                    active |-> docs[d].active]]
    /\ UNCHANGED <<jobVars, docs, index, lock, proc, drops>>

\* The transaction ends: the content is equal, the job is there already, the
\* document is in no state for it, or a statement failed.
EndRequest(d) ==
    /\ seen[d] # NoRequest
    /\ seen' = [seen EXCEPT ![d] = NoRequest]
    /\ UNCHANGED <<jobVars, docs, index, lock, proc, drops>>

Commit(d) ==
    /\ seen' = [seen EXCEPT ![d] = NoRequest]
    /\ UNCHANGED <<index, lock, proc, drops>>

\* store_for_indexing, and upsert_for_indexing of an unknown document.
Upload(d, c) ==
    /\ seen[d].status = "ABSENT"
    /\ docs' = [docs EXCEPT ![d] = [status |-> "UPLOADED", active |-> 0,
                                    revs |-> <<c>>]]
    /\ CreateJob(d, "INDEX_DOCUMENT", 1)
    /\ Commit(d)

\* Faulty variant: the new text takes the place of the last revision's.
Upsert_InPlace(d, c) ==
    LET r == Len(docs[d].revs)
    IN  /\ seen[d].status \notin {"NONE", "ABSENT"}
        /\ SeenContent(d) # c
        /\ docs[d].status = "READY"
        /\ docs' = [docs EXCEPT ![d].status = "UPDATING", ![d].revs[r] = c]
        /\ CreateJob(d, "INDEX_DOCUMENT", r)
        /\ Commit(d)

\* upsert_for_indexing of changed content: add_revision, READY -> UPDATING
\* and create_indexing under the row lock.
Upsert(d, c) ==
    LET r == Len(docs[d].revs) + 1
    IN  /\ seen[d].status \notin {"NONE", "ABSENT"}
        /\ SeenContent(d) # c
        /\ r \in Revisions
        /\ docs[d].status = "READY"
        /\ docs' = [docs EXCEPT ![d].status = "UPDATING",
                                ![d].revs = Append(@, c)]
        /\ CreateJob(d, "INDEX_DOCUMENT", r)
        /\ Commit(d)

\* delete_for_indexing: the job is for the active revision that was read.
Delete(d) ==
    /\ seen[d].status \notin {"NONE", "ABSENT", "GONE"}
    /\ seen[d].active # 0
    /\ docs[d].status = "READY"
    /\ SetDoc(d, "DELETING")
    /\ CreateJob(d, "DELETE_DOCUMENT", seen[d].active)
    /\ Commit(d)

-----------------------------------------------------------------------------
(* IndexingJobProcessor.process: the connection and the lock.              *)

\* Connect and send pg_advisory_lock, the first statement: now() stops here.
Connect(w) ==
    /\ At(w, "out")
    /\ BeginTransaction(w)
    /\ proc' = [proc EXCEPT ![w].step = "waiting", ![w].linked = TRUE]
    /\ UNCHANGED <<docs, seen, index, lock, drops>>

\* Faulty variant: processing goes on without the lock.
AcquireLock_NoWait(w) ==
    /\ AtLinked(w, "waiting")
    /\ lock' = [lock EXCEPT ![DocOf(w)] = w]
    /\ GoTo(w, "locked")
    /\ UNCHANGED <<jobVars, docs, seen, index, drops>>

AcquireLock(w) ==
    /\ AtLinked(w, "waiting")
    /\ lock[DocOf(w)] = NoWorker
    /\ lock' = [lock EXCEPT ![DocOf(w)] = w]
    /\ GoTo(w, "locked")
    /\ UNCHANGED <<jobVars, docs, seen, index, drops>>

Unlocked(w) == [d \in Docs |-> IF lock[d] = w THEN NoWorker ELSE lock[d]]

-----------------------------------------------------------------------------
(* The branches of process, taken under the lock.                          *)

\* Faulty variant: an UPDATING document is taken for a READY one.
AlreadyReady_Updating(w) ==
    /\ AtLinked(w, "locked")
    /\ JobOf(w).type = "INDEX_DOCUMENT"
    /\ docs[DocOf(w)].status \in {"READY", "UPDATING"}
    /\ GoTo(w, "done")
    /\ UNCHANGED <<jobVars, docs, seen, index, lock, drops>>

\* A READY document: what an INDEX_DOCUMENT job asked for is already there.
AlreadyReady(w) ==
    /\ AtLinked(w, "locked")
    /\ JobOf(w).type = "INDEX_DOCUMENT"
    /\ docs[DocOf(w)].status = "READY"
    /\ GoTo(w, "done")
    /\ UNCHANGED <<jobVars, docs, seen, index, lock, drops>>

\* A retry starts over from UPLOADED; its commit begins a new transaction.
ResetRetry(w) ==
    /\ AtLinked(w, "locked")
    /\ docs[DocOf(w)].status \in {"FAILED", "INDEXING"}
    /\ FencedSinceBegin(w)
    /\ SetDoc(DocOf(w), "UPLOADED")
    /\ BeginTransaction(w)
    /\ UNCHANGED <<seen, index, lock, proc, drops>>

\* IndexingService.index commits INDEXING before it reads the source.
StartIndexing(w) ==
    /\ AtLinked(w, "locked")
    /\ JobOf(w).type = "INDEX_DOCUMENT"
    /\ docs[DocOf(w)].status = "UPLOADED"
    /\ FencedSinceBegin(w)
    /\ SetDoc(DocOf(w), "INDEXING")
    /\ proc' = [proc EXCEPT ![w].step = "indexing",
                            ![w].old = docs[DocOf(w)].active]
    /\ UNCHANGED <<jobVars, seen, index, lock, drops>>

\* Faulty variant: the old revision is not deleted.
StartReplacing_NoRemoval(w) ==
    /\ AtLinked(w, "locked")
    /\ JobOf(w).type = "INDEX_DOCUMENT"
    /\ docs[DocOf(w)].status = "UPDATING"
    /\ JobOf(w).rev # docs[DocOf(w)].active
    /\ GoTo(w, "inserting")
    /\ UNCHANGED <<jobVars, docs, seen, index, lock, drops>>

\* _replace: the active revision is looked up now and deleted later.
StartReplacing(w) ==
    /\ AtLinked(w, "locked")
    /\ JobOf(w).type = "INDEX_DOCUMENT"
    /\ docs[DocOf(w)].status = "UPDATING"
    /\ JobOf(w).rev # docs[DocOf(w)].active
    /\ proc' = [proc EXCEPT ![w].step = "removing",
                            ![w].old = docs[DocOf(w)].active]
    /\ UNCHANGED <<jobVars, docs, seen, index, lock, drops>>

\* _delete.
StartDeleting(w) ==
    /\ AtLinked(w, "locked")
    /\ JobOf(w).type = "DELETE_DOCUMENT"
    /\ docs[DocOf(w)].status = "DELETING"
    /\ JobOf(w).rev = docs[DocOf(w)].active
    /\ proc' = [proc EXCEPT ![w].step = "deleting",
                            ![w].old = docs[DocOf(w)].active]
    /\ UNCHANGED <<jobVars, docs, seen, index, lock, drops>>

-----------------------------------------------------------------------------
(* Calls of LightRAG, which go on without the connection.                  *)

\* delete_indexed_document names no revision: it takes the number of the
\* active one, and has nothing to delete if that went in as a whole text.
RemoveOld(w) ==
    /\ At(w, "removing") \/ At(w, "deleting")
    /\ index' = index \ {Entry(DocOf(w), proc[w].old, proc[w].old)}
    /\ GoTo(w, IF proc[w].step = "removing" THEN "inserting" ELSE "removed")
    /\ UNCHANGED <<jobVars, docs, seen, lock, drops>>

\* insert_parsed_document.  Only a replacement names the revision; the first
\* one is inserted when no revision is active that could be named for it.
InsertNew(w) ==
    /\ At(w, "inserting") \/ At(w, "indexing")
    /\ index' = index \cup
         {Entry(DocOf(w), JobOf(w).rev,
                IF proc[w].step = "inserting" THEN JobOf(w).rev ELSE proc[w].old)}
    /\ GoTo(w, IF proc[w].step = "inserting" THEN "inserted" ELSE "indexed")
    /\ UNCHANGED <<jobVars, docs, seen, lock, drops>>

-----------------------------------------------------------------------------
(* Completion.                                                             *)

\* Faulty variant: READY is written before LightRAG has the document.
UpdateToReady_Early(w) ==
    /\ AtLinked(w, "indexing")
    /\ docs[DocOf(w)].status = "INDEXING"
    /\ Fenced(w)
    /\ GoTo(w, "readying")
    /\ UNCHANGED <<jobVars, docs, seen, index, lock, drops>>

\* transition_status_for_job INDEXING -> READY, in a transaction of its own.
\* It reads the job row without locking it, and commits later.
UpdateToReady(w) ==
    /\ AtLinked(w, "indexed")
    /\ docs[DocOf(w)].status = "INDEXING"
    /\ Fenced(w)
    /\ GoTo(w, "readying")
    /\ UNCHANGED <<jobVars, docs, seen, index, lock, drops>>

CommitReady(w) ==
    /\ AtLinked(w, "readying")
    /\ SetReady(DocOf(w), JobOf(w).rev)
    /\ GoTo(w, "done")
    /\ UNCHANGED <<jobVars, seen, index, lock, drops>>

\* Faulty variant: the job is completed without its document.
CompleteReplacement_JobOnly(w) ==
    /\ AtLinked(w, "inserted")
    /\ docs[DocOf(w)].status = "UPDATING"
    /\ CompleteInProcess(w)
    /\ GoTo(w, "done")
    /\ UNCHANGED <<docs, seen, index, lock, drops>>

\* complete_replacement_for_job and commit.
CompleteReplacement(w) ==
    /\ AtLinked(w, "inserted")
    /\ docs[DocOf(w)].status = "UPDATING"
    /\ CompleteInProcess(w)
    /\ SetReady(DocOf(w), JobOf(w).rev)
    /\ GoTo(w, "done")
    /\ UNCHANGED <<seen, index, lock, drops>>

\* Faulty variant: the job is completed by whoever processed it last.
CompleteDeletion_Unfenced(w) ==
    /\ AtLinked(w, "removed")
    /\ docs[DocOf(w)].status = "DELETING"
    /\ jobs' = [jobs EXCEPT ![task[w].job] = Released(@, "SUCCEEDED")]
    /\ SetDoc(DocOf(w), "DELETED")
    /\ GoTo(w, "done")
    /\ UNCHANGED <<pc, task, beating, stop, crashes, seen, index, lock, drops>>

\* complete_deletion_for_job and commit.
CompleteDeletion(w) ==
    /\ AtLinked(w, "removed")
    /\ docs[DocOf(w)].status = "DELETING"
    /\ docs[DocOf(w)].active = JobOf(w).rev
    /\ CompleteInProcess(w)
    /\ SetDoc(DocOf(w), "DELETED")
    /\ GoTo(w, "done")
    /\ UNCHANGED <<seen, index, lock, drops>>

-----------------------------------------------------------------------------
(* The end of processing: the connection is closed, the lock goes.         *)

\* Faulty variant: the connection goes back to a pool, lock and all.
Leave_KeepsLock(w) ==
    /\ UNCHANGED lock
    /\ proc' = [proc EXCEPT ![w] = Out]

Leave(w) ==
    /\ lock' = Unlocked(w)
    /\ proc' = [proc EXCEPT ![w] = Out]

\* _mark_failed of IndexingService, after an exception or a cancellation.
MarkFailed(w) ==
    IF /\ proc[w].linked
       /\ proc[w].step \in {"indexing", "indexed"}
       /\ docs[DocOf(w)].status = "INDEXING"
       /\ Fenced(w)
    THEN SetDoc(DocOf(w), "FAILED")
    ELSE UNCHANGED docs

Return(w) ==
    /\ At(w, "done")
    /\ Finish(w, "succeeding")
    /\ Leave(w)
    /\ UNCHANGED <<docs, seen, index, drops>>

\* Any call may raise, a refused fence does; what is not committed is undone.
Raise(w) ==
    /\ Finish(w, "failing")
    /\ MarkFailed(w)
    /\ Leave(w)
    /\ UNCHANGED <<seen, index, drops>>

\* The heartbeat raised: processing is cancelled wherever it is.
Cancel(w) ==
    /\ Abandon(w)
    /\ MarkFailed(w)
    /\ Leave(w)
    /\ UNCHANGED <<seen, index, drops>>

Die(w) ==
    /\ crashes + drops < MaxFaults
    /\ Crash(w)
    /\ Leave(w)
    /\ UNCHANGED <<docs, seen, index, drops>>

\* The session ends and its lock with it; the worker learns of it when it
\* next uses the connection.
DropConnection(w) ==
    /\ crashes + drops < MaxFaults
    /\ pc[w] = "working" /\ proc[w].linked
    /\ drops' = drops + 1
    /\ lock' = Unlocked(w)
    /\ proc' = [proc EXCEPT ![w].linked = FALSE]
    /\ UNCHANGED <<jobVars, docs, seen, index>>

-----------------------------------------------------------------------------
Request ==
    \E d \in Docs : \/ ReadDocument(d)
                    \/ \E c \in ContentsOf[d] : Upload(d, c) \/ Upsert(d, c)
                    \/ Delete(d)
                    \/ EndRequest(d)

Process(w) ==
    \/ Connect(w)
    \/ AcquireLock(w)
    \/ AlreadyReady(w)
    \/ ResetRetry(w)
    \/ StartIndexing(w)
    \/ StartReplacing(w)
    \/ StartDeleting(w)
    \/ RemoveOld(w)
    \/ InsertNew(w)
    \/ UpdateToReady(w)
    \/ CommitReady(w)
    \/ CompleteReplacement(w)
    \/ CompleteDeletion(w)

\* The rest of run_once.  A signal to stop does not reach processing, and
\* is left to JobQueue.
Loop(w) ==
    /\ \/ RecoverExpired(w)
       \/ ClaimNext(w)
       \/ ClaimNothing(w)
       \/ Succeed(w)
       \/ Fail(w)
    /\ UNCHANGED docVars

Environment(w) ==
    \/ Die(w)
    \/ DropConnection(w)
    \/ (Heartbeat(w) \/ LoseHeartbeat(w) \/ Restart(w)) /\ UNCHANGED docVars

WorkflowNext ==
    \/ Request
    \/ \E w \in Workers : \/ Process(w)
                          \/ Return(w)
                          \/ Raise(w)
                          \/ Cancel(w)
                          \/ Loop(w)
                          \/ Environment(w)
    \/ Tick /\ UNCHANGED docVars

WorkflowSpec == WorkflowInit /\ [][WorkflowNext]_vars

(***************************************************************************)
(* A live worker goes on: every call it makes returns or raises.  Only     *)
(* pg_advisory_lock may wait as long as another session has the lock.      *)
(***************************************************************************)
Blocked(w) == AtLinked(w, "waiting") /\ lock[DocOf(w)] # NoWorker

GoesOn(w) ==
    \/ Process(w)
    \/ Return(w)
    \/ Raise(w) /\ ~Blocked(w)
    \/ Cancel(w)
    \/ Loop(w)

WorkflowFairness ==
    /\ \A w \in Workers : /\ WF_vars(GoesOn(w))
                          /\ WF_vars(Restart(w) /\ UNCHANGED docVars)
    /\ WF_vars(Tick /\ UNCHANGED docVars)

FairWorkflowSpec == WorkflowSpec /\ WorkflowFairness

-----------------------------------------------------------------------------
(* Properties.                                                             *)

JobsOf(d) == {j \in DOMAIN jobs : jobs[j].doc = d}

\* What a revision is in LightRAG once it is active: source code as its
\* chunks, but the first revision as a whole text.
InsertedAs(d, r) == Entry(d, r, IF r = 1 THEN 0 ELSE r)

\* Ready, and so served by queries, only with its active revision in
\* LightRAG: the status follows the insertion and precedes any deletion.
\* Like the next two, it rests on the lock, which a lost connection ends.
ReadyIsIndexed ==
    drops = 0 => \A d \in Docs :
      docs[d].status = "READY" => InsertedAs(d, docs[d].active) \in index

\* Of the active revision of a deleted document and of the one before, LightRAG
\* has the chunks no longer if it is source code, and else the text no longer:
\* not by a replacement or a deletion that failed half way nor by an execution
\* that outlived its lease.  This is not said of the whole text that the first
\* revision of source code went in as, which stays (DeletionRemovesText of
\* CodeChunks), nor of older revisions (ReplacesWithNewest).
LastRevisionsDeleted ==
    drops = 0 => \A d \in Docs :
      docs[d].status = "DELETED"
      => \A r \in DOMAIN docs[d].revs :
           r + 1 >= docs[d].active => Entry(d, r, r) \notin index

\* An execution that is past pg_advisory_lock: as long as it is connected it
\* can write to PostgreSQL, and in any case go on calling LightRAG.
PastLock(w) == pc[w] = "working" /\ proc[w].step \notin {"out", "waiting"}

\* README.md:96 and ADR 0016: two executions never change a document or the
\* index for it at once, even when one has outlived its lease.  When
\* connections are lost, that much is true of those that are connected.
OneMutatorPerDocument ==
    \A v, w \in Workers :
      /\ v # w
      /\ PastLock(v) /\ (proc[v].linked \/ drops = 0)
      /\ PastLock(w) /\ (proc[w].linked \/ drops = 0)
      => DocOf(v) # DocOf(w)

\* A document on its way has a job of the right type and revision to take it
\* there, or that job used up its attempts (create_indexing and
\* create_deletion are committed with the status they serve).
PendingChangeHasJob ==
    \A d \in Docs :
      /\ docs[d].status \in {"UPLOADED", "INDEXING", "FAILED", "UPDATING"}
         => \E j \in JobsOf(d) :
              /\ jobs[j].type = "INDEX_DOCUMENT"
              /\ jobs[j].rev = Len(docs[d].revs)
              /\ jobs[j].rev > docs[d].active
              /\ jobs[j].status # "SUCCEEDED"
      /\ docs[d].status = "DELETING"
         => \E j \in JobsOf(d) :
              /\ jobs[j].type = "DELETE_DOCUMENT"
              /\ jobs[j].status # "SUCCEEDED"

\* process returns success for a READY document without comparing revisions
\* (worker/service.py:165).  It may: the only INDEX_DOCUMENT job that can
\* meet a READY document is the one for its active revision.
ReadyMeansThisRevision ==
    \A j \in DOMAIN jobs :
      /\ jobs[j].type = "INDEX_DOCUMENT"
      /\ jobs[j].status \in ActiveStatuses
      /\ docs[jobs[j].doc].status = "READY"
      => docs[jobs[j].doc].active = jobs[j].rev

\* A job is reported SUCCEEDED only when it has had its effect.
SuccessHadEffect ==
    \A j \in DOMAIN jobs :
      jobs[j].status = "SUCCEEDED"
      => IF jobs[j].type = "INDEX_DOCUMENT"
         THEN docs[jobs[j].doc].active >= jobs[j].rev
         ELSE docs[jobs[j].doc].status = "DELETED"

\* The revisions of a document, divided at the active one, follow what
\* backend/documents promises: repository.py:79 "immutable revision 1", :129
\* "Append the next revision", :254 "Atomically activate a replacement".
\* Neither a request that decides by an old read nor an execution that has
\* outlived its job activates, skips or rewrites another revision.
History == [d \in Docs |-> SubSeq(docs[d].revs, 1, docs[d].active)]
Coming == [d \in Docs |->
             SubSeq(docs[d].revs, docs[d].active + 1, Len(docs[d].revs))]
Phase == [d \in Docs |-> IF docs[d].status \in {"DELETING", "DELETED"}
                         THEN docs[d].status ELSE "PRESENT"]

Documents == INSTANCE DocumentLifecycle
               WITH TextsOf <- ContentsOf,
                    history <- History, coming <- Coming, phase <- Phase

FollowsDocumentLifecycle == Documents!Spec

\* The rows of jobs change as JobQueue says.
JobQueueSpec == Spec

\* A document on its way arrives, or its job used up its attempts.
DocumentsSettle ==
    \A d \in Docs :
      docs[d].status \in {"UPLOADED", "INDEXING", "UPDATING", "DELETING"}
      ~> \/ docs[d].status \in {"READY", "DELETED"}
         \/ \E j \in JobsOf(d) : jobs[j].status = "FAILED"

\* source_service.py:92: the job of a deletion is for the active revision, as
\* the worker demands of it (worker/service.py:323).
DeletesActiveRevision ==
    \A j \in DOMAIN jobs :
      jobs[j].type = "DELETE_DOCUMENT"
      => jobs[j].rev = docs[jobs[j].doc].active

\* ADR 0017, line 18: what takes the place of the active revision in LightRAG
\* is exactly the new revision, not one that has itself been replaced since.
ReplacesWithNewest ==
    \A w \in Workers :
      PastLock(w) /\ proc[w].step \in {"removing", "inserting"}
      => JobOf(w).rev = Len(docs[DocOf(w)].revs)
=============================================================================
