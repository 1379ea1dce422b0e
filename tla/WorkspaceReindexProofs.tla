----------------------- MODULE WorkspaceReindexProofs -----------------------
(***************************************************************************)
(* What WorkspaceReindex promises for any number of documents, workers,    *)
(* contracts and revisions.                                                *)
(***************************************************************************)
EXTENDS WorkspaceReindex, TLAPS

\* What the documents and the workers may be.
Rows == [status : {"ABSENT", "UPLOADED", "INDEXING", "READY", "UPDATING",
                   "DELETING", "DELETED"},
         active : 0 .. MaxRevision, newest : 0 .. MaxRevision, marked : BOOLEAN]

Procs == [step  : {"idle", "ensured", "removed", "inserted", "indexing",
                   "indexed", "done"},
          doc   : Docs \cup {NoDoc}, locks : BOOLEAN, marks : SUBSET Docs]

DocTables == [Docs -> Rows]

\* Steps with an open transaction that has locked the workspace row.
Locking == {"ensured", "removed", "inserted"}

\* A worker is on a document that has a job, and on it alone.
WorkersOnJobs ==
    /\ \A w \in Workers : proc[w].step # "idle"
                          => /\ proc[w].doc \in Docs
                             /\ job[proc[w].doc] # "none"
    /\ \A v, w \in Workers : /\ v # w
                             /\ proc[v].step # "idle" /\ proc[w].step # "idle"
                             => proc[v].doc # proc[w].doc

\* The row is locked from ensure_index_contract to the next commit, by one
\* worker.
LocksFollowSteps ==
    /\ \A w \in Workers : proc[w].locks <=> proc[w].step \in Locking
    /\ \A v, w \in Workers : proc[v].locks /\ proc[w].locks => v = w

\* What a worker has inserted is there as long as it is on the document.
StepFitsIndex(w) ==
    /\ proc[w].step \in {"indexing", "indexed"}
       => Job(w) = "INDEX" /\ docs[proc[w].doc].status = "INDEXING"
    /\ proc[w].step = "indexed" => Entry(w, docs[proc[w].doc].newest) \in indexed
    /\ proc[w].step = "inserted" /\ Job(w) = "INDEX"
       => Entry(w, docs[proc[w].doc].newest) \in indexed
    /\ proc[w].step = "inserted" /\ Job(w) = "REINDEX"
       => Entry(w, docs[proc[w].doc].active) \in indexed

StepsFitIndex == \A w \in Workers : StepFitsIndex(w)

\* Jobs are for documents that exist, and deletions for those being deleted.
JobsFitDocs ==
    \A d \in Docs :
      /\ job[d] # "none" => docs[d].status # "ABSENT"
      /\ job[d] = "DELETE" => docs[d].status = "DELETING"
      /\ docs[d].status # "ABSENT" => docs[d].newest # 0
      /\ docs[d].status = "READY" => docs[d].active # 0

\* The inductive invariant, whatever the contracts of the processes.
IndInv ==
    /\ TypeOK
    /\ WorkersOnJobs
    /\ LocksFollowSteps
    /\ StepsFitIndex
    /\ JobsFitDocs
    /\ ReindexFindsDocument

-----------------------------------------------------------------------------
\* Marking changes nothing but marks.
LEMMA MarkKeepsDocs ==
  \A ds \in DocTables, marks \in SUBSET Docs, d \in Docs :
    /\ Mark(ds, marks)[d] \in Rows
    /\ Mark(ds, marks)[d].status = ds[d].status
    /\ Mark(ds, marks)[d].active = ds[d].active
    /\ Mark(ds, marks)[d].newest = ds[d].newest
    /\ Mark(ds, marks)[d].marked <=> ds[d].marked \/ d \in marks
<1> TAKE ds \in DocTables, marks \in SUBSET Docs, d \in Docs
<1>1. ds[d] \in Rows
  BY DEF DocTables
<1>2. Mark(ds, marks)[d] = IF d \in marks THEN [ds[d] EXCEPT !.marked = TRUE]
                                          ELSE ds[d]
  BY DEF Mark
<1> QED BY <1>1, <1>2 DEF Rows

\* The marked documents are documents.
LEMMA MarkKeepsRows ==
  \A ds \in DocTables, marks \in SUBSET Docs : Mark(ds, marks) \in DocTables
BY MarkKeepsDocs DEF Mark, DocTables

\* A step of an execution leaves the workers' variables of their types.
LEMMA ProcTyped ==
  ASSUME TypeOK, NEW w \in Workers,
         NEW s \in {"idle", "ensured", "removed", "inserted", "indexing",
                    "indexed", "done"},
         GoTo(w, s)
  PROVE  proc' \in [Workers -> Procs]
<1>1. proc \in [Workers -> Procs]
  BY DEF TypeOK, Procs
<1>2. [proc[w] EXCEPT !.step = s] \in Procs
  BY <1>1 DEF Procs
<1>3. proc' = [proc EXCEPT ![w] = [proc[w] EXCEPT !.step = s]]
  BY DEF GoTo
<1> QED
  BY <1>1, <1>2, <1>3

\* Upload keeps the invariant.
LEMMA UploadKeeps ==
  ASSUME IndInv, NEW d \in Docs, Upload(d)
  PROVE  IndInv'
<1> USE ReindexAssumption DEF IndInv, TypeOK, ReindexAssumption, Upload, Request
<1>1. TypeOK'
  <2>1. docs' \in [Docs -> Rows]
    <3>1. 1 \in 0 .. MaxRevision
      OBVIOUS
    <3>2. docs[d] \in Rows
      BY DEF Rows
    <3>3. [docs[d] EXCEPT !.status = "UPLOADED", !.newest = 1] \in Rows
      BY <3>1, <3>2 DEF Rows
    <3> QED BY <3>3 DEF Rows
  <2>2. proc' \in [Workers -> Procs]
    BY DEF Procs, WorkersOnJobs
  <2>3. indexed' \subseteq Contracts \X Docs \X (1 .. MaxRevision)
    OBVIOUS
  <2>4. /\ contract' \in Contracts
        /\ job' \in [Docs -> {"none", "INDEX", "REINDEX", "DELETE"}]
    BY DEF WorkersOnJobs
  <2> QED BY <2>1, <2>2, <2>3, <2>4 DEF Rows, Procs
<1>2. WorkersOnJobs'
  BY DEF WorkersOnJobs
<1>3. LocksFollowSteps'
  BY DEF LocksFollowSteps, Locking, RowLocked
<1>4. StepsFitIndex'
  BY DEF StepsFitIndex, StepFitsIndex, WorkersOnJobs, Job, Entry
<1>5. JobsFitDocs'
  BY DEF JobsFitDocs, WorkersOnJobs, Job, StepsFitIndex, StepFitsIndex
<1>6. ReindexFindsDocument'
  BY DEF ReindexFindsDocument, WorkersOnJobs, Job, StepsFitIndex, StepFitsIndex,
     Reindexable, Mark
<1> QED BY <1>1, <1>2, <1>3, <1>4, <1>5, <1>6

\* Upsert keeps the invariant.
LEMMA UpsertKeeps ==
  ASSUME IndInv, NEW d \in Docs, Upsert(d)
  PROVE  IndInv'
<1> USE ReindexAssumption DEF IndInv, TypeOK, ReindexAssumption, Upsert, Request
<1>1. TypeOK'
  <2>1. docs' \in [Docs -> Rows]
    <3>1. docs[d] \in Rows
      BY DEF Rows
    <3>2. docs[d].newest + 1 \in 0 .. MaxRevision
      BY <3>1 DEF Rows
    <3>3. PICK n \in 0 .. MaxRevision : n = docs[d].newest + 1
      BY <3>2
    <3>4. [docs[d] EXCEPT !.status = "UPDATING", !.newest = n] \in Rows
      BY <3>1 DEF Rows
    <3>5. docs' = [docs EXCEPT ![d] = [docs[d] EXCEPT !.status = "UPDATING",
                                                     !.newest = n]]
      BY <3>3
    <3>6. docs \in [Docs -> Rows]
      BY DEF Rows
    <3> HIDE DEF TypeOK, Upsert, Request
    <3> QED BY <3>4, <3>5, <3>6
  <2>2. proc' \in [Workers -> Procs]
    BY DEF Procs, WorkersOnJobs
  <2>3. indexed' \subseteq Contracts \X Docs \X (1 .. MaxRevision)
    OBVIOUS
  <2>4. /\ contract' \in Contracts
        /\ job' \in [Docs -> {"none", "INDEX", "REINDEX", "DELETE"}]
    BY DEF WorkersOnJobs
  <2> QED BY <2>1, <2>2, <2>3, <2>4 DEF Rows, Procs
<1>2. WorkersOnJobs'
  BY DEF WorkersOnJobs
<1>3. LocksFollowSteps'
  BY DEF LocksFollowSteps, Locking, RowLocked
<1>4. StepsFitIndex'
  BY DEF StepsFitIndex, StepFitsIndex, WorkersOnJobs, Job, Entry
<1>5. JobsFitDocs'
  BY DEF JobsFitDocs, WorkersOnJobs, Job, StepsFitIndex, StepFitsIndex
<1>6. ReindexFindsDocument'
  BY DEF ReindexFindsDocument, WorkersOnJobs, Job, StepsFitIndex, StepFitsIndex,
     Reindexable, Mark
<1> QED BY <1>1, <1>2, <1>3, <1>4, <1>5, <1>6

\* Delete keeps the invariant.
LEMMA DeleteKeeps ==
  ASSUME IndInv, NEW d \in Docs, Delete(d)
  PROVE  IndInv'
<1> USE ReindexAssumption DEF IndInv, TypeOK, ReindexAssumption, Delete, Request
<1>1. TypeOK'
  BY DEF WorkersOnJobs
<1>2. WorkersOnJobs'
  BY DEF WorkersOnJobs
<1>3. LocksFollowSteps'
  BY DEF LocksFollowSteps, Locking, RowLocked
<1>4. StepsFitIndex'
  BY DEF StepsFitIndex, StepFitsIndex, WorkersOnJobs, Job, Entry
<1>5. JobsFitDocs'
  BY DEF JobsFitDocs, WorkersOnJobs, Job, StepsFitIndex, StepFitsIndex
<1>6. ReindexFindsDocument'
  BY DEF ReindexFindsDocument, WorkersOnJobs, Job, StepsFitIndex, StepFitsIndex,
     Reindexable, Mark
<1> QED BY <1>1, <1>2, <1>3, <1>4, <1>5, <1>6

\* Enqueue keeps the invariant.
LEMMA EnqueueKeeps ==
  ASSUME IndInv, NEW c \in ApiContracts, Enqueue(c)
  PROVE  IndInv'
<1> USE ReindexAssumption DEF IndInv, TypeOK, ReindexAssumption, Enqueue, Mark,
                              Outdated, RowLocked, Reindexable
<1>1. TypeOK'
  <2>1. docs \in DocTables /\ Outdated(c) \in SUBSET Docs
    BY DEF DocTables, Rows
  <2>2. docs' \in DocTables
    <3>1. docs' = Mark(docs, Outdated(c))
      OBVIOUS
    <3> HIDE DEF TypeOK, Enqueue, Mark, Outdated
    <3> QED
      BY <2>1, <3>1, MarkKeepsRows
  <2>3. /\ contract' \in Contracts
        /\ job' \in [Docs -> {"none", "INDEX", "REINDEX", "DELETE"}]
        /\ proc' = proc /\ indexed' = indexed
    OBVIOUS
  <2> QED
    BY <2>2, <2>3 DEF DocTables, Rows
<1>2. WorkersOnJobs'
  BY DEF WorkersOnJobs
<1>3. LocksFollowSteps'
  BY DEF LocksFollowSteps, Locking
<1>4. StepsFitIndex'
  BY DEF StepsFitIndex, StepFitsIndex, WorkersOnJobs, Job, Entry
<1>5. JobsFitDocs'
  BY DEF JobsFitDocs, WorkersOnJobs, Job, StepsFitIndex, StepFitsIndex
<1>6. ReindexFindsDocument'
  BY DEF ReindexFindsDocument, WorkersOnJobs, Job, StepsFitIndex, StepFitsIndex
<1> QED BY <1>1, <1>2, <1>3, <1>4, <1>5, <1>6

\* Take puts w on d, which no other worker is on: with the row locked, unless
\* a retried job finds its document READY.
LEMMA TakeStep ==
  ASSUME TypeOK, NEW w \in Workers, NEW d \in Docs, Take(w, d)
  PROVE  /\ proc'[w].step \in {"done", "ensured"} /\ proc'[w].doc = d
         /\ proc'[w].locks <=> proc'[w].step = "ensured"
         /\ proc'[w].locks => ~RowLocked
         /\ \A v \in Workers \ {w} : proc'[v] = proc[v] /\ proc[v].doc # d
<1>1. proc \in [Workers -> Procs]
  BY DEF TypeOK, Procs
<1>2. \A v \in Workers \ {w} : proc[v].doc # d
  BY DEF Take, Free
<1>3. CASE job[d] = "INDEX" /\ docs[d].status = "READY"
  <2> DEFINE p == [Idle EXCEPT !.step = "done", !.doc = d]
  <2>1. p.step = "done" /\ p.doc = d /\ p.locks = FALSE
    BY DEF Idle
  <2>2. proc' = [proc EXCEPT ![w] = p]
    BY <1>3 DEF Take
  <2> HIDE DEF p
  <2>3. proc'[w] = p
    BY <1>1, <2>2
  <2>4. \A v \in Workers \ {w} : proc'[v] = proc[v]
    BY <1>1, <2>2
  <2> QED
    BY <1>2, <2>1, <2>3, <2>4
<1>4. CASE ~(job[d] = "INDEX" /\ docs[d].status = "READY")
  <2> DEFINE p == [step |-> "ensured", doc |-> d, locks |-> TRUE,
                   marks |-> Outdated(ConfigOf[w])]
  <2>1. ~RowLocked /\ proc' = [proc EXCEPT ![w] = p]
    BY <1>4 DEF Take
  <2>2. proc'[w] = p
    BY <1>1, <2>1
  <2>3. \A v \in Workers \ {w} : proc'[v] = proc[v]
    BY <1>1, <2>1
  <2> QED
    BY <1>2, <2>1, <2>2, <2>3
<1> QED
  BY <1>3, <1>4

\* Take keeps the invariant.
LEMMA TakeKeeps ==
  ASSUME IndInv, NEW w \in Workers, NEW d \in Docs, Take(w, d)
  PROVE  IndInv'
<1> USE ReindexAssumption DEF IndInv, TypeOK, ReindexAssumption, Take, Free,
                              RowLocked, Idle, Outdated
<1>1. TypeOK'
  <2>1. docs' \in [Docs -> Rows]
    BY DEF Rows
  <2>2. proc' \in [Workers -> Procs]
    <3>1. [Idle EXCEPT !.step = "done", !.doc = d] \in Procs
      BY DEF Procs
    <3>2. \A m \in SUBSET Docs :
             [step |-> "ensured", doc |-> d, locks |-> TRUE, marks |-> m] \in Procs
      BY DEF Procs
    <3>3. Outdated(ConfigOf[w]) \in SUBSET Docs
      OBVIOUS
    <3> HIDE DEF TypeOK
    <3>4. proc \in [Workers -> Procs]
      BY DEF TypeOK, Procs
    <3> QED BY <3>1, <3>2, <3>3, <3>4
  <2>3. indexed' \subseteq Contracts \X Docs \X (1 .. MaxRevision)
    OBVIOUS
  <2>4. /\ contract' \in Contracts
        /\ job' \in [Docs -> {"none", "INDEX", "REINDEX", "DELETE"}]
    BY DEF WorkersOnJobs
  <2> QED BY <2>1, <2>2, <2>3, <2>4 DEF Rows, Procs
<1>2. WorkersOnJobs'
  <2>1. proc'[w].step \in {"done", "ensured"} /\ proc'[w].doc = d
        /\ (proc'[w].locks <=> proc'[w].step = "ensured")
        /\ (proc'[w].locks => ~RowLocked)
    BY TakeStep
  <2>2. \A v \in Workers \ {w} : proc'[v] = proc[v] /\ proc[v].doc # d
    BY TakeStep
  <2>5. job' = job /\ indexed' = indexed /\ job[d] # "none"
    OBVIOUS
  <2> HIDE DEF Take, TypeOK
  <2> QED BY <2>1, <2>2, <2>5 DEF WorkersOnJobs
<1>3. LocksFollowSteps'
  <2>1. proc'[w].step \in {"done", "ensured"} /\ proc'[w].doc = d
        /\ (proc'[w].locks <=> proc'[w].step = "ensured")
        /\ (proc'[w].locks => ~RowLocked)
    BY TakeStep
  <2>2. \A v \in Workers \ {w} : proc'[v] = proc[v] /\ proc[v].doc # d
    BY TakeStep
  <2>5. job' = job /\ indexed' = indexed /\ job[d] # "none"
    OBVIOUS
  <2> HIDE DEF Take, TypeOK
  <2> QED BY <2>1, <2>2, <2>5 DEF LocksFollowSteps, Locking
<1>4. StepsFitIndex'
  <2>1. proc'[w].step \in {"done", "ensured"} /\ proc'[w].doc = d
        /\ (proc'[w].locks <=> proc'[w].step = "ensured")
        /\ (proc'[w].locks => ~RowLocked)
    BY TakeStep
  <2>2. \A v \in Workers \ {w} : proc'[v] = proc[v] /\ proc[v].doc # d
    BY TakeStep
  <2>3. \A e \in Docs : /\ docs'[e].newest = docs[e].newest
                        /\ docs'[e].active = docs[e].active
                        /\ e # d => docs'[e] = docs[e]
    OBVIOUS
  <2>5. job' = job /\ indexed' = indexed /\ job[d] # "none"
    OBVIOUS
  <2> HIDE DEF Take, TypeOK
  <2> QED BY <2>1, <2>2, <2>3, <2>5 DEF StepsFitIndex, StepFitsIndex,
             WorkersOnJobs, Job, Entry
<1>5. JobsFitDocs'
  BY DEF JobsFitDocs, WorkersOnJobs, Job, StepsFitIndex, StepFitsIndex
<1>6. ReindexFindsDocument'
  BY DEF ReindexFindsDocument, WorkersOnJobs, Job, StepsFitIndex, StepFitsIndex,
     Reindexable, Mark
<1> QED BY <1>1, <1>2, <1>3, <1>4, <1>5, <1>6

\* StartIndexing keeps the invariant.
LEMMA StartIndexingKeeps ==
  ASSUME IndInv, NEW w \in Workers, StartIndexing(w)
  PROVE  IndInv'
<1> USE ReindexAssumption DEF IndInv, TypeOK, ReindexAssumption, StartIndexing,
                              CommitDoc, At, Job, Mark
<1>1. TypeOK'
  <2>1. docs' \in [Docs -> Rows]
    <3>1. docs[proc[w].doc] \in Rows /\ proc[w].doc \in Docs
      BY DEF Rows, WorkersOnJobs
    <3>2. [docs[proc[w].doc] EXCEPT !.status = "INDEXING"] \in Rows
      BY <3>1 DEF Rows
    <3> HIDE DEF Mark
    <3>3. Mark(docs, proc[w].marks) \in [Docs -> Rows]
      BY MarkKeepsRows DEF Rows, DocTables
    <3> QED BY <3>1, <3>2, <3>3 DEF Rows
  <2>2. proc' \in [Workers -> Procs]
    BY DEF Procs, WorkersOnJobs
  <2>3. indexed' \subseteq Contracts \X Docs \X (1 .. MaxRevision)
    OBVIOUS
  <2>4. /\ contract' \in Contracts
        /\ job' \in [Docs -> {"none", "INDEX", "REINDEX", "DELETE"}]
    BY DEF WorkersOnJobs
  <2> QED BY <2>1, <2>2, <2>3, <2>4 DEF Rows, Procs
<1>2. WorkersOnJobs'
  BY DEF WorkersOnJobs
<1>3. LocksFollowSteps'
  BY DEF LocksFollowSteps, Locking, RowLocked
<1>4. StepsFitIndex'
  <2>1. proc[w].doc \in Docs
    BY DEF WorkersOnJobs
  <2> HIDE DEF Mark
  <2>2. \A e \in Docs \ {proc[w].doc} :
          /\ docs'[e].status = docs[e].status
          /\ docs'[e].newest = docs[e].newest
          /\ docs'[e].active = docs[e].active
    <3> DEFINE M == Mark(docs, proc[w].marks)
    <3>1. docs \in DocTables /\ proc[w].marks \in SUBSET Docs
      BY DEF Rows, DocTables
    <3>2. M \in DocTables
          /\ \A e \in Docs : /\ M[e].status = docs[e].status
                             /\ M[e].newest = docs[e].newest
                             /\ M[e].active = docs[e].active
      <4> HIDE DEF TypeOK, IndInv, StartIndexing, CommitDoc
      <4> QED BY <3>1, MarkKeepsRows, MarkKeepsDocs
    <3> HIDE DEF M
    <3>3. \A e \in Docs \ {proc[w].doc} : docs'[e] = M[e]
      BY <2>1, <3>2 DEF M, DocTables
    <3> QED BY <3>2, <3>3
  <2>3. \A v \in Workers \ {w} : proc'[v] = proc[v]
    OBVIOUS
  <2>4. \A e \in Docs \ {proc[w].doc} : job'[e] = job[e]
    BY <2>1
  <2>5. /\ proc'[w].step = "indexing"
        /\ proc'[w].doc = proc[w].doc
        /\ indexed' = indexed
    OBVIOUS
  <2>6. \A v \in Workers \ {w} :
          proc[v].step # "idle" => proc[v].doc \in Docs \ {proc[w].doc}
    BY DEF WorkersOnJobs
  <2> HIDE DEF StartIndexing, CommitDoc, TypeOK
  <2>8. StepFitsIndex(w)'
    <3>1. docs'[proc[w].doc].status = "INDEXING" /\ Job(w)' = "INDEX"
      BY <2>1, <2>5, MarkKeepsRows, MarkKeepsDocs DEF StartIndexing, CommitDoc,
         Job, TypeOK, Rows, DocTables
    <3> QED BY <3>1, <2>5 DEF StepFitsIndex
  <2>7. SUFFICES ASSUME NEW v \in Workers \ {w}, proc[v].step # "idle"
                 PROVE  StepFitsIndex(v)'
    BY <2>3, <2>5, <2>8 DEF StepsFitIndex, StepFitsIndex
  <2> QED BY SMTT(30), <2>2, <2>3, <2>4, <2>5, <2>6 DEF StepsFitIndex, StepFitsIndex, Job,
             Entry
<1>5. JobsFitDocs'
  BY DEF JobsFitDocs, WorkersOnJobs, StepsFitIndex, StepFitsIndex
<1>6. ReindexFindsDocument'
  BY DEF ReindexFindsDocument, WorkersOnJobs, StepsFitIndex, StepFitsIndex,
     Reindexable
<1> QED BY <1>1, <1>2, <1>3, <1>4, <1>5, <1>6

\* InsertFirst keeps the invariant.
LEMMA InsertFirstKeeps ==
  ASSUME IndInv, NEW w \in Workers, InsertFirst(w)
  PROVE  IndInv'
<1> USE ReindexAssumption DEF IndInv, TypeOK, ReindexAssumption, InsertFirst,
                              At, GoTo, Entry
<1>1. TypeOK'
  <2>1. docs' \in [Docs -> Rows]
    BY DEF Rows
  <2>2. proc' \in [Workers -> Procs]
    BY ProcTyped
  <2>3. indexed' \subseteq Contracts \X Docs \X (1 .. MaxRevision)
    <3>1. proc[w].doc \in Docs /\ docs[proc[w].doc] \in Rows
      BY DEF WorkersOnJobs, Rows
    <3>2. docs[proc[w].doc].newest \in 1 .. MaxRevision
      BY <3>1 DEF JobsFitDocs, StepsFitIndex, StepFitsIndex, WorkersOnJobs,
         ReindexFindsDocument, Rows, Job
    <3>3. ConfigOf[w] \in Contracts
      OBVIOUS
    <3> HIDE DEF TypeOK
    <3>4. indexed \subseteq Contracts \X Docs \X (1 .. MaxRevision)
      BY DEF TypeOK
    <3> QED BY <3>1, <3>2, <3>3, <3>4
  <2>4. /\ contract' \in Contracts
        /\ job' \in [Docs -> {"none", "INDEX", "REINDEX", "DELETE"}]
    BY DEF WorkersOnJobs
  <2> QED BY <2>1, <2>2, <2>3, <2>4 DEF Rows, Procs
<1>2. WorkersOnJobs'
  BY DEF WorkersOnJobs
<1>3. LocksFollowSteps'
  BY DEF LocksFollowSteps, Locking, RowLocked
<1>4. StepsFitIndex'
  BY DEF StepsFitIndex, StepFitsIndex, WorkersOnJobs, Job
<1>5. JobsFitDocs'
  BY DEF JobsFitDocs, WorkersOnJobs, Job, StepsFitIndex, StepFitsIndex
<1>6. ReindexFindsDocument'
  BY DEF ReindexFindsDocument, WorkersOnJobs, Job, StepsFitIndex, StepFitsIndex,
     Reindexable, Mark
<1> QED BY <1>1, <1>2, <1>3, <1>4, <1>5, <1>6

\* A revision made active leaves a row.
LEMMA ReadyRow ==
  ASSUME NEW r \in Rows
  PROVE  [r EXCEPT !.status = "READY", !.active = r.newest] \in Rows
BY DEF Rows

\* BecomeReady keeps the invariant.
LEMMA BecomeReadyKeeps ==
  ASSUME IndInv, NEW w \in Workers, BecomeReady(w)
  PROVE  IndInv'
<1> USE ReindexAssumption DEF IndInv, TypeOK, ReindexAssumption, BecomeReady,
                              At, GoTo
<1>1. TypeOK'
  <2>1. proc[w].doc \in Docs
    BY DEF WorkersOnJobs
  <2>2. docs' \in [Docs -> Rows]
    <3> DEFINE d == proc[w].doc
               row == [docs[d] EXCEPT !.status = "READY",
                                      !.active = docs[d].newest]
    <3>1. docs \in [Docs -> Rows] /\ d \in Docs
      BY <2>1 DEF Rows
    <3>2. docs' = [docs EXCEPT ![d] = row]
      BY <3>1
    <3>3. row \in Rows
      BY <3>1, ReadyRow
    <3> HIDE DEF d, row, TypeOK, BecomeReady
    <3> QED
      BY <3>1, <3>2, <3>3
  <2>3. proc' \in [Workers -> Procs]
    BY ProcTyped
  <2> QED
    BY <2>2, <2>3 DEF Rows, Procs
<1>2. WorkersOnJobs'
  BY DEF WorkersOnJobs
<1>3. LocksFollowSteps'
  BY DEF LocksFollowSteps, Locking, RowLocked
<1>4. StepsFitIndex'
  BY DEF StepsFitIndex, StepFitsIndex, WorkersOnJobs, Job, Entry
<1>5. JobsFitDocs'
  BY DEF JobsFitDocs, WorkersOnJobs, Job, StepsFitIndex, StepFitsIndex
<1>6. ReindexFindsDocument'
  BY DEF ReindexFindsDocument, WorkersOnJobs, Job, StepsFitIndex, StepFitsIndex,
     Reindexable, Mark
<1> QED BY <1>1, <1>2, <1>3, <1>4, <1>5, <1>6

\* RemoveActive keeps the invariant.
LEMMA RemoveActiveKeeps ==
  ASSUME IndInv, NEW w \in Workers, RemoveActive(w)
  PROVE  IndInv'
<1> USE ReindexAssumption DEF IndInv, TypeOK, ReindexAssumption, RemoveActive,
                              At, GoTo, Job, Entry
<1>1. TypeOK'
  BY DEF WorkersOnJobs
<1>2. WorkersOnJobs'
  BY DEF WorkersOnJobs
<1>3. LocksFollowSteps'
  BY DEF LocksFollowSteps, Locking, RowLocked
<1>4. StepsFitIndex'
  BY DEF StepsFitIndex, StepFitsIndex, WorkersOnJobs
<1>5. JobsFitDocs'
  BY DEF JobsFitDocs, WorkersOnJobs, StepsFitIndex, StepFitsIndex
<1>6. ReindexFindsDocument'
  BY DEF ReindexFindsDocument, WorkersOnJobs, StepsFitIndex, StepFitsIndex,
     Reindexable, Mark
<1> QED BY <1>1, <1>2, <1>3, <1>4, <1>5, <1>6

\* Insert keeps the invariant.
LEMMA InsertKeeps ==
  ASSUME IndInv, NEW w \in Workers, Insert(w)
  PROVE  IndInv'
<1> USE ReindexAssumption DEF IndInv, TypeOK, ReindexAssumption, Insert, At,
                              GoTo, Job, Entry
<1>1. TypeOK'
  <2>1. docs' \in [Docs -> Rows]
    BY DEF Rows
  <2>2. proc' \in [Workers -> Procs]
    BY DEF Procs, WorkersOnJobs
  <2>3. indexed' \subseteq Contracts \X Docs \X (1 .. MaxRevision)
    <3>1. proc[w].doc \in Docs /\ docs[proc[w].doc] \in Rows
      BY DEF WorkersOnJobs, Rows
    <3>2. /\ docs[proc[w].doc].newest \in 1 .. MaxRevision
          /\ Job(w) # "INDEX" => docs[proc[w].doc].active \in 1 .. MaxRevision
      BY <3>1 DEF JobsFitDocs, StepsFitIndex, StepFitsIndex, WorkersOnJobs,
         ReindexFindsDocument, Rows
    <3>3. ConfigOf[w] \in Contracts
      OBVIOUS
    <3> HIDE DEF TypeOK
    <3>4. indexed \subseteq Contracts \X Docs \X (1 .. MaxRevision)
      BY DEF TypeOK
    <3> QED BY <3>1, <3>2, <3>3, <3>4
  <2>4. /\ contract' \in Contracts
        /\ job' \in [Docs -> {"none", "INDEX", "REINDEX", "DELETE"}]
    BY DEF WorkersOnJobs
  <2> QED BY <2>1, <2>2, <2>3, <2>4 DEF Rows, Procs
<1>2. WorkersOnJobs'
  BY DEF WorkersOnJobs
<1>3. LocksFollowSteps'
  BY DEF LocksFollowSteps, Locking, RowLocked
<1>4. StepsFitIndex'
  BY DEF StepsFitIndex, StepFitsIndex, WorkersOnJobs
<1>5. JobsFitDocs'
  BY DEF JobsFitDocs, WorkersOnJobs, StepsFitIndex, StepFitsIndex
<1>6. ReindexFindsDocument'
  BY DEF ReindexFindsDocument, WorkersOnJobs, StepsFitIndex, StepFitsIndex,
     Reindexable, Mark
<1> QED BY <1>1, <1>2, <1>3, <1>4, <1>5, <1>6

\* CompleteReplacement keeps the invariant.
LEMMA CompleteReplacementKeeps ==
  ASSUME IndInv, NEW w \in Workers, CompleteReplacement(w)
  PROVE  IndInv'
<1> USE ReindexAssumption DEF IndInv, TypeOK, ReindexAssumption,
                              CompleteReplacement, Complete, CommitDoc, At, Job,
                              Mark, Idle
<1>1. TypeOK'
  <2>1. docs' \in [Docs -> Rows]
    <3>1. docs[proc[w].doc] \in Rows /\ proc[w].doc \in Docs
      BY DEF Rows, WorkersOnJobs
    <3>2. [docs[proc[w].doc] EXCEPT
                      !.status = "READY", !.marked = FALSE,
                      !.active = docs[proc[w].doc].newest] \in Rows
      BY <3>1 DEF Rows
    <3> HIDE DEF Mark
    <3>3. Mark(docs, proc[w].marks) \in [Docs -> Rows]
      BY MarkKeepsRows DEF Rows, DocTables
    <3> QED BY <3>1, <3>2, <3>3 DEF Rows
  <2>2. proc' \in [Workers -> Procs]
    BY DEF Procs, WorkersOnJobs
  <2>3. indexed' \subseteq Contracts \X Docs \X (1 .. MaxRevision)
    OBVIOUS
  <2>4. /\ contract' \in Contracts
        /\ job' \in [Docs -> {"none", "INDEX", "REINDEX", "DELETE"}]
    BY DEF WorkersOnJobs
  <2> QED BY <2>1, <2>2, <2>3, <2>4 DEF Rows, Procs
<1>2. WorkersOnJobs'
  BY DEF WorkersOnJobs
<1>3. LocksFollowSteps'
  BY DEF LocksFollowSteps, Locking, RowLocked
<1>4. StepsFitIndex'
  <2>1. proc[w].doc \in Docs
    BY DEF WorkersOnJobs
  <2> HIDE DEF Mark
  <2>2. \A e \in Docs \ {proc[w].doc} :
          /\ docs'[e].status = docs[e].status
          /\ docs'[e].newest = docs[e].newest
          /\ docs'[e].active = docs[e].active
    <3> DEFINE M == Mark(docs, proc[w].marks)
    <3>1. docs \in DocTables /\ proc[w].marks \in SUBSET Docs
      BY DEF Rows, DocTables
    <3>2. M \in DocTables
          /\ \A e \in Docs : /\ M[e].status = docs[e].status
                             /\ M[e].newest = docs[e].newest
                             /\ M[e].active = docs[e].active
      <4> HIDE DEF TypeOK, IndInv, CompleteReplacement, Complete, CommitDoc
      <4> QED BY <3>1, MarkKeepsRows, MarkKeepsDocs
    <3> HIDE DEF M
    <3>3. \A e \in Docs \ {proc[w].doc} : docs'[e] = M[e]
      BY <2>1, <3>2 DEF M, DocTables
    <3> QED BY <3>2, <3>3
  <2>3. \A v \in Workers \ {w} : proc'[v] = proc[v]
    OBVIOUS
  <2>4. \A e \in Docs \ {proc[w].doc} : job'[e] = job[e]
    BY <2>1
  <2>5. proc'[w].step = "idle" /\ indexed' = indexed
    OBVIOUS
  <2>6. \A v \in Workers \ {w} :
          proc[v].step # "idle" => proc[v].doc \in Docs \ {proc[w].doc}
    BY DEF WorkersOnJobs
  <2> HIDE DEF CompleteReplacement, Complete, CommitDoc, TypeOK
  <2>7. SUFFICES ASSUME NEW v \in Workers \ {w}, proc[v].step # "idle"
                 PROVE  StepFitsIndex(v)'
    BY <2>3, <2>5 DEF StepsFitIndex, StepFitsIndex
  <2> QED BY SMTT(30), <2>2, <2>3, <2>4, <2>5, <2>6 DEF StepsFitIndex, StepFitsIndex, Job,
             Entry
<1>5. JobsFitDocs'
  BY DEF JobsFitDocs, WorkersOnJobs, StepsFitIndex, StepFitsIndex
<1>6. ReindexFindsDocument'
  BY DEF ReindexFindsDocument, WorkersOnJobs, StepsFitIndex, StepFitsIndex,
     Reindexable
<1> QED BY <1>1, <1>2, <1>3, <1>4, <1>5, <1>6

\* CompleteDeletion keeps the invariant.
LEMMA CompleteDeletionKeeps ==
  ASSUME IndInv, NEW w \in Workers, CompleteDeletion(w)
  PROVE  IndInv'
<1> USE ReindexAssumption DEF IndInv, TypeOK, ReindexAssumption,
                              CompleteDeletion, Complete, CommitDoc, At, Job,
                              Mark, Idle
<1>1. TypeOK'
  <2>1. docs' \in [Docs -> Rows]
    <3>1. docs[proc[w].doc] \in Rows /\ proc[w].doc \in Docs
      BY DEF Rows, WorkersOnJobs
    <3>2. [docs[proc[w].doc] EXCEPT
                      !.status = "DELETED",
                      !.marked = 1 \/ proc[w].doc \in proc[w].marks] \in Rows
      BY <3>1 DEF Rows
    <3> HIDE DEF Mark
    <3>3. Mark(docs, proc[w].marks) \in [Docs -> Rows]
      BY MarkKeepsRows DEF Rows, DocTables
    <3> QED BY <3>1, <3>2, <3>3 DEF Rows
  <2>2. proc' \in [Workers -> Procs]
    BY DEF Procs, WorkersOnJobs
  <2>3. indexed' \subseteq Contracts \X Docs \X (1 .. MaxRevision)
    OBVIOUS
  <2>4. /\ contract' \in Contracts
        /\ job' \in [Docs -> {"none", "INDEX", "REINDEX", "DELETE"}]
    BY DEF WorkersOnJobs
  <2> QED BY <2>1, <2>2, <2>3, <2>4 DEF Rows, Procs
<1>2. WorkersOnJobs'
  BY DEF WorkersOnJobs
<1>3. LocksFollowSteps'
  BY DEF LocksFollowSteps, Locking, RowLocked
<1>4. StepsFitIndex'
  <2>1. proc[w].doc \in Docs
    BY DEF WorkersOnJobs
  <2> HIDE DEF Mark
  <2>2. \A e \in Docs \ {proc[w].doc} :
          /\ docs'[e].status = docs[e].status
          /\ docs'[e].newest = docs[e].newest
          /\ docs'[e].active = docs[e].active
    <3> DEFINE M == Mark(docs, proc[w].marks)
    <3>1. docs \in DocTables /\ proc[w].marks \in SUBSET Docs
      BY DEF Rows, DocTables
    <3>2. M \in DocTables
          /\ \A e \in Docs : /\ M[e].status = docs[e].status
                             /\ M[e].newest = docs[e].newest
                             /\ M[e].active = docs[e].active
      <4> HIDE DEF TypeOK, IndInv, CompleteDeletion, Complete, CommitDoc
      <4> QED BY <3>1, MarkKeepsRows, MarkKeepsDocs
    <3> HIDE DEF M
    <3>3. \A e \in Docs \ {proc[w].doc} : docs'[e] = M[e]
      BY <2>1, <3>2 DEF M, DocTables
    <3> QED BY <3>2, <3>3
  <2>3. \A v \in Workers \ {w} : proc'[v] = proc[v]
    OBVIOUS
  <2>4. \A e \in Docs \ {proc[w].doc} : job'[e] = job[e]
    BY <2>1
  <2>5. proc'[w].step = "idle" /\ indexed' = indexed
    OBVIOUS
  <2>6. \A v \in Workers \ {w} :
          proc[v].step # "idle" => proc[v].doc \in Docs \ {proc[w].doc}
    BY DEF WorkersOnJobs
  <2> HIDE DEF CompleteDeletion, Complete, CommitDoc, TypeOK
  <2>7. SUFFICES ASSUME NEW v \in Workers \ {w}, proc[v].step # "idle"
                 PROVE  StepFitsIndex(v)'
    BY <2>3, <2>5 DEF StepsFitIndex, StepFitsIndex
  <2> QED BY SMTT(30), <2>2, <2>3, <2>4, <2>5, <2>6 DEF StepsFitIndex, StepFitsIndex, Job,
             Entry
<1>5. JobsFitDocs'
  BY DEF JobsFitDocs, WorkersOnJobs, StepsFitIndex, StepFitsIndex
<1>6. ReindexFindsDocument'
  BY DEF ReindexFindsDocument, WorkersOnJobs, StepsFitIndex, StepFitsIndex,
     Reindexable
<1> QED BY <1>1, <1>2, <1>3, <1>4, <1>5, <1>6

\* CompleteReindex keeps the invariant.
LEMMA CompleteReindexKeeps ==
  ASSUME IndInv, NEW w \in Workers, CompleteReindex(w)
  PROVE  IndInv'
<1> USE ReindexAssumption DEF IndInv, TypeOK, ReindexAssumption,
                              CompleteReindex, Complete, CommitDoc, At, Job,
                              Mark, Idle
<1>1. TypeOK'
  <2>1. docs' \in [Docs -> Rows]
    <3>1. docs[proc[w].doc] \in Rows /\ proc[w].doc \in Docs
      BY DEF Rows, WorkersOnJobs
    <3>2. [docs[proc[w].doc] EXCEPT !.marked = FALSE] \in Rows
      BY <3>1 DEF Rows
    <3> HIDE DEF Mark
    <3>3. Mark(docs, proc[w].marks) \in [Docs -> Rows]
      BY MarkKeepsRows DEF Rows, DocTables
    <3> QED BY <3>1, <3>2, <3>3 DEF Rows
  <2>2. proc' \in [Workers -> Procs]
    BY DEF Procs, WorkersOnJobs
  <2>3. indexed' \subseteq Contracts \X Docs \X (1 .. MaxRevision)
    OBVIOUS
  <2>4. /\ contract' \in Contracts
        /\ job' \in [Docs -> {"none", "INDEX", "REINDEX", "DELETE"}]
    BY DEF WorkersOnJobs
  <2> QED BY <2>1, <2>2, <2>3, <2>4 DEF Rows, Procs
<1>2. WorkersOnJobs'
  BY DEF WorkersOnJobs
<1>3. LocksFollowSteps'
  BY DEF LocksFollowSteps, Locking, RowLocked
<1>4. StepsFitIndex'
  <2>1. proc[w].doc \in Docs
    BY DEF WorkersOnJobs
  <2> HIDE DEF Mark
  <2>2. \A e \in Docs \ {proc[w].doc} :
          /\ docs'[e].status = docs[e].status
          /\ docs'[e].newest = docs[e].newest
          /\ docs'[e].active = docs[e].active
    <3> DEFINE M == Mark(docs, proc[w].marks)
    <3>1. docs \in DocTables /\ proc[w].marks \in SUBSET Docs
      BY DEF Rows, DocTables
    <3>2. M \in DocTables
          /\ \A e \in Docs : /\ M[e].status = docs[e].status
                             /\ M[e].newest = docs[e].newest
                             /\ M[e].active = docs[e].active
      <4> HIDE DEF TypeOK, IndInv, CompleteReindex, Complete, CommitDoc
      <4> QED BY <3>1, MarkKeepsRows, MarkKeepsDocs
    <3> HIDE DEF M
    <3>3. \A e \in Docs \ {proc[w].doc} : docs'[e] = M[e]
      BY <2>1, <3>2 DEF M, DocTables
    <3> QED BY <3>2, <3>3
  <2>3. \A v \in Workers \ {w} : proc'[v] = proc[v]
    OBVIOUS
  <2>4. \A e \in Docs \ {proc[w].doc} : job'[e] = job[e]
    BY <2>1
  <2>5. proc'[w].step = "idle" /\ indexed' = indexed
    OBVIOUS
  <2>6. \A v \in Workers \ {w} :
          proc[v].step # "idle" => proc[v].doc \in Docs \ {proc[w].doc}
    BY DEF WorkersOnJobs
  <2> HIDE DEF CompleteReindex, Complete, CommitDoc, TypeOK
  <2>7. SUFFICES ASSUME NEW v \in Workers \ {w}, proc[v].step # "idle"
                 PROVE  StepFitsIndex(v)'
    BY <2>3, <2>5 DEF StepsFitIndex, StepFitsIndex
  <2> QED BY SMTT(30), <2>2, <2>3, <2>4, <2>5, <2>6 DEF StepsFitIndex, StepFitsIndex, Job,
             Entry
<1>5. JobsFitDocs'
  BY DEF JobsFitDocs, WorkersOnJobs, StepsFitIndex, StepFitsIndex
<1>6. ReindexFindsDocument'
  BY DEF ReindexFindsDocument, WorkersOnJobs, StepsFitIndex, StepFitsIndex,
     Reindexable
<1> QED BY <1>1, <1>2, <1>3, <1>4, <1>5, <1>6

\* Succeed keeps the invariant.
LEMMA SucceedKeeps ==
  ASSUME IndInv, NEW w \in Workers, Succeed(w)
  PROVE  IndInv'
<1> USE ReindexAssumption DEF IndInv, TypeOK, ReindexAssumption, Succeed, At,
                              Idle
<1>1. TypeOK'
  BY DEF WorkersOnJobs
<1>2. WorkersOnJobs'
  BY DEF WorkersOnJobs
<1>3. LocksFollowSteps'
  BY DEF LocksFollowSteps, Locking, RowLocked
<1>4. StepsFitIndex'
  BY DEF StepsFitIndex, StepFitsIndex, WorkersOnJobs, Job, Entry
<1>5. JobsFitDocs'
  BY DEF JobsFitDocs, WorkersOnJobs, Job, StepsFitIndex, StepFitsIndex
<1>6. ReindexFindsDocument'
  BY DEF ReindexFindsDocument, WorkersOnJobs, Job, StepsFitIndex, StepFitsIndex,
     Reindexable, Mark
<1> QED BY <1>1, <1>2, <1>3, <1>4, <1>5, <1>6

\* GiveUp keeps the invariant.
LEMMA GiveUpKeeps ==
  ASSUME IndInv, NEW w \in Workers, GiveUp(w)
  PROVE  IndInv'
<1> USE ReindexAssumption DEF IndInv, TypeOK, ReindexAssumption, GiveUp, Idle
<1>1. TypeOK'
  BY DEF WorkersOnJobs
<1>2. WorkersOnJobs'
  BY DEF WorkersOnJobs
<1>3. LocksFollowSteps'
  BY DEF LocksFollowSteps, Locking, RowLocked
<1>4. StepsFitIndex'
  BY DEF StepsFitIndex, StepFitsIndex, WorkersOnJobs, Job, Entry
<1>5. JobsFitDocs'
  BY DEF JobsFitDocs, WorkersOnJobs, Job, StepsFitIndex, StepFitsIndex
<1>6. ReindexFindsDocument'
  BY DEF ReindexFindsDocument, WorkersOnJobs, Job, StepsFitIndex, StepFitsIndex,
     Reindexable, Mark
<1> QED BY <1>1, <1>2, <1>3, <1>4, <1>5, <1>6

\* The invariant holds at first.
LEMMA InitInv ==
  ASSUME Init
  PROVE  IndInv
<1> USE ReindexAssumption DEF ReindexAssumption, Init, Idle
<1>1. TypeOK
  <2>1. 0 \in 0 .. MaxRevision /\ 1 \in 0 .. MaxRevision /\ 1 \in 1 .. MaxRevision
    OBVIOUS
  <2>2. /\ [status |-> "ABSENT", active |-> 0, newest |-> 0, marked |-> FALSE] \in Rows
        /\ [status |-> "READY", active |-> 1, newest |-> 1, marked |-> FALSE] \in Rows
    BY <2>1 DEF Rows
  <2>3. docs \in [Docs -> Rows]
    BY <2>2
  <2>4. indexed \subseteq Contracts \X Docs \X (1 .. MaxRevision)
    BY <2>1
  <2> QED BY <2>3, <2>4 DEF TypeOK, Rows
<1> QED BY <1>1 DEF IndInv, WorkersOnJobs, LocksFollowSteps, Locking,
                    StepsFitIndex, StepFitsIndex, JobsFitDocs, ReindexFindsDocument

\* Every step keeps it.
LEMMA NextInv ==
  ASSUME IndInv, [Next]_vars
  PROVE  IndInv'
<1>1. CASE UNCHANGED vars
  BY <1>1 DEF vars, IndInv, TypeOK, WorkersOnJobs, LocksFollowSteps, Locking,
              StepsFitIndex, StepFitsIndex, Job, Entry, JobsFitDocs, ReindexFindsDocument
<1>2. CASE Next
  BY <1>2, UploadKeeps, UpsertKeeps, DeleteKeeps, EnqueueKeeps, TakeKeeps,
     StartIndexingKeeps, InsertFirstKeeps, BecomeReadyKeeps, RemoveActiveKeeps,
     InsertKeeps, CompleteReplacementKeeps, CompleteDeletionKeeps,
     CompleteReindexKeeps, SucceedKeeps, GiveUpKeeps DEF Next, Work
<1> QED BY <1>1, <1>2

\* The invariant the theorems rest on.
THEOREM IndInvHolds == Spec => []IndInv
BY InitInv, NextInv, PTL DEF Spec

\* Contract, documents, jobs, workers and index keep their types.
THEOREM ReindexTypeCorrect == Spec => []TypeOK
<1>1. IndInv => TypeOK
  BY DEF IndInv
<1> QED BY <1>1, IndInvHolds, PTL

\* A rebuilding job always has its document to rebuild, whatever contracts the
\* processes have.
THEOREM RebuildsWhatIsThere == Spec => []ReindexFindsDocument
<1>1. IndInv => ReindexFindsDocument
  BY DEF IndInv
<1> QED BY <1>1, IndInvHolds, PTL
-----------------------------------------------------------------------------
\* What a worker's commit does to the documents: its own gets the row, the
\* others at most a mark.
LEMMA CommitMarks ==
  ASSUME TypeOK, NEW w \in Workers, proc[w].doc \in Docs, NEW row, CommitDoc(w, row)
  PROVE  /\ docs'[proc[w].doc] = row
         /\ \A e \in Docs \ {proc[w].doc} :
              /\ docs'[e].status = docs[e].status
              /\ docs'[e].active = docs[e].active
              /\ docs'[e].marked <=> docs[e].marked \/ e \in proc[w].marks
<1> DEFINE M == Mark(docs, proc[w].marks)
<1>1. docs \in DocTables /\ proc[w].marks \in SUBSET Docs
  BY DEF TypeOK, Rows, DocTables
<1>2. M \in DocTables
  BY <1>1, MarkKeepsRows
<1>3. \A e \in Docs : /\ M[e].status = docs[e].status
                      /\ M[e].active = docs[e].active
                      /\ M[e].marked <=> docs[e].marked \/ e \in proc[w].marks
  BY <1>1, MarkKeepsDocs
<1>4. docs' = [M EXCEPT ![proc[w].doc] = row]
  BY DEF CommitDoc
<1> HIDE DEF M
<1> QED BY <1>2, <1>3, <1>4 DEF DocTables

\* An API request that touches one document leaves the marks alone.
LEMMA RequestMarks ==
  ASSUME TypeOK, NEW d \in Docs, Upload(d) \/ Upsert(d) \/ Delete(d)
  PROVE  /\ docs[d].status \in {"ABSENT", "READY"}
         /\ docs'[d].status \in {"UPLOADED", "UPDATING", "DELETING"}
         /\ docs'[d].active = docs[d].active
         /\ docs'[d].marked = docs[d].marked
         /\ \A e \in Docs \ {d} : docs'[e] = docs[e]
         /\ UNCHANGED <<contract, proc, indexed>>
<1>1. docs[d] \in Rows
  BY DEF TypeOK, Rows
<1>2. docs \in [Docs -> Rows]
  BY DEF TypeOK, Rows
<1> HIDE DEF TypeOK
<1>3. CASE Upload(d)
  BY <1>1, <1>2, <1>3 DEF Upload, Request, Rows
<1>4. CASE Upsert(d)
  <2>1. PICK n : docs' = [docs EXCEPT ![d] = [docs[d] EXCEPT !.status = "UPDATING",
                                                            !.newest = n]]
    BY <1>4 DEF Upsert, Request
  <2>2. docs[d].status = "READY" /\ UNCHANGED <<contract, proc, indexed>>
    BY <1>4 DEF Upsert, Request
  <2> QED BY <1>1, <1>2, <2>1, <2>2 DEF Rows
<1>5. CASE Delete(d)
  BY <1>1, <1>2, <1>5 DEF Delete, Request, Rows
<1> QED BY <1>3, <1>4, <1>5

\* Rebuilding a workspace marks what is outdated.
LEMMA EnqueueMarks ==
  ASSUME TypeOK, NEW c \in ApiContracts, Enqueue(c)
  PROVE  \A e \in Docs :
           /\ docs'[e].status = docs[e].status
           /\ docs'[e].active = docs[e].active
           /\ docs'[e].marked <=> docs[e].marked \/ e \in Outdated(c)
<1>1. docs \in DocTables
  BY DEF TypeOK, Rows, DocTables
<1>2. Outdated(c) \in SUBSET Docs
  BY DEF Outdated
<1>3. docs' = Mark(docs, Outdated(c))
  BY DEF Enqueue
<1> HIDE DEF Outdated
<1> QED BY <1>1, <1>2, <1>3, MarkKeepsDocs

\* A worker that takes a job changes at most the status of the document.
LEMMA TakeMarks ==
  ASSUME TypeOK, NEW w \in Workers, NEW d \in Docs, Take(w, d)
  PROVE  \A e \in Docs :
           /\ docs'[e].status # docs[e].status
              => docs[e].status = "INDEXING" /\ docs'[e].status = "UPLOADED"
           /\ docs'[e].active = docs[e].active
           /\ docs'[e].marked = docs[e].marked
<1>1. docs \in [Docs -> Rows] /\ docs[d] \in Rows
  BY DEF TypeOK, Rows
<1>2. docs' = docs \/ (docs[d].status = "INDEXING"
                       /\ docs' = [docs EXCEPT ![d].status = "UPLOADED"])
  BY DEF Take
<1> QED BY <1>1, <1>2 DEF Rows

\* The step to READY makes the newest revision the active one.
LEMMA ReadyMarks ==
  ASSUME TypeOK, WorkersOnJobs, NEW w \in Workers, BecomeReady(w)
  PROVE  /\ proc[w].doc \in Docs
         /\ docs'[proc[w].doc].active = docs[proc[w].doc].newest
         /\ docs'[proc[w].doc].status = "READY"
         /\ docs'[proc[w].doc].marked = docs[proc[w].doc].marked
         /\ \A e \in Docs \ {proc[w].doc} : docs'[e] = docs[e]
<1>1. docs \in [Docs -> Rows]
  BY DEF TypeOK, Rows
<1>2. proc[w].doc \in Docs
  BY DEF BecomeReady, At, WorkersOnJobs
<1>3. docs[proc[w].doc] \in Rows
  BY <1>1, <1>2
<1> QED BY <1>1, <1>2, <1>3 DEF BecomeReady, Rows

\* What a finished rebuilding or replacement is sure of.
LEMMA CompleteMarks ==
  ASSUME TypeOK, WorkersOnJobs, StepsFitIndex, NEW w \in Workers,
         CompleteReplacement(w) \/ CompleteReindex(w)
  PROVE  /\ proc[w].doc \in Docs
         /\ Entry(w, docs'[proc[w].doc].active) \in indexed
         /\ \E row : CommitDoc(w, row)
<1>1. proc[w].doc \in Docs /\ docs[proc[w].doc] \in Rows
  BY DEF CompleteReplacement, CompleteReindex, At, WorkersOnJobs, TypeOK, Rows
<1>2. CASE CompleteReplacement(w)
  <2> DEFINE row == [docs[proc[w].doc] EXCEPT
                       !.status = "READY", !.marked = FALSE,
                       !.active = docs[proc[w].doc].newest]
  <2>1. CommitDoc(w, row)
    BY <1>2 DEF CompleteReplacement, Complete
  <2>2. row.active = docs[proc[w].doc].newest
    BY <1>1 DEF Rows
  <2>3. Entry(w, docs[proc[w].doc].newest) \in indexed
    BY <1>2 DEF CompleteReplacement, At, StepsFitIndex, StepFitsIndex
  <2> HIDE DEF row
  <2>4. docs'[proc[w].doc] = row
    BY <1>1, <2>1, CommitMarks
  <2> QED BY <1>1, <2>1, <2>2, <2>3, <2>4
<1>3. CASE CompleteReindex(w)
  <2> DEFINE row == [docs[proc[w].doc] EXCEPT !.marked = FALSE]
  <2>1. CommitDoc(w, row)
    BY <1>3 DEF CompleteReindex, Complete
  <2>2. row.active = docs[proc[w].doc].active
    BY <1>1 DEF Rows
  <2>3. Entry(w, docs[proc[w].doc].active) \in indexed
    BY <1>3 DEF CompleteReindex, At, StepsFitIndex, StepFitsIndex
  <2> HIDE DEF row
  <2>4. docs'[proc[w].doc] = row
    BY <1>1, <2>1, CommitMarks
  <2> QED BY <1>1, <2>1, <2>2, <2>3, <2>4
<1> QED BY <1>2, <1>3

\* A mark goes only with the revision in the namespace that is stored.
LEMMA MarksStep ==
  ASSUME IndInv, [Next]_vars, NEW d \in Docs, docs[d].marked, ~docs'[d].marked
  PROVE  <<contract', d, docs'[d].active>> \in indexed'
<1> USE DEF IndInv
<1>1. CASE UNCHANGED vars
  BY <1>1 DEF vars
<1>2. ASSUME NEW e \in Docs, Upload(e) \/ Upsert(e) \/ Delete(e)
      PROVE  FALSE
  BY <1>2, RequestMarks
<1>3. ASSUME NEW c \in ApiContracts, Enqueue(c)
      PROVE  FALSE
  BY <1>3, EnqueueMarks
<1>4. ASSUME NEW w \in Workers, NEW e \in Docs, Take(w, e)
      PROVE  FALSE
  BY <1>4, TakeMarks
<1>5. ASSUME NEW w \in Workers, StartIndexing(w)
      PROVE  FALSE
  <2> DEFINE row == [docs[proc[w].doc] EXCEPT !.status = "INDEXING"]
  <2>1. proc[w].doc \in Docs /\ docs[proc[w].doc] \in Rows
    BY <1>5 DEF StartIndexing, At, WorkersOnJobs, TypeOK, Rows
  <2>2. CommitDoc(w, row)
    BY <1>5 DEF StartIndexing
  <2>3. row.marked = docs[proc[w].doc].marked
    BY <2>1 DEF Rows
  <2> HIDE DEF row
  <2>4. docs'[proc[w].doc] = row
    BY <2>1, <2>2, CommitMarks
  <2>5. \A e \in Docs \ {proc[w].doc} : docs[e].marked => docs'[e].marked
    BY <2>1, <2>2, CommitMarks
  <2>6. docs[proc[w].doc].marked => docs'[proc[w].doc].marked
    BY <2>3, <2>4, Zenon
  <2> QED BY <2>5, <2>6
<1>6. ASSUME NEW w \in Workers, BecomeReady(w)
      PROVE  FALSE
  BY <1>6, ReadyMarks
<1>7. ASSUME NEW w \in Workers, CompleteDeletion(w)
      PROVE  FALSE
  <2> DEFINE row == [docs[proc[w].doc] EXCEPT
                       !.status = "DELETED",
                       !.marked = @ \/ proc[w].doc \in proc[w].marks]
  <2>1. proc[w].doc \in Docs /\ docs[proc[w].doc] \in Rows
    BY <1>7 DEF CompleteDeletion, At, WorkersOnJobs, TypeOK, Rows
  <2>2. CommitDoc(w, row)
    BY <1>7 DEF CompleteDeletion, Complete
  <2>3. docs[proc[w].doc].marked => row.marked
    BY <2>1 DEF Rows
  <2> HIDE DEF row
  <2>4. docs'[proc[w].doc] = row
    BY <2>1, <2>2, CommitMarks
  <2>5. \A e \in Docs \ {proc[w].doc} : docs[e].marked => docs'[e].marked
    BY <2>1, <2>2, CommitMarks
  <2>6. docs[proc[w].doc].marked => docs'[proc[w].doc].marked
    BY <2>3, <2>4, Zenon
  <2> QED BY <2>5, <2>6
<1>8. ASSUME NEW w \in Workers, CompleteReplacement(w) \/ CompleteReindex(w)
      PROVE  <<contract', d, docs'[d].active>> \in indexed'
  <2>1. PICK row : CommitDoc(w, row)
    BY <1>8, CompleteMarks
  <2>2. proc[w].doc \in Docs
    BY <1>8, CompleteMarks
  <2>3. d = proc[w].doc
    BY <2>1, <2>2, CommitMarks
  <2>4. Entry(w, docs'[d].active) \in indexed
    BY <1>8, <2>3, CompleteMarks
  <2>5. contract' = ConfigOf[w] /\ indexed' = indexed
    BY <1>8, <2>1 DEF CommitDoc, CompleteReplacement, CompleteReindex, Complete
  <2> QED BY <2>3, <2>4, <2>5 DEF Entry
<1>9. ASSUME NEW w \in Workers,
             InsertFirst(w) \/ RemoveActive(w) \/ Insert(w) \/ Succeed(w) \/ GiveUp(w)
      PROVE  FALSE
  BY <1>9 DEF InsertFirst, RemoveActive, Insert, Succeed, GiveUp
<1> QED BY <1>1, <1>2, <1>3, <1>4, <1>5, <1>6, <1>7, <1>8, <1>9 DEF Next, Work

\* For any contracts of the processes, a mark is taken off only with the
\* revision in the namespace of the contract that is then stored.
THEOREM MarksGoOnlyWithTheIndex == Spec => MarksGoWithTheIndex
<1>1. IndInv /\ [Next]_vars
      => [\A d \in Docs :
            docs[d].marked /\ ~docs'[d].marked
            => <<contract', d, docs'[d].active>> \in indexed']_vars
  BY MarksStep
<1> QED BY <1>1, IndInvHolds, PTL DEF Spec, MarksGoWithTheIndex

-----------------------------------------------------------------------------
(* The processes agree on one contract, c.                                 *)

OneContract(c) ==
    /\ \A w \in Workers : ConfigOf[w] = c
    /\ ApiContracts \subseteq {c}

\* What a worker is going to mark stays what the contract change makes
\* outdated; a first revision is indexed only after the contract is stored.
MarksFit(c) ==
    /\ \A w \in Workers : proc[w].locks => proc[w].marks = Outdated(c)
    /\ contract # c
       => \A w \in Workers : proc[w].step \notin {"indexing", "indexed"}

Inv(c) == IndInv /\ MarksFit(c) /\ UnmarkedIsIndexed

\* A commit that stores the contract leaves no revision both outdated and
\* unmarked, if it does not make its own document so.
LEMMA CommitKeepsIndex ==
  ASSUME NEW c \in Contracts, OneContract(c), Inv(c),
         NEW w \in Workers, proc[w].locks, proc[w].doc \in Docs, NEW row,
         CommitDoc(w, row), indexed' = indexed,
         \A v \in Workers : v # w => proc'[v] = proc[v],
         ~proc'[w].locks,
         row.status = "READY" /\ ~row.marked => Entry(w, row.active) \in indexed
  PROVE  MarksFit(c)' /\ UnmarkedIsIndexed'
<1> USE DEF Inv, IndInv
<1>1. contract' = c
  BY DEF CommitDoc, OneContract
<1>2. \A v \in Workers : ~proc'[v].locks
  BY DEF LocksFollowSteps
<1>3. MarksFit(c)'
  BY <1>1, <1>2 DEF MarksFit
<1>4. docs'[proc[w].doc] = row
  BY CommitMarks
<1>5. ASSUME NEW e \in Docs \ {proc[w].doc},
             docs'[e].status = "READY", ~docs'[e].marked
      PROVE  <<c, e, docs'[e].active>> \in indexed
  <2>1. docs[e].status = "READY" /\ docs'[e].active = docs[e].active
    BY <1>5, CommitMarks
  <2>2. ~docs[e].marked /\ e \notin proc[w].marks
    BY <1>5, CommitMarks
  <2>3. docs[e].active # 0
    BY <2>1 DEF JobsFitDocs
  <2>4. e \notin Outdated(c)
    BY <2>2 DEF MarksFit
  <2>5. contract = c
    BY <2>1, <2>3, <2>4 DEF Outdated
  <2> QED BY <2>1, <2>2, <2>5 DEF UnmarkedIsIndexed
<1>6. row.status = "READY" /\ ~row.marked
      => <<c, proc[w].doc, row.active>> \in indexed
  BY DEF Entry, OneContract
<1>7. UnmarkedIsIndexed'
  BY <1>1, <1>4, <1>5, <1>6 DEF UnmarkedIsIndexed
<1> QED BY <1>3, <1>7

\* The commits of the worker.
LEMMA CommitsKeepIndex ==
  ASSUME NEW c \in Contracts, OneContract(c), Inv(c), NEW w \in Workers,
         \/ StartIndexing(w)
         \/ CompleteReplacement(w)
         \/ CompleteDeletion(w)
         \/ CompleteReindex(w)
  PROVE  MarksFit(c)' /\ UnmarkedIsIndexed'
<1> USE DEF Inv, IndInv
<1>1. proc[w].step \in Locking
  BY DEF StartIndexing, CompleteReplacement, CompleteDeletion, CompleteReindex,
         At, Locking
<1>2. proc[w].locks /\ proc[w].doc \in Docs
  BY <1>1 DEF LocksFollowSteps, WorkersOnJobs, Locking
<1>3. docs[proc[w].doc] \in Rows /\ proc \in [Workers -> Procs]
  BY <1>2 DEF TypeOK, Rows, Procs
<1>4. indexed' = indexed /\ ~proc'[w].locks
      /\ \A v \in Workers : v # w => proc'[v] = proc[v]
  <2>1. proc' = [proc EXCEPT ![w] = Idle]
        \/ proc' = [proc EXCEPT ![w] = [step |-> "indexing", doc |-> proc[w].doc,
                                        locks |-> FALSE, marks |-> {}]]
    BY DEF StartIndexing, CompleteReplacement, CompleteDeletion,
       CompleteReindex,
           Complete
  <2>2. indexed' = indexed
    BY DEF StartIndexing, CompleteReplacement, CompleteDeletion,
       CompleteReindex,
           Complete
  <2>3. proc'[w] = Idle \/ proc'[w] = [step |-> "indexing", doc |-> proc[w].doc,
                                       locks |-> FALSE, marks |-> {}]
    BY <1>3, <2>1
  <2>4. \A v \in Workers : v # w => proc'[v] = proc[v]
    BY <1>3, <2>1
  <2> QED BY <2>2, <2>3, <2>4 DEF Idle
<1>5. \E row : /\ CommitDoc(w, row)
               /\ row.status = "READY" /\ ~row.marked
                  => Entry(w, row.active) \in indexed
  <2>1. CASE StartIndexing(w)
    <3>1. [docs[proc[w].doc] EXCEPT !.status = "INDEXING"].status = "INDEXING"
      BY <1>3 DEF Rows
    <3> QED BY <2>1, <3>1 DEF StartIndexing
  <2>2. CASE CompleteDeletion(w)
    <3> DEFINE row == [docs[proc[w].doc] EXCEPT
                         !.status = "DELETED",
                         !.marked = @ \/ proc[w].doc \in proc[w].marks]
    <3>1. row.status = "DELETED"
      BY <1>3 DEF Rows
    <3>2. CommitDoc(w, row)
      BY <2>2 DEF CompleteDeletion, Complete
    <3> HIDE DEF row
    <3> QED BY <3>1, <3>2
  <2>3. CASE CompleteReplacement(w) \/ CompleteReindex(w)
    <3>1. PICK row : CommitDoc(w, row)
      BY <2>3, CompleteMarks
    <3>2. docs'[proc[w].doc] = row
      BY <1>2, <3>1, CommitMarks
    <3>3. Entry(w, docs'[proc[w].doc].active) \in indexed
      BY <2>3, CompleteMarks
    <3> QED BY <3>1, <3>2, <3>3
  <2> QED BY <2>1, <2>2, <2>3
<1>6. PICK row : /\ CommitDoc(w, row)
                 /\ row.status = "READY" /\ ~row.marked
                    => Entry(w, row.active) \in indexed
  BY <1>5
<1> QED BY <1>2, <1>4, <1>6, CommitKeepsIndex

\* Steps of the API.
LEMMA RequestsKeepIndex ==
  ASSUME NEW c \in Contracts, OneContract(c), Inv(c), NEW d \in Docs,
         Upload(d) \/ Upsert(d) \/ Delete(d)
  PROVE  MarksFit(c)' /\ UnmarkedIsIndexed'
<1> USE DEF Inv, IndInv
<1>1. /\ docs[d].status \in {"ABSENT", "READY"}
      /\ docs'[d].status \in {"UPLOADED", "UPDATING", "DELETING"}
      /\ docs'[d].active = docs[d].active
      /\ \A e \in Docs \ {d} : docs'[e] = docs[e]
      /\ UNCHANGED <<contract, proc, indexed>>
  BY RequestMarks
<1>2. Outdated(c)' = Outdated(c)
  BY <1>1 DEF Outdated
<1>3. MarksFit(c)'
  BY <1>1, <1>2 DEF MarksFit
<1>4. UnmarkedIsIndexed'
  BY <1>1 DEF UnmarkedIsIndexed
<1> QED BY <1>3, <1>4

\* Rebuilding, which stores the contract and marks in one transaction.
LEMMA EnqueueKeepsIndex ==
  ASSUME NEW c \in Contracts, OneContract(c), Inv(c), NEW a \in ApiContracts,
         Enqueue(a)
  PROVE  MarksFit(c)' /\ UnmarkedIsIndexed'
<1> USE DEF Inv, IndInv
<1>1. a = c
  BY DEF OneContract
<1>2. contract' = c /\ UNCHANGED <<proc, indexed>>
  BY <1>1 DEF Enqueue
<1>3. MarksFit(c)'
  BY <1>2 DEF MarksFit, Enqueue, RowLocked
<1>4. ASSUME NEW e \in Docs, docs'[e].status = "READY", ~docs'[e].marked
      PROVE  <<c, e, docs'[e].active>> \in indexed
  <2>1. docs[e].status = "READY" /\ docs'[e].active = docs[e].active
    BY <1>4, EnqueueMarks
  <2>2. ~docs[e].marked /\ e \notin Outdated(c)
    BY <1>1, <1>4, EnqueueMarks
  <2>3. docs[e].active # 0
    BY <2>1 DEF JobsFitDocs
  <2>4. contract = c
    BY <2>1, <2>2, <2>3 DEF Outdated
  <2> QED BY <2>1, <2>2, <2>4 DEF UnmarkedIsIndexed
<1>5. UnmarkedIsIndexed'
  BY <1>2, <1>4 DEF UnmarkedIsIndexed
<1> QED BY <1>3, <1>5

\* Taking a job, up to ensure_index_contract.
LEMMA TakeKeepsIndex ==
  ASSUME NEW c \in Contracts, OneContract(c), Inv(c), NEW w \in Workers,
         NEW d \in Docs, Take(w, d)
  PROVE  MarksFit(c)' /\ UnmarkedIsIndexed'
<1> USE DEF Inv, IndInv
<1>1. \A e \in Docs : /\ docs'[e].status # docs[e].status
                         => /\ docs[e].status = "INDEXING"
                            /\ docs'[e].status = "UPLOADED"
                      /\ docs'[e].active = docs[e].active
                      /\ docs'[e].marked = docs[e].marked
  BY TakeMarks
<1>2. UNCHANGED <<contract, indexed>>
  BY DEF Take
<1>3. Outdated(c)' = Outdated(c)
  <2>1. contract' = contract
    BY <1>2
  <2>2. \A e \in Docs : /\ docs'[e].active # 0 <=> docs[e].active # 0
                        /\ docs'[e].status # "DELETED" <=> docs[e].status # "DELETED"
    BY <1>1
  <2> QED BY <2>1, <2>2 DEF Outdated
<1>4. \A v \in Workers \ {w} : proc'[v] = proc[v]
  BY DEF Take, TypeOK
<1>5. /\ proc'[w].locks => proc'[w].marks = Outdated(c)
      /\ proc'[w].step \notin {"indexing", "indexed"}
  <2>1. CASE proc' = [proc EXCEPT ![w] = [Idle EXCEPT !.step = "done", !.doc = d]]
    <3>1. proc'[w] = [step |-> "done", doc |-> d, locks |-> FALSE, marks |-> {}]
      BY <2>1 DEF TypeOK, Idle
    <3> QED BY <3>1
  <2>2. CASE proc' = [proc EXCEPT ![w] =
                        [step |-> "ensured", doc |-> d, locks |-> TRUE,
                         marks |-> Outdated(ConfigOf[w])]]
    <3>1. proc'[w] = [step |-> "ensured", doc |-> d, locks |-> TRUE,
                      marks |-> Outdated(c)]
      BY <2>2 DEF TypeOK, OneContract
    <3> QED BY <3>1
  <2> QED BY <2>1, <2>2 DEF Take
<1>6. MarksFit(c)'
  BY <1>2, <1>3, <1>4, <1>5 DEF MarksFit
<1>7. UnmarkedIsIndexed'
  BY <1>1, <1>2 DEF UnmarkedIsIndexed
<1> QED BY <1>6, <1>7

\* The first revision becomes active where it was inserted.
LEMMA BecomeReadyKeepsIndex ==
  ASSUME NEW c \in Contracts, OneContract(c), Inv(c), NEW w \in Workers,
         BecomeReady(w)
  PROVE  MarksFit(c)' /\ UnmarkedIsIndexed'
<1> USE DEF Inv, IndInv
<1>1. contract = c /\ UNCHANGED <<contract, indexed>>
  BY DEF BecomeReady, At, MarksFit
<1>2. Outdated(c) = {} /\ Outdated(c)' = {}
  BY <1>1 DEF Outdated
<1>3. \A v \in Workers : /\ proc'[v].locks = proc[v].locks
                         /\ proc'[v].marks = proc[v].marks
  BY DEF BecomeReady, GoTo, TypeOK
<1>4. MarksFit(c)'
  BY <1>1, <1>2, <1>3 DEF MarksFit
<1>5. <<c, proc[w].doc, docs'[proc[w].doc].active>> \in indexed
  <2>1. Entry(w, docs[proc[w].doc].newest) \in indexed
    BY DEF BecomeReady, At, StepsFitIndex, StepFitsIndex
  <2> QED BY <2>1, ReadyMarks DEF Entry, OneContract
<1>6. \A e \in Docs \ {proc[w].doc} : docs'[e] = docs[e]
  BY ReadyMarks
<1>7. UnmarkedIsIndexed'
  BY <1>1, <1>5, <1>6 DEF UnmarkedIsIndexed
<1> QED BY <1>4, <1>7

\* Insertions and removals: what is removed is of no READY document.
LEMMA IndexingKeepsIndex ==
  ASSUME NEW c \in Contracts, OneContract(c), Inv(c), NEW w \in Workers,
         InsertFirst(w) \/ RemoveActive(w) \/ Insert(w)
  PROVE  MarksFit(c)' /\ UnmarkedIsIndexed'
<1> USE DEF Inv, IndInv
<1>1. UNCHANGED <<contract, docs>>
  BY DEF InsertFirst, RemoveActive, Insert
<1>2. Outdated(c)' = Outdated(c)
  BY <1>1 DEF Outdated
<1>3. \A v \in Workers : /\ proc'[v].locks = proc[v].locks
                         /\ proc'[v].marks = proc[v].marks
                         /\ proc'[v].step \in {"indexing", "indexed"}
                            => proc[v].step \in {"indexing", "indexed"}
  BY DEF InsertFirst, RemoveActive, Insert, GoTo, At, TypeOK
<1>4. MarksFit(c)'
  BY <1>1, <1>2, <1>3 DEF MarksFit
<1>5. CASE InsertFirst(w) \/ Insert(w)
  <2>1. indexed \subseteq indexed'
    BY <1>5 DEF InsertFirst, Insert
  <2> QED BY <1>1, <1>4, <2>1 DEF UnmarkedIsIndexed
<1>6. CASE RemoveActive(w)
  <2>1. proc[w].doc \in Docs /\ docs[proc[w].doc].status # "READY"
    BY <1>6 DEF RemoveActive, At, Job, WorkersOnJobs, JobsFitDocs
  <2>2. indexed' = indexed \ {<<ConfigOf[w], proc[w].doc, docs[proc[w].doc].active>>}
    BY <1>6 DEF RemoveActive, Entry
  <2>3. \A e \in Docs : docs[e].status = "READY" => e # proc[w].doc
    BY <2>1
  <2> QED BY <1>1, <1>4, <2>2, <2>3 DEF UnmarkedIsIndexed
<1> QED BY <1>5, <1>6

\* Ends of processing without a commit of its own.
LEMMA EndingsKeepIndex ==
  ASSUME NEW c \in Contracts, OneContract(c), Inv(c), NEW w \in Workers,
         Succeed(w) \/ GiveUp(w)
  PROVE  MarksFit(c)' /\ UnmarkedIsIndexed'
<1> USE DEF Inv, IndInv
<1>1. UNCHANGED <<contract, docs, indexed>>
  BY DEF Succeed, GiveUp
<1>2. Outdated(c)' = Outdated(c)
  BY <1>1 DEF Outdated
<1>3. proc' = [proc EXCEPT ![w] = Idle]
  BY DEF Succeed, GiveUp
<1>4. \A v \in Workers : proc'[v] = proc[v] \/ proc'[v] = Idle
  BY <1>3 DEF TypeOK
<1>5. ~Idle.locks /\ Idle.step = "idle"
  BY DEF Idle
<1>6. MarksFit(c)'
  BY <1>1, <1>2, <1>4, <1>5 DEF MarksFit
<1> QED BY <1>1, <1>6 DEF UnmarkedIsIndexed

\* If the processes agree on one contract, which need not be the one that is
\* stored at the start, every READY document that is not marked is in the
\* namespace that queries read.
THEOREM ReadyIsThere ==
  ASSUME NEW c \in Contracts, OneContract(c)
  PROVE  Spec => []UnmarkedIsIndexed
<1>1. Init => Inv(c)
  <2> SUFFICES ASSUME Init PROVE Inv(c)
    OBVIOUS
  <2>1. IndInv
    BY InitInv
  <2>2. \A w \in Workers : ~proc[w].locks /\ proc[w].step = "idle"
    BY DEF Init, Idle
  <2>3. UnmarkedIsIndexed
    BY DEF Init, UnmarkedIsIndexed
  <2> QED BY <2>1, <2>2, <2>3 DEF Inv, MarksFit
<1>2. Inv(c) /\ [Next]_vars => Inv(c)'
  <2> SUFFICES ASSUME Inv(c), [Next]_vars PROVE Inv(c)'
    OBVIOUS
  <2>1. IndInv'
    BY NextInv DEF Inv
  <2>2. CASE UNCHANGED vars
    BY <2>1, <2>2 DEF vars, Inv, MarksFit, UnmarkedIsIndexed, Outdated
  <2>3. CASE Next
    <3>1. MarksFit(c)' /\ UnmarkedIsIndexed'
      BY <2>3, CommitsKeepIndex, RequestsKeepIndex, EnqueueKeepsIndex,
         TakeKeepsIndex, BecomeReadyKeepsIndex, IndexingKeepsIndex,
         EndingsKeepIndex DEF Next, Work
    <3> QED BY <2>1, <3>1 DEF Inv
  <2> QED BY <2>2, <2>3
<1>3. Inv(c) => UnmarkedIsIndexed
  BY DEF Inv
<1> QED BY <1>1, <1>2, <1>3, PTL DEF Spec
=============================================================================
