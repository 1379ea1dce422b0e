-------------------------- MODULE WorkspaceReindex --------------------------
(***************************************************************************)
(* The index contract of a workspace and the rebuilding of its index       *)
(* (workspaces/repository.py, maintenance/reindex.py, the REINDEX_DOCUMENT *)
(* path of worker/service.py and documents/repository.py).                 *)
(*                                                                         *)
(* Every process is configured with an index contract, which names the     *)
(* LightRAG namespace it writes to.  ensure_index_contract stores it for   *)
(* the workspace and marks the revisions that the new namespace lacks; it  *)
(* locks the workspace row until its transaction ends.  Leases and fences  *)
(* are those of JobQueue and left out: a document has at most one active   *)
(* job, and one worker at a time processes it.  FAILED is not told from    *)
(* INDEXING, which a retry resets to UPLOADED in the same way.             *)
(***************************************************************************)
EXTENDS Naturals, FiniteSets

CONSTANTS
    Docs,
    Workers,
    Contracts,     \* index schema version and embedding profile
    ConfigOf,      \* the contract each worker is configured with
    ApiContracts,  \* those the API processes are configured with
    Stored,        \* the contract of the workspace at the start
    MaxRevision    \* bound on the revisions of a document

ASSUME ReindexAssumption ==
    /\ ConfigOf \in [Workers -> Contracts]
    /\ ApiContracts \subseteq Contracts
    /\ Stored \in Contracts
    /\ MaxRevision \in Nat \ {0}

VARIABLES
    contract,  \* index_schema_version and embedding_profile of the workspace
    docs,      \* documents; marked is requires_reindex of the active revision
    job,       \* the active job of each document
    proc,      \* what each worker is doing
    indexed    \* what LightRAG holds: <<contract, document, revision>>

vars == <<contract, docs, job, proc, indexed>>

-----------------------------------------------------------------------------
NoDoc == "none"

Idle == [step |-> "idle", doc |-> NoDoc, locks |-> FALSE, marks |-> {}]

TypeOK ==
    /\ contract \in Contracts
    /\ docs \in [Docs -> [status : {"ABSENT", "UPLOADED", "INDEXING", "READY",
                                    "UPDATING", "DELETING", "DELETED"},
                          active : 0 .. MaxRevision,
                          newest : 0 .. MaxRevision,
                          marked : BOOLEAN]]
    /\ job \in [Docs -> {"none", "INDEX", "REINDEX", "DELETE"}]
    /\ proc \in [Workers -> [step  : {"idle", "ensured", "removed", "inserted",
                                      "indexing", "indexed", "done"},
                             doc   : Docs \cup {NoDoc},
                             locks : BOOLEAN,
                             marks : SUBSET Docs]]
    /\ indexed \subseteq Contracts \X Docs \X (1 .. MaxRevision)

\* Some documents were indexed before; the others do not exist yet.
Init ==
    /\ contract = Stored
    /\ docs \in [Docs -> {[status |-> "ABSENT", active |-> 0, newest |-> 0,
                           marked |-> FALSE],
                          [status |-> "READY", active |-> 1, newest |-> 1,
                           marked |-> FALSE]}]
    /\ job = [d \in Docs |-> "none"]
    /\ proc = [w \in Workers |-> Idle]
    /\ indexed = {<<Stored, d, 1>> : d \in {e \in Docs : docs[e].active = 1}}

-----------------------------------------------------------------------------
(* ensure_index_contract.                                                  *)

RowLocked == \E w \in Workers : proc[w].locks

\* The documents whose active revision a change to contract c marks.
Outdated(c) ==
    IF c = contract THEN {}
    ELSE {d \in Docs : docs[d].active # 0 /\ docs[d].status # "DELETED"}

Mark(ds, marks) ==
    [d \in Docs |-> IF d \in marks THEN [ds[d] EXCEPT !.marked = TRUE] ELSE ds[d]]

-----------------------------------------------------------------------------
(* The API.                                                                *)

Request(d, from, to, t) ==
    /\ docs[d].status = from
    /\ job[d] = "none"
    /\ docs' = [docs EXCEPT ![d] = to]
    /\ job' = [job EXCEPT ![d] = t]
    /\ UNCHANGED <<contract, proc, indexed>>

Upload(d) ==
    Request(d, "ABSENT", [docs[d] EXCEPT !.status = "UPLOADED", !.newest = 1],
            "INDEX")

Upsert(d) ==
    /\ docs[d].newest < MaxRevision
    /\ Request(d, "READY", [docs[d] EXCEPT !.status = "UPDATING", !.newest = @ + 1],
               "INDEX")

Delete(d) ==
    Request(d, "READY", [docs[d] EXCEPT !.status = "DELETING"], "DELETE")

\* Faulty variant: a document that is being changed gets a job, too.
Reindexable_AnyStatus(d) == docs'[d].marked /\ job[d] = "none"

Reindexable(d) ==
    /\ docs'[d].status = "READY"
    /\ docs'[d].marked
    /\ job[d] = "none"

\* WorkspaceReindexService.enqueue, one transaction.
Enqueue(c) ==
    /\ ~RowLocked
    /\ contract' = c
    /\ docs' = Mark(docs, Outdated(c))
    /\ job' = [d \in Docs |-> IF Reindexable(d) THEN "REINDEX" ELSE job[d]]
    /\ UNCHANGED <<proc, indexed>>

-----------------------------------------------------------------------------
(* The worker.                                                             *)

Free(d) == \A w \in Workers : proc[w].doc # d

\* process up to ensure_index_contract; the document is READY already if a
\* worker died before its success was recorded.
Take(w, d) ==
    /\ proc[w].step = "idle" /\ Free(d) /\ job[d] # "none"
    /\ IF job[d] = "INDEX" /\ docs[d].status = "READY"
       THEN /\ proc' = [proc EXCEPT ![w] = [Idle EXCEPT !.step = "done",
                                                        !.doc = d]]
            /\ UNCHANGED docs
       ELSE /\ ~RowLocked
            /\ proc' = [proc EXCEPT ![w] =
                          [step |-> "ensured", doc |-> d, locks |-> TRUE,
                           marks |-> Outdated(ConfigOf[w])]]
            /\ docs' = IF docs[d].status = "INDEXING"
                       THEN [docs EXCEPT ![d].status = "UPLOADED"] ELSE docs
    /\ UNCHANGED <<contract, job, indexed>>

At(w, s) == proc[w].step = s

GoTo(w, s) == proc' = [proc EXCEPT ![w].step = s]

Job(w) == job[proc[w].doc]

\* Faulty variant: the contract is stored and no revision is marked.
CommitDoc_NoMarks(w, row) ==
    /\ contract' = ConfigOf[w]
    /\ docs' = [docs EXCEPT ![proc[w].doc] = row]

\* The transaction of w commits, with the document brought to row.
CommitDoc(w, row) ==
    /\ contract' = ConfigOf[w]
    /\ docs' = [Mark(docs, proc[w].marks) EXCEPT ![proc[w].doc] = row]

\* IndexingService.index: the first commit lets go of the workspace row.
StartIndexing(w) ==
    /\ At(w, "ensured") /\ Job(w) = "INDEX"
    /\ docs[proc[w].doc].status = "UPLOADED"
    /\ CommitDoc(w, [docs[proc[w].doc] EXCEPT !.status = "INDEXING"])
    /\ proc' = [proc EXCEPT ![w] = [step |-> "indexing", doc |-> proc[w].doc,
                                    locks |-> FALSE, marks |-> {}]]
    /\ UNCHANGED <<job, indexed>>

Entry(w, r) == <<ConfigOf[w], proc[w].doc, r>>

\* Faulty variant: the active revision, which there is none of, is inserted.
InsertFirst_Active(w) ==
    /\ At(w, "indexing")
    /\ indexed' = indexed \cup {Entry(w, docs[proc[w].doc].active)}
    /\ GoTo(w, "indexed")
    /\ UNCHANGED <<contract, docs, job>>

InsertFirst(w) ==
    /\ At(w, "indexing")
    /\ indexed' = indexed \cup {Entry(w, docs[proc[w].doc].newest)}
    /\ GoTo(w, "indexed")
    /\ UNCHANGED <<contract, docs, job>>

BecomeReady(w) ==
    /\ At(w, "indexed")
    /\ docs' = [docs EXCEPT ![proc[w].doc].status = "READY",
                            ![proc[w].doc].active = docs[proc[w].doc].newest]
    /\ GoTo(w, "done")
    /\ UNCHANGED <<contract, job, indexed>>

\* delete_indexed_document, of _replace and of _delete.
RemoveActive(w) ==
    /\ At(w, "ensured")
    /\ \/ Job(w) = "INDEX" /\ docs[proc[w].doc].status = "UPDATING"
       \/ Job(w) = "DELETE"
    /\ indexed' = indexed \ {Entry(w, docs[proc[w].doc].active)}
    /\ GoTo(w, "removed")
    /\ UNCHANGED <<contract, docs, job>>

\* insert_parsed_document, of _replace and of _reindex.
Insert(w) ==
    /\ \/ At(w, "removed") /\ Job(w) = "INDEX"
       \/ At(w, "ensured") /\ Job(w) = "REINDEX"
    /\ indexed' = indexed \cup
         {Entry(w, IF Job(w) = "INDEX" THEN docs[proc[w].doc].newest
                                       ELSE docs[proc[w].doc].active)}
    /\ GoTo(w, "inserted")
    /\ UNCHANGED <<contract, docs, job>>

\* The three complete_*_for_job end the job with the document.
Complete(w, row) ==
    /\ CommitDoc(w, row)
    /\ job' = [job EXCEPT ![proc[w].doc] = "none"]
    /\ proc' = [proc EXCEPT ![w] = Idle]
    /\ UNCHANGED indexed

CompleteReplacement(w) ==
    /\ At(w, "inserted") /\ Job(w) = "INDEX"
    /\ Complete(w, [docs[proc[w].doc] EXCEPT
                      !.status = "READY", !.marked = FALSE,
                      !.active = docs[proc[w].doc].newest])

CompleteDeletion(w) ==
    /\ At(w, "removed") /\ Job(w) = "DELETE"
    /\ Complete(w, [docs[proc[w].doc] EXCEPT
                      !.status = "DELETED",
                      !.marked = @ \/ proc[w].doc \in proc[w].marks])

\* Faulty variant: the mark is taken off before the revision is inserted.
CompleteReindex_Early(w) ==
    /\ At(w, "ensured") /\ Job(w) = "REINDEX"
    /\ docs[proc[w].doc].status = "READY"
    /\ docs[proc[w].doc].marked \/ proc[w].doc \in proc[w].marks
    /\ Complete(w, [docs[proc[w].doc] EXCEPT !.marked = FALSE])

CompleteReindex(w) ==
    /\ At(w, "inserted") /\ Job(w) = "REINDEX"
    /\ docs[proc[w].doc].status = "READY"
    /\ docs[proc[w].doc].marked \/ proc[w].doc \in proc[w].marks
    /\ Complete(w, [docs[proc[w].doc] EXCEPT !.marked = FALSE])

Succeed(w) ==
    /\ At(w, "done")
    /\ job' = [job EXCEPT ![proc[w].doc] = "none"]
    /\ proc' = [proc EXCEPT ![w] = Idle]
    /\ UNCHANGED <<contract, docs, indexed>>

\* Processing ends without its commit: the worker died, a call raised or the
\* lease was lost.  The job is retried, or has used up its attempts.
GiveUp(w) ==
    /\ proc[w].step # "idle"
    /\ proc' = [proc EXCEPT ![w] = Idle]
    /\ job' \in {job, [job EXCEPT ![proc[w].doc] = "none"]}
    /\ UNCHANGED <<contract, docs, indexed>>

-----------------------------------------------------------------------------
Work(w) ==
    \/ \E d \in Docs : Take(w, d)
    \/ StartIndexing(w)
    \/ InsertFirst(w)
    \/ BecomeReady(w)
    \/ RemoveActive(w)
    \/ Insert(w)
    \/ CompleteReplacement(w)
    \/ CompleteDeletion(w)
    \/ CompleteReindex(w)
    \/ Succeed(w)

Next ==
    \/ \E d \in Docs : Upload(d) \/ Upsert(d) \/ Delete(d)
    \/ \E c \in ApiContracts : Enqueue(c)
    \/ \E w \in Workers : Work(w) \/ GiveUp(w)

Spec == Init /\ [][Next]_vars

-----------------------------------------------------------------------------
(* Properties.                                                             *)

\* workspaces/repository.py:121: a READY document whose active revision is
\* not marked is in the namespace that queries read.
UnmarkedIsIndexed ==
    \A d \in Docs :
      docs[d].status = "READY" /\ ~docs[d].marked
      => <<contract, d, docs[d].active>> \in indexed

\* A rebuilding job always has its document to rebuild: no other change gets
\* in between (complete_reindex_for_job demands a READY, marked document).
ReindexFindsDocument ==
    \A d \in Docs :
      job[d] = "REINDEX" => docs[d].status = "READY" /\ docs[d].marked

\* ADR 0021: a mark goes only with the revision confirmed in the namespace
\* of the contract that is stored.
MarksGoWithTheIndex ==
    [][\A d \in Docs :
         docs[d].marked /\ ~docs'[d].marked
         => <<contract', d, docs'[d].active>> \in indexed']_vars
=============================================================================
