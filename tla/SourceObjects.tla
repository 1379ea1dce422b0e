---------------------------- MODULE SourceObjects ---------------------------
(***************************************************************************)
(* upsert_for_indexing of backend/documents/source_service.py, one action  *)
(* per statement or call that others can see: the source bytes go to the   *)
(* object store, which takes no part in the PostgreSQL transaction, under  *)
(* a key that holds the number of the revision being created.              *)
(*                                                                         *)
(* There is one document.  Requests of several API processes run at once;  *)
(* the worker, which takes another lock, ends changes whenever it likes.   *)
(***************************************************************************)
EXTENDS Naturals, Sequences, FiniteSets

CONSTANTS
    Requests,       \* upserts that clients send
    NoRequest,      \* nobody holds the transaction-scoped advisory lock
    Contents,       \* source texts, up to their hash
    NoContent,      \* the document does not exist yet
    MaxLostAnswers  \* bound on commits that happen but report an error

ASSUME SourceObjectsAssumption ==
    /\ IsFiniteSet(Requests)
    /\ NoRequest \notin Requests
    /\ NoContent \notin Contents
    /\ MaxLostAnswers \in Nat

VARIABLES
    row,      \* the document, its revisions and whether a job is active
    objects,  \* the object store: texts by revision number
    holder,   \* the request that holds the document's advisory lock
    pc,       \* where each request is
    request,  \* what each request carries and has found out
    lost      \* commits that reported an error so far

vars == <<row, objects, holder, pc, request, lost>>

-----------------------------------------------------------------------------
Numbers == 1 .. Cardinality(Requests)

Last == Len(row.revs)

\* The text that get projects: the active revision or else the last one.
Current ==
    IF row.revs = << >> THEN NoContent
    ELSE row.revs[IF row.active = 0 THEN Last ELSE row.active]

TypeOK ==
    /\ row \in [status : {"ABSENT", "READY", "BUSY"},
                active : Numbers \cup {0},
                revs   : Seq(Contents),
                job    : BOOLEAN]
    /\ DOMAIN objects \subseteq Numbers
    /\ \A r \in DOMAIN objects : objects[r] \in Contents
    /\ holder \in Requests \cup {NoRequest}
    /\ pc \in [Requests -> {"new", "locked", "putting", "put", "written",
                            "failed", "cleanup", "ended", "leaked", "dead"}]
    /\ request \in [Requests -> [content : Contents,
                                 seen    : Contents \cup {NoContent},
                                 key     : Numbers \cup {0}]]
    /\ lost \in 0 .. MaxLostAnswers

Init ==
    /\ row = [status |-> "ABSENT", active |-> 0, revs |-> << >>,
              job |-> FALSE]
    /\ objects = [r \in {} |-> NoContent]
    /\ holder = NoRequest
    /\ pc = [q \in Requests |-> "new"]
    /\ request \in [Requests -> [content : Contents, seen : {NoContent},
                                 key : {0}]]
    /\ lost = 0

GoTo(q, s) == pc' = [pc EXCEPT ![q] = s]

Release(q) == holder' = IF holder = q THEN NoRequest ELSE holder

-----------------------------------------------------------------------------
\* Faulty variant: the lock is not waited for.
LockForUpsert_NoWait(q) ==
    /\ pc[q] = "new"
    /\ holder' = q
    /\ request' = [request EXCEPT ![q].seen = Current]
    /\ GoTo(q, "locked")
    /\ UNCHANGED <<row, objects, lost>>

\* lock_for_upsert: the lock, then a read that locks no row.
LockForUpsert(q) ==
    /\ pc[q] = "new"
    /\ holder = NoRequest
    /\ holder' = q
    /\ request' = [request EXCEPT ![q].seen = Current]
    /\ GoTo(q, "locked")
    /\ UNCHANGED <<row, objects, lost>>

\* The hashes are equal.
Unchanged(q) ==
    /\ pc[q] = "locked"
    /\ request[q].seen = request[q].content
    /\ Release(q)
    /\ GoTo(q, "ended")
    /\ UNCHANGED <<row, objects, request, lost>>

\* add_revision locks the row and picks the next number, or a new document
\* gets number 1; either way stored_key is set before the object is put.
\* From here on the worker has to wait for the row.
PickRevision(q) ==
    /\ pc[q] = "locked"
    /\ request[q].seen # request[q].content
    /\ request' = [request EXCEPT ![q].key = Last + 1]
    /\ GoTo(q, "putting")
    /\ UNCHANGED <<row, objects, holder, lost>>

\* Faulty variant: the key is one behind the revision.
StoreObject_KeyBehind(q) ==
    objects' = [r \in DOMAIN objects \cup {request[q].key - 1} |->
                  IF r = request[q].key - 1 THEN request[q].content
                                            ELSE objects[r]]

StoreObject(q) ==
    objects' = [r \in DOMAIN objects \cup {request[q].key} |->
                  IF r = request[q].key THEN request[q].content
                                        ELSE objects[r]]

PutObject(q) ==
    /\ pc[q] = "putting"
    /\ StoreObject(q)
    /\ GoTo(q, "put")
    /\ UNCHANGED <<row, holder, request, lost>>

\* READY -> UPDATING and the unique index, or the insert of a new document.
Accepts == row.status = "ABSENT" \/ (row.status = "READY" /\ ~row.job)

WriteRows(q) ==
    /\ pc[q] = "put"
    /\ GoTo(q, IF Accepts THEN "written" ELSE "failed")
    /\ UNCHANGED <<row, objects, holder, request, lost>>

Committed(q) ==
    row' = [row EXCEPT !.status = "BUSY", !.job = TRUE,
                       !.revs = Append(@, request[q].content)]

Commit(q) ==
    /\ pc[q] = "written"
    /\ Committed(q)
    /\ Release(q)
    /\ GoTo(q, "ended")
    /\ UNCHANGED <<objects, request, lost>>

\* The commit is carried out but its answer is lost.
LoseAnswer(q) ==
    /\ pc[q] = "written"
    /\ lost < MaxLostAnswers
    /\ lost' = lost + 1
    /\ Committed(q)
    /\ Release(q)
    /\ GoTo(q, "failed")
    /\ UNCHANGED <<objects, request>>

\* A call raises; the object store may have carried it out.
Raise(q) ==
    /\ pc[q] \in {"locked", "putting", "put", "written"}
    /\ GoTo(q, "failed")
    /\ \/ UNCHANGED objects
       \/ pc[q] = "putting" /\ StoreObject(q)
    /\ UNCHANGED <<row, holder, request, lost>>

\* Faulty variant: a failed request forgets the object it stored.
Rollback_NoCleanup(q) ==
    /\ pc[q] = "failed"
    /\ Release(q)
    /\ GoTo(q, "ended")
    /\ UNCHANGED <<row, objects, request, lost>>

\* _rollback ends the transaction, and its lock with it ...
Rollback(q) ==
    /\ pc[q] = "failed"
    /\ Release(q)
    /\ GoTo(q, IF request[q].key = 0 THEN "ended" ELSE "cleanup")
    /\ UNCHANGED <<row, objects, request, lost>>

\* ... and only then is the object deleted.
DeleteObject(q) ==
    /\ pc[q] = "cleanup"
    /\ objects' = [r \in DOMAIN objects \ {request[q].key} |-> objects[r]]
    /\ GoTo(q, "ended")
    /\ UNCHANGED <<row, holder, request, lost>>

\* The ObjectStorageError of the deletion is passed over.
LeakObject(q) ==
    /\ pc[q] = "cleanup"
    /\ GoTo(q, "leaked")
    /\ UNCHANGED <<row, objects, holder, request, lost>>

\* The process ends wherever it is, and its transaction with it.
Die(q) ==
    /\ pc[q] \notin {"new", "ended", "leaked", "dead"}
    /\ Release(q)
    /\ GoTo(q, "dead")
    /\ UNCHANGED <<row, objects, request, lost>>

-----------------------------------------------------------------------------
\* The row is locked from FOR UPDATE to the end of the transaction.
RowLocked == \E q \in Requests : holder = q /\ pc[q] # "locked"

\* The worker makes the last revision active; its job may end later.
WorkerActivates ==
    /\ row.status = "BUSY"
    /\ ~RowLocked
    /\ \E running \in BOOLEAN :
         row' = [row EXCEPT !.status = "READY", !.active = Last,
                            !.job = running]
    /\ UNCHANGED <<objects, holder, pc, request, lost>>

WorkerEndsJob ==
    /\ row.status = "READY" /\ row.job
    /\ row' = [row EXCEPT !.job = FALSE]
    /\ UNCHANGED <<objects, holder, pc, request, lost>>

Step(q) ==
    \/ LockForUpsert(q)
    \/ Unchanged(q)
    \/ PickRevision(q)
    \/ PutObject(q)
    \/ WriteRows(q)
    \/ Commit(q)
    \/ LoseAnswer(q)
    \/ Raise(q)
    \/ Rollback(q)
    \/ DeleteObject(q)
    \/ LeakObject(q)
    \/ Die(q)

Next ==
    \/ \E q \in Requests : Step(q)
    \/ WorkerActivates
    \/ WorkerEndsJob

Spec == Init /\ [][Next]_vars

-----------------------------------------------------------------------------
(* Properties.                                                             *)

\* The object of a revision is the text that was hashed for it or missing,
\* never the text of another request that drew the same number.
SourceIsItsOwn ==
    \A r \in DOMAIN objects : r <= Last => objects[r] = row.revs[r]

\* An object without a revision belongs to a request that is still on its
\* way, or whose clean-up failed or was never reached.
UnreferencedIsExplained ==
    \A r \in DOMAIN objects :
      r > Last => \E q \in Requests :
                    /\ request[q].key = r
                    /\ pc[q] \in {"putting", "put", "written", "failed",
                                  "cleanup", "leaked", "dead"}

\* source_service.py:144: what is deleted after a failure is unreferenced,
\* so every revision keeps its source.
EveryRevisionHasSource == \A r \in 1 .. Last : r \in DOMAIN objects
=============================================================================
