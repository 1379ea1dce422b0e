------------------------ MODULE SourceObjectsProofs -------------------------
(***************************************************************************)
(* What SourceObjects promises for any number of upserts and texts.        *)
(***************************************************************************)
EXTENDS SourceObjects, FiniteSetTheorems, TLAPS

\* Steps from the lock to the end of the transaction.
Inside == {"locked", "putting", "put", "written"}

\* Steps at which a request has a revision number in an open transaction.
Numbered == {"putting", "put", "written"}

\* Requests that have left their transaction, or are about to roll it back.
Past == {q \in Requests : pc[q] \in {"failed", "cleanup", "ended", "leaked", "dead"}}

\* An open transaction holds the advisory lock of the document.
InsideHolds == \A q \in Requests : pc[q] \in Inside => holder = q

\* The number it has drawn is still the next one.
NumberIsNext == \A q \in Requests : pc[q] \in Numbered => request[q].key = Last + 1

\* Every revision was committed by a request of its own.
RevisionsCounted == Last <= Cardinality(Past)

\* Under the number that a request is about to commit there is its own text
\* or, when a clean-up has got in between, none.
StoredIsOwn ==
    \A q \in Requests :
      pc[q] \in {"put", "written"} /\ request[q].key \in DOMAIN objects
      => objects[request[q].key] = request[q].content

\* The active revision exists.
ActiveThere == row.active <= Last

\* The inductive invariant.
IndInv ==
    /\ TypeOK
    /\ ActiveThere
    /\ InsideHolds
    /\ NumberIsNext
    /\ RevisionsCounted
    /\ StoredIsOwn
    /\ SourceIsItsOwn
    /\ UnreferencedIsExplained

-----------------------------------------------------------------------------
(* Counting.                                                               *)

\* A request that has not left its transaction is not counted yet.
LEMMA RoomForOneMore ==
  ASSUME TypeOK, RevisionsCounted, NEW q \in Requests, q \notin Past
  PROVE  Last + 1 \in Numbers
<1>1. IsFiniteSet(Requests) /\ Cardinality(Requests) \in Nat
  BY SourceObjectsAssumption, FS_CardinalityType DEF SourceObjectsAssumption
<1>2. Past \in SUBSET Requests
  BY DEF Past
<1>3. /\ IsFiniteSet(Past) /\ Cardinality(Past) <= Cardinality(Requests)
      /\ Cardinality(Past) # Cardinality(Requests)
  BY <1>1, <1>2, FS_Subset
<1>4. Cardinality(Past) \in Nat
  BY <1>3, FS_CardinalityType
<1>5. Last \in Nat
  BY DEF TypeOK, Last
<1> QED BY <1>1, <1>3, <1>4, <1>5 DEF RevisionsCounted, Numbers

\* A step that lets nobody out of Past keeps the count.
LEMMA CountKept ==
  ASSUME TypeOK, RevisionsCounted, row' = row, Past \subseteq Past'
  PROVE  RevisionsCounted'
<1>1. Past' \in SUBSET Requests /\ IsFiniteSet(Requests)
  BY SourceObjectsAssumption DEF Past, SourceObjectsAssumption
<1>2. IsFiniteSet(Past') /\ Cardinality(Past') \in Nat
  BY <1>1, FS_Subset, FS_CardinalityType
<1>3. Cardinality(Past) <= Cardinality(Past') /\ Cardinality(Past) \in Nat
  BY <1>2, FS_Subset, FS_CardinalityType
<1>4. Last' = Last /\ Last \in Nat
  BY DEF Last, TypeOK
<1> QED BY <1>2, <1>3, <1>4 DEF RevisionsCounted

\* A request that leaves with a revision is counted with it.
LEMMA CountOne ==
  ASSUME TypeOK, RevisionsCounted, NEW q \in Requests, q \notin Past,
         Past' = Past \cup {q},
         row'.revs = Append(row.revs, request[q].content) /\ Last' = Last + 1
  PROVE  RevisionsCounted'
<1>1. Past \in SUBSET Requests /\ IsFiniteSet(Requests)
  BY SourceObjectsAssumption DEF Past, SourceObjectsAssumption
<1>2. IsFiniteSet(Past) /\ Cardinality(Past) \in Nat
  BY <1>1, FS_Subset, FS_CardinalityType
<1>3. Cardinality(Past') = Cardinality(Past) + 1
  BY <1>2, FS_AddElement
<1>4. Last \in Nat
  BY DEF Last, TypeOK
<1> QED BY <1>2, <1>3, <1>4 DEF RevisionsCounted

\* The text that get projects is one of the revisions.
LEMMA CurrentTyped ==
  ASSUME TypeOK, ActiveThere
  PROVE  Current \in Contents \cup {NoContent}
<1>1. Last \in Nat /\ (row.revs # << >> => Last > 0)
  BY DEF TypeOK, Last
<1>2. row.active \in Nat
  BY DEF TypeOK, Numbers
<1> QED BY <1>1, <1>2 DEF TypeOK, ActiveThere, Current, Last

-----------------------------------------------------------------------------
(* The steps.                                                              *)

\* Every step of a request keeps the invariant.
LEMMA StepKeeps ==
  ASSUME IndInv, NEW q \in Requests, Step(q)
  PROVE  IndInv'
<1> USE DEF IndInv
<1>1. Last \in Nat /\ Numbers \subseteq Nat \ {0}
  BY DEF TypeOK, Last, Numbers
<1>2. CASE LockForUpsert(q)
  <2>1. Current \in Contents \cup {NoContent}
    BY <1>1, CurrentTyped
  <2>2. request' \in [Requests -> [content : Contents, seen : Contents \cup {NoContent},
                              key : Numbers \cup {0}]]
    BY <1>2, <2>1 DEF LockForUpsert, GoTo, TypeOK
  <2>3. TypeOK'
    BY <1>1, <1>2, <2>2 DEF LockForUpsert, GoTo, TypeOK
  <2>4. ActiveThere'
    BY <1>2 DEF LockForUpsert, ActiveThere, Last
  <2>5. InsideHolds'
    BY SourceObjectsAssumption, <1>2 DEF LockForUpsert, GoTo, TypeOK,
       InsideHolds, Inside, SourceObjectsAssumption
  <2>6. NumberIsNext'
    BY <1>2 DEF LockForUpsert, GoTo, TypeOK, InsideHolds, Inside, NumberIsNext,
       Numbered, Last
  <2>7. row' = row /\ Past \subseteq Past'
    BY <1>2 DEF LockForUpsert, GoTo, Past, TypeOK
  <2>8. RevisionsCounted'
    BY <2>7, CountKept
  <2>9. StoredIsOwn'
    BY <1>2 DEF LockForUpsert, GoTo, TypeOK, InsideHolds, Inside, NumberIsNext,
       Numbered, StoredIsOwn
  <2>10. SourceIsItsOwn'
    BY <1>1, <1>2 DEF LockForUpsert, GoTo, TypeOK, NumberIsNext, Numbered,
       StoredIsOwn, SourceIsItsOwn, Last
  <2>11. UnreferencedIsExplained'
    BY <1>1, <1>2 DEF LockForUpsert, GoTo, TypeOK, NumberIsNext, Numbered,
       UnreferencedIsExplained, Last
  <2> QED BY <2>1, <2>2, <2>3, <2>4, <2>5, <2>6, <2>7, <2>8, <2>9, <2>10, <2>11
<1>3. CASE Unchanged(q)
  <2>1. TypeOK'
    BY <1>1, <1>3 DEF Unchanged, GoTo, Release, TypeOK
  <2>2. ActiveThere'
    BY <1>3 DEF Unchanged, ActiveThere, Last
  <2>3. InsideHolds'
    BY <1>3 DEF Unchanged, GoTo, Release, TypeOK, InsideHolds, Inside
  <2>4. NumberIsNext'
    BY <1>3 DEF Unchanged, GoTo, Release, TypeOK, InsideHolds, Inside,
       NumberIsNext, Numbered, Last
  <2>5. row' = row /\ Past \subseteq Past'
    BY <1>3 DEF Unchanged, GoTo, Past, TypeOK
  <2>6. RevisionsCounted'
    BY <2>5, CountKept
  <2>7. StoredIsOwn'
    BY <1>3 DEF Unchanged, GoTo, Release, TypeOK, InsideHolds, Inside,
       NumberIsNext, Numbered, StoredIsOwn
  <2>8. SourceIsItsOwn'
    BY <1>1, <1>3 DEF Unchanged, GoTo, Release, TypeOK, NumberIsNext, Numbered,
       StoredIsOwn, SourceIsItsOwn, Last
  <2>9. UnreferencedIsExplained'
    BY <1>1, <1>3 DEF Unchanged, GoTo, Release, TypeOK, NumberIsNext, Numbered,
       UnreferencedIsExplained, Last
  <2> QED BY <2>1, <2>2, <2>3, <2>4, <2>5, <2>6, <2>7, <2>8, <2>9
<1>4. CASE PickRevision(q)
  <2>1. Last + 1 \in Numbers
    BY <1>4, RoomForOneMore DEF PickRevision, Past
  <2>2. TypeOK'
    BY <1>1, <1>4, <2>1 DEF PickRevision, GoTo, TypeOK
  <2>3. ActiveThere'
    BY <1>4 DEF PickRevision, ActiveThere, Last
  <2>4. InsideHolds'
    BY <1>4 DEF PickRevision, GoTo, TypeOK, InsideHolds, Inside
  <2>5. NumberIsNext'
    BY <1>4, <2>1 DEF PickRevision, GoTo, TypeOK, InsideHolds, Inside,
       NumberIsNext, Numbered, Last
  <2>6. row' = row /\ Past \subseteq Past'
    BY <1>4 DEF PickRevision, GoTo, Past, TypeOK
  <2>7. RevisionsCounted'
    BY <2>6, CountKept
  <2>8. StoredIsOwn'
    BY <1>4, <2>1 DEF PickRevision, GoTo, TypeOK, InsideHolds, Inside,
       NumberIsNext, Numbered, StoredIsOwn
  <2>9. SourceIsItsOwn'
    BY <1>1, <1>4, <2>1 DEF PickRevision, GoTo, TypeOK, NumberIsNext, Numbered,
       StoredIsOwn, SourceIsItsOwn, Last
  <2>10. UnreferencedIsExplained'
    BY <1>1, <1>4, <2>1 DEF PickRevision, GoTo, TypeOK, NumberIsNext, Numbered,
       UnreferencedIsExplained, Last
  <2> QED BY <2>1, <2>2, <2>3, <2>4, <2>5, <2>6, <2>7, <2>8, <2>9, <2>10
<1>5. CASE PutObject(q)
  <2>1. /\ DOMAIN objects' \subseteq Numbers
         /\ \A r \in DOMAIN objects' : objects'[r] \in Contents
    BY <1>1, <1>5 DEF PutObject, GoTo, StoreObject, TypeOK, NumberIsNext,
       Numbered
  <2>2. TypeOK'
    BY <1>1, <1>5, <2>1 DEF PutObject, GoTo, StoreObject, TypeOK
  <2>3. ActiveThere'
    BY <1>5 DEF PutObject, ActiveThere, Last
  <2>4. InsideHolds'
    BY <1>5 DEF PutObject, GoTo, StoreObject, TypeOK, InsideHolds, Inside
  <2>5. NumberIsNext'
    BY <1>5 DEF PutObject, GoTo, StoreObject, TypeOK, InsideHolds, Inside,
       NumberIsNext, Numbered, Last
  <2>6. row' = row /\ Past \subseteq Past'
    BY <1>5 DEF PutObject, GoTo, Past, TypeOK
  <2>7. RevisionsCounted'
    BY <2>6, CountKept
  <2>8. StoredIsOwn'
    BY <1>5 DEF PutObject, GoTo, StoreObject, TypeOK, InsideHolds, Inside,
       NumberIsNext, Numbered, StoredIsOwn
  <2>9. SourceIsItsOwn'
    BY <1>1, <1>5 DEF PutObject, GoTo, StoreObject, TypeOK, NumberIsNext,
       Numbered, StoredIsOwn, SourceIsItsOwn, Last
  <2>10. UnreferencedIsExplained'
    BY <1>1, <1>5 DEF PutObject, GoTo, StoreObject, TypeOK, NumberIsNext,
       Numbered, UnreferencedIsExplained, Last
  <2> QED BY <2>1, <2>2, <2>3, <2>4, <2>5, <2>6, <2>7, <2>8, <2>9, <2>10
<1>6. CASE WriteRows(q)
  <2>1. TypeOK'
    BY <1>1, <1>6 DEF WriteRows, GoTo, Accepts, TypeOK
  <2>2. ActiveThere'
    BY <1>6 DEF WriteRows, ActiveThere, Last
  <2>3. InsideHolds'
    BY <1>6 DEF WriteRows, GoTo, Accepts, TypeOK, InsideHolds, Inside
  <2>4. NumberIsNext'
    BY <1>6 DEF WriteRows, GoTo, Accepts, TypeOK, InsideHolds, Inside,
       NumberIsNext, Numbered, Last
  <2>5. row' = row /\ Past \subseteq Past'
    BY <1>6 DEF WriteRows, GoTo, Past, TypeOK
  <2>6. RevisionsCounted'
    BY <2>5, CountKept
  <2>7. StoredIsOwn'
    BY <1>6 DEF WriteRows, GoTo, Accepts, TypeOK, InsideHolds, Inside,
       NumberIsNext, Numbered, StoredIsOwn
  <2>8. SourceIsItsOwn'
    BY <1>1, <1>6 DEF WriteRows, GoTo, Accepts, TypeOK, NumberIsNext, Numbered,
       StoredIsOwn, SourceIsItsOwn, Last
  <2>9. UnreferencedIsExplained'
    BY <1>1, <1>6 DEF WriteRows, GoTo, Accepts, TypeOK, NumberIsNext, Numbered,
       UnreferencedIsExplained, Last
  <2> QED BY <2>1, <2>2, <2>3, <2>4, <2>5, <2>6, <2>7, <2>8, <2>9
<1>7. CASE Commit(q)
  <2>1. row'.revs = Append(row.revs, request[q].content) /\ Last' = Last + 1
    BY <1>7 DEF Commit, GoTo, Release, Committed, TypeOK, Last
  <2>2. request[q].content \in Contents /\ row'.revs \in Seq(Contents)
    BY <2>1 DEF TypeOK
  <2>3. row' \in [status : {"ABSENT", "READY", "BUSY"}, active : Numbers \cup {0},
                  revs : Seq(Contents), job : BOOLEAN]
    BY <1>7, <2>2 DEF Commit, GoTo, Release, Committed, TypeOK
  <2>4. TypeOK'
    BY <1>1, <1>7, <2>1, <2>2, <2>3 DEF Commit, GoTo, Release, Committed, TypeOK
  <2>5. ActiveThere'
    BY <1>1, <1>7, <2>1 DEF Commit, GoTo, Release, Committed, TypeOK,
       ActiveThere, Numbers
  <2>6. InsideHolds'
    BY <1>7 DEF Commit, GoTo, Release, Committed, TypeOK, InsideHolds, Inside
  <2>7. NumberIsNext'
    BY <1>7, <2>1 DEF Commit, GoTo, Release, Committed, TypeOK, InsideHolds,
       Inside, NumberIsNext, Numbered, Last
  <2>8. q \notin Past /\ Past' = Past \cup {q}
    BY <1>7 DEF Commit, GoTo, Past, TypeOK
  <2>9. RevisionsCounted'
    BY <2>1, <2>8, CountOne
  <2>10. StoredIsOwn'
    BY <1>7, <2>1 DEF Commit, GoTo, Release, Committed, TypeOK, InsideHolds,
       Inside, NumberIsNext, Numbered, StoredIsOwn
  <2>11. SourceIsItsOwn'
    BY <1>1, <1>7, <2>1 DEF Commit, GoTo, Release, Committed, TypeOK,
       NumberIsNext, Numbered, StoredIsOwn, SourceIsItsOwn, Last
  <2>12. UnreferencedIsExplained'
    BY <1>1, <1>7, <2>1 DEF Commit, GoTo, Release, Committed, TypeOK,
       NumberIsNext, Numbered, UnreferencedIsExplained, Last
  <2> QED BY <2>1, <2>2, <2>3, <2>4, <2>5, <2>6, <2>7, <2>8, <2>9, <2>10, <2>11,
             <2>12
<1>8. CASE LoseAnswer(q)
  <2>1. row'.revs = Append(row.revs, request[q].content) /\ Last' = Last + 1
    BY <1>8 DEF LoseAnswer, GoTo, Release, Committed, TypeOK, Last
  <2>2. request[q].content \in Contents /\ row'.revs \in Seq(Contents)
    BY <2>1 DEF TypeOK
  <2>3. row' \in [status : {"ABSENT", "READY", "BUSY"}, active : Numbers \cup {0},
                  revs : Seq(Contents), job : BOOLEAN]
    BY <1>8, <2>2 DEF LoseAnswer, GoTo, Release, Committed, TypeOK
  <2>4. TypeOK'
    BY SourceObjectsAssumption, <1>1, <1>8, <2>1, <2>2, <2>3 DEF LoseAnswer,
       GoTo, Release, Committed, TypeOK, SourceObjectsAssumption
  <2>5. ActiveThere'
    BY <1>1, <1>8, <2>1 DEF LoseAnswer, GoTo, Release, Committed, TypeOK,
       ActiveThere, Numbers
  <2>6. InsideHolds'
    BY <1>8 DEF LoseAnswer, GoTo, Release, Committed, TypeOK, InsideHolds,
       Inside
  <2>7. NumberIsNext'
    BY <1>8, <2>1 DEF LoseAnswer, GoTo, Release, Committed, TypeOK, InsideHolds,
       Inside, NumberIsNext, Numbered, Last
  <2>8. q \notin Past /\ Past' = Past \cup {q}
    BY <1>8 DEF LoseAnswer, GoTo, Past, TypeOK
  <2>9. RevisionsCounted'
    BY <2>1, <2>8, CountOne
  <2>10. StoredIsOwn'
    BY <1>8, <2>1 DEF LoseAnswer, GoTo, Release, Committed, TypeOK, InsideHolds,
       Inside, NumberIsNext, Numbered, StoredIsOwn
  <2>11. SourceIsItsOwn'
    BY <1>1, <1>8, <2>1 DEF LoseAnswer, GoTo, Release, Committed, TypeOK,
       NumberIsNext, Numbered, StoredIsOwn, SourceIsItsOwn, Last
  <2>12. UnreferencedIsExplained'
    BY <1>1, <1>8, <2>1 DEF LoseAnswer, GoTo, Release, Committed, TypeOK,
       NumberIsNext, Numbered, UnreferencedIsExplained, Last
  <2> QED BY <2>1, <2>2, <2>3, <2>4, <2>5, <2>6, <2>7, <2>8, <2>9, <2>10, <2>11,
             <2>12
<1>9. CASE Raise(q)
  <2>1. /\ DOMAIN objects' \subseteq Numbers
         /\ \A r \in DOMAIN objects' : objects'[r] \in Contents
    BY <1>1, <1>9 DEF Raise, GoTo, StoreObject, TypeOK, NumberIsNext, Numbered
  <2>2. TypeOK'
    BY <1>1, <1>9, <2>1 DEF Raise, GoTo, StoreObject, TypeOK
  <2>3. ActiveThere'
    BY <1>9 DEF Raise, ActiveThere, Last
  <2>4. InsideHolds'
    BY <1>9 DEF Raise, GoTo, StoreObject, TypeOK, InsideHolds, Inside
  <2>5. NumberIsNext'
    BY <1>9 DEF Raise, GoTo, StoreObject, TypeOK, InsideHolds, Inside,
       NumberIsNext, Numbered, Last
  <2>6. row' = row /\ Past \subseteq Past'
    BY <1>9 DEF Raise, GoTo, Past, TypeOK
  <2>7. RevisionsCounted'
    BY <2>6, CountKept
  <2>8. StoredIsOwn'
    BY <1>9 DEF Raise, GoTo, StoreObject, TypeOK, InsideHolds, Inside,
       NumberIsNext, Numbered, StoredIsOwn
  <2>9. SourceIsItsOwn'
    BY <1>1, <1>9 DEF Raise, GoTo, StoreObject, TypeOK, NumberIsNext, Numbered,
       StoredIsOwn, SourceIsItsOwn, Last
  <2>10. UnreferencedIsExplained'
    BY <1>1, <1>9 DEF Raise, GoTo, StoreObject, TypeOK, NumberIsNext, Numbered,
       UnreferencedIsExplained, Last
  <2> QED BY <2>1, <2>2, <2>3, <2>4, <2>5, <2>6, <2>7, <2>8, <2>9, <2>10
<1>10. CASE Rollback(q)
  <2>1. TypeOK'
    BY <1>1, <1>10 DEF Rollback, GoTo, Release, TypeOK
  <2>2. ActiveThere'
    BY <1>10 DEF Rollback, ActiveThere, Last
  <2>3. InsideHolds'
    BY <1>10 DEF Rollback, GoTo, Release, TypeOK, InsideHolds, Inside
  <2>4. NumberIsNext'
    BY <1>10 DEF Rollback, GoTo, Release, TypeOK, InsideHolds, Inside,
       NumberIsNext, Numbered, Last
  <2>5. row' = row /\ Past \subseteq Past'
    BY <1>10 DEF Rollback, GoTo, Past, TypeOK
  <2>6. RevisionsCounted'
    BY <2>5, CountKept
  <2>7. StoredIsOwn'
    BY <1>10 DEF Rollback, GoTo, Release, TypeOK, InsideHolds, Inside,
       NumberIsNext, Numbered, StoredIsOwn
  <2>8. SourceIsItsOwn'
    BY <1>1, <1>10 DEF Rollback, GoTo, Release, TypeOK, NumberIsNext, Numbered,
       StoredIsOwn, SourceIsItsOwn, Last
  <2>9. UnreferencedIsExplained'
    BY <1>1, <1>10 DEF Rollback, GoTo, Release, TypeOK, NumberIsNext, Numbered,
       UnreferencedIsExplained, Last
  <2> QED BY <2>1, <2>2, <2>3, <2>4, <2>5, <2>6, <2>7, <2>8, <2>9
<1>11. CASE DeleteObject(q)
  <2>1. TypeOK'
    BY <1>1, <1>11 DEF DeleteObject, GoTo, TypeOK
  <2>2. ActiveThere'
    BY <1>11 DEF DeleteObject, ActiveThere, Last
  <2>3. InsideHolds'
    BY <1>11 DEF DeleteObject, GoTo, TypeOK, InsideHolds, Inside
  <2>4. NumberIsNext'
    BY <1>11 DEF DeleteObject, GoTo, TypeOK, InsideHolds, Inside, NumberIsNext,
       Numbered, Last
  <2>5. row' = row /\ Past \subseteq Past'
    BY <1>11 DEF DeleteObject, GoTo, Past, TypeOK
  <2>6. RevisionsCounted'
    BY <2>5, CountKept
  <2>7. StoredIsOwn'
    BY <1>11 DEF DeleteObject, GoTo, TypeOK, InsideHolds, Inside, NumberIsNext,
       Numbered, StoredIsOwn
  <2>8. SourceIsItsOwn'
    BY <1>1, <1>11 DEF DeleteObject, GoTo, TypeOK, NumberIsNext, Numbered,
       StoredIsOwn, SourceIsItsOwn, Last
  <2>9. UnreferencedIsExplained'
    BY <1>1, <1>11 DEF DeleteObject, GoTo, TypeOK, NumberIsNext, Numbered,
       UnreferencedIsExplained, Last
  <2> QED BY <2>1, <2>2, <2>3, <2>4, <2>5, <2>6, <2>7, <2>8, <2>9
<1>12. CASE LeakObject(q)
  <2>1. TypeOK'
    BY <1>1, <1>12 DEF LeakObject, GoTo, TypeOK
  <2>2. ActiveThere'
    BY <1>12 DEF LeakObject, ActiveThere, Last
  <2>3. InsideHolds'
    BY <1>12 DEF LeakObject, GoTo, TypeOK, InsideHolds, Inside
  <2>4. NumberIsNext'
    BY <1>12 DEF LeakObject, GoTo, TypeOK, InsideHolds, Inside, NumberIsNext,
       Numbered, Last
  <2>5. row' = row /\ Past \subseteq Past'
    BY <1>12 DEF LeakObject, GoTo, Past, TypeOK
  <2>6. RevisionsCounted'
    BY <2>5, CountKept
  <2>7. StoredIsOwn'
    BY <1>12 DEF LeakObject, GoTo, TypeOK, InsideHolds, Inside, NumberIsNext,
       Numbered, StoredIsOwn
  <2>8. SourceIsItsOwn'
    BY <1>1, <1>12 DEF LeakObject, GoTo, TypeOK, NumberIsNext, Numbered,
       StoredIsOwn, SourceIsItsOwn, Last
  <2>9. UnreferencedIsExplained'
    BY <1>1, <1>12 DEF LeakObject, GoTo, TypeOK, NumberIsNext, Numbered,
       UnreferencedIsExplained, Last
  <2> QED BY <2>1, <2>2, <2>3, <2>4, <2>5, <2>6, <2>7, <2>8, <2>9
<1>13. CASE Die(q)
  <2>1. TypeOK'
    BY <1>1, <1>13 DEF Die, GoTo, Release, TypeOK
  <2>2. ActiveThere'
    BY <1>13 DEF Die, ActiveThere, Last
  <2>3. InsideHolds'
    BY <1>13 DEF Die, GoTo, Release, TypeOK, InsideHolds, Inside
  <2>4. NumberIsNext'
    BY <1>13 DEF Die, GoTo, Release, TypeOK, InsideHolds, Inside, NumberIsNext,
       Numbered, Last
  <2>5. row' = row /\ Past \subseteq Past'
    BY <1>13 DEF Die, GoTo, Past, TypeOK
  <2>6. RevisionsCounted'
    BY <2>5, CountKept
  <2>7. StoredIsOwn'
    BY <1>13 DEF Die, GoTo, Release, TypeOK, InsideHolds, Inside, NumberIsNext,
       Numbered, StoredIsOwn
  <2>8. SourceIsItsOwn'
    BY <1>1, <1>13 DEF Die, GoTo, Release, TypeOK, NumberIsNext, Numbered,
       StoredIsOwn, SourceIsItsOwn, Last
  <2>9. UnreferencedIsExplained'
    BY <1>1, <1>13 DEF Die, GoTo, Release, TypeOK, NumberIsNext, Numbered,
       UnreferencedIsExplained, Last
  <2> QED BY <2>1, <2>2, <2>3, <2>4, <2>5, <2>6, <2>7, <2>8, <2>9
<1> QED BY <1>2, <1>3, <1>4, <1>5, <1>6, <1>7, <1>8, <1>9, <1>10, <1>11, <1>12,
           <1>13 DEF Step

\* So does the worker, which changes no revision and no object.
LEMMA WorkerKeeps ==
  ASSUME IndInv, WorkerActivates \/ WorkerEndsJob \/ UNCHANGED vars
  PROVE  IndInv'
<1> USE DEF IndInv
<1>1. Last \in Numbers \cup {0}
  <2>1. IsFiniteSet(Requests) /\ Cardinality(Requests) \in Nat
    BY SourceObjectsAssumption, FS_CardinalityType DEF SourceObjectsAssumption
  <2>2. IsFiniteSet(Past) /\ Cardinality(Past) <= Cardinality(Requests)
    BY <2>1, FS_Subset DEF Past
  <2>3. Cardinality(Past) \in Nat
    BY <2>2, FS_CardinalityType
  <2>4. Last \in Nat
    BY DEF TypeOK, Last
  <2> QED BY <2>1, <2>2, <2>3, <2>4 DEF RevisionsCounted, Numbers
<1>2. row'.revs = row.revs /\ UNCHANGED <<objects, holder, pc, request, lost>>
  BY DEF WorkerActivates, WorkerEndsJob, vars, TypeOK
<1>3. TypeOK'
  BY <1>1 DEF TypeOK, WorkerActivates, WorkerEndsJob, vars
<1>4. ActiveThere'
  <2>1. Last' = Last /\ Last <= Last
    BY <1>1, <1>2 DEF Last, Numbers
  <2>2. row'.active = Last \/ row'.active = row.active
    BY DEF WorkerActivates, WorkerEndsJob, vars, TypeOK
  <2> QED BY <2>1, <2>2 DEF ActiveThere
<1> QED BY <1>2, <1>3, <1>4 DEF InsideHolds, NumberIsNext, RevisionsCounted,
           StoredIsOwn,
                          SourceIsItsOwn, UnreferencedIsExplained, Last, Past

LEMMA InitInv ==
  ASSUME Init
  PROVE  IndInv
<1>1. Past = {}
  BY DEF Init, Past
<1>2. Cardinality(Past) = 0
  BY <1>1, FS_EmptySet
<1>3. Last = 0
  BY DEF Init, Last
<1>4. TypeOK
  BY SourceObjectsAssumption DEF Init, TypeOK, SourceObjectsAssumption
<1> QED BY <1>2, <1>3, <1>4 DEF IndInv, Init, ActiveThere, InsideHolds, Inside,
           NumberIsNext,
      Numbered, RevisionsCounted, StoredIsOwn, SourceIsItsOwn, UnreferencedIsExplained

\* The invariant the theorems rest on.
THEOREM IndInvHolds == Spec => []IndInv
<1>1. IndInv /\ [Next]_vars => IndInv'
  BY StepKeeps, WorkerKeeps DEF Next
<1> QED BY <1>1, InitInv, PTL DEF Spec

\* The document, the objects and the requests keep their types; in
\* particular the numbers that are drawn never run out.
THEOREM SourcesTypeCorrect == Spec => []TypeOK
<1>1. IndInv => TypeOK
  BY DEF IndInv
<1> QED BY <1>1, IndInvHolds, PTL

\* The object under the number of a revision is the text that was hashed for
\* it, whichever requests drew that number and however they ended.
THEOREM SourcesAreOwn == Spec => []SourceIsItsOwn
<1>1. IndInv => SourceIsItsOwn
  BY DEF IndInv
<1> QED BY <1>1, IndInvHolds, PTL

\* Every object without a revision belongs to a request that is on its way,
\* or whose clean-up failed or was never reached.
THEOREM LeftoversExplained == Spec => []UnreferencedIsExplained
<1>1. IndInv => UnreferencedIsExplained
  BY DEF IndInv
<1> QED BY <1>1, IndInvHolds, PTL
=============================================================================
