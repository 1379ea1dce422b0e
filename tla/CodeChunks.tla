----------------------------- MODULE CodeChunks -----------------------------
(***************************************************************************)
(* What LightRAG holds of the documents of a workspace, chunk by chunk     *)
(* (backend/indexing/provenance.py and the three ways backend/worker/      *)
(* service.py uses it), the vectors the embedding client brings for it     *)
(* (backend/embeddings/client.py) and the sources an answer cites          *)
(* (backend/query/service.py).                                             *)
(*                                                                         *)
(* DocumentWorkflow has the jobs, leases and locks, and shows that one     *)
(* execution at a time changes the index for a document.  Here a document  *)
(* has a job or none, an execution is bound to the document, and it may    *)
(* fail between any two calls of LightRAG and start again.  FAILED is not  *)
(* told from INDEXING, which a retry treats in the same way.               *)
(***************************************************************************)
EXTENDS CodeText, FiniteSetsExt

CONSTANTS
    Docs,
    Sources,        \* the files that are uploaded as each document
    Updates,        \* those of them that replace another
    ParseOf,        \* the parse of each file
    MaxRevision,    \* bound on the revisions of a document
    MaxMigrations,  \* bound on changes of the index contract
    MaxRetrieved    \* bound on the entries a query retrieves

ASSUME ChunksAssumption ==
    /\ \A d \in Docs : Updates[d] \subseteq Sources[d]
    /\ MaxRevision \in Nat \ {0}
    /\ MaxMigrations \in Nat
    /\ MaxRetrieved \in Nat

Files == UNION {Sources[d] : d \in Docs}

\* What is used here of DocumentParser.parse: the result has the file's text,
\* and chunks with lines are cut from that text.
ParseFits(f, parsed) ==
    /\ parsed \in ParsedDocuments
    /\ parsed.code = f.code
    /\ parsed.bytes = f.bytes
    /\ \A k \in DOMAIN parsed.chunks :
         LET chunk == parsed.chunks[k]
         IN  \/ chunk.first = 0
             \/ \E i \in 0 .. Len(f.bytes) : \E j \in i .. Len(f.bytes) :
                  chunk = Chunk(f.bytes, chunk, <<i, j>>)

\* There is one result for a file.
ASSUME ParserAssumption == \A f \in Files : ParseFits(f, ParseOf[f])

VARIABLES
    docs,       \* the rows of documents with their revisions, and their job
    proc,       \* the execution of each document's job
    store,      \* the entries of the LightRAG namespace in use
    query,      \* a query: what it retrieved, and the sources it cites
    migrations  \* changes of the index contract so far

vars == <<docs, proc, store, query, migrations>>

-----------------------------------------------------------------------------
NoDoc == "none"

Absent == [status |-> "ABSENT", active |-> 0, revs |-> << >>,
           marked |-> FALSE, job |-> "none"]

NoParse == [code |-> FALSE, bytes |-> << >>, chunks |-> << >>]

Out == [step |-> "out", rev |-> 0, new |-> NoParse, todo |-> << >>]

NoQuery == [step |-> "idle", found |-> {}, sources |-> {}]

NoCitation == [doc |-> NoDoc, rev |-> 0, symbol |-> "", first |-> 0, last |-> 0]

\* chunk_document_id, and the hash LightRAG gives a text without an id.
ChunkKey(d, r, i) == <<"chunk", d, r, i>>
TextKey(bytes) == <<"text", bytes>>

IsChunkOf(key, d) == key[1] = "chunk" /\ key[2] = d

ChunkEntries(d) == {e \in store : IsChunkOf(e.key, d)}

\* The embedding model: equal texts, and only those, have the same vector.
VectorOf(text) == text

Keys ==
    ({"chunk"} \X Docs \X (1 .. MaxRevision) \X Nat) \cup ({"text"} \X Seq(Bytes))

Citations ==
    [doc : Docs, rev : 1 .. MaxRevision, symbol : Names, first : Nat, last : Nat]
      \cup {NoCitation}

\* What a query retrieves: the text of an entry, and its citation.
Passages == [text : Seq(Bytes), citation : Citations]

\* QuerySource; revision and lines are 0 when the whole document is named.
QuerySources ==
    [doc : Docs, rev : 0 .. MaxRevision, first : Nat, last : Nat]

Entry == [key : Keys, text : Seq(Bytes), vector : Seq(Bytes), citation : Citations]

Document ==
    [status : {"ABSENT", "UPLOADED", "INDEXING", "READY", "UPDATING",
               "DELETING", "DELETED"},
     active : 0 .. MaxRevision,
     revs   : Seq(Files),
     marked : BOOLEAN,
     job    : {"none", "INDEX", "REINDEX", "DELETE"}]

Execution ==
    [step : {"out", "removing", "inserting", "completing"},
     rev  : 0 .. MaxRevision,
     new  : {NoParse} \cup {ParseOf[f] : f \in Files},
     todo : Seq(Keys)]

TypeOK ==
    /\ docs \in [Docs -> Document]
    /\ \A d \in Docs :
         /\ Len(docs[d].revs) <= MaxRevision
         /\ \A r \in DOMAIN docs[d].revs : docs[d].revs[r] \in Sources[d]
         /\ docs[d].active <= Len(docs[d].revs)
         /\ proc[d].rev <= Len(docs[d].revs)
    /\ proc \in [Docs -> Execution]
    /\ store \subseteq Entry
    /\ query \in [step : {"idle", "retrieved", "answered"},
                 found : SUBSET Passages, sources : SUBSET QuerySources]
    /\ migrations \in 0 .. MaxMigrations

Init ==
    /\ docs = [d \in Docs |-> Absent]
    /\ proc = [d \in Docs |-> Out]
    /\ store = {}
    /\ query = NoQuery
    /\ migrations = 0

-----------------------------------------------------------------------------
(* backend/indexing/provenance.py                                          *)

\* One LightRAG document per chunk; the citation is that of
\* encode_chunk_provenance.
Numbered(d, parsed, rev) ==
    [k \in DOMAIN parsed.chunks |->
       LET chunk == parsed.chunks[k]
       IN  [key |-> ChunkKey(d, rev, k - 1), text |-> chunk.text,
            citation |-> [doc |-> d, rev |-> rev, symbol |-> chunk.symbol,
                          first |-> chunk.first, last |-> chunk.last]]]

\* Faulty variant: the missing revision of a first indexing is no obstacle.
ChunkDocuments_AnyRevision(d, parsed, rev) ==
    IF parsed.chunks = << >> \/ ~parsed.code THEN << >>
    ELSE Numbered(d, parsed, rev)

\* code_chunk_documents; the empty sequence is its None, and revision 0 NULL.
ChunkDocuments(d, parsed, rev) ==
    IF parsed.chunks = << >> \/ ~parsed.code \/ rev = 0 THEN << >>
    ELSE Numbered(d, parsed, rev)

\* delete_indexed_document: the entries it deletes, one call for each.
KeysToDelete(d, parsed, rev) ==
    LET chunks == ChunkDocuments(d, parsed, rev)
    IN  IF chunks = << >> THEN <<TextKey(parsed.bytes)>>
        ELSE [k \in DOMAIN chunks |-> chunks[k].key]

\* insert_parsed_document: what ainsert is called with.
ToInsert(d, parsed, rev) ==
    LET chunks == ChunkDocuments(d, parsed, rev)
    IN  IF chunks = << >>
        THEN <<[key |-> TextKey(parsed.bytes), text |-> parsed.bytes,
                citation |-> NoCitation]>>
        ELSE chunks

-----------------------------------------------------------------------------
(* backend/embeddings/client.py                                            *)

\* Answers to a request for n vectors.  Each item has the vector of the input
\* that its index names, counted from 0; n stands for the index of an item
\* that is invalid by itself: not a number, out of range, a bad vector.
Replies(n) == UNION {[1 .. m -> 0 .. n] : m \in {n - 1, n}}

\* _parse_vectors: one vector for each text, or none when it raises.
ParseVectors(reply, texts) ==
    IF /\ Len(reply) = Len(texts)
       /\ \A k \in DOMAIN reply :
            /\ reply[k] < Len(texts)
            /\ \A l \in 1 .. k - 1 : reply[l] # reply[k]
    THEN [i \in DOMAIN texts |->
            LET k == CHOOSE k \in DOMAIN reply : reply[k] = i - 1
            IN  VectorOf(texts[reply[k] + 1])]
    ELSE << >>

-----------------------------------------------------------------------------
(* The API: a row and its job change in one transaction.                   *)

Request(d, doc) ==
    /\ docs[d].job = "none"
    /\ docs' = [docs EXCEPT ![d] = doc]
    /\ UNCHANGED <<proc, store, query, migrations>>

Upload(d, file) ==
    /\ docs[d].status = "ABSENT"
    /\ Request(d, [docs[d] EXCEPT !.status = "UPLOADED", !.revs = <<file>>,
                                  !.job = "INDEX"])

Upsert(d, file) ==
    /\ docs[d].status = "READY"
    /\ file.bytes # docs[d].revs[docs[d].active].bytes
    /\ Len(docs[d].revs) < MaxRevision
    /\ Request(d, [docs[d] EXCEPT !.status = "UPDATING", !.job = "INDEX",
                                  !.revs = Append(@, file)])

Delete(d) ==
    /\ docs[d].status = "READY"
    /\ Request(d, [docs[d] EXCEPT !.status = "DELETING", !.job = "DELETE"])

Reindex(d) ==
    /\ docs[d].status = "READY"
    /\ docs[d].marked
    /\ Request(d, [docs[d] EXCEPT !.job = "REINDEX"])

\* Every process is started anew with another index contract: its namespace
\* is empty, and the active revisions are marked as missing there.
Migrate ==
    /\ migrations < MaxMigrations
    /\ \A d \in Docs : proc[d] = Out
    /\ migrations' = migrations + 1
    /\ store' = {}
    /\ query' = NoQuery
    /\ docs' = [d \in Docs |->
                  [docs[d] EXCEPT !.marked = \/ @
                                             \/ /\ docs[d].active # 0
                                                /\ docs[d].status # "DELETED"]]
    /\ UNCHANGED proc

-----------------------------------------------------------------------------
(* The worker.                                                             *)

Start(d, to) ==
    /\ proc[d] = Out
    /\ proc' = [proc EXCEPT ![d] = to]
    /\ UNCHANGED <<store, query, migrations>>

\* IndexingService.index.  It inserts without naming a revision, and no
\* revision of the document is active yet.
StartIndexing(d) ==
    /\ docs[d].job = "INDEX"
    /\ docs[d].status \in {"UPLOADED", "INDEXING"}
    /\ docs' = [docs EXCEPT ![d].status = "INDEXING"]
    /\ Start(d, [Out EXCEPT !.step = "inserting", !.rev = docs[d].active,
                            !.new = ParseOf[docs[d].revs[1]]])

\* Faulty variant: the new revision is inserted next to the old one.
StartReplacing_Beside(d) ==
    /\ docs[d].job = "INDEX"
    /\ docs[d].status = "UPDATING"
    /\ UNCHANGED docs
    /\ LET r == Len(docs[d].revs)
       IN  Start(d, [Out EXCEPT !.step = "inserting", !.rev = r,
                                !.new = ParseOf[docs[d].revs[r]]])

\* _replace: both revisions are parsed before anything is deleted.
StartReplacing(d) ==
    /\ docs[d].job = "INDEX"
    /\ docs[d].status = "UPDATING"
    /\ UNCHANGED docs
    /\ LET r   == Len(docs[d].revs)
           a   == docs[d].active
           old == ParseOf[docs[d].revs[a]]
       IN  Start(d, [step |-> "removing", rev |-> r,
                     new |-> ParseOf[docs[d].revs[r]],
                     todo |-> KeysToDelete(d, old, a)])

\* _reindex.
StartReindexing(d) ==
    /\ docs[d].job = "REINDEX"
    /\ docs[d].status = "READY"
    /\ UNCHANGED docs
    /\ LET a == docs[d].active
       IN  Start(d, [Out EXCEPT !.step = "inserting", !.rev = a,
                                !.new = ParseOf[docs[d].revs[a]]])

\* _delete.
StartDeleting(d) ==
    /\ docs[d].job = "DELETE"
    /\ docs[d].status = "DELETING"
    /\ UNCHANGED docs
    /\ LET a == docs[d].active
       IN  Start(d, [Out EXCEPT
                       !.step = "removing", !.rev = a,
                       !.todo = KeysToDelete(d, ParseOf[docs[d].revs[a]], a)])

\* adelete_by_doc_id, which finds no fault with an entry that is not there.
RemoveNext(d) ==
    LET rest == Tail(proc[d].todo)
    IN  /\ proc[d].step = "removing"
        /\ store' = {e \in store : e.key # Head(proc[d].todo)}
        /\ proc' = [proc EXCEPT
             ![d].todo = rest,
             ![d].step = IF rest # << >> THEN "removing"
                         ELSE IF docs[d].job = "DELETE" THEN "completing"
                         ELSE "inserting"]
        /\ UNCHANGED <<docs, query, migrations>>

\* ainsert: LightRAG has the texts embedded and stores them under their keys;
\* entries with a key it has already are passed over.
Entries(batch, vectors) ==
    {[key |-> batch[k].key, text |-> batch[k].text, vector |-> vectors[k],
      citation |-> batch[k].citation] :
       k \in {l \in DOMAIN batch : \A e \in store : e.key # batch[l].key}}

Vectors(batch, reply) ==
    ParseVectors(reply, [k \in DOMAIN batch |-> batch[k].text])

Insert(d) ==
    LET batch == ToInsert(d, proc[d].new, proc[d].rev)
    IN  /\ proc[d].step = "inserting"
        /\ \E reply \in Replies(Len(batch)) :
             LET vectors == Vectors(batch, reply)
             IN  /\ vectors # << >>
                 /\ store' = store \cup Entries(batch, vectors)
        /\ proc' = [proc EXCEPT ![d].step = "completing"]
        /\ UNCHANGED <<docs, query, migrations>>

\* Faulty variant: the failure goes unnoticed.
InsertPart_Unnoticed(d) ==
    LET batch == ToInsert(d, proc[d].new, proc[d].rev)
    IN  /\ proc[d].step = "inserting"
        /\ \E n \in 1 .. Len(batch) :
             store' = store \cup Entries(SubSeq(batch, 1, n),
                                         Vectors(batch, [k \in DOMAIN batch |-> k - 1]))
        /\ proc' = [proc EXCEPT ![d].step = "completing"]
        /\ UNCHANGED <<docs, query, migrations>>

\* The call fails half-way: some entries are there.
InsertPart(d) ==
    LET batch == ToInsert(d, proc[d].new, proc[d].rev)
    IN  /\ proc[d].step = "inserting"
        /\ \E n \in 1 .. Len(batch) :
             store' = store \cup Entries(SubSeq(batch, 1, n),
                                         Vectors(batch, [k \in DOMAIN batch |-> k - 1]))
        /\ proc' = [proc EXCEPT ![d] = Out]
        /\ UNCHANGED <<docs, query, migrations>>

\* transition_status to READY, complete_replacement_for_job,
\* complete_reindex_for_job and complete_deletion_for_job.
Complete(d) ==
    /\ proc[d].step = "completing"
    /\ docs' = [docs EXCEPT
         ![d].job = "none",
         ![d].marked = FALSE,
         ![d].status = IF docs[d].job = "DELETE" THEN "DELETED" ELSE "READY",
         ![d].active = IF docs[d].job = "INDEX" THEN Len(docs[d].revs) ELSE @]
    /\ proc' = [proc EXCEPT ![d] = Out]
    /\ UNCHANGED <<store, query, migrations>>

\* An exception, a lost lease or a crash.  The job is tried again, until its
\* attempts are used up.
Fail(d) ==
    /\ proc[d] # Out
    /\ proc' = [proc EXCEPT ![d] = Out]
    /\ \/ UNCHANGED docs
       \/ docs' = [docs EXCEPT ![d].job = "none"]
    /\ UNCHANGED <<store, query, migrations>>

-----------------------------------------------------------------------------
(* QueryService.query.                                                     *)

\* aquery_llm: LightRAG generates the answer from the texts of some entries,
\* and names their citations.
Retrieve ==
    /\ query.step # "retrieved"
    /\ \E found \in UNION {kSubset(n, store) : n \in 0 .. MaxRetrieved} :
         query' = [step |-> "retrieved", sources |-> {},
                   found |-> {[text |-> e.text, citation |-> e.citation] :
                                e \in found}]
    /\ UNCHANGED <<docs, proc, store, migrations>>

ReadyDocs == {d \in Docs : docs[d].status = "READY"}

Source(c) == [doc |-> c.doc, rev |-> c.rev, first |-> c.first, last |-> c.last]

\* Faulty variant: the revision of a citation is not looked at.
RetrievedSources_AnyRevision(found) ==
    {Source(p.citation) : p \in {q \in found : q.citation.doc \in ReadyDocs}}

\* _retrieved_sources: an entry without provenance is passed over, and so is
\* one of a document that is not READY now or of another revision.
RetrievedSources(found) ==
    LET Current(c) == c.doc \in ReadyDocs /\ c.rev = docs[c.doc].active
    IN  {Source(p.citation) : p \in {q \in found : Current(q.citation)}}

\* The documents are listed after the retrieval.
Answer ==
    /\ query.step = "retrieved"
    /\ LET cited == RetrievedSources(query.found)
       IN  query' = [query EXCEPT
             !.step = "answered",
             !.sources = IF cited # {} THEN cited
                         ELSE {Source([NoCitation EXCEPT !.doc = d]) :
                                 d \in ReadyDocs}]
    /\ UNCHANGED <<docs, proc, store, migrations>>

-----------------------------------------------------------------------------
Next ==
    \/ \E d \in Docs :
         \/ \E file \in Sources[d] : Upload(d, file)
         \/ \E file \in Updates[d] : Upsert(d, file)
         \/ Delete(d)
         \/ Reindex(d)
         \/ StartIndexing(d)
         \/ StartReplacing(d)
         \/ StartReindexing(d)
         \/ StartDeleting(d)
         \/ RemoveNext(d)
         \/ Insert(d)
         \/ InsertPart(d)
         \/ Complete(d)
         \/ Fail(d)
    \/ Migrate
    \/ Retrieve
    \/ Answer

Spec == Init /\ [][Next]_vars

-----------------------------------------------------------------------------
(* Properties.                                                             *)

\* What LightRAG is told to hold for revision r once it is indexed by number.
IndexedAs(d, r) ==
    LET batch == ToInsert(d, ParseOf[docs[d].revs[r]], r)
    IN  {[key |-> batch[k].key, text |-> batch[k].text,
          vector |-> VectorOf(batch[k].text)] : k \in DOMAIN batch}

Held(entries) ==
    {[key |-> e.key, text |-> e.text, vector |-> e.vector] : e \in entries}

\* LightRAG has revision r of document d and no other chunks of d.  A first
\* revision, which is inserted while none is active, is there as a whole text.
\* (Of a source file it is still there beside the revision that replaced it.)
HoldsRevision(d, r) ==
    \/ /\ IndexedAs(d, r) \subseteq Held(store)
       /\ Held(ChunkEntries(d)) \subseteq IndexedAs(d, r)
    \/ /\ r = 1
       /\ ChunkEntries(d) = {}
       /\ LET bytes == docs[d].revs[1].bytes
          IN  [key |-> TextKey(bytes), text |-> bytes,
               vector |-> VectorOf(bytes)] \in Held(store)

\* LightRAG has nothing of d.  (A code file's first revision stays as a whole
\* text: it was inserted as one and is deleted by chunks.)
HoldsNothing(d) ==
    /\ ChunkEntries(d) = {}
    /\ \A r \in DOMAIN docs[d].revs, e \in store :
         e.key = TextKey(docs[d].revs[r].bytes)
         => docs[d].revs[1].code /\ e.text = docs[d].revs[1].bytes

\* After any history of failed attempts, and in whatever order the embedding
\* service answers: a READY document that is not due for reindexing is in
\* LightRAG with exactly the chunks of its active revision, each with the
\* vector of its own text, and a deleted one has left nothing; the whole text of a
\* source file's first revision may be there beside either.
IndexFollowsStatus ==
    \A d \in Docs :
      /\ docs[d].status = "READY" /\ ~docs[d].marked
         => HoldsRevision(d, docs[d].active)
      /\ docs[d].status = "DELETED" => HoldsNothing(d)

\* The entries of a document: its chunks and the whole texts of revisions.
EntriesOf(d) ==
    {e \in store : \/ IsChunkOf(e.key, d)
                   \/ \E r \in DOMAIN docs[d].revs :
                        e.key = TextKey(docs[d].revs[r].bytes)}

\* LightRAG never has two revisions of a document, not even while one replaces
\* the other and whichever call fails, with one exception: the whole text that
\* a source file's first revision went in as stays beside all later ones, and a
\* query may be given both.  ADR 0017, line 17, does not make this exception:
\* the replacement asks for chunks that are not there, as in
\* DeletionRemovesText.
OneRevisionBesideFirstText ==
    \A d \in Docs : \A e, f \in EntriesOf(d) :
      \/ e.key = f.key
      \/ IsChunkOf(e.key, d) /\ IsChunkOf(f.key, d) /\ e.key[3] = f.key[3]
      \/ /\ docs[d].revs[1].code
         /\ TextKey(docs[d].revs[1].bytes) \in {e.key, f.key}

\* The line of the i-th byte.
LineOf(bytes, i) == Cardinality({j \in 1 .. i - 1 : bytes[j] = "nl"}) + 1

\* text is found in bytes from line first to line last, and reaches both.
StandsOn(text, bytes, first, last) ==
    \/ text = << >>
    \/ \E i \in 1 .. Len(bytes) - Len(text) + 1 :
         LET end == i + Len(text) - 1
         IN  /\ SubSeq(bytes, i, end) = text
             /\ LineOf(bytes, i) = first
             /\ LineOf(bytes, end) = last

\* The lines a citation names are those of the chunk's text in the cited
\* revision.
CitedLinesHoldText ==
    \A e \in store : e.citation.first # 0 =>
      LET c == e.citation
      IN  StandsOn(e.text, docs[c.doc].revs[c.rev].bytes, c.first, c.last)

\* The passages of a source are at its lines of the active text.
FoundWhereCited(s) ==
    LET passages == {p \in query.found : Source(p.citation) = s}
        bytes == docs[s.doc].revs[docs[s.doc].active].bytes
    IN  /\ passages # {}
        /\ \A p \in passages : StandsOn(p.text, bytes, s.first, s.last)

\* The passages an answer was generated from are where its sources say, in the
\* text that is active when the sources are named: although the documents are
\* listed after the retrieval (query/service.py:71) and may be replaced before,
\* whoever looks up a cited line finds the passage there.
CitedPassagesAreCurrent ==
    [][query.step = "retrieved" /\ query'.step = "answered"
       => \A s \in query'.sources : s.first # 0 => FoundWhereCited(s)]_vars

\* worker/service.py:320: a deletion takes the active document out of LightRAG,
\* by its chunks or as a whole text (provenance.py:40), however it was put in.
DeletionRemovesText ==
    \A d \in Docs :
      docs[d].status = "DELETED"
      => /\ ChunkEntries(d) = {}
         /\ \A e \in store : e.key # TextKey(docs[d].revs[docs[d].active].bytes)
=============================================================================
