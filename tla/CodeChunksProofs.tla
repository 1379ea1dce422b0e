-------------------------- MODULE CodeChunksProofs --------------------------
(***************************************************************************)
(* Theorems about CodeChunks, for any parser that ParserAssumption fits.   *)
(***************************************************************************)
EXTENDS CodeChunks, RevisionLemmas, FiniteSetTheorems, SequenceTheorems, TLAPS

-----------------------------------------------------------------------------
(* The inductive invariant.                                                *)

\* LightRAG identifies what is no code by its text: no two documents have the
\* same.
TextsApart ==
    \A d, e \in Docs : \A f \in Sources[d], g \in Sources[e] :
      f.bytes = g.bytes => d = e

\* The file is inserted by chunks, if its revision is named.
Chunked(file) == ParseOf[file].code /\ ParseOf[file].chunks # << >>

Rev(d, r) == docs[d].revs[r]

EntryOf(d, file, r, k) ==
    LET chunk == ParseOf[file].chunks[k]
    IN  [key |-> ChunkKey(d, r, k - 1), text |-> chunk.text,
         vector |-> VectorOf(chunk.text),
         citation |-> [doc |-> d, rev |-> r, symbol |-> chunk.symbol,
                       first |-> chunk.first, last |-> chunk.last]]

TextEntry(bytes) ==
    [key |-> TextKey(bytes), text |-> bytes, vector |-> VectorOf(bytes),
     citation |-> NoCitation]

\* Where a document may be, and which jobs it may have there.
DocFits(q) ==
    /\ q.status = "ABSENT" => q.revs = << >>
    /\ q.status \in {"ABSENT", "UPLOADED", "INDEXING"} => q.active = 0
    /\ q.status \in {"UPLOADED", "INDEXING"} => Len(q.revs) = 1
    /\ q.status \in {"READY", "DELETING", "DELETED"}
       => q.active = Len(q.revs) /\ q.active # 0
    /\ q.status = "UPDATING"
       => /\ q.active # 0
          /\ q.active + 1 = Len(q.revs)
          /\ q.revs[q.active].bytes # q.revs[Len(q.revs)].bytes
    /\ q.job = "INDEX" => q.status \in {"UPLOADED", "INDEXING", "UPDATING"}
    /\ q.job = "REINDEX" => q.status = "READY" /\ q.marked
    /\ q.job = "DELETE" => q.status = "DELETING"

\* An execution works for the job, on the revision that the job is for.
ExecutionFits(q, p) ==
    \/ p = Out
    \/ /\ q.job = "INDEX" /\ q.status = "INDEXING"
       /\ p.step \in {"inserting", "completing"}
       /\ p.rev = 0 /\ p.new = ParseOf[q.revs[1]]
    \/ /\ q.job = "INDEX" /\ q.status = "UPDATING"
       /\ p.step \in {"removing", "inserting", "completing"}
       /\ p.rev = Len(q.revs) /\ p.new = ParseOf[q.revs[p.rev]]
    \/ /\ q.job = "REINDEX"
       /\ p.step \in {"inserting", "completing"}
       /\ p.rev = q.active /\ p.new = ParseOf[q.revs[p.rev]]
    \/ /\ q.job = "DELETE"
       /\ p.step \in {"removing", "completing"}
       /\ p.rev = q.active /\ p.new = NoParse

\* Only entries of the active revision are to be deleted.
TodoFits(d) ==
    proc[d].step = "removing" =>
      LET a == docs[d].active
          keys == KeysToDelete(d, ParseOf[Rev(d, a)], a)
      IN  /\ proc[d].todo # << >>
          /\ \A k \in DOMAIN proc[d].todo :
               \E l \in DOMAIN keys : proc[d].todo[k] = keys[l]

\* Every entry has the text, the vector and the citation that its key is for.
EntryFits(e) ==
    \/ \E d \in Docs : \E r \in DOMAIN docs[d].revs :
         /\ Chunked(Rev(d, r))
         /\ \E k \in DOMAIN ParseOf[Rev(d, r)].chunks :
              e = EntryOf(d, Rev(d, r), r, k)
    \/ \E f \in Files : e = TextEntry(f.bytes)

\* A replacement has deleted what there was before.
Cleared(d) ==
    /\ docs[d].status = "UPDATING"
    /\ proc[d].step \in {"inserting", "completing"}

Deleted(d) ==
    \/ docs[d].status = "DELETED"
    \/ docs[d].status = "DELETING" /\ proc[d].step = "completing"

\* The chunks of a document are of one revision: the active one, until it has
\* been deleted, or that which replaces it.
ChunksFit(d) ==
    /\ \/ \A e \in ChunkEntries(d) : e.key[3] = docs[d].active
       \/ /\ docs[d].status = "UPDATING"
          /\ \A e \in ChunkEntries(d) : e.key[3] = Len(docs[d].revs)
    /\ proc[d].step = "removing" =>
         \A e \in ChunkEntries(d) : e.key[3] = docs[d].active =>
           \E k \in DOMAIN proc[d].todo : proc[d].todo[k] = e.key
    /\ Cleared(d) => \A e \in ChunkEntries(d) : e.key[3] = Len(docs[d].revs)
    /\ Deleted(d) => ChunkEntries(d) = {}

DocInv(d) ==
    /\ DocFits(docs[d])
    /\ ExecutionFits(docs[d], proc[d])
    /\ TodoFits(d)
    /\ ChunksFit(d)

ChunkInv ==
    /\ TypeOK
    /\ \A d \in Docs : DocInv(d)
    /\ \A e \in store : EntryFits(e)

\* The texts of a document that LightRAG may have as a whole.
MayHaveText(d, bytes) ==
    LET q == docs[d]
    IN  \/ /\ q.status \in {"UPLOADED", "INDEXING"} \/ Chunked(q.revs[1])
           /\ q.status # "ABSENT"
           /\ bytes = q.revs[1].bytes
        \/ /\ q.active # 0 /\ ~Cleared(d) /\ ~Deleted(d)
           /\ ~Chunked(q.revs[q.active])
           /\ bytes = q.revs[q.active].bytes
        \/ /\ q.status = "UPDATING" /\ ~Chunked(q.revs[Len(q.revs)])
           /\ bytes = q.revs[Len(q.revs)].bytes

TextsFit(d) ==
    \A f \in Sources[d] : \A e \in store :
      e.key = TextKey(f.bytes) => MayHaveText(d, f.bytes)

\* LightRAG has all of revision r, as it is indexed by number.
Has(d, r) ==
    LET file == Rev(d, r)
    IN  IF Chunked(file)
        THEN \A k \in DOMAIN ParseOf[file].chunks : EntryOf(d, file, r, k) \in store
        ELSE TextEntry(file.bytes) \in store

HasFirstText(d) == TextEntry(Rev(d, 1).bytes) \in store

\* An execution that is about to complete has seen to it.
Done(d) ==
    /\ docs[d].status = "INDEXING" => HasFirstText(d)
    /\ docs[d].status \in {"UPDATING", "READY"} => Has(d, proc[d].rev)

Indexed(d) ==
    \/ Has(d, docs[d].active)
    \/ docs[d].active = 1 /\ ChunkEntries(d) = {} /\ HasFirstText(d)

IndexFits(d) ==
    /\ TextsFit(d)
    /\ proc[d].step = "completing" => Done(d)
    /\ docs[d].status = "READY" /\ ~docs[d].marked => Indexed(d)

IndexInv == \A d \in Docs : IndexFits(d)

-----------------------------------------------------------------------------
(* Operators.                                                              *)

LEMMA ParseTyped ==
  ASSUME NEW f \in Files
  PROVE  /\ ParseOf[f] \in ParsedDocuments
         /\ ParseOf[f].code \in BOOLEAN
         /\ ParseOf[f].code = f.code
         /\ f.bytes \in Seq(Bytes)
         /\ ParseOf[f].bytes = f.bytes
         /\ ParseOf[f].chunks \in Seq(ParsedChunks)
BY ParserAssumption DEF ParseFits, ParsedDocuments

LEMMA FunctionIsSequence ==
  ASSUME NEW S, NEW n \in Nat, NEW g \in [1 .. n -> S]
  PROVE  g \in Seq(S) /\ Len(g) = n
OBVIOUS

\* A batch that is inserted.
BatchItem == [key : Keys, text : Seq(Bytes), citation : Citations]

\* What the whole text of a file, or its chunks, are inserted as.
LEMMA WholeText ==
  ASSUME NEW f \in Files, NEW d \in Docs, NEW r \in 0 .. MaxRevision,
         ~Chunked(f) \/ r = 0
  PROVE  /\ ToInsert(d, ParseOf[f], r)
              = <<[key |-> TextKey(f.bytes), text |-> f.bytes,
                   citation |-> NoCitation]>>
         /\ KeysToDelete(d, ParseOf[f], r) = <<TextKey(f.bytes)>>
         /\ TextKey(f.bytes) \in Keys
<1>1. ChunkDocuments(d, ParseOf[f], r) = << >>
  BY ParseTyped DEF ChunkDocuments, Chunked
<1>2. TextKey(f.bytes) \in Keys
  BY ParseTyped DEF TextKey, Keys
<1> QED
  BY <1>1, <1>2, ParseTyped DEF ToInsert, KeysToDelete

LEMMA ByChunks ==
  ASSUME NEW f \in Files, NEW d \in Docs, NEW r \in 1 .. MaxRevision, Chunked(f)
  PROVE  LET chunks == ParseOf[f].chunks
             batch  == ToInsert(d, ParseOf[f], r)
             keys   == KeysToDelete(d, ParseOf[f], r)
         IN  /\ Len(chunks) \in Nat \ {0}
             /\ DOMAIN chunks = 1 .. Len(chunks)
             /\ batch \in [1 .. Len(chunks) -> BatchItem]
             /\ batch \in Seq(BatchItem)
             /\ keys \in Seq(Keys)
             /\ Len(batch) = Len(chunks)
             /\ Len(keys) = Len(chunks)
             /\ \A k \in 1 .. Len(chunks) :
                  /\ keys[k] = ChunkKey(d, r, k - 1)
                  /\ batch[k].key = ChunkKey(d, r, k - 1)
                  /\ batch[k].text = chunks[k].text
                  /\ batch[k].citation = EntryOf(d, f, r, k).citation
<1> DEFINE chunks == ParseOf[f].chunks
<1>1. /\ chunks \in Seq(ParsedChunks)
      /\ chunks # << >>
      /\ Len(chunks) \in Nat \ {0}
      /\ DOMAIN chunks = 1 .. Len(chunks)
  BY ParseTyped, LenProperties, EmptySeq DEF Chunked
<1>2. \A k \in 1 .. Len(chunks) : chunks[k] \in ParsedChunks
  BY <1>1
<1>3. ChunkDocuments(d, ParseOf[f], r) = Numbered(d, ParseOf[f], r)
  BY <1>1 DEF ChunkDocuments, Chunked
<1> DEFINE num == Numbered(d, ParseOf[f], r)
<1>4. \A k \in 1 .. Len(chunks) :
        /\ num[k] = [key |-> ChunkKey(d, r, k - 1), text |-> chunks[k].text,
                     citation |-> EntryOf(d, f, r, k).citation]
        /\ num[k] \in BatchItem
  <2> SUFFICES ASSUME NEW k \in 1 .. Len(chunks)
               PROVE  /\ num[k] = [key |-> ChunkKey(d, r, k - 1), text |-> chunks[k].text,
                                   citation |-> EntryOf(d, f, r, k).citation]
                      /\ num[k] \in BatchItem
    OBVIOUS
  <2>1. num[k] = [key |-> ChunkKey(d, r, k - 1), text |-> chunks[k].text,
                  citation |-> EntryOf(d, f, r, k).citation]
    BY <1>1 DEF Numbered, EntryOf
  <2>2. ChunkKey(d, r, k - 1) \in Keys
    BY <1>1 DEF ChunkKey, Keys
  <2>3. EntryOf(d, f, r, k).citation \in Citations
    BY <1>2 DEF EntryOf, Citations, ParsedChunks
  <2>4. chunks[k].text \in Seq(Bytes)
    BY <1>2 DEF ParsedChunks
  <2> QED
    BY <2>1, <2>2, <2>3, <2>4 DEF BatchItem
<1>5. /\ num \in [1 .. Len(chunks) -> BatchItem]
      /\ num \in Seq(BatchItem)
      /\ Len(num) = Len(chunks)
  <2>1. num = [k \in 1 .. Len(chunks) |-> num[k]]
    BY <1>1 DEF Numbered
  <2> HIDE DEF num, chunks
  <2>2. num \in [1 .. Len(chunks) -> BatchItem]
    BY <2>1, <1>4
  <2> QED
    BY <2>2, <1>1, FunctionIsSequence
<1>6. num # << >>
  BY <1>5, <1>1
<1>7. ToInsert(d, ParseOf[f], r) = num
  BY <1>3, <1>6 DEF ToInsert
<1> DEFINE keys == [k \in DOMAIN num |-> num[k].key]
<1>8. KeysToDelete(d, ParseOf[f], r) = keys
  BY <1>3, <1>6 DEF KeysToDelete
<1>9. /\ keys \in Seq(Keys)
      /\ Len(keys) = Len(chunks)
      /\ \A k \in 1 .. Len(chunks) : keys[k] = ChunkKey(d, r, k - 1)
  <2>1. keys = [k \in 1 .. Len(chunks) |-> num[k].key]
    BY <1>5
  <2>2. \A k \in 1 .. Len(chunks) : num[k].key \in Keys
    BY <1>4 DEF BatchItem
  <2> HIDE DEF num, chunks
  <2>3. keys \in [1 .. Len(chunks) -> Keys]
    BY <2>1, <2>2
  <2>4. keys \in Seq(Keys) /\ Len(keys) = Len(chunks)
    BY <2>3, <1>1, FunctionIsSequence
  <2> QED
    BY <2>1, <2>4, <1>4
<1>10. \A k \in 1 .. Len(chunks) :
         /\ num[k].key = ChunkKey(d, r, k - 1)
         /\ num[k].text = chunks[k].text
         /\ num[k].citation = EntryOf(d, f, r, k).citation
  <2> HIDE DEF num, chunks
  <2> TAKE k \in 1 .. Len(chunks)
  <2>1. num[k] = [key |-> ChunkKey(d, r, k - 1), text |-> chunks[k].text,
                  citation |-> EntryOf(d, f, r, k).citation]
    BY <1>4
  <2> QED
    BY <2>1
<1> HIDE DEF num, keys
<1> QED
  BY <1>1, <1>10, <1>5, <1>7, <1>8, <1>9

\* A reply that _parse_vectors accepts names every input once.
LEMMA EveryInput ==
  ASSUME NEW n \in Nat \ {0}, NEW reply \in Replies(n), Len(reply) = n,
         \A k \in DOMAIN reply :
           /\ reply[k] < n
           /\ \A l \in 1 .. k - 1 : reply[l] # reply[k]
  PROVE  /\ DOMAIN reply = 1 .. n
         /\ \A i \in 1 .. n : \E k \in DOMAIN reply : reply[k] = i - 1
<1>1. DOMAIN reply = 1 .. n /\ reply \in [1 .. n -> 0 .. n]
  <2>1. PICK m \in {n - 1, n} : reply \in [1 .. m -> 0 .. n]
    BY DEF Replies
  <2>2. m \in Nat
    BY <2>1
  <2>3. Len(reply) = m
    BY <2>1, <2>2, FunctionIsSequence
  <2> QED
    BY <2>1, <2>3
<1>2. \A k, l \in 1 .. n : reply[k] = reply[l] => k = l
  <2> SUFFICES ASSUME NEW k \in 1 .. n, NEW l \in 1 .. n, reply[k] = reply[l], k < l
               PROVE  FALSE
    OBVIOUS
  <2> QED
    BY <1>1
<1>3. reply \in [1 .. n -> 0 .. n - 1]
  BY <1>1
<1>4. reply \in Injection(1 .. n, 0 .. n - 1)
  BY <1>2, <1>3 DEF Injection, IsInjective
<1>5. /\ IsFiniteSet(0 .. n - 1)
      /\ Cardinality(1 .. n) = n
      /\ Cardinality(0 .. n - 1) = n
  <2>1. 0 \in Int /\ 1 \in Int /\ n \in Int /\ n - 1 \in Int
    OBVIOUS
  <2>2. /\ IsFiniteSet(0 .. n - 1)
        /\ Cardinality(1 .. n) = IF 1 > n THEN 0 ELSE n - 1 + 1
        /\ Cardinality(0 .. n - 1) = IF 0 > n - 1 THEN 0 ELSE n - 1 - 0 + 1
    BY <2>1, FS_Interval
  <2> QED
    BY <2>2
<1>6. reply \in Surjection(1 .. n, 0 .. n - 1)
  BY <1>4, <1>5, FS_Injection
<1> QED
  BY <1>1, <1>6 DEF Surjection

\* The texts of a batch.
Texts(batch) == [k \in DOMAIN batch |-> batch[k].text]

LEMMA BatchTexts ==
  ASSUME NEW batch \in Seq(BatchItem)
  PROVE  /\ Len(batch) \in Nat
         /\ DOMAIN batch = 1 .. Len(batch)
         /\ DOMAIN Texts(batch) = 1 .. Len(batch)
         /\ Len(Texts(batch)) = Len(batch)
         /\ \A k \in 1 .. Len(batch) : Texts(batch)[k] = batch[k].text
<1>1. Len(batch) \in Nat /\ DOMAIN batch = 1 .. Len(batch)
  BY LenProperties
<1>2. \A k \in 1 .. Len(batch) : batch[k].text \in Seq(Bytes)
  <2> TAKE k \in 1 .. Len(batch)
  <2>1. batch[k] \in BatchItem
    BY ElementOfSeq
  <2> QED
    BY <2>1 DEF BatchItem
<1>3. Texts(batch) \in [1 .. Len(batch) -> Seq(Bytes)]
  BY <1>1, <1>2 DEF Texts
<1> QED
  BY <1>1, <1>3, FunctionIsSequence DEF Texts

\* _parse_vectors: an answer that it accepts gives each text its own vector.
LEMMA OwnVectors ==
  ASSUME NEW batch \in Seq(BatchItem), Len(batch) # 0,
         NEW reply \in Replies(Len(batch)),
         Vectors(batch, reply) # << >>
  PROVE  \A k \in 1 .. Len(batch) :
           Vectors(batch, reply)[k] = VectorOf(batch[k].text)
<1> SUFFICES ASSUME NEW i \in 1 .. Len(batch)
             PROVE  Vectors(batch, reply)[i] = VectorOf(Texts(batch)[i])
  BY BatchTexts
<1>1. Vectors(batch, reply) = ParseVectors(reply, Texts(batch))
  BY DEF Vectors, Texts
<1>2. /\ Len(reply) = Len(batch)
      /\ \A k \in DOMAIN reply :
           /\ reply[k] < Len(batch)
           /\ \A l \in 1 .. k - 1 : reply[l] # reply[k]
  BY <1>1, BatchTexts DEF ParseVectors
<1>3. Len(batch) \in Nat \ {0}
  BY BatchTexts
<1> DEFINE k == CHOOSE l \in DOMAIN reply : reply[l] = i - 1
<1>4. reply[k] = i - 1
  BY <1>2, <1>3, EveryInput
<1>5. Vectors(batch, reply)[i] = VectorOf(Texts(batch)[reply[k] + 1])
  BY <1>1, <1>2, BatchTexts DEF ParseVectors
<1> HIDE DEF k
<1>6. reply[k] + 1 = i
  BY <1>4
<1> QED
  BY <1>5, <1>6

LEMMA InOrder ==
  ASSUME NEW batch \in Seq(BatchItem)
  PROVE  \A k \in 1 .. Len(batch) :
           Vectors(batch, [l \in DOMAIN batch |-> l - 1])[k]
             = VectorOf(batch[k].text)
<1> SUFFICES ASSUME NEW i \in 1 .. Len(batch)
             PROVE  Vectors(batch, [l \in DOMAIN batch |-> l - 1])[i]
                      = VectorOf(Texts(batch)[i])
  BY BatchTexts
<1> DEFINE reply == [l \in DOMAIN batch |-> l - 1]
<1>1. Vectors(batch, reply) = ParseVectors(reply, Texts(batch))
  BY DEF Vectors, Texts
<1>2. /\ Len(reply) = Len(batch)
      /\ DOMAIN reply = 1 .. Len(batch)
      /\ \A k \in 1 .. Len(batch) : reply[k] = k - 1
  <2>1. reply \in [1 .. Len(batch) -> Int]
    BY BatchTexts
  <2> QED
    BY <2>1, BatchTexts, FunctionIsSequence
<1> HIDE DEF reply
<1> DEFINE k == CHOOSE l \in DOMAIN reply : reply[l] = i - 1
<1>4. reply[k] = i - 1
  BY <1>2
<1>5. Vectors(batch, reply)[i] = VectorOf(Texts(batch)[reply[k] + 1])
  BY <1>1, <1>2, BatchTexts DEF ParseVectors
<1> HIDE DEF k
<1>6. reply[k] + 1 = i
  BY <1>4
<1> QED
  BY <1>5, <1>6 DEF reply

LEMMA KeysApart ==
  ASSUME NEW d, NEW r, NEW i, NEW b
  PROVE  /\ ChunkKey(d, r, i) # TextKey(b)
         /\ \A e, s, j : ChunkKey(d, r, i) = ChunkKey(e, s, j)
                         => d = e /\ r = s /\ i = j
         /\ \A c : TextKey(b) = TextKey(c) => b = c
         /\ \A e : IsChunkOf(ChunkKey(d, r, i), e) => d = e
         /\ IsChunkOf(ChunkKey(d, r, i), d)
         /\ \A e : ~IsChunkOf(TextKey(b), e)
         /\ ChunkKey(d, r, i)[3] = r
BY DEF ChunkKey, TextKey, IsChunkOf

-----------------------------------------------------------------------------
(* What the invariant says of rows and entries.                            *)

LEMMA Rows ==
  ASSUME TypeOK, NEW d \in Docs
  PROVE  /\ docs[d] \in Document
         /\ proc[d] \in Execution
         /\ docs[d].revs \in Seq(Files)
         /\ docs[d].active \in 0 .. MaxRevision
         /\ docs[d].active \in 0 .. Len(docs[d].revs)
         /\ Len(docs[d].revs) \in 0 .. MaxRevision
         /\ DOMAIN docs[d].revs = 1 .. Len(docs[d].revs)
         /\ \A r \in 1 .. Len(docs[d].revs) :
              /\ r \in 1 .. MaxRevision
              /\ docs[d].revs[r] \in Sources[d]
              /\ docs[d].revs[r] \in Files
<1>1. /\ docs[d] \in Document
      /\ proc[d] \in Execution
      /\ Len(docs[d].revs) <= MaxRevision
      /\ docs[d].active <= Len(docs[d].revs)
      /\ \A r \in DOMAIN docs[d].revs : docs[d].revs[r] \in Sources[d]
  BY DEF TypeOK
<1>2. /\ docs[d].revs \in Seq(Files)
      /\ docs[d].active \in 0 .. MaxRevision
  BY <1>1 DEF Document
<1>3. /\ Len(docs[d].revs) \in Nat
      /\ DOMAIN docs[d].revs = 1 .. Len(docs[d].revs)
  BY <1>2, LenProperties
<1>4. MaxRevision \in Nat
  BY ChunksAssumption
<1> QED
  BY <1>1, <1>2, <1>3, <1>4 DEF Files

\* A chunk of d is the one of its key.
LEMMA ChunkIs ==
  ASSUME ChunkInv, NEW d \in Docs, NEW e \in ChunkEntries(d)
  PROVE  \E r \in 1 .. Len(docs[d].revs) :
           /\ Chunked(Rev(d, r))
           /\ e.key[3] = r
           /\ \E k \in DOMAIN ParseOf[Rev(d, r)].chunks :
                /\ e = EntryOf(d, Rev(d, r), r, k)
                /\ e.key = ChunkKey(d, r, k - 1)
<1>1. e \in store /\ IsChunkOf(e.key, d) /\ EntryFits(e)
  BY DEF ChunkEntries, ChunkInv
<1>2. ASSUME NEW f \in Files, e = TextEntry(f.bytes)
      PROVE  FALSE
  BY <1>1, <1>2, KeysApart DEF TextEntry
<1>3. ASSUME NEW c \in Docs, NEW r \in DOMAIN docs[c].revs, Chunked(Rev(c, r)),
             NEW k \in DOMAIN ParseOf[Rev(c, r)].chunks,
             e = EntryOf(c, Rev(c, r), r, k)
      PROVE  /\ c = d
             /\ e.key = ChunkKey(c, r, k - 1)
             /\ e.key[3] = r
  <2>1. e.key = ChunkKey(c, r, k - 1)
    BY <1>3 DEF EntryOf
  <2> QED
    BY <2>1, <1>1, KeysApart
<1> QED
  BY <1>1, <1>2, <1>3, Rows, SMTT(30) DEF EntryFits, ChunkInv

\* An entry with the key of a text is that text.
LEMMA TextIs ==
  ASSUME ChunkInv, NEW e \in store, NEW b, e.key = TextKey(b)
  PROVE  /\ e = TextEntry(b)
         /\ \E f \in Files : f.bytes = b
         /\ \A d : e \notin ChunkEntries(d)
<1>1. EntryFits(e)
  BY DEF ChunkInv
<1>2. ASSUME NEW c \in Docs, NEW r \in DOMAIN docs[c].revs,
             NEW k \in DOMAIN ParseOf[Rev(c, r)].chunks,
             e = EntryOf(c, Rev(c, r), r, k)
      PROVE  FALSE
  BY <1>2, KeysApart DEF EntryOf
<1>3. PICK f \in Files : e = TextEntry(f.bytes)
  BY <1>1, <1>2 DEF EntryFits
<1>4. f.bytes = b
  BY <1>3, KeysApart DEF TextEntry
<1> QED
  BY <1>3, <1>4, KeysApart DEF ChunkEntries

LEMMA EntryTyped ==
  ASSUME NEW f \in Files
  PROVE  /\ TextEntry(f.bytes) \in Entry
         /\ \A d \in Docs : \A r \in 1 .. MaxRevision :
              \A k \in DOMAIN ParseOf[f].chunks : EntryOf(d, f, r, k) \in Entry
<1>1. TextEntry(f.bytes) \in Entry
  <2>1. TextKey(f.bytes) \in Keys /\ f.bytes \in Seq(Bytes)
    BY ParseTyped DEF TextKey, Keys
  <2>2. NoCitation \in Citations
    BY DEF Citations
  <2> QED
    BY <2>1, <2>2 DEF TextEntry, Entry, VectorOf
<1>2. ASSUME NEW d \in Docs, NEW r \in 1 .. MaxRevision,
             NEW k \in DOMAIN ParseOf[f].chunks
      PROVE  EntryOf(d, f, r, k) \in Entry
  <2>1. ParseOf[f].chunks \in Seq(ParsedChunks) /\ k \in Nat \ {0}
    BY ParseTyped, LenProperties
  <2>2. ParseOf[f].chunks[k] \in ParsedChunks
    BY <2>1
  <2>3. ChunkKey(d, r, k - 1) \in Keys
    BY <2>1 DEF ChunkKey, Keys
  <2>4. EntryOf(d, f, r, k).citation \in Citations
    BY <2>2 DEF EntryOf, Citations, ParsedChunks
  <2>5. ParseOf[f].chunks[k].text \in Seq(Bytes)
    BY <2>2 DEF ParsedChunks
  <2> QED
    BY <2>3, <2>4, <2>5 DEF EntryOf, Entry, VectorOf
<1> QED
  BY <1>1, <1>2

-----------------------------------------------------------------------------
(* The rows of documents and executions.                                   *)

RowTyped(d) ==
    /\ docs[d] \in Document
    /\ proc[d] \in Execution
    /\ Len(docs[d].revs) <= MaxRevision
    /\ \A r \in DOMAIN docs[d].revs : docs[d].revs[r] \in Sources[d]
    /\ docs[d].active <= Len(docs[d].revs)
    /\ proc[d].rev <= Len(docs[d].revs)

\* A step that changes no row but those of d.
OnlyAt(d) ==
    /\ docs' = [docs EXCEPT ![d] = docs'[d]]
    /\ proc' = [proc EXCEPT ![d] = proc'[d]]

\* Revisions are never changed, and added only at the end.
KeepsRevisions(d) ==
    /\ Len(docs[d].revs) <= Len(docs'[d].revs)
    /\ \A r \in 1 .. Len(docs[d].revs) : docs'[d].revs[r] = docs[d].revs[r]

\* What each action of a document has to show of the rows.
RowsFit(d) ==
    /\ OnlyAt(d)
    /\ RowTyped(d)'
    /\ KeepsRevisions(d)
    /\ DocFits(docs[d])'
    /\ ExecutionFits(docs[d], proc[d])'

LEMMA OutTyped == Out \in Execution
BY ChunksAssumption DEF Out, Execution

LEMMA UploadRows ==
  ASSUME ChunkInv, NEW d \in Docs, NEW file \in Sources[d], Upload(d, file)
  PROVE  RowsFit(d)
<1> DEFINE q == [docs[d] EXCEPT !.status = "UPLOADED", !.revs = <<file>>,
                                !.job = "INDEX"]
<1>1. /\ docs' = [docs EXCEPT ![d] = q]
      /\ proc' = proc
      /\ docs[d].status = "ABSENT"
      /\ docs[d].job = "none"
      /\ docs \in [Docs -> Document]
      /\ proc \in [Docs -> Execution]
  BY DEF Upload, Request, ChunkInv, TypeOK
<1>2. docs'[d] = q /\ proc'[d] = proc[d] /\ OnlyAt(d)
  BY <1>1 DEF OnlyAt
<1>3. docs[d].revs = << >> /\ docs[d].active = 0 /\ proc[d] = Out
  BY <1>1 DEF ChunkInv, DocInv, DocFits, ExecutionFits
<1>4. /\ <<file>> \in Seq(Files)
      /\ Len(<<file>>) = 1
      /\ DOMAIN <<file>> = 1 .. 1
      /\ \A r \in DOMAIN <<file>> : <<file>>[r] \in Sources[d]
  BY DEF Files
<1>5. docs[d] \in Document
  BY <1>1
<1>6. q \in Document
  BY <1>4, <1>5 DEF Document
<1>7. /\ q.status = "UPLOADED" /\ q.revs = <<file>> /\ q.job = "INDEX"
      /\ q.active = 0
  BY <1>3, <1>5 DEF Document
<1>8. RowTyped(d)'
  <2>1. MaxRevision \in Nat \ {0}
    BY ChunksAssumption
  <2>2. proc[d].rev = 0
    BY <1>3 DEF Out
  <2> QED
    BY <1>2, <1>1, <1>6, <1>7, <1>4, <2>1, <2>2 DEF RowTyped
<1>9. KeepsRevisions(d)
  BY <1>2, <1>3, <1>7 DEF KeepsRevisions
<1>10. DocFits(q)
  BY <1>7, <1>4 DEF DocFits
<1> QED
  BY <1>2, <1>3, <1>8, <1>9, <1>10 DEF RowsFit, ExecutionFits

LEMMA UpsertRows ==
  ASSUME ChunkInv, NEW d \in Docs, NEW file \in Sources[d], Upsert(d, file)
  PROVE  RowsFit(d)
<1> DEFINE revs == docs[d].revs
           more == Append(revs, file)
           q == [docs[d] EXCEPT !.status = "UPDATING", !.job = "INDEX",
                                !.revs = more]
<1>1. /\ docs' = [docs EXCEPT ![d] = q]
      /\ proc' = proc
      /\ docs[d].status = "READY"
      /\ docs[d].job = "none"
      /\ file.bytes # revs[docs[d].active].bytes
      /\ Len(revs) < MaxRevision
      /\ docs \in [Docs -> Document]
      /\ proc \in [Docs -> Execution]
  BY DEF Upsert, Request, ChunkInv, TypeOK
<1>2. docs'[d] = q /\ proc'[d] = proc[d] /\ OnlyAt(d)
  BY <1>1 DEF OnlyAt
<1>3. docs[d].active = Len(revs) /\ docs[d].active # 0 /\ proc[d] = Out
  BY <1>1 DEF ChunkInv, DocInv, DocFits, ExecutionFits
<1>4. /\ docs[d] \in Document
      /\ revs \in Seq(Files)
      /\ Len(revs) \in Nat
      /\ DOMAIN revs = 1 .. Len(revs)
      /\ \A r \in 1 .. Len(revs) : revs[r] \in Sources[d]
      /\ MaxRevision \in Nat
  BY Rows, ChunksAssumption DEF ChunkInv
<1>5. /\ more \in Seq(Files)
      /\ Len(more) = Len(revs) + 1
      /\ DOMAIN more = 1 .. Len(revs) + 1
      /\ \A r \in 1 .. Len(revs) : more[r] = revs[r]
      /\ more[Len(revs) + 1] = file
  BY <1>4 DEF Files
<1> HIDE DEF more, revs
<1>6. q \in Document
  BY <1>4, <1>5 DEF Document
<1>7. /\ q.status = "UPDATING" /\ q.revs = more /\ q.job = "INDEX"
      /\ q.active = docs[d].active
  BY <1>4 DEF Document
<1> HIDE DEF q
<1>8. RowTyped(d)'
  <2>1. proc[d].rev = 0
    BY <1>3 DEF Out
  <2>2. \A r \in 1 .. Len(revs) + 1 : more[r] \in Sources[d]
    BY <1>4, <1>5
  <2>3. Len(more) <= MaxRevision /\ q.active <= Len(more) /\ proc[d].rev <= Len(more)
    BY <1>1, <1>3, <1>4, <1>5, <1>7, <2>1
  <2> QED
    BY <1>1, <1>2, <1>5, <1>6, <1>7, <2>2, <2>3 DEF RowTyped
<1>9. KeepsRevisions(d)
  BY <1>2, <1>4, <1>5, <1>7 DEF KeepsRevisions, revs
<1>10. DocFits(q)
  BY <1>1, <1>3, <1>4, <1>5, <1>7 DEF DocFits
<1> QED
  BY <1>2, <1>3, <1>8, <1>9, <1>10 DEF RowsFit, ExecutionFits

LEMMA DeleteRows ==
  ASSUME ChunkInv, NEW d \in Docs, Delete(d) \/ Reindex(d)
  PROVE  RowsFit(d)
<1>1. PICK q :
        /\ \/ q = [docs[d] EXCEPT !.status = "DELETING", !.job = "DELETE"]
           \/ q = [docs[d] EXCEPT !.job = "REINDEX"] /\ docs[d].marked
        /\ docs' = [docs EXCEPT ![d] = q]
        /\ proc' = proc
        /\ docs[d].status = "READY"
        /\ docs[d].job = "none"
  BY DEF Delete, Reindex, Request
<1>2. /\ docs \in [Docs -> Document]
      /\ proc \in [Docs -> Execution]
      /\ RowTyped(d)
  BY DEF ChunkInv, TypeOK, RowTyped
<1>3. docs'[d] = q /\ proc'[d] = proc[d] /\ OnlyAt(d)
  BY <1>1, <1>2 DEF OnlyAt
<1>4. docs[d].active = Len(docs[d].revs) /\ docs[d].active # 0 /\ proc[d] = Out
  BY <1>1 DEF ChunkInv, DocInv, DocFits, ExecutionFits
<1>5. /\ q \in Document
      /\ q.revs = docs[d].revs
      /\ q.active = docs[d].active
      /\ \/ q.status = "DELETING" /\ q.job = "DELETE"
         \/ q.status = "READY" /\ q.job = "REINDEX" /\ q.marked
  BY <1>1, <1>2 DEF RowTyped, Document
<1>6. RowTyped(d)' /\ KeepsRevisions(d)
  BY <1>2, <1>3, <1>5, Rows DEF RowTyped, KeepsRevisions, ChunkInv
<1>7. DocFits(q)
  BY <1>4, <1>5 DEF DocFits
<1> QED
  BY <1>3, <1>4, <1>6, <1>7 DEF RowsFit, ExecutionFits

LEMMA KeysTyped ==
  ASSUME NEW f \in Files, NEW d \in Docs, NEW r \in 0 .. MaxRevision
  PROVE  /\ KeysToDelete(d, ParseOf[f], r) \in Seq(Keys)
         /\ KeysToDelete(d, ParseOf[f], r) # << >>
<1>1. CASE ~Chunked(f) \/ r = 0
  <2>1. KeysToDelete(d, ParseOf[f], r) = <<TextKey(f.bytes)>> /\ TextKey(f.bytes) \in Keys
    BY <1>1, WholeText
  <2> QED
    BY <2>1
<1>2. CASE Chunked(f) /\ r # 0
  <2>1. r \in 1 .. MaxRevision
    BY <1>2, ChunksAssumption
  <2>2. /\ KeysToDelete(d, ParseOf[f], r) \in Seq(Keys)
        /\ Len(KeysToDelete(d, ParseOf[f], r)) \in Nat \ {0}
    BY <1>2, <2>1, ByChunks
  <2> QED
    BY <2>2
<1> QED
  BY <1>1, <1>2

\* A step that starts an execution and changes at most the status.
LEMMA StartRows ==
  ASSUME ChunkInv, NEW d \in Docs, NEW to \in Execution, Start(d, to),
         NEW q \in Document,
         docs' = [docs EXCEPT ![d] = q],
         q.revs = docs[d].revs, q.active = docs[d].active,
         to.rev <= Len(q.revs),
         DocFits(q), ExecutionFits(q, to)
  PROVE  RowsFit(d) /\ docs'[d] = q /\ proc'[d] = to
<1>1. /\ docs \in [Docs -> Document]
      /\ proc \in [Docs -> Execution]
      /\ RowTyped(d)
      /\ proc' = [proc EXCEPT ![d] = to]
  BY DEF ChunkInv, TypeOK, RowTyped, Start
<1>2. docs'[d] = q /\ proc'[d] = to /\ OnlyAt(d)
  BY <1>1 DEF OnlyAt
<1>3. RowTyped(d)'
  BY <1>1, <1>2 DEF RowTyped
<1>4. KeepsRevisions(d)
  BY <1>2, Rows DEF KeepsRevisions, ChunkInv
<1> QED
  BY <1>2, <1>3, <1>4 DEF RowsFit

LEMMA StartIndexingRows ==
  ASSUME ChunkInv, NEW d \in Docs, StartIndexing(d)
  PROVE  RowsFit(d)
<1> DEFINE q == [docs[d] EXCEPT !.status = "INDEXING"]
           to == [Out EXCEPT !.step = "inserting", !.rev = docs[d].active,
                             !.new = ParseOf[docs[d].revs[1]]]
<1>1. /\ docs' = [docs EXCEPT ![d].status = "INDEXING"]
      /\ docs \in [Docs -> Document]
      /\ Start(d, to)
      /\ docs[d].job = "INDEX"
      /\ docs[d].status \in {"UPLOADED", "INDEXING"}
  BY DEF StartIndexing, ChunkInv, TypeOK
<1>2. docs' = [docs EXCEPT ![d] = q]
  BY <1>1
<1>3. docs[d].active = 0 /\ Len(docs[d].revs) = 1
  BY <1>1 DEF ChunkInv, DocInv, DocFits
<1>4. docs[d].revs[1] \in Files
  BY <1>3, Rows DEF ChunkInv
<1>5. to \in Execution /\ to.step = "inserting" /\ to.rev = 0
      /\ to.new = ParseOf[docs[d].revs[1]]
  BY <1>3, <1>4, OutTyped DEF Execution, Out
<1>6. /\ q \in Document
      /\ q.revs = docs[d].revs /\ q.active = docs[d].active
      /\ q.status = "INDEXING" /\ q.job = "INDEX"
  BY <1>1 DEF Document
<1> HIDE DEF q, to
<1>7. DocFits(q)
  BY <1>3, <1>6 DEF DocFits
<1>8. ExecutionFits(q, to)
  BY <1>5, <1>6 DEF ExecutionFits
<1>9. to.rev <= Len(q.revs)
  BY <1>5, <1>6, <1>3
<1> QED
  BY <1>1, <1>2, <1>5, <1>6, <1>7, <1>8, <1>9, StartRows

LEMMA StartReplacingRows ==
  ASSUME ChunkInv, NEW d \in Docs, StartReplacing(d)
  PROVE  /\ RowsFit(d)
         /\ proc'[d].step = "removing"
         /\ proc'[d].todo = KeysToDelete(d, ParseOf[Rev(d, docs[d].active)],
                                         docs[d].active)
<1> DEFINE a == docs[d].active
           r == Len(docs[d].revs)
           to == [step |-> "removing", rev |-> r,
                  new |-> ParseOf[docs[d].revs[r]],
                  todo |-> KeysToDelete(d, ParseOf[docs[d].revs[a]], a)]
<1>1. /\ docs' = docs
      /\ docs \in [Docs -> Document]
      /\ Start(d, to)
      /\ docs[d].job = "INDEX"
      /\ docs[d].status = "UPDATING"
  BY DEF StartReplacing, ChunkInv, TypeOK
<1>2. docs' = [docs EXCEPT ![d] = docs[d]]
  BY <1>1
<1>3. DocFits(docs[d]) /\ a # 0 /\ a + 1 = r
  BY <1>1 DEF ChunkInv, DocInv, DocFits
<1>4. /\ r \in 1 .. MaxRevision /\ a \in 1 .. MaxRevision
      /\ docs[d].revs[r] \in Files /\ docs[d].revs[a] \in Files
  BY <1>3, Rows DEF ChunkInv
<1>5. to \in Execution
  BY <1>4, KeysTyped DEF Execution
<1>6. ExecutionFits(docs[d], to)
  BY <1>1 DEF ExecutionFits
<1>7. to.rev <= Len(docs[d].revs)
  BY <1>4
<1>8. RowsFit(d) /\ proc'[d] = to
  <2> HIDE DEF to
  <2> QED
    BY <1>1, <1>2, <1>3, <1>5, <1>6, <1>7, StartRows
<1> QED
  BY <1>8 DEF Rev

LEMMA StartReindexingRows ==
  ASSUME ChunkInv, NEW d \in Docs, StartReindexing(d)
  PROVE  RowsFit(d)
<1> DEFINE a == docs[d].active
           to == [Out EXCEPT !.step = "inserting", !.rev = a,
                             !.new = ParseOf[docs[d].revs[a]]]
<1>1. /\ docs' = docs
      /\ docs \in [Docs -> Document]
      /\ Start(d, to)
      /\ docs[d].job = "REINDEX"
      /\ docs[d].status = "READY"
  BY DEF StartReindexing, ChunkInv, TypeOK
<1>2. docs' = [docs EXCEPT ![d] = docs[d]]
  BY <1>1
<1>3. DocFits(docs[d]) /\ a # 0 /\ a = Len(docs[d].revs)
  BY <1>1 DEF ChunkInv, DocInv, DocFits
<1>4. /\ a \in 0 .. MaxRevision
      /\ ParseOf[docs[d].revs[a]] \in {NoParse} \cup {ParseOf[f] : f \in Files}
  BY <1>3, Rows DEF ChunkInv
<1>5. to \in Execution
  BY <1>4, OutTyped DEF Execution, Out
<1>6. ExecutionFits(docs[d], to)
  BY <1>1, <1>4 DEF ExecutionFits, Out
<1>7. to.rev <= Len(docs[d].revs)
  BY <1>3, <1>4 DEF Out
<1> HIDE DEF to
<1> QED
  BY <1>1, <1>2, <1>3, <1>5, <1>6, <1>7, StartRows

LEMMA StartDeletingRows ==
  ASSUME ChunkInv, NEW d \in Docs, StartDeleting(d)
  PROVE  /\ RowsFit(d)
         /\ proc'[d].step = "removing"
         /\ proc'[d].todo = KeysToDelete(d, ParseOf[Rev(d, docs[d].active)],
                                         docs[d].active)
<1> DEFINE a == docs[d].active
           keys == KeysToDelete(d, ParseOf[docs[d].revs[a]], a)
           to == [Out EXCEPT !.step = "removing", !.rev = a, !.todo = keys]
<1>1. /\ docs' = docs
      /\ docs \in [Docs -> Document]
      /\ Start(d, to)
      /\ docs[d].job = "DELETE"
      /\ docs[d].status = "DELETING"
  BY DEF StartDeleting, ChunkInv, TypeOK
<1>2. docs' = [docs EXCEPT ![d] = docs[d]]
  BY <1>1
<1>3. DocFits(docs[d]) /\ a # 0 /\ a = Len(docs[d].revs)
  BY <1>1 DEF ChunkInv, DocInv, DocFits
<1>4. a \in 0 .. MaxRevision /\ keys \in Seq(Keys)
  BY <1>3, Rows, KeysTyped DEF ChunkInv
<1>5. /\ to \in Execution /\ to.step = "removing" /\ to.rev = a /\ to.todo = keys
      /\ to.new = NoParse
  <2> HIDE DEF keys
  <2> QED
    BY <1>4, OutTyped DEF Execution, Out
<1>6. ExecutionFits(docs[d], to)
  BY <1>1, <1>5 DEF ExecutionFits
<1>7. to.rev <= Len(docs[d].revs)
  BY <1>3, <1>4, <1>5
<1>8. RowsFit(d) /\ proc'[d] = to
  <2> HIDE DEF to
  <2> QED
    BY <1>1, <1>2, <1>3, <1>5, <1>6, <1>7, StartRows
<1> QED
  BY <1>5, <1>8 DEF Rev

\* The steps of an execution that is on its way, and its end.
LEMMA RunningRows ==
  ASSUME ChunkInv, NEW d \in Docs, docs' = docs,
         NEW p \in Execution, proc' = [proc EXCEPT ![d] = p],
         p.rev <= Len(docs[d].revs), ExecutionFits(docs[d], p)
  PROVE  RowsFit(d) /\ docs'[d] = docs[d] /\ proc'[d] = p
<1>1. /\ docs \in [Docs -> Document]
      /\ proc \in [Docs -> Execution]
      /\ RowTyped(d)
      /\ DocFits(docs[d])
  BY DEF ChunkInv, TypeOK, RowTyped, DocInv
<1>2. docs'[d] = docs[d] /\ proc'[d] = p /\ OnlyAt(d)
  BY <1>1 DEF OnlyAt
<1>3. RowTyped(d)' /\ KeepsRevisions(d)
  BY <1>1, <1>2, Rows DEF RowTyped, KeepsRevisions, ChunkInv
<1> QED
  BY <1>1, <1>2, <1>3 DEF RowsFit

LEMMA RemoveNextRows ==
  ASSUME ChunkInv, NEW d \in Docs, RemoveNext(d)
  PROVE  /\ RowsFit(d)
         /\ docs' = docs
         /\ proc[d].todo # << >>
         /\ proc'[d].todo = Tail(proc[d].todo)
         /\ proc'[d].step = IF Tail(proc[d].todo) # << >> THEN "removing"
                            ELSE IF docs[d].job = "DELETE" THEN "completing"
                            ELSE "inserting"
<1> DEFINE rest == Tail(proc[d].todo)
           step == IF rest # << >> THEN "removing"
                   ELSE IF docs[d].job = "DELETE" THEN "completing"
                   ELSE "inserting"
           p == [proc[d] EXCEPT !.todo = rest, !.step = step]
<1>1. /\ docs' = docs
      /\ proc' = [proc EXCEPT ![d].todo = rest, ![d].step = step]
      /\ proc[d].step = "removing"
      /\ proc \in [Docs -> Execution]
  BY DEF RemoveNext, ChunkInv, TypeOK
<1>2. proc' = [proc EXCEPT ![d] = p]
  BY <1>1
<1>3. /\ proc[d] \in Execution
      /\ proc[d].rev <= Len(docs[d].revs)
      /\ ExecutionFits(docs[d], proc[d])
      /\ proc[d].todo # << >>
  BY <1>1, Rows DEF ChunkInv, TypeOK, DocInv, TodoFits
<1>4. rest \in Seq(Keys)
  BY <1>3, HeadTailProperties DEF Execution
<1>5. /\ p \in Execution
      /\ p.rev = proc[d].rev /\ p.new = proc[d].new
      /\ p.todo = rest /\ p.step = step
  BY <1>3, <1>4 DEF Execution
<1>6. ExecutionFits(docs[d], p)
  <2>1. step \in {"removing", "inserting", "completing"}
    OBVIOUS
  <2>2. docs[d].job = "DELETE" => step \in {"removing", "completing"}
    OBVIOUS
  <2> HIDE DEF p, step
  <2>3. docs[d].job \in {"INDEX", "DELETE"}
        /\ docs[d].job = "INDEX" => docs[d].status = "UPDATING"
    BY <1>1, <1>3 DEF ExecutionFits, Out
  <2>4. docs[d].job = "INDEX" => step \in {"removing", "inserting"}
    BY <2>1, <2>3 DEF step
  <2> QED
    BY <1>1, <1>3, <1>5, <2>2, <2>3, <2>4 DEF ExecutionFits, Out
<1> HIDE DEF p
<1> QED
  BY <1>1, <1>2, <1>3, <1>5, <1>6, RunningRows

LEMMA InsertRows ==
  ASSUME ChunkInv, NEW d \in Docs, Insert(d)
  PROVE  /\ RowsFit(d)
         /\ docs' = docs
         /\ proc[d].step = "inserting"
         /\ proc'[d] = [proc[d] EXCEPT !.step = "completing"]
<1> DEFINE p == [proc[d] EXCEPT !.step = "completing"]
<1>1. /\ docs' = docs
      /\ proc' = [proc EXCEPT ![d].step = "completing"]
      /\ proc[d].step = "inserting"
      /\ proc \in [Docs -> Execution]
  BY DEF Insert, ChunkInv, TypeOK
<1>2. proc' = [proc EXCEPT ![d] = p]
  BY <1>1
<1>3. /\ proc[d] \in Execution
      /\ proc[d].rev <= Len(docs[d].revs)
      /\ ExecutionFits(docs[d], proc[d])
  BY Rows DEF ChunkInv, TypeOK, DocInv
<1>4. /\ p \in Execution
      /\ p.rev = proc[d].rev /\ p.new = proc[d].new
      /\ p.step = "completing"
  BY <1>3 DEF Execution
<1>5. ExecutionFits(docs[d], p)
  BY <1>1, <1>3, <1>4 DEF ExecutionFits, Out
<1> HIDE DEF p
<1>6. RowsFit(d) /\ proc'[d] = p
  BY <1>1, <1>2, <1>3, <1>4, <1>5, RunningRows
<1> QED
  BY <1>1, <1>6 DEF p

LEMMA InsertPartRows ==
  ASSUME ChunkInv, NEW d \in Docs, InsertPart(d)
  PROVE  RowsFit(d) /\ docs' = docs /\ proc'[d] = Out /\ proc[d].step = "inserting"
<1>1. docs' = docs /\ proc' = [proc EXCEPT ![d] = Out] /\ proc[d].step = "inserting"
  BY DEF InsertPart
<1>2. Out.rev <= Len(docs[d].revs)
  BY Rows DEF Out, ChunkInv
<1>3. ExecutionFits(docs[d], Out)
  BY DEF ExecutionFits
<1> QED
  BY <1>1, <1>2, <1>3, OutTyped, RunningRows

LEMMA CompleteRows ==
  ASSUME ChunkInv, NEW d \in Docs, Complete(d)
  PROVE  /\ RowsFit(d)
         /\ proc[d].step = "completing"
         /\ proc'[d] = Out
         /\ docs'[d].revs = docs[d].revs
         /\ docs'[d].active = Len(docs[d].revs)
         /\ \/ docs[d].job = "DELETE" /\ docs'[d].status = "DELETED"
            \/ docs[d].job # "DELETE" /\ docs'[d].status = "READY"
<1> DEFINE status == IF docs[d].job = "DELETE" THEN "DELETED" ELSE "READY"
           active == IF docs[d].job = "INDEX" THEN Len(docs[d].revs)
                     ELSE docs[d].active
           q == [docs[d] EXCEPT !.job = "none", !.marked = FALSE,
                                !.status = status, !.active = active]
<1>1. /\ docs' = [docs EXCEPT ![d] = q]
      /\ proc' = [proc EXCEPT ![d] = Out]
      /\ proc[d].step = "completing"
      /\ docs \in [Docs -> Document]
      /\ proc \in [Docs -> Execution]
  BY DEF Complete, ChunkInv, TypeOK
<1>2. docs'[d] = q /\ proc'[d] = Out /\ OnlyAt(d)
  BY <1>1 DEF OnlyAt
<1>3. /\ ExecutionFits(docs[d], proc[d])
      /\ DocFits(docs[d])
      /\ RowTyped(d)
      /\ Len(docs[d].revs) \in 0 .. MaxRevision
  BY Rows DEF ChunkInv, DocInv, TypeOK, RowTyped
<1>4. Len(docs[d].revs) # 0 /\ active = Len(docs[d].revs)
  BY <1>1, <1>3, ChunksAssumption DEF ExecutionFits, DocFits, Out, RowTyped, Document
<1>5. status \in {"READY", "DELETED"}
  OBVIOUS
<1>6. /\ q \in Document
      /\ q.revs = docs[d].revs /\ q.active = active
      /\ q.status = status /\ q.job = "none"
  <2> HIDE DEF status
  <2> QED
    BY <1>3, <1>4, <1>5 DEF RowTyped, Document
<1> HIDE DEF q
<1>7. RowTyped(d)'
  BY <1>2, <1>3, <1>4, <1>6, OutTyped DEF RowTyped, Out
<1>8. KeepsRevisions(d)
  BY <1>2, <1>3, <1>6 DEF KeepsRevisions
<1>9. DocFits(q)
  BY <1>4, <1>5, <1>6 DEF DocFits
<1> QED
  BY <1>1, <1>2, <1>4, <1>6, <1>7, <1>8, <1>9 DEF RowsFit, ExecutionFits

LEMMA FailRows ==
  ASSUME ChunkInv, NEW d \in Docs, Fail(d)
  PROVE  /\ RowsFit(d)
         /\ proc'[d] = Out
         /\ docs'[d].revs = docs[d].revs
         /\ docs'[d].active = docs[d].active
         /\ docs'[d].status = docs[d].status
         /\ docs'[d].marked = docs[d].marked
<1>1. PICK q \in {docs[d], [docs[d] EXCEPT !.job = "none"]} :
        docs' = [docs EXCEPT ![d] = q]
  BY DEF Fail, ChunkInv, TypeOK
<1>2. /\ proc' = [proc EXCEPT ![d] = Out]
      /\ docs \in [Docs -> Document]
      /\ proc \in [Docs -> Execution]
      /\ DocFits(docs[d])
      /\ RowTyped(d)
  BY DEF Fail, ChunkInv, TypeOK, DocInv, RowTyped
<1>3. docs'[d] = q /\ proc'[d] = Out /\ OnlyAt(d)
  BY <1>1, <1>2 DEF OnlyAt
<1>4. /\ q \in Document
      /\ q.revs = docs[d].revs /\ q.active = docs[d].active
      /\ q.status = docs[d].status /\ q.marked = docs[d].marked
      /\ q.job = docs[d].job \/ q.job = "none"
  BY <1>1, <1>2 DEF RowTyped, Document
<1>5. RowTyped(d)' /\ KeepsRevisions(d)
  BY <1>2, <1>3, <1>4, OutTyped, Rows DEF RowTyped, KeepsRevisions, Out, ChunkInv
<1>6. DocFits(q)
  BY <1>2, <1>4 DEF DocFits
<1> QED
  BY <1>3, <1>4, <1>5, <1>6 DEF RowsFit, ExecutionFits

-----------------------------------------------------------------------------
(* The entries.                                                            *)

LEMMA EntriesStay ==
  ASSUME ChunkInv, \A d \in Docs : RowTyped(d)' /\ KeepsRevisions(d),
         NEW e, EntryFits(e)
  PROVE  EntryFits(e)'
<1>1. ASSUME NEW d \in Docs, NEW r \in DOMAIN docs[d].revs
      PROVE  r \in DOMAIN docs'[d].revs /\ docs'[d].revs[r] = docs[d].revs[r]
  <2>1. docs'[d].revs \in Seq(Files)
    BY DEF RowTyped, Document
  <2>2. /\ DOMAIN docs'[d].revs = 1 .. Len(docs'[d].revs)
        /\ DOMAIN docs[d].revs = 1 .. Len(docs[d].revs)
        /\ Len(docs'[d].revs) \in Nat
        /\ Len(docs[d].revs) \in Nat
    BY <2>1, Rows, LenProperties DEF ChunkInv
  <2> QED
    BY <2>2 DEF KeepsRevisions
<1> QED
  BY <1>1 DEF EntryFits, Rev

\* An action of d keeps the invariant if it keeps it for d, and leaves the
\* chunks of other documents alone.
LEMMA ActsOnOne ==
  ASSUME ChunkInv, NEW d \in Docs, RowsFit(d),
         UNCHANGED <<query, migrations>>,
         \A c \in Docs \ {d} : ChunkEntries(c)' = ChunkEntries(c),
         \A e \in store' : e \in store \/ EntryFits(e)',
         TodoFits(d)', ChunksFit(d)'
  PROVE  ChunkInv'
<1>1. /\ docs \in [Docs -> Document] /\ proc \in [Docs -> Execution]
      /\ \A c \in Docs : RowTyped(c) /\ DocInv(c)
      /\ \A e \in store : EntryFits(e)
  BY DEF ChunkInv, TypeOK, RowTyped
<1>2. \A c \in Docs \ {d} : docs'[c] = docs[c] /\ proc'[c] = proc[c]
  BY <1>1 DEF RowsFit, OnlyAt
<1>3. \A c \in Docs : RowTyped(c)'
  BY <1>1, <1>2 DEF RowsFit, RowTyped
<1>4. docs' \in [Docs -> Document] /\ proc' \in [Docs -> Execution]
  BY <1>1, <1>3 DEF RowsFit, OnlyAt, RowTyped
<1>5. \A c \in Docs : KeepsRevisions(c)
  BY <1>2, Rows DEF RowsFit, KeepsRevisions, ChunkInv
<1>6. \A e \in store' : EntryFits(e)'
  BY <1>1, <1>3, <1>5, EntriesStay
<1>7. store' \subseteq Entry
  <2> SUFFICES ASSUME NEW e \in store' PROVE e \in Entry
    OBVIOUS
  <2>1. EntryFits(e)'
    BY <1>6
  <2>2. ASSUME NEW c \in Docs, NEW r \in DOMAIN docs'[c].revs
        PROVE  r \in 1 .. MaxRevision /\ docs'[c].revs[r] \in Files
    <3>1. docs'[c].revs \in Seq(Files) /\ Len(docs'[c].revs) <= MaxRevision
      BY <1>3 DEF RowTyped, Document
    <3> QED
      BY <3>1, LenProperties, ChunksAssumption
  <2> QED
    BY <2>1, <2>2, EntryTyped DEF EntryFits, Rev
<1>8. TypeOK'
  BY <1>3, <1>4, <1>7 DEF TypeOK, RowTyped, ChunkInv
<1>9. \A c \in Docs \ {d} : DocInv(c)'
  <2> TAKE c \in Docs \ {d}
  <2>1. /\ docs'[c] = docs[c] /\ proc'[c] = proc[c]
        /\ ChunkEntries(c)' = ChunkEntries(c)
        /\ DocInv(c)
    BY <1>1, <1>2
  <2>2. TodoFits(c)'
    BY <2>1 DEF DocInv, TodoFits, Rev
  <2>3. ChunksFit(c)'
    BY <2>1 DEF DocInv, ChunksFit, Cleared, Deleted
  <2> QED
    BY <2>1, <2>2, <2>3 DEF DocInv
<1>10. DocInv(d)'
  BY DEF DocInv, RowsFit
<1> QED
  BY <1>6, <1>8, <1>9, <1>10 DEF ChunkInv

LEMMA NoChunksYet ==
  ASSUME ChunkInv, NEW d \in Docs,
         docs[d].active = 0, docs[d].status # "UPDATING"
  PROVE  ChunkEntries(d) = {}
<1> SUFFICES ASSUME NEW e \in ChunkEntries(d) PROVE FALSE
  OBVIOUS
<1>1. e.key[3] = 0
  BY DEF ChunkInv, DocInv, ChunksFit
<1>2. e.key[3] \in 1 .. Len(docs[d].revs)
  BY ChunkIs
<1> QED
  BY <1>1, <1>2

\* Steps that leave the entries alone.
LEMMA Quiet ==
  ASSUME ChunkInv, NEW d \in Docs, RowsFit(d),
         UNCHANGED <<store, query, migrations>>,
         TodoFits(d)', ChunksFit(d)'
  PROVE  ChunkInv'
<1>1. \A c \in Docs \ {d} : ChunkEntries(c)' = ChunkEntries(c)
  BY DEF ChunkEntries
<1> QED
  BY <1>1, ActsOnOne

\* A step that leaves no execution, and the chunks as they may stay.
LEMMA QuietOut ==
  ASSUME ChunkInv, NEW d \in Docs, RowsFit(d),
         UNCHANGED <<store, query, migrations>>,
         proc'[d] = Out,
         \/ \A e \in ChunkEntries(d) : e.key[3] = docs'[d].active
         \/ /\ docs'[d].status = "UPDATING"
            /\ \A e \in ChunkEntries(d) : e.key[3] = Len(docs'[d].revs),
         docs'[d].status = "DELETED" => ChunkEntries(d) = {}
  PROVE  ChunkInv'
<1>1. ChunkEntries(d)' = ChunkEntries(d)
  BY DEF ChunkEntries
<1>2. proc'[d].step = "out"
  BY DEF Out
<1>3. TodoFits(d)'
  BY <1>2 DEF TodoFits
<1>4. ChunksFit(d)'
  BY <1>1, <1>2 DEF ChunksFit, Cleared, Deleted
<1> QED
  BY <1>3, <1>4, Quiet

LEMMA RequestKeeps ==
  ASSUME ChunkInv, NEW d \in Docs,
         \/ \E file \in Sources[d] : Upload(d, file) \/ Upsert(d, file)
         \/ Delete(d) \/ Reindex(d)
  PROVE  ChunkInv'
<1>1. RowsFit(d)
  BY UploadRows, UpsertRows, DeleteRows
<1>2. PICK q : /\ docs[d].job = "none"
               /\ docs' = [docs EXCEPT ![d] = q]
               /\ UNCHANGED <<proc, store, query, migrations>>
               /\ q.status \in {"UPLOADED", "UPDATING", "DELETING", "READY"}
               /\ q.active = docs[d].active
               /\ docs[d].status \in {"ABSENT", "READY"}
  <2>1. docs[d] \in Document
    BY Rows DEF ChunkInv
  <2> QED
    BY <2>1 DEF Upload, Upsert, Delete, Reindex, Request, Document
<1>3. proc'[d] = Out /\ docs'[d] = q
  BY <1>2 DEF ChunkInv, DocInv, ExecutionFits, TypeOK
<1>4. \A e \in ChunkEntries(d) : e.key[3] = docs[d].active
  BY <1>2 DEF ChunkInv, DocInv, ChunksFit
<1> QED
  BY <1>1, <1>2, <1>3, <1>4, QuietOut

LEMMA StartKeeps ==
  ASSUME ChunkInv, NEW d \in Docs,
         StartIndexing(d) \/ StartReplacing(d) \/ StartReindexing(d) \/ StartDeleting(d)
  PROVE  ChunkInv'
<1>1. UNCHANGED <<store, query, migrations>> /\ proc[d] = Out
  BY DEF StartIndexing, StartReplacing, StartReindexing, StartDeleting, Start
<1>2. ChunkEntries(d)' = ChunkEntries(d)
  BY <1>1 DEF ChunkEntries
<1>3. CASE StartIndexing(d)
  <2>1. RowsFit(d)
    BY <1>3, StartIndexingRows
  <2>2. ChunkEntries(d) = {}
    BY <1>3, NoChunksYet DEF StartIndexing, ChunkInv, DocInv, DocFits
  <2>3. proc'[d].step = "inserting"
    BY <1>3 DEF StartIndexing, Start, ChunkInv, TypeOK, Out
  <2>4. TodoFits(d)' /\ ChunksFit(d)'
    BY <1>2, <2>2, <2>3 DEF TodoFits, ChunksFit
  <2> QED
    BY <1>1, <2>1, <2>4, Quiet
<1>4. CASE StartReindexing(d)
  <2>1. RowsFit(d)
    BY <1>4, StartReindexingRows
  <2>2. docs' = docs /\ docs[d].status = "READY"
    BY <1>4 DEF StartReindexing
  <2>3. proc'[d].step = "inserting"
    BY <1>4 DEF StartReindexing, Start, ChunkInv, TypeOK, Out
  <2>4. \A e \in ChunkEntries(d) : e.key[3] = docs[d].active
    BY <2>2 DEF ChunkInv, DocInv, ChunksFit
  <2>5. TodoFits(d)' /\ ChunksFit(d)'
    BY <1>2, <2>2, <2>3, <2>4 DEF TodoFits, ChunksFit, Cleared, Deleted
  <2> QED
    BY <1>1, <2>1, <2>5, Quiet
<1>5. CASE StartReplacing(d) \/ StartDeleting(d)
  <2> DEFINE a == docs[d].active
             keys == KeysToDelete(d, ParseOf[Rev(d, a)], a)
  <2>1. /\ RowsFit(d)
        /\ proc'[d].step = "removing"
        /\ proc'[d].todo = keys
    BY <1>5, StartReplacingRows, StartDeletingRows
  <2>2. docs' = docs /\ docs[d].status \in {"UPDATING", "DELETING"}
    BY <1>5 DEF StartReplacing, StartDeleting
  <2>3. /\ a \in 1 .. MaxRevision
        /\ Rev(d, a) \in Files
        /\ keys \in Seq(Keys)
        /\ keys # << >>
    <3>1. a # 0
      BY <2>2 DEF ChunkInv, DocInv, DocFits
    <3>2. a \in 1 .. MaxRevision /\ Rev(d, a) \in Files
      BY <3>1, Rows DEF ChunkInv, Rev
    <3>3. a \in 0 .. MaxRevision
      BY <3>2
    <3> HIDE DEF a
    <3>4. keys \in Seq(Keys) /\ keys # << >>
      BY <3>2, <3>3, KeysTyped
    <3> QED
      BY <3>2, <3>4
  <2>4. TodoFits(d)'
    BY <2>1, <2>2, <2>3 DEF TodoFits, Rev
  <2>5. ASSUME NEW e \in ChunkEntries(d), e.key[3] = a
        PROVE  \E k \in DOMAIN keys : keys[k] = e.key
    <3>1. PICK k \in DOMAIN ParseOf[Rev(d, a)].chunks :
            Chunked(Rev(d, a)) /\ e.key = ChunkKey(d, a, k - 1)
      BY <2>5, ChunkIs
    <3> QED
      BY <3>1, <2>3, ByChunks, LenProperties
  <2>6. ChunksFit(d)'
    <3>1. ChunksFit(d)
      BY DEF ChunkInv, DocInv
    <3> HIDE DEF keys
    <3> QED
      BY <1>2, <2>1, <2>2, <2>5, <3>1 DEF ChunksFit, Cleared, Deleted
  <2> QED
    BY <1>1, <2>1, <2>4, <2>6, Quiet
<1> QED
  BY <1>3, <1>4, <1>5

LEMMA EndKeeps ==
  ASSUME ChunkInv, NEW d \in Docs, Complete(d) \/ Fail(d)
  PROVE  ChunkInv'
<1>1. UNCHANGED <<store, query, migrations>>
  BY DEF Complete, Fail
<1>2. ChunksFit(d) /\ DocFits(docs[d]) /\ ExecutionFits(docs[d], proc[d])
  BY DEF ChunkInv, DocInv
<1>3. CASE Complete(d)
  <2>1. /\ RowsFit(d)
        /\ proc[d].step = "completing"
        /\ proc'[d] = Out
        /\ docs'[d].active = Len(docs[d].revs)
        /\ \/ docs[d].job = "DELETE" /\ docs'[d].status = "DELETED"
           \/ docs[d].job # "DELETE" /\ docs'[d].status = "READY"
    BY <1>3, CompleteRows
  <2>2. CASE docs[d].job = "DELETE"
    <3>1. ChunkEntries(d) = {}
      BY <1>2, <2>1, <2>2 DEF ChunksFit, Deleted, DocFits
    <3> QED
      BY <1>1, <2>1, <3>1, QuietOut
  <2>3. CASE docs[d].job # "DELETE"
    <3>1. CASE docs[d].status = "UPDATING"
      <4>1. \A e \in ChunkEntries(d) : e.key[3] = docs'[d].active
        BY <1>2, <2>1, <3>1 DEF ChunksFit, Cleared
      <4> QED
        BY <1>1, <2>1, <2>3, <4>1, QuietOut
    <3>2. CASE docs[d].status = "INDEXING"
      <4>1. ChunkEntries(d) = {}
        BY <1>2, <3>2, NoChunksYet DEF DocFits
      <4> QED
        BY <1>1, <2>1, <2>3, <4>1, QuietOut
    <3>3. CASE docs[d].status = "READY"
      <4>1. docs'[d].active = docs[d].active
        BY <1>2, <2>1, <3>3 DEF DocFits
      <4>2. \A e \in ChunkEntries(d) : e.key[3] = docs[d].active
        BY <1>2, <3>3 DEF ChunksFit
      <4> QED
        BY <1>1, <2>1, <2>3, <4>1, <4>2, QuietOut
    <3> QED
      BY <1>2, <2>1, <2>3, <3>1, <3>2, <3>3 DEF ExecutionFits, DocFits, Out
  <2> QED
    BY <2>2, <2>3
<1>4. CASE Fail(d)
  <2>1. /\ RowsFit(d)
        /\ proc'[d] = Out
        /\ docs'[d].revs = docs[d].revs
        /\ docs'[d].active = docs[d].active
        /\ docs'[d].status = docs[d].status
    BY <1>4, FailRows
  <2> QED
    BY <1>1, <1>2, <2>1, QuietOut DEF ChunksFit, Deleted
<1> QED
  BY <1>3, <1>4

\* What is deleted: a chunk of the active revision, or its whole text.
LEMMA TodoKey ==
  ASSUME ChunkInv, NEW d \in Docs, proc[d].step = "removing",
         NEW k \in DOMAIN proc[d].todo
  PROVE  LET a == docs[d].active
         IN  /\ a \in 1 .. Len(docs[d].revs)
             /\ Rev(d, a) \in Sources[d]
             /\ \/ Chunked(Rev(d, a)) /\ \E i : proc[d].todo[k] = ChunkKey(d, a, i)
                \/ ~Chunked(Rev(d, a)) /\ proc[d].todo[k] = TextKey(Rev(d, a).bytes)
<1> DEFINE a == docs[d].active
           keys == KeysToDelete(d, ParseOf[Rev(d, a)], a)
<1>1. a # 0
  BY DEF ChunkInv, DocInv, ExecutionFits, DocFits, Out
<1>2. a \in 1 .. MaxRevision /\ a \in 1 .. Len(docs[d].revs)
      /\ Rev(d, a) \in Files /\ Rev(d, a) \in Sources[d]
  BY <1>1, Rows DEF ChunkInv, Rev
<1>3. PICK l \in DOMAIN keys : proc[d].todo[k] = keys[l]
  BY DEF ChunkInv, DocInv, TodoFits
<1>4. CASE Chunked(Rev(d, a))
  <2>1. keys \in Seq(Keys) /\ l \in 1 .. Len(keys)
    BY <1>2, <1>3, KeysTyped, LenProperties
  <2>2. keys[l] = ChunkKey(d, a, l - 1)
    BY <1>2, <1>4, <2>1, ByChunks
  <2> QED
    BY <1>2, <1>3, <1>4, <2>2
<1>5. CASE ~Chunked(Rev(d, a))
  <2>1. keys = <<TextKey(Rev(d, a).bytes)>>
    <3>1. a \in 0 .. MaxRevision
      BY <1>2
    <3> QED
      BY <1>2, <1>5, <3>1, WholeText
  <2> QED
    BY <1>2, <1>3, <1>5, <2>1
<1> QED
  BY <1>4, <1>5

LEMMA RemoveNextKeeps ==
  ASSUME ChunkInv, NEW d \in Docs, RemoveNext(d)
  PROVE  ChunkInv'
<1> DEFINE key == Head(proc[d].todo)
           rest == Tail(proc[d].todo)
<1>1. /\ RowsFit(d)
      /\ docs' = docs
      /\ proc[d].todo # << >>
      /\ proc'[d].todo = rest
      /\ proc'[d].step = IF rest # << >> THEN "removing"
                         ELSE IF docs[d].job = "DELETE" THEN "completing"
                         ELSE "inserting"
  BY RemoveNextRows
<1>2. /\ proc[d].step = "removing"
      /\ store' = {e \in store : e.key # key}
      /\ UNCHANGED <<query, migrations>>
  BY DEF RemoveNext
<1>3. /\ proc[d].todo \in Seq(Keys)
      /\ Len(proc[d].todo) \in Nat \ {0}
      /\ DOMAIN proc[d].todo = 1 .. Len(proc[d].todo)
      /\ key = proc[d].todo[1]
      /\ rest \in Seq(Keys)
      /\ DOMAIN rest = 1 .. Len(proc[d].todo) - 1
      /\ \A k \in DOMAIN rest : rest[k] = proc[d].todo[k + 1]
      /\ rest = << >> <=> Len(proc[d].todo) = 1
  <2>1. proc[d].todo \in Seq(Keys)
    BY Rows DEF ChunkInv, Execution
  <2>2. /\ Len(proc[d].todo) \in Nat \ {0}
        /\ DOMAIN proc[d].todo = 1 .. Len(proc[d].todo)
    BY <2>1, <1>1, LenProperties, EmptySeq
  <2>3. /\ rest \in Seq(Keys)
        /\ Len(rest) = Len(proc[d].todo) - 1
        /\ DOMAIN rest = 1 .. Len(rest)
        /\ \A k \in 1 .. Len(rest) : rest[k] = proc[d].todo[k + 1]
    BY <2>1, <1>1, HeadTailProperties, LenProperties
  <2>4. rest = << >> <=> Len(rest) = 0
    BY <2>3, EmptySeq
  <2>5. key = proc[d].todo[1]
    BY <2>1, <1>1
  <2> HIDE DEF rest, key
  <2> QED
    BY <2>1, <2>2, <2>3, <2>4, <2>5
<1> HIDE DEF key, rest
<1>4. \A c \in Docs \ {d} : ~IsChunkOf(key, c)
  <2>1. 1 \in DOMAIN proc[d].todo
    BY <1>3
  <2>2. \/ \E i : key = ChunkKey(d, docs[d].active, i)
        \/ key = TextKey(Rev(d, docs[d].active).bytes)
    BY <1>2, <1>3, <2>1, TodoKey
  <2> QED
    BY <2>2, KeysApart
<1>5. \A c \in Docs \ {d} : ChunkEntries(c)' = ChunkEntries(c)
  BY <1>2, <1>4 DEF ChunkEntries
<1>6. ChunkEntries(d)' = {e \in ChunkEntries(d) : e.key # key}
  BY <1>2 DEF ChunkEntries
<1>7. \A e \in store' : e \in store
  BY <1>2
<1>8. TodoFits(d)'
  <2>1. TodoFits(d)
    BY DEF ChunkInv, DocInv
  <2>2. \A k \in DOMAIN rest : k + 1 \in DOMAIN proc[d].todo
    BY <1>3
  <2> QED
    BY <1>1, <1>2, <1>3, <2>1, <2>2 DEF TodoFits, Rev
<1>9. ChunksFit(d)'
  <2>1. ChunksFit(d) /\ ExecutionFits(docs[d], proc[d])
    BY DEF ChunkInv, DocInv
  <2>2. ASSUME NEW e \in ChunkEntries(d)', e.key[3] = docs[d].active
        PROVE  \E k \in DOMAIN rest : rest[k] = e.key
    <3>1. PICK k \in DOMAIN proc[d].todo : proc[d].todo[k] = e.key
      BY <1>2, <1>6, <2>1, <2>2 DEF ChunksFit
    <3>2. k # 1
      BY <1>3, <1>6, <3>1
    <3>3. k - 1 \in DOMAIN rest
      BY <1>3, <3>2
    <3> QED
      BY <1>3, <3>1, <3>3
  <2>3. ASSUME rest = << >>
        PROVE  \A e \in ChunkEntries(d)' : e.key[3] # docs[d].active
    BY <1>3, <2>2, <2>3
  <2>4. ASSUME Cleared(d)'
        PROVE  \A e \in ChunkEntries(d)' : e.key[3] = Len(docs[d].revs)
    <3>1. rest = << >>
      BY <1>1, <2>4 DEF Cleared
    <3> QED
      BY <1>6, <2>1, <2>3, <3>1 DEF ChunksFit
  <2>5. ASSUME Deleted(d)'
        PROVE  ChunkEntries(d)' = {}
    <3>1. docs[d].status = "DELETING" /\ docs[d].job = "DELETE"
      BY <1>1, <1>2, <2>1, <2>5 DEF Deleted, ExecutionFits, Out, ChunkInv, DocInv, DocFits
    <3>2. rest = << >>
      BY <1>1, <2>5, <3>1 DEF Deleted
    <3> QED
      BY <1>6, <2>1, <2>3, <3>1, <3>2 DEF ChunksFit
  <2> QED
    BY <1>1, <1>6, <2>1, <2>2, <2>4, <2>5 DEF ChunksFit
<1> QED
  BY <1>1, <1>2, <1>5, <1>7, <1>8, <1>9, ActsOnOne

-----------------------------------------------------------------------------
(* Insertion.                                                              *)

LEMMA BatchTyped ==
  ASSUME NEW f \in Files, NEW d \in Docs, NEW r \in 0 .. MaxRevision
  PROVE  /\ ToInsert(d, ParseOf[f], r) \in Seq(BatchItem)
         /\ Len(ToInsert(d, ParseOf[f], r)) \in Nat \ {0}
<1>1. CASE ~Chunked(f) \/ r = 0
  <2> DEFINE item == [key |-> TextKey(f.bytes), text |-> f.bytes,
                      citation |-> NoCitation]
  <2>1. ToInsert(d, ParseOf[f], r) = <<item>>
    BY <1>1, WholeText
  <2>2. item \in BatchItem
    BY <1>1, WholeText, ParseTyped DEF BatchItem, Citations
  <2> HIDE DEF item
  <2> QED
    BY <2>1, <2>2
<1>2. CASE Chunked(f) /\ r # 0
  <2>1. r \in 1 .. MaxRevision
    BY <1>2, ChunksAssumption
  <2> QED
    BY <1>2, <2>1, ByChunks
<1> QED
  BY <1>1, <1>2

\* The file an execution inserts, and the entries it has in LightRAG.
Inserting(d) == Rev(d, IF proc[d].rev = 0 THEN 1 ELSE proc[d].rev)

ToBe(d, e) ==
    \/ /\ proc[d].rev # 0
       /\ Chunked(Inserting(d))
       /\ \E k \in DOMAIN ParseOf[Inserting(d)].chunks :
            e = EntryOf(d, Inserting(d), proc[d].rev, k)
    \/ /\ proc[d].rev = 0 \/ ~Chunked(Inserting(d))
       /\ e = TextEntry(Inserting(d).bytes)

LEMMA Insertion ==
  ASSUME ChunkInv, NEW d \in Docs, proc[d].step = "inserting"
  PROVE  /\ Inserting(d) \in Files
         /\ Inserting(d) \in Sources[d]
         /\ proc[d].new = ParseOf[Inserting(d)]
         /\ proc[d].rev \in 0 .. MaxRevision
         /\ proc[d].rev \in 0 .. Len(docs[d].revs)
         /\ \/ docs[d].status = "INDEXING" /\ proc[d].rev = 0
            \/ docs[d].status = "UPDATING" /\ proc[d].rev = Len(docs[d].revs)
            \/ docs[d].status = "READY" /\ proc[d].rev = docs[d].active
         /\ docs[d].status # "INDEXING" => proc[d].rev # 0
<1>1. /\ ExecutionFits(docs[d], proc[d])
      /\ DocFits(docs[d])
  BY DEF ChunkInv, DocInv
<1>2. /\ Len(docs[d].revs) \in 0 .. MaxRevision
      /\ \A r \in 1 .. Len(docs[d].revs) :
           docs[d].revs[r] \in Sources[d] /\ docs[d].revs[r] \in Files
  BY Rows DEF ChunkInv
<1>3. /\ \/ docs[d].status = "INDEXING" /\ proc[d].rev = 0 /\ Len(docs[d].revs) = 1
         \/ docs[d].status = "UPDATING" /\ proc[d].rev = Len(docs[d].revs)
         \/ docs[d].status = "READY" /\ proc[d].rev = docs[d].active
      /\ docs[d].status # "INDEXING" => proc[d].rev # 0
      /\ proc[d].rev \in 0 .. Len(docs[d].revs)
      /\ Len(docs[d].revs) # 0
      /\ proc[d].new = ParseOf[Inserting(d)]
  <2>1. docs[d].active \in 0 .. Len(docs[d].revs)
    BY Rows DEF ChunkInv
  <2> QED
    BY <1>1, <1>2, <2>1 DEF ExecutionFits, DocFits, Out, Inserting, Rev
<1>4. (IF proc[d].rev = 0 THEN 1 ELSE proc[d].rev) \in 1 .. Len(docs[d].revs)
  BY <1>2, <1>3
<1>5. Inserting(d) \in Sources[d] /\ Inserting(d) \in Files
  BY <1>2, <1>4 DEF Inserting, Rev
<1>6. proc[d].rev \in 0 .. MaxRevision
  BY <1>2, <1>3, ChunksAssumption
<1> QED
  BY <1>3, <1>5, <1>6

\* Each item of the batch is what is to be.
LEMMA BatchIsToBe ==
  ASSUME ChunkInv, NEW d \in Docs, proc[d].step = "inserting"
  PROVE  LET batch == ToInsert(d, proc[d].new, proc[d].rev)
         IN  /\ batch \in Seq(BatchItem)
             /\ Len(batch) \in Nat \ {0}
             /\ \A k \in 1 .. Len(batch) :
                  ToBe(d, [key |-> batch[k].key, text |-> batch[k].text,
                           vector |-> VectorOf(batch[k].text),
                           citation |-> batch[k].citation])
             /\ \A e : ToBe(d, e) => \E k \in 1 .. Len(batch) : batch[k].key = e.key
<1> DEFINE f == Inserting(d)
           r == proc[d].rev
           batch == ToInsert(d, ParseOf[f], r)
<1>1. f \in Files /\ r \in 0 .. MaxRevision /\ proc[d].new = ParseOf[f]
  BY Insertion
<1>2. batch \in Seq(BatchItem) /\ Len(batch) \in Nat \ {0}
  BY <1>1, BatchTyped
<1>3. CASE r = 0 \/ ~Chunked(f)
  <2>1. batch = <<[key |-> TextKey(f.bytes), text |-> f.bytes, citation |-> NoCitation]>>
    BY <1>1, <1>3, WholeText
  <2>2. /\ Len(batch) = 1
        /\ batch[1].key = TextKey(f.bytes)
        /\ batch[1].text = f.bytes
        /\ batch[1].citation = NoCitation
    BY <2>1
  <2> HIDE DEF batch
  <2>3. \A e : ToBe(d, e) <=> e = TextEntry(f.bytes)
    BY <1>3 DEF ToBe
  <2>4. \A k \in 1 .. Len(batch) :
          ToBe(d, [key |-> batch[k].key, text |-> batch[k].text,
                   vector |-> VectorOf(batch[k].text),
                   citation |-> batch[k].citation])
    BY <2>2, <2>3 DEF TextEntry
  <2>5. \A e : ToBe(d, e) => \E k \in 1 .. Len(batch) : batch[k].key = e.key
    BY <2>2, <2>3 DEF TextEntry
  <2> QED
    BY <1>1, <1>2, <2>4, <2>5 DEF batch
<1>4. CASE r # 0 /\ Chunked(f)
  <2>1. r \in 1 .. MaxRevision
    BY <1>1, <1>4, ChunksAssumption
  <2>2. /\ DOMAIN ParseOf[f].chunks = 1 .. Len(batch)
        /\ \A k \in 1 .. Len(batch) :
             /\ batch[k].key = ChunkKey(d, r, k - 1)
             /\ batch[k].text = ParseOf[f].chunks[k].text
             /\ batch[k].citation = EntryOf(d, f, r, k).citation
    BY <1>1, <1>4, <2>1, ByChunks
  <2> HIDE DEF batch
  <2>3. \A e : ToBe(d, e) <=> \E k \in 1 .. Len(batch) : e = EntryOf(d, f, r, k)
    BY <1>4, <2>2 DEF ToBe
  <2>4. \A k \in 1 .. Len(batch) :
          [key |-> batch[k].key, text |-> batch[k].text,
           vector |-> VectorOf(batch[k].text), citation |-> batch[k].citation]
            = EntryOf(d, f, r, k)
    BY <2>2 DEF EntryOf
  <2>5. \A e : ToBe(d, e) => \E k \in 1 .. Len(batch) : batch[k].key = e.key
    BY <2>2, <2>3 DEF EntryOf
  <2> QED
    BY <1>1, <1>2, <2>3, <2>4, <2>5 DEF batch
<1> QED
  BY <1>3, <1>4

\* ainsert adds only what is to be, and all of it when the call succeeds.
LEMMA Inserted ==
  ASSUME ChunkInv, NEW d \in Docs, Insert(d) \/ InsertPart(d)
  PROVE  /\ store \subseteq store'
         /\ \A e \in store' \ store : /\ ToBe(d, e)
                                      /\ \A x \in store : x.key # e.key
         /\ Insert(d) => \A e : ToBe(d, e) => \E x \in store' : x.key = e.key
         /\ UNCHANGED <<docs, query, migrations>>
<1> DEFINE batch == ToInsert(d, proc[d].new, proc[d].rev)
           item(k) == [key |-> batch[k].key, text |-> batch[k].text,
                       vector |-> VectorOf(batch[k].text),
                       citation |-> batch[k].citation]
<1>1. proc[d].step = "inserting" /\ UNCHANGED <<docs, query, migrations>>
  BY DEF Insert, InsertPart
<1>2. /\ batch \in Seq(BatchItem)
      /\ Len(batch) \in Nat \ {0}
      /\ DOMAIN batch = 1 .. Len(batch)
      /\ \A k \in 1 .. Len(batch) : ToBe(d, item(k))
      /\ \A e : ToBe(d, e) => \E k \in 1 .. Len(batch) : batch[k].key = e.key
  BY <1>1, BatchIsToBe, LenProperties
<1>3. CASE Insert(d)
  <2>1. PICK reply \in Replies(Len(batch)) :
          /\ Vectors(batch, reply) # << >>
          /\ store' = store \cup Entries(batch, Vectors(batch, reply))
    BY <1>3 DEF Insert
  <2> DEFINE vectors == Vectors(batch, reply)
  <2>2. \A k \in 1 .. Len(batch) : vectors[k] = VectorOf(batch[k].text)
    BY <1>2, <2>1, OwnVectors
  <2> HIDE DEF vectors, batch
  <2>3. \A e \in Entries(batch, vectors) :
          /\ \E k \in 1 .. Len(batch) : e = item(k)
          /\ \A x \in store : x.key # e.key
    BY <1>2, <2>2 DEF Entries
  <2>4. ASSUME NEW k \in 1 .. Len(batch)
        PROVE  \E x \in store' : x.key = batch[k].key
    <3>1. CASE \A e \in store : e.key # batch[k].key
      <4> DEFINE x == [key |-> batch[k].key, text |-> batch[k].text,
                       vector |-> vectors[k], citation |-> batch[k].citation]
      <4>1. k \in {l \in DOMAIN batch : \A e \in store : e.key # batch[l].key}
        BY <1>2, <3>1
      <4>2. x \in Entries(batch, vectors)
        BY <4>1 DEF Entries
      <4>3. x \in store'
        BY <2>1, <4>2 DEF vectors
      <4> QED
        BY <4>3
    <3>2. CASE \E e \in store : e.key = batch[k].key
      BY <2>1, <3>2
    <3> QED
      BY <3>1, <3>2
  <2> QED
    BY <1>1, <1>2, <2>1, <2>3, <2>4 DEF vectors
<1>4. CASE InsertPart(d) /\ ~Insert(d)
  <2> DEFINE vectors == Vectors(batch, [k \in DOMAIN batch |-> k - 1])
  <2>1. PICK n \in 1 .. Len(batch) :
          store' = store \cup Entries(SubSeq(batch, 1, n), vectors)
    BY <1>4 DEF InsertPart
  <2>2. \A k \in 1 .. Len(batch) : vectors[k] = VectorOf(batch[k].text)
    BY <1>2, InOrder
  <2> DEFINE part == SubSeq(batch, 1, n)
  <2> HIDE DEF vectors, batch
  <2>3. /\ DOMAIN part = 1 .. n
        /\ \A k \in 1 .. n : part[k] = batch[k] /\ k \in 1 .. Len(batch)
    <3>1. 1 \in Int /\ n \in Nat /\ n \in Int
      BY <1>2
    <3> QED
      BY <1>2, <3>1, SubSeqProperties
  <2> HIDE DEF part
  <2>4. \A e \in Entries(part, vectors) :
          /\ \E k \in 1 .. Len(batch) : e = item(k)
          /\ \A x \in store : x.key # e.key
    BY <2>2, <2>3 DEF Entries
  <2> QED
    BY <1>1, <1>2, <1>4, <2>1, <2>4 DEF part
<1> QED
  BY <1>3, <1>4

\* An entry that an execution adds is one of its revision.
LEMMA ToBeFits ==
  ASSUME ChunkInv, NEW d \in Docs, proc[d].step = "inserting",
         NEW e, ToBe(d, e)
  PROVE  /\ EntryFits(e)
         /\ \A c \in Docs : IsChunkOf(e.key, c) => c = d /\ e.key[3] = proc[d].rev
<1>1. CASE proc[d].rev = 0 \/ ~Chunked(Inserting(d))
  <2>1. e = TextEntry(Inserting(d).bytes)
    BY <1>1 DEF ToBe
  <2>2. Inserting(d) \in Files
    BY Insertion
  <2> QED
    BY <2>1, <2>2, KeysApart DEF EntryFits, TextEntry
<1>2. CASE proc[d].rev # 0 /\ Chunked(Inserting(d))
  <2>1. PICK k \in DOMAIN ParseOf[Inserting(d)].chunks :
          e = EntryOf(d, Inserting(d), proc[d].rev, k)
    BY <1>2 DEF ToBe
  <2>2. /\ Inserting(d) = Rev(d, proc[d].rev)
        /\ proc[d].rev \in DOMAIN docs[d].revs
    BY <1>2, Insertion, Rows DEF Inserting, ChunkInv
  <2>3. e.key = ChunkKey(d, proc[d].rev, k - 1)
    BY <2>1 DEF EntryOf
  <2> QED
    BY <1>2, <2>1, <2>2, <2>3, KeysApart DEF EntryFits
<1> QED
  BY <1>1, <1>2

LEMMA InsertKeeps ==
  ASSUME ChunkInv, NEW d \in Docs, Insert(d) \/ InsertPart(d)
  PROVE  ChunkInv'
<1>1. /\ store \subseteq store'
      /\ \A e \in store' \ store : ToBe(d, e)
      /\ UNCHANGED <<docs, query, migrations>>
  BY Inserted
<1>2. /\ RowsFit(d)
      /\ proc[d].step = "inserting"
      /\ proc'[d].step \in {"completing", "out"}
  <2>1. CASE Insert(d)
    <3>1. proc[d] \in Execution
      BY Rows DEF ChunkInv
    <3> QED
      BY <2>1, <3>1, InsertRows DEF Execution
  <2>2. CASE InsertPart(d)
    BY <2>2, InsertPartRows DEF Out
  <2> QED
    BY <2>1, <2>2
<1>3. \A e \in store' \ store :
        /\ EntryFits(e)
        /\ \A c \in Docs : IsChunkOf(e.key, c) => c = d /\ e.key[3] = proc[d].rev
  BY <1>1, <1>2, ToBeFits
<1>4. \A c \in Docs \ {d} : ChunkEntries(c)' = ChunkEntries(c)
  BY <1>1, <1>3 DEF ChunkEntries
<1>5. \A e \in store' : e \in store \/ EntryFits(e)'
  <2>1. \A e : EntryFits(e) => EntryFits(e)'
    BY <1>1 DEF EntryFits, Rev
  <2> QED
    BY <1>3, <2>1
<1>6. TodoFits(d)'
  BY <1>2 DEF TodoFits
<1>7. ChunksFit(d)'
  <2>1. \A e \in ChunkEntries(d)' : e \in ChunkEntries(d) \/ e.key[3] = proc[d].rev
    BY <1>3 DEF ChunkEntries
  <2>2. ChunksFit(d)
    BY DEF ChunkInv, DocInv
  <2>3. CASE docs[d].status = "UPDATING" /\ proc[d].rev = Len(docs[d].revs)
    BY <1>1, <1>2, <2>1, <2>2, <2>3 DEF ChunksFit, Cleared, Deleted
  <2>4. CASE docs[d].status = "READY" /\ proc[d].rev = docs[d].active
    BY <1>1, <1>2, <2>1, <2>2, <2>4 DEF ChunksFit, Cleared, Deleted
  <2>5. CASE docs[d].status = "INDEXING" /\ proc[d].rev = 0
    <3>1. docs[d].active = 0
      BY <2>5 DEF ChunkInv, DocInv, DocFits
    <3> QED
      BY <1>1, <1>2, <2>1, <2>2, <2>5, <3>1 DEF ChunksFit, Cleared, Deleted
  <2> QED
    BY <1>2, <2>3, <2>4, <2>5, Insertion
<1> QED
  BY <1>1, <1>2, <1>4, <1>5, <1>6, <1>7, ActsOnOne

-----------------------------------------------------------------------------
(* The other steps, and the invariant.                                     *)

LEMMA MigrateKeeps ==
  ASSUME ChunkInv, Migrate
  PROVE  ChunkInv'
<1>1. /\ store' = {} /\ query' = NoQuery /\ proc' = proc
      /\ migrations' = migrations + 1 /\ migrations < MaxMigrations
      /\ \A d \in Docs : proc[d] = Out
  BY DEF Migrate
<1>2. ASSUME NEW d \in Docs
      PROVE  /\ docs'[d] \in Document
             /\ docs'[d].status = docs[d].status
             /\ docs'[d].revs = docs[d].revs
             /\ docs'[d].active = docs[d].active
             /\ docs'[d].job = docs[d].job
             /\ docs[d].marked => docs'[d].marked
  <2> DEFINE m == \/ docs[d].marked
                  \/ docs[d].active # 0 /\ docs[d].status # "DELETED"
  <2>1. docs'[d] = [docs[d] EXCEPT !.marked = m]
    BY DEF Migrate
  <2>2. docs[d] \in Document
    BY Rows DEF ChunkInv
  <2>3. m \in BOOLEAN /\ (docs[d].marked => m)
    OBVIOUS
  <2> HIDE DEF m
  <2> QED
    BY <2>1, <2>2, <2>3 DEF Document
<1>3. TypeOK'
  <2>1. docs' \in [Docs -> Document]
    BY <1>2 DEF Migrate
  <2>2. migrations' \in 0 .. MaxMigrations
    BY <1>1, ChunksAssumption DEF ChunkInv, TypeOK
  <2> QED
    BY <1>1, <1>2, <2>1, <2>2 DEF ChunkInv, TypeOK, NoQuery
<1>4. ASSUME NEW d \in Docs
      PROVE  DocInv(d)'
  <2>1. proc'[d].step = "out"
    BY <1>1 DEF Out
  <2>2. ChunkEntries(d)' = {}
    BY <1>1 DEF ChunkEntries
  <2>3. DocFits(docs[d])'
    BY <1>2, SMTT(30) DEF ChunkInv, DocInv, DocFits
  <2>4. ExecutionFits(docs[d], proc[d])'
    BY <1>1 DEF ExecutionFits
  <2> QED
    BY <2>1, <2>2, <2>3, <2>4 DEF DocInv, TodoFits, ChunksFit
<1> QED
  BY <1>1, <1>3, <1>4 DEF ChunkInv

QueryTypes == [step : {"idle", "retrieved", "answered"},
               found : SUBSET Passages, sources : SUBSET QuerySources]

\* _retrieved_sources, and what an answer names when it cites nothing: lines
\* are named only of a retrieved passage of an active revision.
LEMMA AnswerNames ==
  ASSUME TypeOK, Answer
  PROVE  \E sources \in SUBSET QuerySources :
           /\ query' = [query EXCEPT !.step = "answered", !.sources = sources]
           /\ \A s \in sources :
                s.first # 0 => /\ s.rev = docs[s.doc].active
                               /\ \E p \in query.found : Source(p.citation) = s
<1> DEFINE cited == RetrievedSources(query.found)
           ready == {Source([NoCitation EXCEPT !.doc = d]) : d \in ReadyDocs}
           names(s) ==
             /\ s \in QuerySources
             /\ s.first # 0 => /\ s.rev = docs[s.doc].active
                               /\ \E p \in query.found : Source(p.citation) = s
<1>1. \A s \in cited : names(s)
  <2> SUFFICES ASSUME NEW p \in query.found, p.citation.doc \in ReadyDocs,
                      p.citation.rev = docs[p.citation.doc].active
               PROVE  names(Source(p.citation))
    BY DEF RetrievedSources
  <2> DEFINE c == p.citation
  <2>1. c \in Citations
    BY DEF TypeOK, Passages
  <2> HIDE DEF c
  <2>2. c.doc \in Docs /\ c.rev = docs[c.doc].active /\ c.rev \in 0 .. MaxRevision
    BY Rows DEF ReadyDocs, c
  <2>3. c.first \in Nat /\ c.last \in Nat
    <3>1. CASE c = NoCitation
      BY <3>1 DEF NoCitation
    <3>2. CASE c # NoCitation
      BY <2>1, <3>2 DEF Citations
    <3> QED
      BY <3>1, <3>2
  <2>4. Source(c) \in QuerySources /\ Source(c).rev = docs[Source(c).doc].active
    BY <2>2, <2>3 DEF Source, QuerySources
  <2> QED
    BY <2>4 DEF c
<1>2. \A s \in ready : names(s)
  <2> SUFFICES ASSUME NEW d \in ReadyDocs
               PROVE  names(Source([NoCitation EXCEPT !.doc = d]))
    OBVIOUS
  <2>1. Source([NoCitation EXCEPT !.doc = d])
          = [doc |-> d, rev |-> 0, first |-> 0, last |-> 0]
    BY DEF Source, NoCitation
  <2> QED
    BY <2>1, ChunksAssumption DEF QuerySources, ReadyDocs
<1>3. query' = [query EXCEPT !.step = "answered",
                             !.sources = IF cited # {} THEN cited ELSE ready]
  BY DEF Answer
<1> HIDE DEF cited, ready
<1> QED
  BY <1>1, <1>2, <1>3

Passage(e) == [text |-> e.text, citation |-> e.citation]

\* A query retrieves what is there.
LEMMA Retrieved ==
  ASSUME Retrieve
  PROVE  \E found \in SUBSET store :
           query' = [step |-> "retrieved", sources |-> {},
                     found |-> {Passage(e) : e \in found}]
<1>1. PICK found \in UNION {kSubset(n, store) : n \in 0 .. MaxRetrieved} :
        query' = [step |-> "retrieved", sources |-> {},
                  found |-> {[text |-> e.text, citation |-> e.citation] : e \in found}]
  BY DEF Retrieve
<1>2. found \subseteq store
  BY DEF kSubset
<1> QED
  BY <1>1, <1>2 DEF Passage

\* A query, and a step of nothing here, leave documents and entries alone.
LEMMA QueryKeeps ==
  ASSUME ChunkInv, Retrieve \/ Answer \/ UNCHANGED vars
  PROVE  ChunkInv'
<1>1. UNCHANGED <<docs, proc, store, migrations>>
  BY DEF Retrieve, Answer, vars
<1>2. query' \in QueryTypes
  <2>1. query \in QueryTypes
    BY DEF ChunkInv, TypeOK, QueryTypes
  <2>2. CASE Retrieve
    <3>1. PICK found \in SUBSET store :
            query' = [step |-> "retrieved", found |-> {Passage(e) : e \in found},
                      sources |-> {}]
      BY <2>2, Retrieved
    <3>2. \A e \in found : Passage(e) \in Passages
      BY DEF ChunkInv, TypeOK, Entry, Passages, Passage
    <3> QED
      BY <3>1, <3>2 DEF QueryTypes
  <2>3. CASE Answer
    <3>1. PICK sources \in SUBSET QuerySources :
            query' = [query EXCEPT !.step = "answered", !.sources = sources]
      BY <2>3, AnswerNames DEF ChunkInv
    <3> QED
      BY <2>1, <3>1 DEF QueryTypes
  <2>4. CASE UNCHANGED vars
    BY <2>1, <2>4 DEF vars
  <2> QED
    BY <2>2, <2>3, <2>4
<1>3. TypeOK'
  BY <1>1, <1>2 DEF ChunkInv, TypeOK, QueryTypes
<1>4. \A d \in Docs : DocInv(d)'
  BY <1>1 DEF ChunkInv, DocInv, DocFits, ExecutionFits, TodoFits, ChunksFit,
              ChunkEntries, Cleared, Deleted, Rev
<1>5. \A e \in store' : EntryFits(e)'
  BY <1>1 DEF ChunkInv, EntryFits, Rev
<1> QED
  BY <1>3, <1>4, <1>5 DEF ChunkInv

LEMMA InitChunkInv ==
  Init => ChunkInv
<1> SUFFICES ASSUME Init PROVE ChunkInv
  OBVIOUS
<1>1. Absent \in Document
  BY ChunksAssumption DEF Absent, Document
<1>2. TypeOK
  <2>1. /\ Absent.active = 0 /\ Absent.revs = << >> /\ Out.rev = 0
        /\ Len(<< >>) = 0 /\ DOMAIN << >> = {}
    BY DEF Absent, Out
  <2> QED
    BY <1>1, <2>1, OutTyped, ChunksAssumption DEF Init, TypeOK, NoQuery
<1>3. ASSUME NEW d \in Docs
      PROVE  DocInv(d)
  <2>1. docs[d] = Absent /\ proc[d] = Out /\ ChunkEntries(d) = {}
    BY DEF Init, ChunkEntries
  <2> QED
    BY <2>1 DEF DocInv, DocFits, ExecutionFits, TodoFits, ChunksFit, Absent, Out,
                Deleted, Cleared
<1> QED
  BY <1>2, <1>3 DEF ChunkInv, Init

LEMMA NextChunkInv ==
  ChunkInv /\ [Next]_vars => ChunkInv'
<1> SUFFICES ASSUME ChunkInv, [Next]_vars PROVE ChunkInv'
  OBVIOUS
<1>1. \A d \in Docs : Updates[d] \subseteq Sources[d]
  BY ChunksAssumption
<1>2. ASSUME NEW d \in Docs,
             \/ \E file \in Sources[d] : Upload(d, file)
             \/ \E file \in Updates[d] : Upsert(d, file)
             \/ Delete(d) \/ Reindex(d)
      PROVE  ChunkInv'
  BY <1>1, <1>2, RequestKeeps
<1>3. ASSUME NEW d \in Docs,
             \/ StartIndexing(d) \/ StartReplacing(d)
             \/ StartReindexing(d) \/ StartDeleting(d)
      PROVE  ChunkInv'
  BY <1>3, StartKeeps
<1>4. ASSUME NEW d \in Docs, RemoveNext(d)
      PROVE  ChunkInv'
  BY <1>4, RemoveNextKeeps
<1>5. ASSUME NEW d \in Docs, Insert(d) \/ InsertPart(d)
      PROVE  ChunkInv'
  BY <1>5, InsertKeeps
<1>6. ASSUME NEW d \in Docs, Complete(d) \/ Fail(d)
      PROVE  ChunkInv'
  BY <1>6, EndKeeps
<1>7. CASE Migrate
  BY <1>7, MigrateKeeps
<1>8. CASE Retrieve \/ Answer \/ UNCHANGED vars
  BY <1>8, QueryKeeps
<1> QED
  BY <1>2, <1>3, <1>4, <1>5, <1>6, <1>7, <1>8 DEF Next

LEMMA ChunkInvHolds ==
  Spec => []ChunkInv
<1> QED
  BY InitChunkInv, NextChunkInv, PTL DEF Spec

\* CodeChunks, TypeOK.
THEOREM ChunksTypeCorrect ==
  Spec => []TypeOK
<1>1. ChunkInv => TypeOK
  BY DEF ChunkInv
<1> QED
  BY <1>1, ChunkInvHolds, PTL

-----------------------------------------------------------------------------
(* The lines of a citation.                                                *)

\* A text that is cut out of bytes stands on the lines of its first and its
\* last byte.
LEMMA CutStandsOn ==
  ASSUME NEW bytes \in Seq(Bytes), NEW i \in 0 .. Len(bytes), NEW j \in i .. Len(bytes)
  PROVE  StandsOn(Slice(bytes, i, j), bytes, LineAt(bytes, i),
                  LineAt(bytes, IF i < j THEN j - 1 ELSE i))
<1> DEFINE text == Slice(bytes, i, j)
<1>1. Len(bytes) \in Nat
  BY LenProperties
<1>2. CASE i = j
  <2>1. text = << >>
    BY <1>1, <1>2 DEF Slice
  <2> QED
    BY <2>1 DEF StandsOn
<1>3. CASE i < j
  <2>1. Len(text) = j - i
    BY <1>1, <1>3 DEF Slice
  <2> DEFINE w == i + 1
  <2>2. w \in 1 .. Len(bytes) - Len(text) + 1 /\ w - 1 = i /\ w + Len(text) - 1 = j
    BY <1>1, <1>3, <2>1
  <2>3. SubSeq(bytes, w, w + Len(text) - 1) = text
    BY <2>2 DEF Slice
  <2>4. LineOf(bytes, w) = LineAt(bytes, i)
    BY <2>2 DEF LineOf, LineAt
  <2>5. LineOf(bytes, w + Len(text) - 1) = LineAt(bytes, j - 1)
    BY <2>2 DEF LineOf, LineAt
  <2> HIDE DEF text, w
  <2>7. StandsOn(text, bytes, LineAt(bytes, i), LineAt(bytes, j - 1))
    BY <2>2, <2>3, <2>4, <2>5 DEF StandsOn
  <2> QED
    BY <1>3, <2>7 DEF text
<1> QED
  BY <1>1, <1>2, <1>3

\* A chunk whose lines are known stands on them in the file.
LEMMA ChunkStandsOn ==
  ASSUME NEW f \in Files, NEW k \in DOMAIN ParseOf[f].chunks,
         ParseOf[f].chunks[k].first # 0
  PROVE  LET chunk == ParseOf[f].chunks[k]
         IN  StandsOn(chunk.text, f.bytes, chunk.first, chunk.last)
<1> DEFINE chunk == ParseOf[f].chunks[k]
<1>1. PICK i \in 0 .. Len(f.bytes) : \E j \in i .. Len(f.bytes) :
        chunk = Chunk(f.bytes, chunk, <<i, j>>)
  BY ParserAssumption DEF ParseFits
<1>5. PICK j \in i .. Len(f.bytes) : chunk = Chunk(f.bytes, chunk, <<i, j>>)
  BY <1>1
<1> HIDE DEF chunk
<1>2. /\ chunk.text = Slice(f.bytes, i, j)
      /\ chunk.first = LineAt(f.bytes, i)
      /\ chunk.last = LineAt(f.bytes, IF i < j THEN j - 1 ELSE i)
  BY <1>5 DEF Chunk
<1>3. f.bytes \in Seq(Bytes)
  BY ParseTyped
<1>4. StandsOn(chunk.text, f.bytes, chunk.first, chunk.last)
  BY <1>2, <1>3, CutStandsOn
<1> QED
  BY <1>4 DEF chunk

\* The lines that the citation of an entry names are those of its text, in the
\* revision that it names.
LEMMA CitationFits ==
  ASSUME ChunkInv, NEW e \in store, e.citation.first # 0
  PROVE  LET c == e.citation
         IN  /\ c.doc \in Docs
             /\ c.rev \in 1 .. Len(docs[c.doc].revs)
             /\ StandsOn(e.text, docs[c.doc].revs[c.rev].bytes, c.first, c.last)
<1>1. EntryFits(e)
  BY DEF ChunkInv
<1>2. \A b : e # TextEntry(b)
  <2>1. \A b : TextEntry(b).citation.first = 0
    BY DEF TextEntry, NoCitation
  <2> QED
    BY <2>1
<1>3. PICK d \in Docs : \E r \in DOMAIN docs[d].revs :
        \E k \in DOMAIN ParseOf[Rev(d, r)].chunks : e = EntryOf(d, Rev(d, r), r, k)
  BY <1>1, <1>2 DEF EntryFits
<1>4. PICK r \in DOMAIN docs[d].revs :
        \E k \in DOMAIN ParseOf[Rev(d, r)].chunks : e = EntryOf(d, Rev(d, r), r, k)
  BY <1>3
<1>5. PICK k \in DOMAIN ParseOf[Rev(d, r)].chunks : e = EntryOf(d, Rev(d, r), r, k)
  BY <1>4
<1> DEFINE chunk == ParseOf[Rev(d, r)].chunks[k]
<1>6. /\ e.text = chunk.text
      /\ e.citation.doc = d /\ e.citation.rev = r
      /\ e.citation.first = chunk.first /\ e.citation.last = chunk.last
  BY <1>5 DEF EntryOf
<1>7. Rev(d, r) \in Files /\ r \in 1 .. Len(docs[d].revs)
  BY Rows DEF ChunkInv, Rev
<1>8. StandsOn(chunk.text, Rev(d, r).bytes, chunk.first, chunk.last)
  BY <1>6, <1>7, ChunkStandsOn
<1> HIDE DEF chunk
<1> QED
  BY <1>6, <1>7, <1>8 DEF Rev

\* All entries are cited for the lines that they stand on.
THEOREM CitedLines ==
  Spec => []CitedLinesHoldText
<1>1. ChunkInv => CitedLinesHoldText
  BY CitationFits DEF CitedLinesHoldText
<1> QED
  BY <1>1, ChunkInvHolds, PTL

-----------------------------------------------------------------------------
(* The passages of a query.                                                *)

\* What a query has retrieved is still where its citation says, in the revision
\* that is cited.
FoundFits ==
    \A p \in query.found : p.citation.first # 0 =>
      LET c == p.citation
      IN  /\ c.doc \in Docs
          /\ c.rev \in 1 .. Len(docs[c.doc].revs)
          /\ StandsOn(p.text, docs[c.doc].revs[c.rev].bytes, c.first, c.last)

\* No step changes a revision that is there.
LEMMA RevisionsStay ==
  ASSUME ChunkInv, [Next]_vars, NEW c \in Docs
  PROVE  KeepsRevisions(c)
<1>1. ASSUME docs'[c].revs = docs[c].revs
      PROVE  KeepsRevisions(c)
  BY <1>1, Rows DEF KeepsRevisions, ChunkInv
<1>2. ASSUME NEW d \in Docs, RowsFit(d)
      PROVE  KeepsRevisions(c)
  <2>1. docs \in [Docs -> Document]
    BY DEF ChunkInv, TypeOK
  <2>2. CASE d # c
    BY <1>1, <1>2, <2>1, <2>2 DEF RowsFit, OnlyAt
  <2> QED
    BY <1>2, <2>2 DEF RowsFit
<1>3. \A d \in Docs : Updates[d] \subseteq Sources[d]
  BY ChunksAssumption
<1>4. ASSUME NEW d \in Docs,
             \/ \E file \in Sources[d] : Upload(d, file)
             \/ \E file \in Updates[d] : Upsert(d, file)
             \/ Delete(d) \/ Reindex(d)
      PROVE  KeepsRevisions(c)
  BY <1>2, <1>3, <1>4, UploadRows, UpsertRows, DeleteRows
<1>5. ASSUME NEW d \in Docs,
             \/ StartIndexing(d) \/ StartReplacing(d)
             \/ StartReindexing(d) \/ StartDeleting(d)
      PROVE  KeepsRevisions(c)
  BY <1>2, <1>5, StartIndexingRows, StartReplacingRows, StartReindexingRows,
     StartDeletingRows
<1>6. ASSUME NEW d \in Docs,
             RemoveNext(d) \/ Insert(d) \/ InsertPart(d) \/ Complete(d) \/ Fail(d)
      PROVE  KeepsRevisions(c)
  BY <1>2, <1>6, RemoveNextRows, InsertRows, InsertPartRows, CompleteRows, FailRows
<1>7. CASE Migrate
  <2>1. docs[c] \in Document
    BY Rows DEF ChunkInv
  <2> QED
    BY <1>1, <1>7, <2>1 DEF Migrate, Document
<1>8. CASE Retrieve \/ Answer \/ UNCHANGED vars
  BY <1>1, <1>8 DEF Retrieve, Answer, vars
<1> QED
  BY <1>4, <1>5, <1>6, <1>7, <1>8 DEF Next

\* Only queries and a change of the index contract change the query.
LEMMA QueryStep ==
  ASSUME [Next]_vars
  PROVE  \/ query' = query
         \/ Migrate /\ query' = NoQuery
         \/ Retrieve \/ Answer
BY DEF Next, Upload, Upsert, Delete, Reindex, Request, StartIndexing,
       StartReplacing, StartReindexing, StartDeleting, Start, RemoveNext, Insert,
       InsertPart, Complete, Fail, Migrate, vars

LEMMA NextFoundFits ==
  ASSUME ChunkInv, FoundFits, [Next]_vars
  PROVE  FoundFits'
<1>1. CASE query'.found = query.found
  <2> SUFFICES ASSUME NEW p \in query.found, p.citation.first # 0
               PROVE  LET c == p.citation
                      IN  /\ c.doc \in Docs
                          /\ c.rev \in 1 .. Len(docs'[c.doc].revs)
                          /\ StandsOn(p.text, docs'[c.doc].revs[c.rev].bytes,
                                      c.first, c.last)
    BY <1>1 DEF FoundFits
  <2> DEFINE c == p.citation
  <2>1. /\ c.doc \in Docs
        /\ c.rev \in 1 .. Len(docs[c.doc].revs)
        /\ StandsOn(p.text, docs[c.doc].revs[c.rev].bytes, c.first, c.last)
    BY DEF FoundFits
  <2> HIDE DEF c
  <2>2. KeepsRevisions(c.doc)
    BY <2>1, RevisionsStay
  <2>3. docs'[c.doc].revs[c.rev] = docs[c.doc].revs[c.rev]
    BY <2>1, <2>2 DEF KeepsRevisions
  <2>4. c.rev \in 1 .. Len(docs'[c.doc].revs)
    <3>1. Len(docs[c.doc].revs) \in Nat /\ Len(docs'[c.doc].revs) \in Nat
      BY <2>1, NextChunkInv, Rows DEF ChunkInv
    <3> QED
      BY <2>1, <2>2, <3>1 DEF KeepsRevisions
  <2> QED
    BY <2>1, <2>3, <2>4 DEF c
<1>2. CASE Retrieve
  <2>1. PICK found \in SUBSET store :
          query' = [step |-> "retrieved", sources |-> {},
                    found |-> {Passage(e) : e \in found}]
    BY <1>2, Retrieved
  <2>2. docs' = docs
    BY <1>2 DEF Retrieve
  <2> SUFFICES ASSUME NEW e \in store, e.citation.first # 0
               PROVE  LET c == e.citation
                      IN  /\ c.doc \in Docs
                          /\ c.rev \in 1 .. Len(docs[c.doc].revs)
                          /\ StandsOn(e.text, docs[c.doc].revs[c.rev].bytes,
                                      c.first, c.last)
    BY <2>1, <2>2 DEF FoundFits, Passage
  <2> QED
    BY CitationFits
<1>3. CASE query' = NoQuery
  BY <1>3 DEF FoundFits, NoQuery
<1>4. CASE Answer
  <2>1. query'.found = query.found
    BY <1>4, AnswerNames DEF ChunkInv, TypeOK
  <2> QED
    BY <1>1, <2>1
<1> QED
  BY <1>1, <1>2, <1>3, <1>4, QueryStep

\* Whatever happens between the retrieval and the listing of the documents: the
\* passages that an answer cites by line stand on these lines of the revision
\* that is active when the answer is given.
THEOREM CitedPassages ==
  Spec => CitedPassagesAreCurrent
<1> DEFINE A == query.step = "retrieved" /\ query'.step = "answered"
                => \A s \in query'.sources : s.first # 0 => FoundWhereCited(s)
<1>1. ASSUME ChunkInv, FoundFits, [Next]_vars
      PROVE  [A]_vars
  <2> SUFFICES ASSUME query.step = "retrieved", query'.step = "answered",
                      NEW s \in query'.sources, s.first # 0
               PROVE  FoundWhereCited(s)
    OBVIOUS
  <2>1. Answer
    BY <1>1, QueryStep DEF NoQuery, Retrieve
  <2>2. PICK sources \in SUBSET QuerySources :
          /\ query' = [query EXCEPT !.step = "answered", !.sources = sources]
          /\ \A t \in sources :
               t.first # 0 => /\ t.rev = docs[t.doc].active
                              /\ \E p \in query.found : Source(p.citation) = t
    BY <1>1, <2>1, AnswerNames DEF ChunkInv
  <2>3. query'.sources = sources
    BY <1>1, <2>2 DEF ChunkInv, TypeOK
  <2>4. /\ s.rev = docs[s.doc].active
        /\ \E p \in query.found : Source(p.citation) = s
    BY <2>2, <2>3
  <2>5. ASSUME NEW p \in query.found, Source(p.citation) = s
        PROVE  StandsOn(p.text, docs[s.doc].revs[s.rev].bytes, s.first, s.last)
    <3>1. /\ s.doc = p.citation.doc /\ s.rev = p.citation.rev
          /\ s.first = p.citation.first /\ s.last = p.citation.last
      BY <2>5 DEF Source
    <3> QED
      BY <1>1, <3>1 DEF FoundFits
  <2> QED
    BY <2>4, <2>5 DEF FoundWhereCited
<1>2. Init => FoundFits
  BY DEF Init, FoundFits, NoQuery
<1>3. ChunkInv /\ FoundFits /\ [Next]_vars => FoundFits'
  BY NextFoundFits
<1>4. Spec => [][A]_vars
  BY <1>1, <1>2, <1>3, ChunkInvHolds, PTL DEF Spec
<1> QED
  BY <1>4 DEF CitedPassagesAreCurrent

-----------------------------------------------------------------------------
(* The index and the status.                                               *)

\* The entries that are for document d: its chunks and its texts.
Mine(d, e) ==
    \/ IsChunkOf(e.key, d)
    \/ \E f \in Sources[d] : e.key = TextKey(f.bytes)

\* An entry is determined by its key.
LEMMA KeyDetermines ==
  ASSUME TypeOK, NEW e, NEW x, EntryFits(e), EntryFits(x), e.key = x.key
  PROVE  e = x
<1>1. CASE \E f \in Files : e = TextEntry(f.bytes)
  <2>1. PICK f \in Files : e = TextEntry(f.bytes)
    BY <1>1
  <2>2. x.key = TextKey(f.bytes)
    BY <2>1 DEF TextEntry
  <2>3. \A d, file, r, k : x # EntryOf(d, file, r, k)
    BY <2>2, KeysApart DEF EntryOf
  <2>4. PICK g \in Files : x = TextEntry(g.bytes)
    BY <2>3 DEF EntryFits
  <2>5. g.bytes = f.bytes
    BY <2>2, <2>4, KeysApart DEF TextEntry
  <2> QED
    BY <2>1, <2>4, <2>5
<1>2. CASE ~\E f \in Files : e = TextEntry(f.bytes)
  <2>1. PICK d \in Docs : \E r \in DOMAIN docs[d].revs :
          \E k \in DOMAIN ParseOf[Rev(d, r)].chunks : e = EntryOf(d, Rev(d, r), r, k)
    BY <1>2 DEF EntryFits
  <2>2. PICK r \in DOMAIN docs[d].revs :
          \E k \in DOMAIN ParseOf[Rev(d, r)].chunks : e = EntryOf(d, Rev(d, r), r, k)
    BY <2>1
  <2>3. PICK k \in DOMAIN ParseOf[Rev(d, r)].chunks : e = EntryOf(d, Rev(d, r), r, k)
    BY <2>2
  <2>4. x.key = ChunkKey(d, r, k - 1)
    BY <2>3 DEF EntryOf
  <2>5. \A b : x # TextEntry(b)
    BY <2>4, KeysApart DEF TextEntry
  <2>6. PICK c \in Docs : \E s \in DOMAIN docs[c].revs :
          \E l \in DOMAIN ParseOf[Rev(c, s)].chunks : x = EntryOf(c, Rev(c, s), s, l)
    BY <2>5 DEF EntryFits
  <2>7. PICK s \in DOMAIN docs[c].revs :
          \E l \in DOMAIN ParseOf[Rev(c, s)].chunks : x = EntryOf(c, Rev(c, s), s, l)
    BY <2>6
  <2>8. PICK l \in DOMAIN ParseOf[Rev(c, s)].chunks : x = EntryOf(c, Rev(c, s), s, l)
    BY <2>7
  <2>9. x.key = ChunkKey(c, s, l - 1)
    BY <2>8 DEF EntryOf
  <2>10. c = d /\ s = r /\ l - 1 = k - 1
    BY <2>4, <2>9, KeysApart
  <2>11. l \in Int /\ k \in Int
    <3>1. Rev(d, r) \in Files
      BY Rows DEF Rev
    <3>2. ParseOf[Rev(d, r)].chunks \in Seq(ParsedChunks)
      BY <3>1, ParseTyped
    <3> QED
      BY <2>10, <3>2, LenProperties
  <2>12. l = k
    BY <2>10, <2>11
  <2> QED
    BY <2>3, <2>8, <2>10, <2>12
<1> QED
  BY <1>1, <1>2

\* What LightRAG has of a document depends on its own entries.
LEMMA HasMine ==
  ASSUME NEW d \in Docs, NEW file \in Sources[d], NEW r
  PROVE  /\ Mine(d, TextEntry(file.bytes))
         /\ \A k : Mine(d, EntryOf(d, file, r, k))
BY KeysApart DEF Mine, TextEntry, EntryOf

LEMMA FirstRevision ==
  ASSUME ChunkInv, NEW d \in Docs, docs[d].status # "ABSENT"
  PROVE  1 \in 1 .. Len(docs[d].revs)
<1>1. /\ docs[d].status \in {"UPLOADED", "INDEXING", "READY", "UPDATING",
                             "DELETING", "DELETED"}
      /\ Len(docs[d].revs) \in Nat
      /\ docs[d].active \in Nat
  BY Rows, ChunksAssumption DEF ChunkInv, Document
<1>2. DocFits(docs[d])
  BY DEF ChunkInv, DocInv
<1>3. \/ Len(docs[d].revs) = 1
      \/ docs[d].active # 0 /\ docs[d].active = Len(docs[d].revs)
      \/ docs[d].active # 0 /\ docs[d].active + 1 = Len(docs[d].revs)
  BY <1>1, <1>2 DEF DocFits
<1>4. \A n, a \in Nat :
        n = 1 \/ (a # 0 /\ a = n) \/ (a # 0 /\ a + 1 = n) => 1 \in 1 .. n
  OBVIOUS
<1> QED
  BY <1>1, <1>3, <1>4

\* A step that leaves a document, its execution and its entries alone.
LEMMA Untouched ==
  ASSUME ChunkInv, NEW d \in Docs, IndexFits(d),
         docs'[d] = docs[d], proc'[d] = proc[d],
         \A e : Mine(d, e) => (e \in store' <=> e \in store)
  PROVE  IndexFits(d)'
<1>1. \A r : Rev(d, r)' = Rev(d, r)
  BY DEF Rev
<1>2. ChunkEntries(d)' = ChunkEntries(d)
  BY DEF ChunkEntries, Mine
<1>3. TextsFit(d)'
  BY <1>1 DEF IndexFits, TextsFit, Mine, MayHaveText, Cleared, Deleted
<1>4. ASSUME NEW r \in 1 .. Len(docs[d].revs)
      PROVE  Has(d, r) <=> Has(d, r)'
  <2>1. Rev(d, r) \in Sources[d]
    BY Rows DEF Rev, ChunkInv
  <2> QED
    BY <1>1, <2>1, HasMine DEF Has
<1>5. ASSUME docs[d].status # "ABSENT"
      PROVE  HasFirstText(d) <=> HasFirstText(d)'
  <2>2. 1 \in 1 .. Len(docs[d].revs)
    BY <1>5, FirstRevision
  <2>3. Rev(d, 1) \in Sources[d]
    BY <2>2, Rows DEF Rev, ChunkInv
  <2> QED
    BY <1>1, <2>3, HasMine DEF HasFirstText
<1>6. ASSUME proc[d].step = "completing", docs[d].status \in {"UPDATING", "READY"}
      PROVE  proc[d].rev \in 1 .. Len(docs[d].revs)
  <2>1. /\ docs[d].active # 0
        /\ proc[d].rev = docs[d].active \/ proc[d].rev = Len(docs[d].revs)
    BY <1>6 DEF ChunkInv, DocInv, DocFits, ExecutionFits, Out
  <2> QED
    BY <2>1, Rows DEF ChunkInv
<1>7. ASSUME docs[d].status = "READY"
      PROVE  docs[d].active \in 1 .. Len(docs[d].revs)
  BY <1>7, Rows DEF ChunkInv, DocInv, DocFits
<1>8. proc'[d].step = "completing" => Done(d)'
  BY <1>4, <1>5, <1>6 DEF IndexFits, Done
<1>9. docs'[d].status = "READY" /\ ~docs'[d].marked => Indexed(d)'
  BY <1>2, <1>4, <1>5, <1>7 DEF IndexFits, Indexed
<1> QED
  BY <1>3, <1>8, <1>9 DEF IndexFits

\* A step of one document's execution leaves the entries of others alone.
LEMMA OthersUntouched ==
  ASSUME ChunkInv, TextsApart, NEW d \in Docs,
         RemoveNext(d) \/ Insert(d) \/ InsertPart(d),
         NEW c \in Docs \ {d}, NEW e, Mine(c, e)
  PROVE  e \in store' <=> e \in store
<1>1. ASSUME NEW file \in Sources[d]
      PROVE  e.key # TextKey(file.bytes)
  <2>1. \A f \in Sources[c] : f.bytes # file.bytes
    BY DEF TextsApart
  <2> QED
    BY <2>1, KeysApart DEF Mine
<1>2. \A r, i : e.key # ChunkKey(d, r, i)
  BY KeysApart DEF Mine
<1>3. CASE RemoveNext(d)
  <2>1. /\ store' = {x \in store : x.key # Head(proc[d].todo)}
        /\ proc[d].step = "removing"
    BY <1>3 DEF RemoveNext
  <2>2. 1 \in DOMAIN proc[d].todo /\ Head(proc[d].todo) = proc[d].todo[1]
    <3>1. proc[d].todo \in Seq(Keys) /\ proc[d].todo # << >>
      BY <1>3, RemoveNextRows, Rows DEF ChunkInv, Execution
    <3> QED
      BY <3>1, LenProperties, EmptySeq
  <2>3. e.key # Head(proc[d].todo)
    BY <1>1, <1>2, <2>1, <2>2, TodoKey
  <2> QED
    BY <2>1, <2>3
<1>4. CASE Insert(d) \/ InsertPart(d)
  <2>1. proc[d].step = "inserting"
    BY <1>4 DEF Insert, InsertPart
  <2>2. ~ToBe(d, e)
    <3>1. Inserting(d) \in Sources[d]
      BY <2>1, Insertion
    <3> QED
      BY <1>1, <1>2, <3>1 DEF ToBe, TextEntry, EntryOf
  <2> QED
    BY <1>4, <2>2, Inserted
<1> QED
  BY <1>3, <1>4

\* An action of d that keeps what is said of d keeps what is said of all.
LEMMA IndexOfOne ==
  ASSUME ChunkInv, IndexInv, NEW d \in Docs, OnlyAt(d),
         \A c \in Docs \ {d} : \A e : Mine(c, e) => (e \in store' <=> e \in store),
         IndexFits(d)'
  PROVE  IndexInv'
<1>1. ASSUME NEW c \in Docs \ {d}
      PROVE  IndexFits(c)'
  <2>1. docs'[c] = docs[c] /\ proc'[c] = proc[c]
    BY DEF OnlyAt, ChunkInv, TypeOK
  <2>2. IndexFits(c)
    BY DEF IndexInv
  <2> QED
    BY <2>1, <2>2, Untouched
<1> QED
  BY <1>1 DEF IndexInv

\* Unless a document's revisions are replaced, it may keep its texts.
LEMMA TextsMayStay ==
  ASSUME ChunkInv, NEW d \in Docs, KeepsRevisions(d),
         docs'[d].active = docs[d].active,
         docs'[d].status # "ABSENT",
         docs[d].status \in {"UPLOADED", "INDEXING"}
           => docs'[d].status \in {"UPLOADED", "INDEXING"},
         docs[d].status = "UPDATING"
           => docs'[d].status = "UPDATING" /\ docs'[d].revs = docs[d].revs,
         ~Cleared(d)', ~Deleted(d)' \/ Deleted(d),
         NEW bytes, MayHaveText(d, bytes)
  PROVE  MayHaveText(d, bytes)'
<1>1. \A r \in 1 .. Len(docs[d].revs) : docs'[d].revs[r] = docs[d].revs[r]
  BY DEF KeepsRevisions
<1>2. CASE /\ docs[d].status \in {"UPLOADED", "INDEXING"} \/ Chunked(docs[d].revs[1])
           /\ docs[d].status # "ABSENT"
           /\ bytes = docs[d].revs[1].bytes
  <2>2. docs'[d].revs[1] = docs[d].revs[1]
    BY <1>1, <1>2, FirstRevision
  <2> QED
    BY <1>2, <2>2 DEF MayHaveText
<1>3. CASE /\ docs[d].active # 0 /\ ~Cleared(d) /\ ~Deleted(d)
           /\ ~Chunked(docs[d].revs[docs[d].active])
           /\ bytes = docs[d].revs[docs[d].active].bytes
  <2>1. docs'[d].revs[docs[d].active] = docs[d].revs[docs[d].active]
    BY <1>1, <1>3, Rows DEF ChunkInv
  <2> QED
    BY <1>3, <2>1 DEF MayHaveText
<1>4. CASE /\ docs[d].status = "UPDATING"
           /\ ~Chunked(docs[d].revs[Len(docs[d].revs)])
           /\ bytes = docs[d].revs[Len(docs[d].revs)].bytes
  BY <1>4 DEF MayHaveText
<1> QED
  BY <1>2, <1>3, <1>4 DEF MayHaveText

LEMMA TextsStay ==
  ASSUME NEW d \in Docs, TextsFit(d), store' \subseteq store,
         \A bytes : MayHaveText(d, bytes) => MayHaveText(d, bytes)'
  PROVE  TextsFit(d)'
BY DEF TextsFit

\* A request of the API, or the start of an execution.
LEMMA StartsKeepIndex ==
  ASSUME ChunkInv, IndexInv, NEW d \in Docs,
         \/ \E file \in Sources[d] : Upload(d, file) \/ Upsert(d, file)
         \/ Delete(d) \/ Reindex(d)
         \/ StartIndexing(d) \/ StartReplacing(d)
         \/ StartReindexing(d) \/ StartDeleting(d)
  PROVE  IndexInv'
<1>1. /\ RowsFit(d)
      /\ store' = store
  <2>1. RowsFit(d)
    BY UploadRows, UpsertRows, DeleteRows, StartIndexingRows, StartReplacingRows,
       StartReindexingRows, StartDeletingRows
  <2> QED
    BY <2>1 DEF Upload, Upsert, Delete, Reindex, Request, StartIndexing,
       StartReplacing, StartReindexing, StartDeleting, Start
<1>2. docs[d] \in Document /\ docs \in [Docs -> Document] /\ proc \in [Docs -> Execution]
  BY Rows DEF ChunkInv, TypeOK
<1>3. /\ docs'[d].active = docs[d].active
      /\ docs'[d].status # "ABSENT"
      /\ docs'[d].status # "DELETED"
      /\ docs[d].status \in {"UPLOADED", "INDEXING"}
         => docs'[d].status \in {"UPLOADED", "INDEXING"}
      /\ docs[d].status = "UPDATING"
         => docs'[d].status = "UPDATING" /\ docs'[d].revs = docs[d].revs
      /\ docs'[d].status = "READY" => docs'[d].marked
  <2>1. CASE \E file \in Sources[d] : Upload(d, file) \/ Upsert(d, file)
    <3>1. PICK q : /\ docs' = [docs EXCEPT ![d] = q]
                   /\ q.status \in {"UPLOADED", "UPDATING"}
                   /\ q.active = docs[d].active
                   /\ docs[d].status \in {"ABSENT", "READY"}
      BY <1>2, <2>1 DEF Upload, Upsert, Request, Document
    <3>2. docs'[d] = q
      BY <1>2, <3>1
    <3> QED
      BY <3>1, <3>2
  <2>2. CASE Delete(d)
    BY <1>2, <2>2 DEF Delete, Request, Document
  <2>6. CASE Reindex(d)
    BY <1>2, <2>6 DEF Reindex, Request, Document
  <2>3. CASE StartIndexing(d)
    BY <1>2, <2>3 DEF StartIndexing, Document
  <2>4. CASE StartReplacing(d) \/ StartDeleting(d)
    BY <2>4 DEF StartReplacing, StartDeleting
  <2>5. CASE StartReindexing(d)
    BY <2>5 DEF StartReindexing, ChunkInv, DocInv, DocFits
  <2> QED
    BY <2>1, <2>2, <2>3, <2>4, <2>5, <2>6
<1>4. /\ proc'[d].step \in {"out", "removing", "inserting"}
      /\ proc'[d].step = "inserting" => docs'[d].status \in {"INDEXING", "READY"}
  <2>1. CASE \/ \E file \in Sources[d] : Upload(d, file) \/ Upsert(d, file)
             \/ Delete(d) \/ Reindex(d)
    <3>1. proc' = proc /\ docs[d].job = "none"
      BY <2>1 DEF Upload, Upsert, Delete, Reindex, Request
    <3> QED
      BY <3>1 DEF ChunkInv, DocInv, ExecutionFits, Out
  <2>2. CASE StartIndexing(d)
    BY <1>2, <2>2 DEF StartIndexing, Start, Out, Document
  <2>3. CASE StartReplacing(d) \/ StartDeleting(d)
    BY <2>3, StartReplacingRows, StartDeletingRows
  <2>4. CASE StartReindexing(d)
    BY <1>2, <2>4 DEF StartReindexing, Start, Out
  <2> QED
    BY <2>1, <2>2, <2>3, <2>4
<1>5. TextsFit(d)'
  <2>1. TextsFit(d)
    BY DEF IndexInv, IndexFits
  <2>2. ~Cleared(d)' /\ ~Deleted(d)'
    BY <1>3, <1>4 DEF Cleared, Deleted
  <2>3. KeepsRevisions(d)
    BY <1>1 DEF RowsFit
  <2>4. \A bytes : MayHaveText(d, bytes) => MayHaveText(d, bytes)'
    BY <1>3, <2>2, <2>3, TextsMayStay
  <2> QED
    BY <1>1, <2>1, <2>4, TextsStay
<1>6. IndexFits(d)'
  BY <1>3, <1>4, <1>5 DEF IndexFits
<1> QED
  BY <1>1, <1>6, IndexOfOne DEF RowsFit

\* adelete_by_doc_id: when a replacement or a deletion has gone through its
\* keys, the active revision has left no text.
LEMMA RemoveNextKeepsIndex ==
  ASSUME ChunkInv, TextsApart, IndexInv, NEW d \in Docs, RemoveNext(d)
  PROVE  IndexInv'
<1>1. /\ RowsFit(d)
      /\ docs' = docs
      /\ proc[d].todo # << >>
      /\ store' = {e \in store : e.key # Head(proc[d].todo)}
      /\ proc[d].step = "removing"
  BY RemoveNextRows DEF RemoveNext
<1>6. docs[d].status \in {"UPDATING", "DELETING"}
  BY <1>1 DEF ChunkInv, DocInv, ExecutionFits, DocFits, Out
<1>2. 1 \in DOMAIN proc[d].todo /\ Head(proc[d].todo) = proc[d].todo[1]
  <2>1. proc[d].todo \in Seq(Keys)
    BY Rows DEF ChunkInv, Execution
  <2> QED
    BY <1>1, <2>1, LenProperties, EmptySeq
<1>3. ASSUME NEW f \in Sources[d], NEW e \in store', e.key = TextKey(f.bytes)
      PROVE  MayHaveText(d, f.bytes)'
  <2>1. MayHaveText(d, f.bytes)
    BY <1>1, <1>3 DEF IndexInv, IndexFits, TextsFit
  <2>2. CASE /\ docs[d].active # 0 /\ ~Cleared(d) /\ ~Deleted(d)
             /\ ~Chunked(docs[d].revs[docs[d].active])
             /\ f.bytes = docs[d].revs[docs[d].active].bytes
    BY <1>1, <1>2, <1>3, <2>2, TodoKey DEF Rev
  <2>3. CASE ~(/\ docs[d].active # 0 /\ ~Cleared(d) /\ ~Deleted(d)
               /\ ~Chunked(docs[d].revs[docs[d].active])
               /\ f.bytes = docs[d].revs[docs[d].active].bytes)
    BY <1>1, <2>1, <2>3 DEF MayHaveText
  <2> QED
    BY <2>2, <2>3
<1>4. proc'[d].step = "completing" => docs[d].status = "DELETING"
  BY RemoveNextRows DEF ChunkInv, DocInv, DocFits
<1>5. IndexFits(d)'
  BY <1>1, <1>3, <1>4, <1>6 DEF IndexFits, TextsFit, Done
<1> QED
  BY <1>1, <1>5, IndexOfOne, OthersUntouched DEF RowsFit

LEMMA InsertKeepsIndex ==
  ASSUME ChunkInv, ChunkInv', TextsApart, IndexInv, NEW d \in Docs,
         Insert(d) \/ InsertPart(d)
  PROVE  IndexInv'
<1>1. /\ RowsFit(d)
      /\ proc[d].step = "inserting"
      /\ proc'[d].step = IF Insert(d) THEN "completing" ELSE "out"
      /\ proc'[d].step = "completing" => proc'[d].rev = proc[d].rev
  <2>1. CASE Insert(d)
    <3>1. proc[d] \in Execution
      BY Rows DEF ChunkInv
    <3> QED
      BY <2>1, <3>1, InsertRows DEF Execution
  <2>2. CASE ~Insert(d)
    BY <2>2, InsertPartRows DEF Out
  <2> QED
    BY <2>1, <2>2
<1>2. /\ store \subseteq store'
      /\ \A e \in store' \ store : ToBe(d, e)
      /\ Insert(d) => \A e : ToBe(d, e) => \E x \in store' : x.key = e.key
      /\ docs' = docs
  BY Inserted
<1>3. \/ docs[d].status = "INDEXING" /\ proc[d].rev = 0
      \/ /\ docs[d].status = "UPDATING" /\ proc[d].rev = Len(docs[d].revs)
         /\ proc[d].rev # 0
      \/ /\ docs[d].status = "READY" /\ proc[d].rev = docs[d].active
         /\ proc[d].rev # 0
  BY <1>1, Insertion
<1>4. ASSUME NEW f \in Sources[d], NEW e \in store', e.key = TextKey(f.bytes)
      PROVE  MayHaveText(d, f.bytes)'
  <2>1. CASE e \in store
    <3>1. MayHaveText(d, f.bytes)
      BY <1>4, <2>1 DEF IndexInv, IndexFits, TextsFit
    <3>2. Cleared(d)' => Cleared(d)
      BY <1>1, <1>2 DEF Cleared
    <3>3. ~Deleted(d)'
      BY <1>2, <1>3 DEF Deleted
    <3> QED
      BY <1>2, <3>1, <3>2, <3>3 DEF MayHaveText
  <2>2. CASE e \notin store
    <3>1. ToBe(d, e)
      BY <1>2, <2>2
    <3>2. \A r, k : e.key # ChunkKey(d, r, k)
      BY <1>4, KeysApart
    <3>3. /\ proc[d].rev = 0 \/ ~Chunked(Inserting(d))
          /\ e = TextEntry(Inserting(d).bytes)
      BY <3>1, <3>2 DEF ToBe, EntryOf
    <3>4. f.bytes = Inserting(d).bytes
      BY <1>4, <3>3, KeysApart DEF TextEntry
    <3> QED
      BY <1>2, <1>3, <3>3, <3>4 DEF MayHaveText, Inserting, Rev, Cleared, Deleted
  <2> QED
    BY <2>1, <2>2
<1>5. ASSUME Insert(d)
      PROVE  Done(d)'
  <2>1. ASSUME NEW e, ToBe(d, e)
        PROVE  e \in store'
    <3>1. PICK x \in store' : x.key = e.key
      BY <1>2, <1>5, <2>1
    <3>2. EntryFits(x)'
      BY DEF ChunkInv
    <3>3. EntryFits(x)
      BY <1>2, <3>2 DEF EntryFits, Rev
    <3>4. EntryFits(e)
      BY <1>1, <2>1, ToBeFits
    <3>5. x = e
      BY <3>1, <3>3, <3>4, KeyDetermines DEF ChunkInv
    <3> QED
      BY <3>5
  <2>2. CASE proc[d].rev = 0
    <3>1. Inserting(d) = Rev(d, 1)
      BY <2>2 DEF Inserting
    <3>2. TextEntry(Rev(d, 1).bytes) \in store'
      BY <2>1, <2>2, <3>1 DEF ToBe
    <3> QED
      BY <1>2, <1>3, <2>2, <3>2 DEF Done, HasFirstText, Rev
  <2>3. CASE proc[d].rev # 0
    <3>1. Inserting(d) = Rev(d, proc[d].rev)
      BY <2>3 DEF Inserting
    <3>2. IF Chunked(Rev(d, proc[d].rev))
          THEN \A k \in DOMAIN ParseOf[Rev(d, proc[d].rev)].chunks :
                 EntryOf(d, Rev(d, proc[d].rev), proc[d].rev, k) \in store'
          ELSE TextEntry(Rev(d, proc[d].rev).bytes) \in store'
      BY <2>1, <2>3, <3>1 DEF ToBe
    <3>3. proc'[d].rev = proc[d].rev
      BY <1>1, <1>5
    <3> QED
      BY <1>2, <1>3, <2>3, <3>2, <3>3 DEF Done, Has, Rev
  <2> QED
    BY <2>2, <2>3
<1>6. docs[d].status = "READY" => docs[d].marked
  BY <1>1 DEF ChunkInv, DocInv, DocFits, ExecutionFits, Out
<1>7. IndexFits(d)'
  BY <1>1, <1>2, <1>4, <1>5, <1>6 DEF IndexFits, TextsFit
<1> QED
  BY <1>1, <1>7, IndexOfOne, OthersUntouched DEF RowsFit

\* What has been seen to when the last step of an execution comes.
LEMMA CompleteKeepsIndex ==
  ASSUME ChunkInv, IndexInv, NEW d \in Docs, Complete(d)
  PROVE  IndexInv'
<1>1. /\ RowsFit(d)
      /\ proc[d].step = "completing"
      /\ proc'[d] = Out
      /\ docs'[d].revs = docs[d].revs
      /\ docs'[d].active = Len(docs[d].revs)
      /\ \/ docs[d].job = "DELETE" /\ docs'[d].status = "DELETED"
         \/ docs[d].job # "DELETE" /\ docs'[d].status = "READY"
      /\ store' = store
  BY CompleteRows DEF Complete
<1>2. /\ DocFits(docs[d]) /\ ExecutionFits(docs[d], proc[d])
      /\ IndexFits(d)
  BY DEF ChunkInv, DocInv, IndexInv
<1>3. \/ /\ docs[d].job = "INDEX" /\ docs[d].status = "INDEXING"
         /\ Len(docs[d].revs) = 1 /\ docs[d].active = 0
      \/ /\ docs[d].job = "INDEX" /\ docs[d].status = "UPDATING"
         /\ proc[d].rev = Len(docs[d].revs)
      \/ /\ docs[d].job = "REINDEX" /\ docs[d].status = "READY"
         /\ proc[d].rev = docs[d].active /\ docs[d].active = Len(docs[d].revs)
      \/ /\ docs[d].job = "DELETE" /\ docs[d].status = "DELETING"
         /\ docs[d].active = Len(docs[d].revs)
  BY <1>1, <1>2 DEF DocFits, ExecutionFits, Out
<1>4. ~Cleared(d)'
  BY <1>1 DEF Cleared, Out
<1>5. \A bytes : MayHaveText(d, bytes) => MayHaveText(d, bytes)'
  <2> TAKE bytes
  <2>1. CASE docs[d].status = "DELETING"
    <3>1. Deleted(d) /\ docs'[d].status = "DELETED"
      BY <1>1, <1>3, <2>1 DEF Deleted
    <3> QED
      BY <1>1, <2>1, <3>1 DEF MayHaveText
  <2>2. CASE docs[d].status # "DELETING"
    <3>1. ~Deleted(d)' /\ docs'[d].status = "READY"
      BY <1>1, <1>3, <2>2 DEF Deleted
    <3>2. Len(docs[d].revs) # 0
      BY <1>2, <1>3, FirstRevision DEF DocFits
    <3>3. CASE docs[d].status = "UPDATING"
      <4>1. Cleared(d)
        BY <1>1, <3>3 DEF Cleared
      <4> QED
        BY <1>1, <1>4, <3>1, <3>2, <3>3, <4>1 DEF MayHaveText
    <3>4. CASE docs[d].status \in {"INDEXING", "READY"}
      BY <1>1, <1>3, <1>4, <3>1, <3>2, <3>4 DEF MayHaveText
    <3> QED
      BY <1>3, <2>2, <3>3, <3>4
  <2> QED
    BY <2>1, <2>2
<1>6. TextsFit(d)'
  BY <1>1, <1>2, <1>5, TextsStay DEF IndexFits
<1>7. ASSUME docs'[d].status = "READY"
      PROVE  Indexed(d)'
  <2>1. Done(d) /\ docs[d].job # "DELETE"
    BY <1>1, <1>2, <1>7 DEF IndexFits
  <2>2. \A r : Has(d, r) => Has(d, r)'
    BY <1>1 DEF Has, Rev
  <2>3. CASE docs[d].status = "INDEXING"
    <3>1. ChunkEntries(d) = {}
      BY <1>3, <2>3, NoChunksYet
    <3>2. ChunkEntries(d)' = {}
      BY <1>1, <3>1 DEF ChunkEntries
    <3>3. HasFirstText(d)'
      BY <1>1, <2>1, <2>3 DEF Done, HasFirstText, Rev
    <3>4. docs'[d].active = 1
      BY <1>1, <1>3, <2>3
    <3> QED
      BY <3>2, <3>3, <3>4 DEF Indexed
  <2>4. CASE docs[d].status \in {"UPDATING", "READY"}
    <3>1. Has(d, docs'[d].active)
      BY <1>1, <1>3, <2>1, <2>4 DEF Done
    <3> QED
      BY <2>2, <3>1 DEF Indexed
  <2> QED
    BY <1>3, <2>1, <2>3, <2>4
<1>8. IndexFits(d)'
  BY <1>1, <1>6, <1>7 DEF IndexFits, Out
<1> QED
  BY <1>1, <1>8, IndexOfOne DEF RowsFit

LEMMA FailKeepsIndex ==
  ASSUME ChunkInv, IndexInv, NEW d \in Docs, Fail(d)
  PROVE  IndexInv'
<1>1. /\ RowsFit(d)
      /\ proc'[d] = Out
      /\ docs'[d].revs = docs[d].revs
      /\ docs'[d].active = docs[d].active
      /\ docs'[d].status = docs[d].status
      /\ docs'[d].marked = docs[d].marked
      /\ store' = store
  BY FailRows DEF Fail
<1>2. IndexFits(d)
  BY DEF IndexInv
<1>3. proc'[d].step = "out"
  BY <1>1 DEF Out
<1>4. \A bytes : MayHaveText(d, bytes) => MayHaveText(d, bytes)'
  <2>1. ~Cleared(d)' /\ (Deleted(d)' => Deleted(d))
    BY <1>1, <1>3 DEF Cleared, Deleted
  <2> QED
    BY <1>1, <2>1 DEF MayHaveText
<1>5. TextsFit(d)'
  BY <1>1, <1>2, <1>4, TextsStay DEF IndexFits
<1>6. Indexed(d) => Indexed(d)'
  BY <1>1 DEF Indexed, Has, HasFirstText, Rev, ChunkEntries
<1>7. IndexFits(d)'
  BY <1>1, <1>2, <1>3, <1>5, <1>6 DEF IndexFits
<1> QED
  BY <1>1, <1>7, IndexOfOne DEF RowsFit

LEMMA MigrateKeepsIndex ==
  ASSUME ChunkInv, Migrate
  PROVE  IndexInv'
<1>1. store' = {}
  BY DEF Migrate
<1>2. ASSUME NEW d \in Docs
      PROVE  IndexFits(d)'
  <2>1. proc'[d].step = "out"
    BY DEF Migrate, Out
  <2>2. docs'[d].status = "READY" => docs'[d].marked
    <3>1. docs[d] \in Document
      BY Rows DEF ChunkInv
    <3>2. docs'[d] = [docs[d] EXCEPT !.marked = \/ @
                                                \/ /\ docs[d].active # 0
                                                   /\ docs[d].status # "DELETED"]
      BY DEF Migrate
    <3>3. docs'[d].status = docs[d].status
      BY <3>1, <3>2 DEF Document
    <3>4. docs[d].status = "READY" => docs[d].active # 0
      BY DEF ChunkInv, DocInv, DocFits
    <3> QED
      BY <3>1, <3>2, <3>3, <3>4 DEF Document
  <2> QED
    BY <1>1, <2>1, <2>2 DEF IndexFits, TextsFit
<1> QED
  BY <1>2 DEF IndexInv

LEMMA InitIndexInv ==
  Init => IndexInv
BY DEF Init, IndexInv, IndexFits, TextsFit, Absent, Out

LEMMA NextIndexInv ==
  ASSUME TextsApart, ChunkInv, ChunkInv', IndexInv, [Next]_vars
  PROVE  IndexInv'
<1>1. \A d \in Docs : Updates[d] \subseteq Sources[d]
  BY ChunksAssumption
<1>2. ASSUME NEW d \in Docs,
             \/ \E file \in Sources[d] : Upload(d, file)
             \/ \E file \in Updates[d] : Upsert(d, file)
             \/ Delete(d) \/ Reindex(d)
             \/ StartIndexing(d) \/ StartReplacing(d)
             \/ StartReindexing(d) \/ StartDeleting(d)
      PROVE  IndexInv'
  BY <1>1, <1>2, StartsKeepIndex
<1>3. ASSUME NEW d \in Docs, RemoveNext(d)
      PROVE  IndexInv'
  BY <1>3, RemoveNextKeepsIndex
<1>4. ASSUME NEW d \in Docs, Insert(d) \/ InsertPart(d)
      PROVE  IndexInv'
  BY <1>4, InsertKeepsIndex
<1>5. ASSUME NEW d \in Docs, Complete(d) \/ Fail(d)
      PROVE  IndexInv'
  BY <1>5, CompleteKeepsIndex, FailKeepsIndex
<1>6. CASE Migrate
  BY <1>6, MigrateKeepsIndex
<1>7. CASE Retrieve \/ Answer \/ UNCHANGED vars
  <2>1. UNCHANGED <<docs, proc, store>>
    BY <1>7 DEF Retrieve, Answer, vars
  <2>2. \A d \in Docs : IndexFits(d)'
    BY <2>1, Untouched DEF IndexInv
  <2> QED
    BY <2>2 DEF IndexInv
<1> QED
  BY <1>2, <1>3, <1>4, <1>5, <1>6, <1>7 DEF Next

\* What Has says is what LightRAG was told to hold for the revision.
LEMMA HasHolds ==
  ASSUME ChunkInv, NEW d \in Docs, docs[d].status = "READY", Indexed(d)
  PROVE  HoldsRevision(d, docs[d].active)
<1> DEFINE a == docs[d].active
           f == Rev(d, a)
           batch == ToInsert(d, ParseOf[f], a)
           held(e) == [key |-> e.key, text |-> e.text, vector |-> e.vector]
<1>1. /\ a \in 1 .. MaxRevision /\ a \in 0 .. MaxRevision
      /\ f \in Files
      /\ \A e \in ChunkEntries(d) : e.key[3] = a
  <2>1. a # 0
    BY DEF ChunkInv, DocInv, DocFits
  <2>2. a \in 1 .. Len(docs[d].revs) /\ a \in 0 .. MaxRevision
    BY <2>1, Rows DEF ChunkInv
  <2>3. \A e \in ChunkEntries(d) : e.key[3] = a
    BY DEF ChunkInv, DocInv, ChunksFit
  <2> QED
    BY <2>2, <2>3, Rows DEF ChunkInv, Rev
<1>2. IndexedAs(d, a) = {[key |-> batch[k].key, text |-> batch[k].text,
                          vector |-> VectorOf(batch[k].text)] : k \in DOMAIN batch}
  BY DEF IndexedAs, Rev
<1>3. \A e \in store : held(e) \in Held(store)
  BY DEF Held
<1>4. CASE Has(d, a) /\ Chunked(f)
  <2>1. /\ DOMAIN batch = DOMAIN ParseOf[f].chunks
        /\ \A k \in DOMAIN batch :
             [key |-> batch[k].key, text |-> batch[k].text,
              vector |-> VectorOf(batch[k].text)] = held(EntryOf(d, f, a, k))
    <3>1. /\ batch \in Seq(BatchItem)
          /\ DOMAIN ParseOf[f].chunks = 1 .. Len(batch)
          /\ \A k \in 1 .. Len(batch) :
               /\ batch[k].key = ChunkKey(d, a, k - 1)
               /\ batch[k].text = ParseOf[f].chunks[k].text
      BY <1>1, <1>4, ByChunks
    <3>2. DOMAIN batch = 1 .. Len(batch)
      BY <3>1, LenProperties
    <3> HIDE DEF batch
    <3> QED
      BY <3>1, <3>2 DEF EntryOf
  <2> HIDE DEF batch
  <2>2. \A k \in DOMAIN batch : EntryOf(d, f, a, k) \in store
    BY <1>4, <2>1 DEF Has
  <2>3. IndexedAs(d, a) \subseteq Held(store)
    BY <1>2, <1>3, <2>1, <2>2
  <2>4. ASSUME NEW e \in ChunkEntries(d)
        PROVE  held(e) \in IndexedAs(d, a)
    <3>1. PICK k \in DOMAIN ParseOf[f].chunks : e = EntryOf(d, f, a, k)
      BY <1>1, ChunkIs
    <3> QED
      BY <1>2, <2>1, <3>1
  <2>5. Held(ChunkEntries(d)) \subseteq IndexedAs(d, a)
    BY <2>4 DEF Held
  <2> QED
    BY <2>3, <2>5 DEF HoldsRevision
<1>5. CASE Has(d, a) /\ ~Chunked(f)
  <2>1. batch = <<[key |-> TextKey(f.bytes), text |-> f.bytes,
                   citation |-> NoCitation]>>
    BY <1>1, <1>5, WholeText
  <2>2. IndexedAs(d, a) = {held(TextEntry(f.bytes))}
    BY <1>2, <2>1 DEF TextEntry
  <2>3. TextEntry(f.bytes) \in store
    BY <1>5 DEF Has
  <2>4. ChunkEntries(d) = {}
    <3> SUFFICES ASSUME NEW e \in ChunkEntries(d) PROVE FALSE
      OBVIOUS
    <3>1. PICK r \in 1 .. Len(docs[d].revs) : Chunked(Rev(d, r)) /\ e.key[3] = r
      BY ChunkIs
    <3> QED
      BY <1>1, <1>5, <3>1
  <2> HIDE DEF batch
  <2> QED
    BY <1>3, <2>2, <2>3, <2>4 DEF HoldsRevision, Held
<1>6. CASE a = 1 /\ ChunkEntries(d) = {} /\ HasFirstText(d)
  <2>1. held(TextEntry(Rev(d, 1).bytes)) \in Held(store)
    BY <1>3, <1>6 DEF HasFirstText
  <2>2. held(TextEntry(Rev(d, 1).bytes))
          = [key |-> TextKey(docs[d].revs[1].bytes), text |-> docs[d].revs[1].bytes,
             vector |-> VectorOf(docs[d].revs[1].bytes)]
    BY DEF TextEntry, Rev
  <2> QED
    BY <1>6, <2>1, <2>2 DEF HoldsRevision
<1> QED
  BY <1>4, <1>5, <1>6 DEF Indexed

LEMMA DeletedHoldsNothing ==
  ASSUME ChunkInv, IndexInv, NEW d \in Docs, docs[d].status = "DELETED"
  PROVE  HoldsNothing(d)
<1>1. ChunkEntries(d) = {}
  BY DEF ChunkInv, DocInv, ChunksFit, Deleted
<1>2. ASSUME NEW r \in DOMAIN docs[d].revs, NEW e \in store,
             e.key = TextKey(docs[d].revs[r].bytes)
      PROVE  docs[d].revs[1].code /\ e.text = docs[d].revs[1].bytes
  <2> DEFINE bytes == docs[d].revs[r].bytes
  <2>1. docs[d].revs[r] \in Sources[d]
    BY Rows DEF ChunkInv
  <2>2. MayHaveText(d, bytes)
    BY <1>2, <2>1 DEF IndexInv, IndexFits, TextsFit
  <2>3. Chunked(docs[d].revs[1]) /\ bytes = docs[d].revs[1].bytes
    BY <2>2 DEF MayHaveText, Deleted
  <2>4. docs[d].revs[1].code
    <3>1. docs[d].revs[1] \in Files
      BY FirstRevision, Rows DEF ChunkInv
    <3> QED
      BY <2>3, <3>1, ParseTyped DEF Chunked
  <2>5. e.text = bytes
    BY <1>2, TextIs DEF TextEntry
  <2> QED
    BY <2>3, <2>4, <2>5
<1> QED
  BY <1>1, <1>2 DEF HoldsNothing

LEMMA IndexInvHolds ==
  ASSUME TextsApart
  PROVE  Spec => []IndexInv
<1>1. ChunkInv /\ ChunkInv' /\ IndexInv /\ [Next]_vars => IndexInv'
  BY NextIndexInv
<1> QED
  BY <1>1, InitIndexInv, ChunkInvHolds, PTL DEF Spec

\* If no two documents have the same text: whatever has failed and been tried
\* again, a READY document that is not marked is in LightRAG as its active
\* revision, with each vector that of its own text, and a DELETED one has left
\* nothing but, maybe, the whole text of a first revision that is code.
THEOREM IndexFollows ==
  ASSUME TextsApart
  PROVE  Spec => []IndexFollowsStatus
<1>1. ChunkInv /\ IndexInv => IndexFollowsStatus
  <2> SUFFICES ASSUME ChunkInv, IndexInv PROVE IndexFollowsStatus
    OBVIOUS
  <2>1. ASSUME NEW d \in Docs, docs[d].status = "READY", ~docs[d].marked
        PROVE  HoldsRevision(d, docs[d].active)
    BY <2>1, HasHolds DEF IndexInv, IndexFits
  <2> QED
    BY <2>1, DeletedHoldsNothing DEF IndexFollowsStatus
<1> QED
  BY <1>1, IndexInvHolds, ChunkInvHolds, PTL

-----------------------------------------------------------------------------
(* One revision at a time.                                                 *)

\* An entry of revision r, but not the text a source file went in as at first.
OfRevision(d, r, e) ==
    IF Chunked(Rev(d, r)) THEN IsChunkOf(e.key, d) /\ e.key[3] = r
    ELSE /\ e.key = TextKey(Rev(d, r).bytes)
         /\ ~(Chunked(Rev(d, 1)) /\ Rev(d, r).bytes = Rev(d, 1).bytes)

\* While a document is replaced, LightRAG has nothing of the active revision
\* or nothing of the new one.
OneSide(d) ==
    docs[d].status = "UPDATING" =>
      \/ \A e \in store : ~OfRevision(d, docs[d].active, e)
      \/ \A e \in store : ~OfRevision(d, Len(docs[d].revs), e)

SideInv == \A d \in Docs : OneSide(d)

\* A step that adds no entry of d and does not begin a replacement.
LEMMA SideStays ==
  ASSUME ChunkInv, NEW d \in Docs, OneSide(d),
         \/ docs'[d].status # "UPDATING"
         \/ /\ docs'[d].status = docs[d].status
            /\ docs'[d].active = docs[d].active
            /\ docs'[d].revs = docs[d].revs,
         \A e \in store' : Mine(d, e) => e \in store
  PROVE  OneSide(d)'
<1> SUFFICES ASSUME docs'[d].status = "UPDATING"
             PROVE  OneSide(d)'
  BY DEF OneSide
<1>1. /\ docs[d].status = "UPDATING"
      /\ docs'[d].active = docs[d].active
      /\ docs'[d].revs = docs[d].revs
  OBVIOUS
<1>2. /\ docs[d].active \in 1 .. Len(docs[d].revs)
      /\ Len(docs[d].revs) \in 1 .. Len(docs[d].revs)
  BY <1>1, Rows DEF ChunkInv, DocInv, DocFits
<1>3. ASSUME NEW r \in 1 .. Len(docs[d].revs), NEW e \in store',
             OfRevision(d, r, e)'
      PROVE  e \in store /\ OfRevision(d, r, e)
  <2>1. OfRevision(d, r, e)
    BY <1>1, <1>3 DEF OfRevision, Rev
  <2>2. Mine(d, e)
    <3>1. Rev(d, r) \in Sources[d]
      BY Rows DEF ChunkInv, Rev
    <3> QED
      BY <2>1, <3>1 DEF OfRevision, Mine
  <2> QED
    BY <2>1, <2>2
<1> QED
  BY <1>1, <1>2, <1>3 DEF OneSide

\* Before a replacement begins there is nothing of the new revision.
LEMMA UpsertKeepsSide ==
  ASSUME ChunkInv, IndexInv, NEW d \in Docs, NEW file \in Sources[d],
         Upsert(d, file)
  PROVE  OneSide(d)'
<1>1. /\ docs[d].status = "READY"
      /\ file.bytes # docs[d].revs[docs[d].active].bytes
      /\ store' = store
      /\ docs'[d].revs = Append(docs[d].revs, file)
  BY DEF Upsert, Request, ChunkInv, TypeOK, Document
<1>2. /\ docs[d].active = Len(docs[d].revs) /\ docs[d].active # 0
      /\ docs[d].revs \in Seq(Files)
      /\ Len(docs[d].revs) \in Nat
      /\ file \in Files
  BY <1>1, Rows DEF ChunkInv, DocInv, DocFits, Files
<1>3. /\ Len(docs'[d].revs) = Len(docs[d].revs) + 1
      /\ docs'[d].revs[Len(docs'[d].revs)] = file
      /\ docs'[d].revs[1] = docs[d].revs[1]
  BY <1>1, <1>2
<1>4. ASSUME NEW e \in store, OfRevision(d, Len(docs[d].revs), e)'
      PROVE  FALSE
  <2>1. CASE Chunked(file)
    <3>1. IsChunkOf(e.key, d) /\ e.key[3] = Len(docs[d].revs) + 1
      BY <1>3, <1>4, <2>1 DEF OfRevision, Rev
    <3>2. e.key[3] = docs[d].active
      BY <1>1, <3>1 DEF ChunkInv, DocInv, ChunksFit, ChunkEntries
    <3> QED
      BY <1>2, <3>1, <3>2
  <2>2. CASE ~Chunked(file)
    <3>1. /\ e.key = TextKey(file.bytes)
          /\ ~(Chunked(docs[d].revs[1]) /\ file.bytes = docs[d].revs[1].bytes)
      BY <1>3, <1>4, <2>2 DEF OfRevision, Rev
    <3>2. MayHaveText(d, file.bytes)
      BY <3>1 DEF IndexInv, IndexFits, TextsFit
    <3> QED
      BY <1>1, <3>1, <3>2 DEF MayHaveText
  <2> QED
    BY <2>1, <2>2
<1> QED
  BY <1>1, <1>4 DEF OneSide

\* When the new revision is inserted, nothing of the active one is there.
LEMMA InsertKeepsSide ==
  ASSUME ChunkInv, IndexInv, NEW d \in Docs, Insert(d) \/ InsertPart(d)
  PROVE  OneSide(d)'
<1> SUFFICES ASSUME docs'[d].status = "UPDATING"
             PROVE  \A e \in store' : ~OfRevision(d, docs[d].active, e)'
  BY DEF OneSide
<1> DEFINE a == docs[d].active
           n == Len(docs[d].revs)
<1>1. /\ docs' = docs
      /\ \A e \in store' \ store : ToBe(d, e)
      /\ proc[d].step = "inserting"
  BY Inserted DEF Insert, InsertPart
<1>2. /\ a # n /\ n # 0
      /\ Rev(d, a).bytes # Rev(d, n).bytes
      /\ proc[d].rev = n
      /\ Inserting(d) = Rev(d, n)
  <2>1. a + 1 = n /\ a \in Nat /\ docs[d].status = "UPDATING"
    BY <1>1, Rows DEF ChunkInv, DocInv, DocFits
  <2>2. proc[d].rev = n
    BY <1>1, <2>1, Insertion
  <2> QED
    BY <2>1, <2>2 DEF ChunkInv, DocInv, DocFits, Rev, Inserting
<1> HIDE DEF a, n
<1>3. ASSUME NEW e \in store', OfRevision(d, a, e)
      PROVE  FALSE
  <2>1. CASE e \in store
    <3>1. Cleared(d)
      BY <1>1 DEF Cleared
    <3>2. CASE Chunked(Rev(d, a))
      BY <1>2, <1>3, <2>1, <3>1, <3>2
         DEF OfRevision, ChunkInv, DocInv, ChunksFit, ChunkEntries, a, n
    <3>3. CASE ~Chunked(Rev(d, a))
      <4>1. /\ e.key = TextKey(Rev(d, a).bytes)
            /\ ~(Chunked(Rev(d, 1)) /\ Rev(d, a).bytes = Rev(d, 1).bytes)
        BY <1>3, <3>3 DEF OfRevision
      <4>2. Rev(d, a) \in Sources[d]
        BY <1>1, Rows DEF ChunkInv, DocInv, DocFits, Rev, a
      <4>3. MayHaveText(d, Rev(d, a).bytes)
        BY <2>1, <4>1, <4>2 DEF IndexInv, IndexFits, TextsFit
      <4> QED
        BY <1>1, <1>2, <3>1, <4>1, <4>3 DEF MayHaveText, Rev, n
    <3> QED
      BY <3>2, <3>3
  <2>2. CASE e \notin store
    <3>1. ToBe(d, e)
      BY <1>1, <2>2
    <3>2. CASE Chunked(Rev(d, n))
      <4>1. PICK k : e = EntryOf(d, Rev(d, n), n, k)
        BY <1>2, <3>1, <3>2 DEF ToBe
      <4>2. e.key = ChunkKey(d, n, k - 1)
        BY <4>1 DEF EntryOf
      <4> QED
        BY <1>2, <1>3, <4>2, KeysApart DEF OfRevision
    <3>3. CASE ~Chunked(Rev(d, n))
      <4>1. e.key = TextKey(Rev(d, n).bytes)
        BY <1>2, <3>1, <3>3 DEF ToBe, TextEntry
      <4> QED
        BY <1>2, <1>3, <4>1, KeysApart DEF OfRevision
    <3> QED
      BY <3>2, <3>3
  <2> QED
    BY <2>1, <2>2
<1> QED
  BY <1>1, <1>3 DEF OfRevision, Rev, a

LEMMA NextSideInv ==
  ASSUME TextsApart, ChunkInv, IndexInv, SideInv, [Next]_vars
  PROVE  SideInv'
<1> SUFFICES ASSUME NEW d \in Docs PROVE OneSide(d)'
  BY DEF SideInv
<1> USE DEF SideInv
<1>1. docs \in [Docs -> Document]
  BY DEF ChunkInv, TypeOK
<1>2. \A c \in Docs : Updates[c] \subseteq Sources[c]
  BY ChunksAssumption
<1>3. ASSUME NEW c \in Docs, NEW file \in Sources[c],
             Upload(c, file) \/ Upsert(c, file)
      PROVE  OneSide(d)'
  <2>1. CASE c = d /\ Upsert(c, file)
    BY <2>1, UpsertKeepsSide
  <2>2. CASE c # d \/ Upload(c, file)
    BY <1>1, <1>3, <2>2, SideStays DEF Upload, Upsert, Request, Document
  <2> QED
    BY <1>3, <2>1, <2>2
<1>4. ASSUME NEW c \in Docs, Delete(c) \/ Reindex(c)
      PROVE  OneSide(d)'
  BY <1>1, <1>4, SideStays DEF Delete, Reindex, Request, Document
<1>5. ASSUME NEW c \in Docs,
             \/ StartIndexing(c) \/ StartReplacing(c)
             \/ StartReindexing(c) \/ StartDeleting(c)
      PROVE  OneSide(d)'
  BY <1>1, <1>5, SideStays
     DEF StartIndexing, StartReplacing, StartReindexing, StartDeleting, Start,
         Document
<1>6. ASSUME NEW c \in Docs, RemoveNext(c)
      PROVE  OneSide(d)'
  BY <1>6, SideStays DEF RemoveNext
<1>7. ASSUME NEW c \in Docs, Insert(c) \/ InsertPart(c)
      PROVE  OneSide(d)'
  <2>1. CASE c = d
    BY <1>7, <2>1, InsertKeepsSide
  <2>2. CASE c # d
    <3>1. \A e : Mine(d, e) => (e \in store' <=> e \in store)
      BY <1>7, <2>2, OthersUntouched
    <3>2. docs' = docs
      BY <1>7 DEF Insert, InsertPart
    <3> QED
      BY <3>1, <3>2, SideStays
  <2> QED
    BY <2>1, <2>2
<1>8. ASSUME NEW c \in Docs, Complete(c) \/ Fail(c)
      PROVE  OneSide(d)'
  <2>1. store' = store
    BY <1>8 DEF Complete, Fail
  <2>2. CASE c = d
    BY <1>8, <2>1, <2>2, CompleteRows, FailRows, SideStays
  <2>3. CASE c # d
    <3>1. OnlyAt(c)
      BY <1>8, CompleteRows, FailRows DEF RowsFit
    <3> QED
      BY <1>1, <2>1, <2>3, <3>1, SideStays DEF OnlyAt
  <2> QED
    BY <2>2, <2>3
<1>9. CASE Migrate
  BY <1>9 DEF Migrate, OneSide
<1>10. CASE Retrieve \/ Answer \/ UNCHANGED vars
  <2>1. UNCHANGED <<docs, store>>
    BY <1>10 DEF Retrieve, Answer, vars
  <2> QED
    BY <2>1, SideStays
<1> QED
  BY <1>2, <1>3, <1>4, <1>5, <1>6, <1>7, <1>8, <1>9, <1>10 DEF Next

\* What an entry of a document is of.
LEMMA EntryIsOf ==
  ASSUME ChunkInv, IndexInv, NEW d \in Docs, NEW e \in EntriesOf(d)
  PROVE  \/ /\ docs[d].revs[1].code
            /\ e.key = TextKey(docs[d].revs[1].bytes)
         \/ /\ docs[d].status \in {"UPLOADED", "INDEXING"}
            /\ e.key = TextKey(docs[d].revs[1].bytes)
         \/ docs[d].active # 0 /\ OfRevision(d, docs[d].active, e)
         \/ /\ docs[d].status = "UPDATING"
            /\ OfRevision(d, Len(docs[d].revs), e)
<1>1. CASE IsChunkOf(e.key, d)
  <2>1. e \in ChunkEntries(d)
    BY <1>1 DEF ChunkEntries, EntriesOf
  <2>2. PICK r \in 1 .. Len(docs[d].revs) : Chunked(Rev(d, r)) /\ e.key[3] = r
    BY <2>1, ChunkIs
  <2>3. OfRevision(d, r, e)
    BY <1>1, <2>2 DEF OfRevision
  <2>4. \/ r = docs[d].active
        \/ docs[d].status = "UPDATING" /\ r = Len(docs[d].revs)
    BY <2>1, <2>2 DEF ChunkInv, DocInv, ChunksFit
  <2>5. r # 0
    BY <2>2, Rows DEF ChunkInv
  <2> QED
    BY <2>3, <2>4, <2>5
<1>2. CASE ~IsChunkOf(e.key, d)
  <2>1. PICK r \in DOMAIN docs[d].revs : e.key = TextKey(docs[d].revs[r].bytes)
    BY <1>2 DEF EntriesOf
  <2> DEFINE bytes == docs[d].revs[r].bytes
  <2>2. docs[d].revs[r] \in Sources[d] /\ e \in store
    BY Rows DEF ChunkInv, EntriesOf
  <2>3. MayHaveText(d, bytes)
    BY <2>1, <2>2 DEF IndexInv, IndexFits, TextsFit
  <2>4. docs[d].status # "ABSENT"
    BY <2>1 DEF ChunkInv, DocInv, DocFits
  <2>5. CASE Chunked(docs[d].revs[1]) /\ bytes = docs[d].revs[1].bytes
    <3>1. docs[d].revs[1] \in Files
      BY <2>4, FirstRevision, Rows DEF ChunkInv
    <3> QED
      BY <2>1, <2>5, <3>1, ParseTyped DEF Chunked
  <2>6. CASE ~(Chunked(docs[d].revs[1]) /\ bytes = docs[d].revs[1].bytes)
    BY <2>1, <2>3, <2>6 DEF MayHaveText, OfRevision, Rev
  <2> QED
    BY <2>5, <2>6
<1> QED
  BY <1>1, <1>2

\* If no two documents have the same text: whichever calls fail, LightRAG has
\* entries of one revision of a document, and beside them at most the text that
\* the first revision, if it is a source file, went in as.
THEOREM OneRevision ==
  ASSUME TextsApart
  PROVE  Spec => []OneRevisionBesideFirstText
<1>1. Spec => []SideInv
  <2>1. Init => SideInv
    BY DEF Init, SideInv, OneSide, Absent
  <2>2. ChunkInv /\ IndexInv /\ SideInv /\ [Next]_vars => SideInv'
    BY NextSideInv
  <2> QED
    BY <2>1, <2>2, ChunkInvHolds, IndexInvHolds, PTL DEF Spec
<1>2. ASSUME ChunkInv, IndexInv, SideInv
      PROVE  OneRevisionBesideFirstText
  <2> SUFFICES ASSUME NEW d \in Docs, NEW e \in EntriesOf(d), NEW f \in EntriesOf(d),
                      ~(/\ docs[d].revs[1].code
                        /\ TextKey(docs[d].revs[1].bytes) \in {e.key, f.key})
               PROVE  \/ e.key = f.key
                      \/ /\ IsChunkOf(e.key, d) /\ IsChunkOf(f.key, d)
                         /\ e.key[3] = f.key[3]
    BY DEF OneRevisionBesideFirstText
  <2>1. e \in store /\ f \in store
    BY DEF EntriesOf
  <2>2. OneSide(d)
    BY <1>2 DEF SideInv
  <2>3. docs[d].status \in {"UPLOADED", "INDEXING"} => docs[d].active = 0
    BY <1>2 DEF ChunkInv, DocInv, DocFits
  <2>4. \/ /\ docs[d].status \in {"UPLOADED", "INDEXING"}
           /\ e.key = TextKey(docs[d].revs[1].bytes)
           /\ f.key = TextKey(docs[d].revs[1].bytes)
        \/ \E r : OfRevision(d, r, e) /\ OfRevision(d, r, f)
    BY <1>2, <2>1, <2>2, <2>3, EntryIsOf DEF OneSide
  <2> QED
    BY <2>4 DEF OfRevision
<1> QED
  BY <1>1, <1>2, ChunkInvHolds, IndexInvHolds, PTL

-----------------------------------------------------------------------------
(***************************************************************************)
(* CodeChunks has the jobs without leases and locks.  Its documents follow *)
(* the same lifecycle as those of DocumentWorkflow, which has them.        *)
(***************************************************************************)
HistoryOf(q) == SubSeq(q.revs, 1, q.active)
ComingOf(q) == SubSeq(q.revs, q.active + 1, Len(q.revs))
PhaseOf(q) ==
    IF q.status \in {"DELETING", "DELETED"} THEN q.status ELSE "PRESENT"

History == [d \in Docs |-> HistoryOf(docs[d])]
Coming == [d \in Docs |-> ComingOf(docs[d])]
Phase == [d \in Docs |-> PhaseOf(docs[d])]

Documents == INSTANCE DocumentLifecycle
               WITH TextsOf <- Sources,
                    history <- History, coming <- Coming, phase <- Phase

FollowsDocumentLifecycle == Documents!Spec

\* A step that changes no more of a document than its job, its mark or how
\* far its first indexing has come.
SameLife(p, q) ==
    q.revs = p.revs /\ q.active = p.active /\ PhaseOf(q) = PhaseOf(p)

\* How the document that a step is about moves.
LifeMoves(d) ==
    LET p == docs[d]
        q == docs'[d]
    IN  \/ SameLife(p, q)
        \/ /\ p.active = Len(p.revs)
           /\ PhaseOf(p) = "PRESENT" /\ PhaseOf(q) = "PRESENT"
           /\ q.active = p.active
           /\ \E f \in Sources[d] : q.revs = Append(p.revs, f)
        \/ /\ p.active + 1 = Len(p.revs) /\ q.active = Len(p.revs)
           /\ PhaseOf(p) = "PRESENT" /\ PhaseOf(q) = "PRESENT"
           /\ q.revs = p.revs
        \/ /\ p.active = Len(p.revs) /\ p.active # 0
           /\ PhaseOf(p) = "PRESENT" /\ PhaseOf(q) = "DELETING"
           /\ q.revs = p.revs /\ q.active = p.active
        \/ /\ PhaseOf(p) = "DELETING" /\ PhaseOf(q) = "DELETED"
           /\ q.revs = p.revs /\ q.active = p.active

\* A request moves its document so.
LEMMA RequestLife ==
  ASSUME ChunkInv, NEW d \in Docs,
         \/ \E file \in Sources[d] : Upload(d, file)
         \/ \E file \in Updates[d] : Upsert(d, file)
         \/ Delete(d) \/ Reindex(d)
  PROVE  LifeMoves(d) /\ \A e \in Docs \ {d} : docs'[e] = docs[e]
<1>1. /\ docs[d] \in Document /\ docs \in [Docs -> Document]
      /\ DocFits(docs[d])
      /\ docs[d].active \in Nat /\ Len(docs[d].revs) \in Nat
  BY Rows DEF ChunkInv, DocInv, TypeOK
<1>2. PICK q : /\ docs' = [docs EXCEPT ![d] = q]
               /\ \/ /\ docs[d].status = "ABSENT"
                     /\ \E file \in Sources[d] :
                          q = [docs[d] EXCEPT !.status = "UPLOADED",
                                              !.revs = <<file>>, !.job = "INDEX"]
                  \/ /\ docs[d].status = "READY"
                     /\ \E file \in Sources[d] :
                          q = [docs[d] EXCEPT !.status = "UPDATING", !.job = "INDEX",
                                              !.revs = Append(@, file)]
                  \/ /\ docs[d].status = "READY"
                     /\ q = [docs[d] EXCEPT !.status = "DELETING", !.job = "DELETE"]
                  \/ /\ docs[d].status = "READY"
                     /\ q = [docs[d] EXCEPT !.job = "REINDEX"]
  BY ChunksAssumption DEF Upload, Upsert, Delete, Reindex, Request
<1>3. docs'[d] = q /\ \A e \in Docs \ {d} : docs'[e] = docs[e]
  BY <1>1, <1>2
<1>4. ASSUME docs[d].status = "ABSENT", NEW file \in Sources[d],
             q = [docs[d] EXCEPT !.status = "UPLOADED", !.revs = <<file>>,
                                 !.job = "INDEX"]
      PROVE  LifeMoves(d)
  <2>1. docs[d].revs = << >> /\ docs[d].active = 0
    BY <1>1, <1>4 DEF DocFits
  <2>2. <<file>> = Append(<< >>, file) /\ Len(<< >>) = 0
    OBVIOUS
  <2>3. q.revs = <<file>> /\ q.active = docs[d].active /\ q.status = "UPLOADED"
    BY <1>1, <1>4 DEF Document
  <2>4. q.revs = Append(docs[d].revs, file)
    BY <2>1, <2>2, <2>3
  <2>5. docs[d].active = Len(docs[d].revs)
    BY <2>1, <2>2
  <2>6. PhaseOf(docs[d]) = "PRESENT" /\ PhaseOf(q) = "PRESENT"
    BY <1>4, <2>3 DEF PhaseOf
  <2> QED BY <1>3, <2>3, <2>4, <2>5, <2>6 DEF LifeMoves
<1>5. ASSUME docs[d].status = "READY", NEW file \in Sources[d],
             q = [docs[d] EXCEPT !.status = "UPDATING", !.job = "INDEX",
                                 !.revs = Append(@, file)]
      PROVE  LifeMoves(d)
  <2>1. docs[d].active = Len(docs[d].revs)
    BY <1>1, <1>5 DEF DocFits
  <2>2. /\ q.revs = Append(docs[d].revs, file) /\ q.active = docs[d].active
        /\ q.status = "UPDATING"
    BY <1>1, <1>5 DEF Document
  <2>3. PhaseOf(docs[d]) = "PRESENT" /\ PhaseOf(q) = "PRESENT"
    BY <1>5, <2>2 DEF PhaseOf
  <2> QED BY <1>3, <2>1, <2>2, <2>3 DEF LifeMoves
<1>6. ASSUME docs[d].status = "READY",
             \/ q = [docs[d] EXCEPT !.status = "DELETING", !.job = "DELETE"]
             \/ q = [docs[d] EXCEPT !.job = "REINDEX"]
      PROVE  LifeMoves(d)
  <2>1. docs[d].active = Len(docs[d].revs) /\ docs[d].active # 0
    BY <1>1, <1>6 DEF DocFits
  <2>2. /\ q.revs = docs[d].revs /\ q.active = docs[d].active
        /\ q.status \in {"DELETING", "READY"}
    BY <1>1, <1>6 DEF Document
  <2>3. PhaseOf(docs[d]) = "PRESENT" /\ PhaseOf(q) \in {"DELETING", "PRESENT"}
    BY <1>6, <2>2 DEF PhaseOf
  <2> QED BY <1>3, <2>1, <2>2, <2>3 DEF LifeMoves, SameLife
<1> QED BY <1>2, <1>3, <1>4, <1>5, <1>6

\* So does an execution.
LEMMA ExecutionLife ==
  ASSUME ChunkInv, NEW d \in Docs,
         \/ StartIndexing(d) \/ StartReplacing(d) \/ StartReindexing(d)
         \/ StartDeleting(d) \/ RemoveNext(d) \/ Insert(d) \/ InsertPart(d)
         \/ Complete(d) \/ Fail(d)
  PROVE  LifeMoves(d) /\ \A e \in Docs \ {d} : docs'[e] = docs[e]
<1>1. /\ docs[d] \in Document /\ docs \in [Docs -> Document]
      /\ DocFits(docs[d]) /\ ExecutionFits(docs[d], proc[d])
      /\ docs[d].active \in Nat /\ Len(docs[d].revs) \in Nat
  BY Rows DEF ChunkInv, DocInv, TypeOK
<1>2. CASE docs' = docs
  BY <1>2 DEF LifeMoves, SameLife
<1>3. CASE StartIndexing(d)
  <2>1. /\ docs' = [docs EXCEPT ![d].status = "INDEXING"]
        /\ docs[d].status \in {"UPLOADED", "INDEXING"}
    BY <1>3 DEF StartIndexing
  <2>2. /\ docs'[d].revs = docs[d].revs /\ docs'[d].active = docs[d].active
        /\ docs'[d].status = "INDEXING"
        /\ \A e \in Docs \ {d} : docs'[e] = docs[e]
    BY <1>1, <2>1 DEF Document
  <2> QED BY <2>1, <2>2 DEF LifeMoves, SameLife, PhaseOf
<1>4. CASE Complete(d)
  <2>1. /\ proc[d].step = "completing"
        /\ docs'[d].revs = docs[d].revs /\ docs'[d].active = Len(docs[d].revs)
        /\ \/ docs[d].job = "DELETE" /\ docs'[d].status = "DELETED"
           \/ docs[d].job # "DELETE" /\ docs'[d].status = "READY"
    BY <1>4, CompleteRows
  <2>2. \A e \in Docs \ {d} : docs'[e] = docs[e]
    BY <1>1, <1>4 DEF Complete
  <2>3. \/ /\ docs[d].job = "INDEX" /\ docs[d].status \in {"INDEXING", "UPDATING"}
           /\ docs[d].active + 1 = Len(docs[d].revs)
        \/ /\ docs[d].job = "REINDEX" /\ docs[d].status = "READY"
           /\ docs[d].active = Len(docs[d].revs)
        \/ /\ docs[d].job = "DELETE" /\ docs[d].status = "DELETING"
           /\ docs[d].active = Len(docs[d].revs)
    <3>1. \/ docs[d].job = "INDEX" /\ docs[d].status \in {"INDEXING", "UPDATING"}
          \/ docs[d].job \in {"REINDEX", "DELETE"}
      BY <1>1, <2>1 DEF ExecutionFits, Out
    <3>2. /\ docs[d].status = "INDEXING"
             => docs[d].active = 0 /\ Len(docs[d].revs) = 1
          /\ docs[d].status = "UPDATING" => docs[d].active + 1 = Len(docs[d].revs)
          /\ docs[d].job = "REINDEX"
             => docs[d].status = "READY" /\ docs[d].active = Len(docs[d].revs)
          /\ docs[d].job = "DELETE"
             => docs[d].status = "DELETING" /\ docs[d].active = Len(docs[d].revs)
      BY <1>1 DEF DocFits
    <3>3. CASE docs[d].job = "INDEX" /\ docs[d].status = "INDEXING"
      <4>1. docs[d].active = 0 /\ Len(docs[d].revs) = 1
        BY <3>2, <3>3
      <4> QED BY <3>3, <4>1
    <3> QED BY <3>1, <3>2, <3>3
  <2> QED BY <2>1, <2>2, <2>3 DEF LifeMoves, SameLife, PhaseOf
<1>5. CASE Fail(d)
  <2>1. /\ docs'[d].revs = docs[d].revs /\ docs'[d].active = docs[d].active
        /\ docs'[d].status = docs[d].status
    BY <1>5, FailRows
  <2>2. \A e \in Docs \ {d} : docs'[e] = docs[e]
    BY <1>1, <1>5 DEF Fail
  <2> QED BY <2>1, <2>2 DEF LifeMoves, SameLife, PhaseOf
<1> QED
  BY <1>2, <1>3, <1>4, <1>5
  DEF StartReplacing, StartReindexing, StartDeleting, RemoveNext, Insert, InsertPart

\* A move of one document is a step of the lifecycle.
LEMMA LifeStep ==
  ASSUME ChunkInv, NEW d \in Docs, LifeMoves(d),
         \A e \in Docs \ {d} : docs'[e] = docs[e]
  PROVE  [Documents!Next]_<<History, Coming, Phase>>
<1> DEFINE p == docs[d]
           q == docs'[d]
<1>1. p.revs \in Seq(Files) /\ p.active \in Nat /\ Len(p.revs) \in Nat
  BY Rows DEF ChunkInv
<1>2. /\ History[d] = HistoryOf(p) /\ Coming[d] = ComingOf(p)
      /\ Phase[d] = PhaseOf(p)
  BY DEF History, Coming, Phase
<1>3. /\ HistoryOf(q) = HistoryOf(p) => History' = History
      /\ ComingOf(q) = ComingOf(p) => Coming' = Coming
      /\ PhaseOf(q) = PhaseOf(p) => Phase' = Phase
  BY DEF History, Coming, Phase
<1>4. /\ History' = [History EXCEPT ![d] = HistoryOf(q)]
      /\ Coming' = [Coming EXCEPT ![d] = ComingOf(q)]
      /\ Phase' = [Phase EXCEPT ![d] = PhaseOf(q)]
  BY DEF History, Coming, Phase
<1>5. CASE SameLife(p, q)
  <2>1. HistoryOf(q) = HistoryOf(p) /\ ComingOf(q) = ComingOf(p)
    BY <1>5 DEF SameLife, HistoryOf, ComingOf
  <2> QED BY <1>3, <1>5, <2>1 DEF SameLife
<1>6. ASSUME p.active = Len(p.revs), q.active = p.active,
             PhaseOf(p) = "PRESENT", PhaseOf(q) = "PRESENT",
             NEW f \in Sources[d], q.revs = Append(p.revs, f)
      PROVE  Documents!Accept(d, f)
  <2>1. f \in Files
    BY DEF Files
  <2>2. Len(q.revs) = Len(p.revs) + 1
    BY <1>1, <1>6, <2>1, AppendProperties
  <2>3. /\ SubSeq(p.revs, 1, Len(p.revs)) = p.revs
        /\ SubSeq(p.revs, Len(p.revs) + 1, Len(p.revs)) = << >>
        /\ SubSeq(Append(p.revs, f), 1, Len(p.revs)) = p.revs
        /\ SubSeq(Append(p.revs, f), Len(p.revs) + 1, Len(p.revs) + 1) = <<f>>
    <3>1. /\ SubSeq(p.revs, 1, Len(p.revs)) = p.revs
          /\ SubSeq(p.revs, Len(p.revs) + 1, Len(p.revs)) = << >>
      BY <1>1, Divided
    <3>2. \A g \in Files :
            /\ SubSeq(Append(p.revs, g), 1, Len(p.revs)) = p.revs
            /\ SubSeq(Append(p.revs, g), Len(p.revs) + 1, Len(p.revs) + 1) = <<g>>
      BY <1>1, Divided, ZenonT(60)
    <3> QED BY <2>1, <3>1, <3>2
  <2>4. /\ HistoryOf(q) = HistoryOf(p) /\ ComingOf(q) = <<f>>
        /\ ComingOf(p) = << >>
    BY <1>6, <2>2, <2>3, Zenon DEF HistoryOf, ComingOf
  <2> QED BY <1>2, <1>3, <1>4, <1>6, <2>4 DEF Documents!Accept
<1>7. CASE /\ p.active + 1 = Len(p.revs) /\ q.active = Len(p.revs)
           /\ PhaseOf(p) = "PRESENT" /\ PhaseOf(q) = "PRESENT"
           /\ q.revs = p.revs
  <2>1. /\ HistoryOf(q) = HistoryOf(p) \o ComingOf(p)
        /\ ComingOf(q) = << >> /\ ComingOf(p) # << >>
    BY <1>1, <1>7, Divided, ZenonT(60) DEF HistoryOf, ComingOf
  <2>2. Documents!Activate(d)
    BY <1>2, <1>3, <1>4, <1>7, <2>1 DEF Documents!Activate
  <2> QED BY <2>2 DEF Documents!Next, Documents!Moves
<1>8. CASE /\ p.active = Len(p.revs) /\ p.active # 0
           /\ PhaseOf(p) = "PRESENT" /\ PhaseOf(q) = "DELETING"
           /\ q.revs = p.revs /\ q.active = p.active
  <2>1. /\ HistoryOf(p) = p.revs /\ ComingOf(p) = << >> /\ p.revs # << >>
        /\ HistoryOf(q) = HistoryOf(p) /\ ComingOf(q) = ComingOf(p)
    BY <1>1, <1>8, Divided DEF HistoryOf, ComingOf
  <2>2. Documents!Withdraw(d)
    BY <1>2, <1>3, <1>4, <1>8, <2>1 DEF Documents!Withdraw
  <2> QED BY <2>2 DEF Documents!Next, Documents!Moves
<1>9. CASE /\ PhaseOf(p) = "DELETING" /\ PhaseOf(q) = "DELETED"
           /\ q.revs = p.revs /\ q.active = p.active
  <2>1. HistoryOf(q) = HistoryOf(p) /\ ComingOf(q) = ComingOf(p)
    BY <1>9 DEF HistoryOf, ComingOf
  <2>2. Documents!Remove(d)
    BY <1>2, <1>3, <1>4, <1>9, <2>1 DEF Documents!Remove
  <2> QED BY <2>2 DEF Documents!Next, Documents!Moves
<1> QED
  BY <1>5, <1>6, <1>7, <1>8, <1>9
  DEF LifeMoves, Documents!Next, Documents!Moves

\* Whatever fails between the calls of LightRAG, and however a migration cuts
\* in, a document follows the lifecycle that DocumentWorkflow follows with its
\* leases and locks.
THEOREM ChunksFollowDocumentLifecycle == Spec => FollowsDocumentLifecycle
<1>1. Init => Documents!Init
  <2> SUFFICES ASSUME Init PROVE Documents!Init
    OBVIOUS
  <2>1. \A d \in Docs : docs[d] = Absent
    BY DEF Init
  <2>2. /\ SubSeq(<< >>, 1, 0) = << >>
        /\ SubSeq(<< >>, 0 + 1, Len(<< >>)) = << >>
    BY SubSeqEmpty
  <2>3. \A d \in Docs : History[d] = << >> /\ Coming[d] = << >>
    BY <2>1, <2>2 DEF Absent, History, Coming, HistoryOf, ComingOf
  <2> QED
    BY <2>1, <2>3 DEF Absent, History, Coming, Phase, PhaseOf, Documents!Init
<1>2. ASSUME ChunkInv, [Next]_vars
      PROVE  [Documents!Next]_<<History, Coming, Phase>>
  <2>1. CASE docs' = docs
    BY <2>1 DEF History, Coming, Phase
  <2>2. CASE Migrate
    <3>1. \A d \in Docs : /\ docs'[d].revs = docs[d].revs
                           /\ docs'[d].active = docs[d].active
                           /\ docs'[d].status = docs[d].status
      BY <1>2, <2>2 DEF Migrate, ChunkInv, TypeOK, Document
    <3> QED BY <3>1 DEF History, Coming, Phase, HistoryOf, ComingOf, PhaseOf
  <2>3. ASSUME NEW d \in Docs, LifeMoves(d),
               \A e \in Docs \ {d} : docs'[e] = docs[e]
        PROVE  [Documents!Next]_<<History, Coming, Phase>>
    BY <1>2, <2>3, LifeStep
  <2> QED
    BY <1>2, <2>1, <2>2, <2>3, RequestLife, ExecutionLife
    DEF Next, vars, Retrieve, Answer
<1> QED
  BY <1>1, <1>2, ChunkInvHolds, PTL
  DEF Spec, FollowsDocumentLifecycle, Documents!Spec
=============================================================================
