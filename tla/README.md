# Graph Blizz in TLA+

Graph Blizz keeps source documents in PostgreSQL (metadata, revisions, jobs) and
MinIO (bytes), and an index of them in LightRAG (PostgreSQL, Qdrant, Neo4j). API
processes accept uploads, replacements, deletions and queries; `rag-worker`
processes carry out durable jobs. This directory holds TLA+ specifications of the
parts of it that are concurrent or may fail half-way, of the algorithms whose results
they depend on, the TLC runs that check them, and machine-checked proofs.

Paths below are relative to `src/`.

## Inventory

| Part | State | Operations | Where it is hard |
|---|---|---|---|
| Job queue `backend/jobs` | `graph_blizz.jobs` | create_indexing / create_deletion / create_workspace_reindex, claim_next, heartbeat, succeed, fail, recover_expired | leases that expire under a live worker, late answers, attempts that run out |
| Worker loop `backend/worker/runner.py` | the claimed job, the heartbeat task, the stop event | run, run_once, _heartbeat | heartbeat against processing, signals, kill and restart under the same owner name |
| Processing `backend/worker/service.py`, `backend/indexing` | one connection with a session advisory lock; the branch taken | process, _replace, _reindex, _delete, IndexingService.index | commits between calls of LightRAG, which cannot be rolled back; connection loss; a frozen `now()` |
| Documents `backend/documents` | `documents`, `document_revisions` | store_for_indexing, upsert_for_indexing, delete_for_indexing, transition_status(_for_job), complete_*_for_job | requests and the worker take *different* advisory locks; stale reads |
| Source objects `backend/storage/object_store.py` | objects by key | put, get, delete | no part in the transaction, clean-up after it |
| Index contract `backend/workspaces`, `backend/maintenance` | contract of the workspace, `requires_reindex` of revisions | ensure_index_contract, enqueue, complete_reindex_for_job | processes with different configurations, row lock held through LightRAG |
| Runtime registry `backend/rag/runtime_registry.py` | runtimes by workspace and contract, one asyncio lock | get, close | cancellation, close against creation |
| Runtime factory `backend/rag/factory.py` | process-global environment | create_lightrag_runtime, close | restoring the environment, clean-up of a half-made runtime |
| LightRAG entries `backend/indexing/provenance.py` | keys, texts, vectors and citations in LightRAG | insert_parsed_document, delete_indexed_document | a batch or a series of deletions that fails half-way; two kinds of key |
| Query `backend/query` | none | query | two moments of the index in one answer |
| Embedding and generation clients `backend/embeddings`, `backend/llm` | an HTTP client | embed_batch, complete | order and completeness of a batch |
| Parsers `backend/parsers` | none | parse | partition of the source, token limits in characters and regions in bytes |
| API, authorization, Qdrant/Neo4j adapters, configuration, logging, scripts | none that matters to a protocol | validation, translation, I/O | – |

How they interact: the API writes a document and its job in one transaction; a
worker finds the job by polling, leases it, and changes the document and the
index under a lock on the document; either the processing transaction itself or a
separate call ends the job. All of them meet only in PostgreSQL rows, in its
locks and in LightRAG.

What makes each part correct:

- *queue*: one active job per document; one execution per (job, attempt); a live
  lease protects its attempt; every job ends within its attempts;
- *workflow*: READY means indexed, DELETED means gone, but for the whole text that the
  first revision of source code went in as; at most one execution
  changes the index for a document; a document on its way has the job that takes
  it there; success is reported only of what happened;
- *sources*: a revision's object is its own text and stays; nothing is left
  behind unexplained;
- *contract*: a READY document is in the namespace queries read or is marked;
- *registry and factory*: one runtime per key, none left open after close, the
  environment restored, no call that waits for ever;
- *parser*: the chunks are the file, each attributed to the innermost symbol around it;
- *entries and answers*: LightRAG has the active revision, each chunk with its own vector
  and the lines it stands on, and of another revision at most the whole text that a source
  file went in as at first; what an answer cites by line is there in the active text.

## Modules

| Module | Models | Extends or implements |
|---|---|---|
| `JobLifecycle` | what `jobs/models.py` promises of a job: statuses, transitions, attempts | abstract specification |
| `DocumentLifecycle` | what `documents/models.py` and `documents/repository.py` promise of a document: its texts become active one by one, in the order in which they were accepted | abstract specification |
| `JobQueue` | the statements of `jobs/repository.py` and the loop of `worker/runner.py` | implements `JobLifecycle` (`FollowsLifecycle`) |
| `DocumentWorkflow` | requests of `source_service.py`, `worker/service.py`, `indexing/service.py`, the document statements | extends and implements `JobQueue` (`JobQueueSpec`), implements `DocumentLifecycle` (`FollowsDocumentLifecycle`) |
| `SourceObjects` | `upsert_for_indexing` call by call, with the object store | – |
| `WorkspaceReindex` | `ensure_index_contract`, reindex jobs, the namespaces of the index | – |
| `RuntimeRegistry` | `get` and `close` of `runtime_registry.py`, creation, clean-up and environment of `factory.py` | – |
| `CodeText` | bytes, lines and chunks of a source file, the result of a parser (`parsers/models.py`) | – |
| `CodeParser` | `tree_sitter.py`: symbols, partition, split by tokens, lines | extends `CodeText`; pure functions of a file with its syntax tree, shown to be a parser as `CodeChunks` assumes one |
| `CodeChunks` | `provenance.py`, `embeddings/client.py`, `query/service.py`: the entries of LightRAG and the sources of an answer | extends `CodeText`; the parser is a constant |
| `CodeIndexing` | the two together: `CodeChunks` with `Parse` of `CodeParser`, and what the chunks have to do with the file | extends `CodeParser` and `CodeChunks` |
| `JobQueueProofs`, `DocumentWorkflowProofs`, `RuntimeRegistryProofs`, `SourceObjectsProofs`, `WorkspaceReindexProofs`, `CodeChunksProofs`, `CodeIndexingProofs` | theorems about the modules they are named after; `CodeChunksProofs` also has the mapping under which `CodeChunks` implements `DocumentLifecycle`, `CodeIndexingProofs` the theorems about `CodeParser` | `DocumentWorkflowProofs` builds on `JobQueueProofs`, `CodeIndexingProofs` on `CodeChunksProofs` |
| `RevisionLemmas` | the revisions of a document, divided at the active one | used by the two proofs that `DocumentLifecycle` is implemented |
| `MC…` | instances for TLC | – |

### JobQueue

One row of `jobs` is a record: status, document, type, revision, attempts, owner,
`lease` (ticks left before `lease_expires_at`) and `wait` (ticks left before
`available_at`). `Tick` ages all rows at once, so time is relative and the state
space finite. Every `PostgreSQLJobStore` call is one transaction and one action.
A worker goes through `pc`: *idle* (top of `run_once`) → *claiming* →
*working* (heartbeat and processing both running) → *succeeding* or *failing* →
*idle*; *stopped* and *down* are the ends of the process. `beating` is the
heartbeat task; when it has raised, `run_once` cancels processing and records
nothing (`Abandon`).

`task[w].live` is what the fence of the processing transaction sees: PostgreSQL's
`now()` is the time at which the transaction began, so the comparison with
`lease_expires_at` is decided at `BeginTransaction`, whatever happens later.
(A lease that was dead then cannot be revived, and one that was live only grows
until the attempt ends; hence one Boolean is exact.)

`claim_next` takes any available row, not the oldest: the order by timestamps is
weakened by SKIP LOCKED. Crashes are bounded by `MaxCrashes`; ids by `JobIds`.
`CANCELLED` is in the lifecycle but no code writes it.

### DocumentWorkflow

The variables of `JobQueue` plus documents with their revisions (`docs`), what
the current request of a document has read (`seen`), the texts LightRAG holds
(`index`), the session lock (`lock`), and where each worker is in `process`
(`proc`). A document's text stands for its content, and `Code` says which of the
contents are source code with chunks. LightRAG's identity of a document that is not code is
the hash of the text (`provenance.py:45`); of source code it is the number of the revision,
if one is named (`provenance.py:22-34`). `Entry` makes this choice: the index is a set
of whole texts and of revisions kept by chunks. A first revision is inserted when none is
active and none is named, hence as a whole text, while `delete_indexed_document`
takes the number of the active revision; of source code it then finds nothing to
delete (`RemoveOld`). The chunks of a revision are one entry here; `CodeChunks` has them
one by one.

An API request is two actions, the unlocked read under the request's advisory
lock and the commit, because the worker does not take that lock. Processing is one
action per commit and per call of LightRAG. The calls of LightRAG need no
connection and go on after it is lost (`DropConnection`); every statement does
(`AtLinked`). An exception may come anywhere (`Raise`), a lost heartbeat cancels
anywhere (`Cancel`), and a kill (`Die`) leaves what was committed. REINDEX jobs
and signals change nothing in this picture and are left to the other modules.

`DocumentLifecycle` is what a reader of a document sees of all this: `History` are the
revisions up to the active one, `Coming` those beyond it, `Phase` whether it is there,
DELETING or DELETED. A request accepts a text, a completed execution activates it, and
whatever else happens is a stutter. `Accept` does not ask for a text that differs from the
active one, since a request whose read was overtaken may add the same text again.

A call of LightRAG either happens wholly or not at all here; one that raises half
way is `Raise` before or after it. The embedding of the lock key (128-bit ids cut to
64 bits) is taken as injective.

### SourceObjects

One document and several upserts, with one action for each statement or call
that others can notice. `holder` is the transaction-scoped advisory lock; the
document row is locked from `add_revision` on (`RowLocked`). A put that raises may
have stored the object; a commit that reports an error may have been carried out
(`LoseAnswer`, at most `MaxLostAnswers` times). A put that takes effect after the
caller has given up on it is not modelled.

### WorkspaceReindex

Each worker and each API process has a contract; LightRAG is a set of
⟨contract, document, revision⟩. Jobs are reduced to at most one per document and
one execution at a time, which is what `JobQueue` and `DocumentWorkflow` show.
`ensure_index_contract` makes its changes in the transaction of its caller: in
replacement, deletion and reindexing they stay uncommitted, with the workspace row
locked, until the document is completed (`locks`, `marks`). The one statement of
`create_workspace_reindex` is atomic here; the window between its snapshot and its
insertion is not modelled (a job that slips through it is refused by `_reindex`).

### RuntimeRegistry

An event loop runs a call without interruption from one await to the next, so the
actions are those stretches: the first look of `get` (`Get`), its turn with the lock
(`Resume`), the parts of `create_lightrag_runtime` (`StartCreation`, `EnterEnvironment`,
`Initialized`, `Abort`), its clean-up (`CleanUpPart`, `CleanedUp`, `TimeOut`,
`CancelCleanUp`), and the shared task of `close` (`CloseAll`, `CloseRuntime`,
`CloseOver`) beside the calls that wait for it. A runtime is named by the call that made
it, and `open` says which of its storages and clients are open. Registries live in
threads of their own and share the environment of the process, whose section is the
thread lock of `_storage_environment`.

A call can be cancelled wherever it awaits. What raises while it is being closed counts
as closed, and `erred` remembers that the close task fails. A clean-up that has timed
out is cancelled and drops what it has not closed: `NothingLeftOpen` says so
instead of pretending otherwise.

### CodeParser, CodeChunks and CodeIndexing

A file is its UTF-8 bytes, told apart as far as cuts depend on them (a character, a
further byte of it, white space, a line break), and the syntax tree tree-sitter gives for
it. `Parse` is the parser: it collects the symbols, partitions their byte ranges, splits
a range at the token limit, counted in characters, and gives each chunk its lines. A
symbol is named by its node in the tree and the module by the root; `_symbol_type` and the
parent that `_collect_symbols` hands down are then functions of the node (`SymbolType`,
`ParentSymbol`). `IsSource` says what tree-sitter and Python give: whole characters, and a
tree whose children lie in their parent, in order and apart, and begin and end between
characters (`IsSyntaxTree`). The recursion of `_collect_symbols` and `_partition` is that of
recursive functions over the nodes; the one of a loop over characters or tokens is a count
(`Nth`: the member of a set with so many below it).

`CodeChunks` has the jobs of documents without leases and locks (these are the matter of
`DocumentWorkflow`) and instead LightRAG entry by entry: key, text, vector and citation.
`ToInsert` and `KeysToDelete` decide between chunks and a whole text as
`code_chunk_documents` does. An insertion embeds the whole batch, takes any answer of the
embedding service apart with `ParseVectors`, and may fail after any number of entries
(`InsertPart`); deletions are one call each and may stop anywhere (`Fail`). A query
retrieves, and lists the documents in a later step. `Sources` says which files may be
uploaded as which document and `Updates` which of them as a replacement.

`CodeChunks` does not say how a file is parsed. `ParseOf` gives the result for each file,
and `ParserAssumption` says all that is used of it: there is one result for a file, it has
the text of the file, and a chunk with lines is cut out of that text. So the theorems of
`CodeChunksProofs` hold for any parser. `CodeIndexing` brings the two together
(`ParserIsCodeParser`); that `Parse` satisfies the assumption for every source file is a
theorem (`ParserFits`), and TLC evaluates both assumptions on the files of `MCCodeChunks`.

## Runs

`tlc -config <cfg> <module>`, where the module is the longest `MC…` prefix of the
cfg's name. Symmetry is used for workers, documents, requests and (in
`MCSourceObjects`) contents where a run has safety properties only.

| cfg | What it asks, and the answer |
|---|---|
| `MCJobQueue` | Can expiry, late answers, crashes and signals break the queue? No: types, one active job per document, consistent rows, unique tokens, protected leases, no revival, refinement of `JobLifecycle`; every job ends and every signalled worker stops |
| `MCDocumentWorkflow` | Do status, revisions, index, jobs and locks agree while requests and two workers interleave? Yes, and `JobQueue` and `DocumentLifecycle` are implemented. `ReadyIsIndexed` and `LastRevisionsDeleted` hold as long as no processing connection is lost (`drops = 0` in them), the others also after that; `LastRevisionsDeleted` speaks of the last two revisions, since an older one may have been put back (`MCDocumentWorkflowSuperseded`), and not of the whole text that a first revision of source code went in as, which stays (`MCCodeChunksDeletedText`); `OneMutatorPerDocument` then speaks of the executions that are connected |
| `MCDocumentWorkflowLive` | Does every document on its way arrive? Yes, or its job has used up its attempts |
| `MCSourceObjects` | Can a revision get another request's object, or an object be left over for no reason? No |
| `MCWorkspaceReindex` | After a change of contract, is every READY document in the namespace that queries read, or marked? Yes, if every process has the new contract |
| `MCRuntimeRegistry` | Can concurrent, failing and cancelled creations and closings leave two runtimes for a key, something open after close, a wrong or changed environment, or a call that waits for ever? No, except for what a clean-up drops at its timeout and for what waits behind a clean-up whose caller was cancelled |
| `MCCodeChunks` | Are the chunks of every file the file, does LightRAG have those of the active revision whatever fails, and of no other, and is what an answer cites in the active text? Yes, except that the first revision of a code file is there as a whole text, which `IndexFollowsStatus` and `OneRevisionBesideFirstText` tolerate beside all later revisions and after the deletion (see `MCCodeChunksDeletedText`) |

Five runs refute a statement of the documentation; the counterexample of each is
a behaviour of the code:

| cfg | Property | What happens |
|---|---|---|
| `MCDocumentWorkflowSuperseded` | `ReplacesWithNewest` | an execution that waited for the lock until its job had ended meets a later replacement, deletes the active revision from LightRAG and inserts its own, which stays there for ever |
| `MCDocumentWorkflowStaleDelete` | `DeletesActiveRevision` | a deletion that overlaps the end of a replacement names the revision that was active before; its job fails in every attempt and the document stays DELETING |
| `MCSourceObjectsCleanup` | `EveryRevisionHasSource` | a failed upsert cleans up after its lock is gone and deletes the object of the next one, which drew the same number |
| `MCWorkspaceReindexRolling` | `UnmarkedIsIndexed` | a worker that still has the old contract finishes a first revision in the old namespace; the change marked only what was active then |
| `MCCodeChunksDeletedText` | `DeletionRemovesText` | no revision is active at the first indexing, so a code file is inserted as a whole text without citations; its deletion asks for chunks that are not there and the text stays |

The last of them has a second consequence: the first replacement of a code file deletes
nothing either, and the old text stays beside every later revision, where a
query may be given both. ADR 0017 (line 17) says the worker deletes the old version.
`OneRevisionBesideFirstText` excepts this case and no other; without its last disjunct
`MCCodeChunks` refutes it.

### Bounds

- *Two workers*: an execution that has outlived its lease and its successor. A
  third could only repeat one of the two roles.
- *Two attempts*: the first is retried, the second is the last; that is every case
  of `attempts < max_attempts`.
- *Leases of two ticks* in `MCJobQueue` (a heartbeat then changes the row), of one
  tick elsewhere: a tick fits between any two steps, so "expired" and "about to
  expire" occur everywhere.
- *Jobs, revisions, documents*: two jobs in turn for the queue, three jobs and two
  revisions for the workflow: upload, replacement, deletion. A third revision is needed where an execution meets
  a replacement later than its own (`MCDocumentWorkflowSuperseded`); what holds of two
  is proved for any number. One of the two contents is source code (`Code`), so that a
  document can go either way between code and text; that chunks replace chunks is the matter of
  `MCCodeChunks` and of the theorems. Two documents where they interact (one workspace); that
  documents with texts of their own do not interact is part of what the proofs show.
- *One crash or lost connection, one lost commit answer* per behaviour, at any
  point (`MaxCrashes`, `MaxFaults`, which bounds crashes and lost connections together,
  and `MaxLostAnswers`). `MCDocumentWorkflowLive` has two jobs and no faults: that a
  crash does not keep a job from ending is the matter of `MCJobQueue`.
- *Three upserts*: the failing one, the one that draws its number again, and one
  that meets both.
- *`MaxRevision` 2* in `WorkspaceReindex`: a first revision and a replacement; what
  happens to a third is what happened to the second. 3 in `MCCodeChunks`, where the
  first one is inserted in another way than the others, so that only the second replacement
  deletes chunks.
- *Runtimes*: two calls of `get` for one key in the registry that is closed, one for
  another key in another thread, one call of `close` that may be cancelled and repeated.
  The two calls are the one that creates and the one that waits; a third would wait
  too.
- *Files*: every tree of up to two symbols, side by side, nested and nested with a node
  between, over a text of nine bytes with a multi-byte character, a line break and four
  tokens; a token limit of two; an empty file, one with a syntax error, one without
  symbols and one that is no code. One migration, answers from up to two entries.

### Fairness

`JobQueue!Fairness`: the loop of a live process takes its next step, compose
restarts a container that went down (`docker-compose.yml:51`), time passes. It
includes that processing ends: the HTTP clients, boto3 and psycopg have timeouts
of their own. No fairness is assumed of heartbeats, requests, claims of a particular
job, or success: a worker may fail every job. `DocumentWorkflow!WorkflowFairness` is
the same, except that `pg_advisory_lock` waits as long as somebody has the lock
(`Blocked`). Weak fairness suffices since a worker's next step stays enabled until it
is taken.

`RuntimeRegistry!Fairness`: event loops go on, LightRAG's `initialize_storages` and the
closing of a finished runtime return or raise, and `asyncio.timeout` fires. The closing
of a half-made runtime may hang, since the factory has a timeout for that case
(`CleanUpPart` has no fairness).

## Proofs

`tlapm <module>` for each of the seven `…Proofs` modules and for `RevisionLemmas`. Everything below holds for all
values of the constants that satisfy the assumption named in the module: any number of
workers, documents, jobs, attempts, requests, calls, crashes and so on.

| Theorem | States | Module |
|---|---|---|
| `TypeCorrect` | `[]TypeOK` | `JobQueueProofs` |
| `OneActive` | `[]OneActiveJobPerDocument` | |
| `Consistent` | `[]RowsConsistent` | |
| `TokensUnique` | `[]AttemptTokensUnique` | |
| `LeaseProtects` | `LiveLeaseProtects` | |
| `NeverRevived` | `ExpiredLeaseNeverRevived` | |
| `ImplementsLifecycle` | `FollowsLifecycle` | |
| `WorkflowTypeCorrect` | `[]WorkflowTypeOK` | `DocumentWorkflowProofs` |
| `ImplementsJobQueue` | `JobQueueSpec` | |
| `OneMutator` | `[]OneMutatorPerDocument` | |
| `ReadyIsThisRevision` | `[]ReadyMeansThisRevision` | |
| `ImplementsDocumentLifecycle` | `FollowsDocumentLifecycle` | |
| `SuccessIsReal` | `[]SuccessHadEffect` | |
| `NoChangeForgotten` | `[]PendingChangeHasJob` | |
| `ReadyIsInIndex` | `[]ReadyIsIndexed`, if no two documents share a text | |
| `LastRevisionsGone` | `[]LastRevisionsDeleted`, if no two documents share a text | |
| `RegistryTypeCorrect` | `[]TypeOK` | `RuntimeRegistryProofs` |
| `OneRuntime` | `[]OneRuntimePerKey` | |
| `HandedOutStaysOpen` | `[]HandedOutIsOpen` | |
| `NamespacesKeptApart` | `[]OwnNamespace` | |
| `CloseLeavesNothing` | `[]NothingLeftOpen` | |
| `SourcesTypeCorrect` | `[]TypeOK` | `SourceObjectsProofs` |
| `SourcesAreOwn` | `[]SourceIsItsOwn` | |
| `LeftoversExplained` | `[]UnreferencedIsExplained` | |
| `ReindexTypeCorrect` | `[]TypeOK` | `WorkspaceReindexProofs` |
| `RebuildsWhatIsThere` | `[]ReindexFindsDocument` | |
| `MarksGoOnlyWithTheIndex` | `MarksGoWithTheIndex` | |
| `ReadyIsThere` | `[]UnmarkedIsIndexed`, if the processes agree on one contract | |
| `ChunksTypeCorrect` | `[]TypeOK` | `CodeChunksProofs` |
| `OneRevision` | `[]OneRevisionBesideFirstText`, if no two documents share a text | |
| `CitedPassages` | `CitedPassagesAreCurrent` | |
| `CitedLines` | `[]CitedLinesHoldText` | |
| `IndexFollows` | `[]IndexFollowsStatus`, if no two documents share a text | |
| `ChunksFollowDocumentLifecycle` | `FollowsDocumentLifecycle`, with the mapping of `CodeChunksProofs` | |
| `ParserFits` | `Parse` is a parser as `ParserAssumption` has it | `CodeIndexingProofs` |
| `ChunksPartition` | `[]ChunksPartitionFile` | |
| `InnermostAttributed` | `[]AttributedToInnermost` | |

### The job queue

The inductive invariant `IndInv` is the conjunction of the four invariants with
`TaskFollowsRow`. `AttemptTokensUnique` alone is not inductive: a claim hands out
the number `attempts + 1`, and the property does not say that no worker holds that
number already. `TaskFollowsRow` does: the job of a task exists and its attempt
never exceeds that of the row; that the worker's step keeps `TypeOK` rests on it too.
`OneActiveJobPerDocument` and `LiveLeaseProtects` need nothing but `TypeOK` beside
themselves.

The argument is factored through the rows. `RowsOnlyStep` shows once, action by
action, that a step adds one PENDING row for a document without an active job, or
does one of six things to each row: nothing, ageing, a lease, a renewal, recovery, or
the end of an attempt by the worker that carries its token. `RowStepShape` says
what each of them leaves of a row. Preservation of the invariants (`NextIndInv`), the
two action properties and the step of the refinement (`LifecycleStep`) then follow by
cases over those six, without another look at the actions. The temporal theorems
combine the steps by PTL.

### The workflow

A step of `DocumentWorkflow` changes `jobs` as a step of `JobQueue` does, or not at all;
that is `ImplementsJobQueue`, and with it everything proved about the queue holds here.
The other theorems rest on `WInv`, in this order:

- the invariant of the queue and the types;
- `ProcFollowsPc` and `LockHeld`: an execution is somewhere in `process` only while its
  worker is working, and from the advisory lock on it holds that lock as long as it is
  connected; `OneMutator` follows;
- `DocsInv`: the active revision is there, an absent document is empty, a first revision
  has the number 1, an update is for the newest revision, an execution about to make a
  document READY is for its first revision. Requests and workers change documents under
  different locks, so that each case needs what the *other* side cannot have done
  meanwhile; `OneActiveJobPerDocument` is what excludes it;
- `StepsFitJobs`, `ReportsEffect`: what an execution has done is still true of the
  document when the worker reports it in a later transaction. `SuccessIsReal` and
  `NoChangeForgotten` need it since a report may come after the lease was lost and
  somebody else has finished the job.

The actions are looked at once, by `ProcSteps`, `LockSteps`, `DocsStep` and
`ReportingComes`, which say in a few disjuncts how a step may change an execution, a
lock, a document, and what precedes a report; the invariants are then carried over
these disjuncts.

`ImplementsDocumentLifecycle` adds `ActiveByStatus` to `WInv`: at which status the active
revision is the last one, the one before it, or none. A step changes at most one document
(`OneDocumentChanges`), only a request gives it a revision (`RevisionsByRequest`), and
what remains are five ways for a document to change (`DocumentMoves`): on to INDEXING,
which nobody sees, and the four actions of the abstract specification. `Divided` of
`RevisionLemmas` says what each of them does to the revisions before and after the active
one. It is here that the stale reads of requests and the executions that outlive their job
might do harm: a commit on an old read must not skip or rewrite a revision, and a late
completion must not activate one that has been replaced. Neither does, because the commit
asks again for the status and the completion for its own lease and revision.

### Status and index

`ReadyIsInIndex` and `LastRevisionsGone` rest on `FullInv`, which adds to `WInv` that every
revision is a text of its document, `ActiveByStatus`, and `IndexInv`: what an execution has seen to at each place in
`process` (`Knows`), and what the status of a document says of the index when nobody is
past its lock (`Settled`). The argument is that an execution that stays where it is finds
its document and its document's texts as it left them (`LeftAlone`), because whoever
else acts has another document; and that each of its own steps takes it from what it
knew to what it needs to know next (`ProcessKnows`). A READY document needs not only its
active text in LightRAG but, for its deletion later, the text before it gone; that follows from
the two steps of a replacement, unless the texts are equal. Both theorems assume
`TextsApart`: LightRAG tells texts apart, not documents.

### Runtimes

`IndInv` of `RuntimeRegistryProofs`: who has the asyncio lock and who is in the section of
the environment follows from where the calls are; the cache is whole, nothing is made
twice for a key, what was given to a caller is what the cache holds, and what is open is
either cached, in the hands of the call that makes it, or dropped by a clean-up that
timed out. The last is what makes `CloseLeavesNothing` provable: at the end of the close
task the cache is empty and no call is inside.

### Source objects

The number an upsert has drawn stays the next one while its transaction is open
(`NumberIsNext`), since that transaction has the lock; the object under the number is its
own text or missing (`StoredIsOwn`), since clean-ups only delete. `RevisionsCounted`
bounds the numbers by the requests that have left their transaction; it is why
`SourceObjectsAssumption` asks for finitely many requests.

### The index contract

`IndInv` relates steps, locks, jobs and entries of the index without any assumption on
the contracts. It gives `RebuildsWhatIsThere` and, step by step, `MarksGoOnlyWithTheIndex`:
only the two commits that have inserted a revision take a mark off. `ReadyIsThere` assumes
`OneContract(c)`, the condition that `MCWorkspaceReindexRolling` shows to be necessary. Its
invariant adds `MarksFit(c)`: what a worker is about to mark stays exactly what is
outdated until it commits, and no first revision is being indexed before `c` is stored.

### LightRAG entries

`ChunkInv` of `CodeChunksProofs` holds for every parser that `ParserAssumption` fits. Beside
the types it says where a document may be and with which job (`DocFits`), that an execution
works on the revision its job is for (`ExecutionFits`), what it has still to delete
(`TodoFits`), that an entry is determined by its key (`EntryFits`), and that the chunks of a
document are all of one revision (`ChunksFit`): of the active one, until it has been
deleted, or of the one that replaces it. The last is not inductive without `TodoFits`, since
a replacement inserts when its list is empty, and what is not on the list must be gone.

`ActsOnOne` shows, over the `…Rows` lemmas, that a step other than a migration or a query's
gives new rows to one document and leaves the entries of the others alone, so that the
invariant is carried over for one document and for the entries that came or went.
`CitedLines` follows from `EntryFits`: a chunk cut out of the text stands on the lines that
the cut counts (`CutStandsOn`). `CitedPassages` rests on it: what a query has retrieved stood
in the cited revision when it was an entry, it still does when the entry has been deleted and
the document replaced, since revisions are never rewritten (`FoundFits`, `RevisionsStay`),
and the revision cited is the one that is active when the answer is given.

`IndexFollows` is the converse, that what should be there is there, and adds `IndexInv`:
which texts LightRAG may have as a whole (`TextsFit`), what an execution about to complete
has seen to (`Done`), and what READY means (`Indexed`). An insertion gives each entry its
own vector because an accepted answer of the embedding service is a permutation of its
inputs (`EveryInput`: as many answers as inputs and no two for the same, hence one for
each). It assumes `TextsApart`, like the theorems about the index of `DocumentWorkflow`.

`OneRevision` is about whole texts as well as chunks and adds `SideInv` to both invariants:
while a document is replaced, LightRAG has nothing of the active revision or nothing of the
new one (`OneSide`). A replacement begins with nothing of the new revision
(`UpsertKeepsSide`) and inserts when nothing of the active one is left (`InsertKeepsSide`);
failed attempts in between take away from one side only. `OfRevision` leaves the whole text
of a first revision that is source code out, which is never deleted.

`ChunksFollowDocumentLifecycle` says that the documents of `CodeChunks`, which has the jobs
without leases and locks, follow the same abstract specification as those of
`DocumentWorkflow`, which has them (`LifeMoves`, `LifeStep`): the two models agree on
what can become of a document. It is not among the properties of a run.

### The parser

`ChunksPartition` and `InnermostAttributed` hold for every source file (`IsSource`), hence
for every syntax tree, however deep, and every token limit. Nothing is said by induction:
an equation of the recursive function (`Collected`, `PartitionUnfolds`, `FlattenJoins`)
and the least or greatest node, place or length at which a claim would fail (`Least`,
`Greatest`) take its place.

- *Characters and tokens.* The number of members of a set below a number (`Rank`) is the
  inverse of `Nth`. A text that begins with a character is cut at characters
  (`Characters`, `SubText`), and between two cuts there are at most as many tokens as the
  limit, the cut itself at a token's start (`TokensOfPart`, `Cuts`). So a region is split into
  ranges that are not empty and fit (`SplitFits`): the conversion from characters
  back to bytes neither loses the last chunk nor cuts a character.
- *Ranges.* `Runs(gaps, span, s, a, b)` says that the ranges of a sequence lie one behind
  the other from `a` to `b`, with or without gaps. The symbols collected for a node run
  with gaps within it (`CollectedRuns`); the regions of a symbol run without gaps from its
  first byte to its last (`PartitionRuns`, by the last symbol for which they would not); so do
  the chunks of a region and of the file (`SemanticRuns`), and what they hold is then the
  file (`RunsText`).
- *Symbols.* Every region is `Owned`: it lies in its symbol and apart from those
  collected for that. Each symbol is collected for exactly one symbol or the root
  (`OuterSymbol`), so the symbols around a byte are a chain (`AroundChain`), and one that
  owns the byte, with none collected for it around the byte, is the last of the chain and
  followed outwards by `Outer` (`Innermost`).
- *Executions.* `ChunkInv` of `CodeChunksProofs` says which revision's parse an execution
  works with (`ParsedIs`); a deletion has none.

### Left to TLC

- Liveness, under the fairness above: `EveryJobEnds` and `SignalStops`, `DocumentsSettle`,
  `GetsEnd` and `ShutdownEnds`. Every safety and action property that a run checks is proved.

## Not modelled

- *API, authorization, configuration, logging, connectivity checks, scripts, Qdrant and
  Neo4j adapters*: they validate, translate or perform I/O and keep no state another step
  could find changed.
- *Generation client* (`backend/llm`): one request, one answer; nothing depends on more of
  it than that it may fail.
- *Markdown and text parsers*: their sections and chunks go into no entry of LightRAG, which
  gets the whole text (`provenance.py:24` asks for code chunks only).
- *Names and kinds of symbols*: they come with the syntax tree, and only their ranges and
  nesting decide the chunks.
- *`store`, `add_revision`, `activate_revision`* of the documents package: called by no
  handler. Creating, renaming and listing workspaces: single statements on one row.

Known and not stated as a property, because the code offers nothing to check it
against or a decision record accepts it:

- After a terminal failure no operation leads out of UPDATING or DELETING (`source_service.py:109`, `:229`).
- A replacement deletes the old revision from LightRAG before it inserts the new
  one (`worker/service.py:292`; accepted by ADR 0017), so one that has used up its
  attempts leaves the document without either.
- Two documents with equal text that is not code are one document of LightRAG, whose id
  is the hash of the text (`provenance.py:45`): deleting or replacing either takes the text
  away from both, and the other stays READY. The instances and the index theorems
  have texts apart.
- A worker that dies after READY in its last attempt leaves a FAILED job behind a
  READY document (`jobs/repository.py:238`); `SuccessHadEffect` is the direction
  that holds.
- When the connection of processing is lost, its lock goes, but its calls of LightRAG
  go on next to those of the next execution (`worker/service.py:154`);
  `OneMutatorPerDocument` is therefore about connected executions.
- The fence compares the lease with the `now()` at which the transaction began
  (`documents/repository.py:264`), so a result may be written under a lease that has
  expired since, though ADR 0016 (line 23) asks for a live one. It is never written by
  an attempt that has been taken over.
- A clean-up whose caller is cancelled is waited for without the timeout that bounds it
  otherwise (`rag/factory.py:285`): if a storage's close hangs, the call hangs, with the
  registry's lock. `GetsEnd` and `ShutdownEnds` except what waits behind it (`HeldUp`).
- `close` closes a runtime that a query is using without waiting for the query.
- A PUT with the text of the active revision is answered "unchanged" while another
  replacement is under way, and also when the document is DELETED; one whose read
  is overtaken by the worker may add identical content as a revision
  (`source_service.py:198`), which `docs/architecture/architecture.md:295` excludes.

## What is left

*Composition*: `SourceObjects` with the worker that reads the object while another
upsert cleans up.
