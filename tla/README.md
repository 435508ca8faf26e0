# Verification of the hybrid code index

TLA+ modules, TLC configurations and TLAPS proofs about the Python package
`src/hybrid_platform/hybrid_platform`. The package builds an index of a Java repository at one
commit (documents, symbols, occurrences, relations, call graph, text chunks, vectors) in a SQLite
file with a LanceDB table beside it, and serves it over HTTP and MCP.

## 1. Inventory

| component | state it keeps | operations | what is hard |
|---|---|---|---|
| Index job scheduler (`admin_index_jobs.py`) | job records, waiting queue, running set, ownership tables for database paths and snapshots | `submit`, worker threads, `_finish_job`, `get`, `list_jobs` | submits and job ends on different threads, a bounded queue, ownership that must end with the job, pruning of old records |
| Build pipeline (`index_build_runner.py`, `source_indexer.py`, `fallback_indexer.py`) | none of its own; drives one `SqliteStore` | scip-java, ingest, code graph, chunk, embed | fallback from SCIP to syntax to plain documents in one database, several commits per build, failure between stages |
| SCIP ingestion (`ingestion.py`, `parser.py`) | four lists of unwritten records, attempt counter, open transaction | `run` | retry of a half-read stream, commit points, crash |
| Index store (`storage.py`, `index_contract.py`) | SQLite tables, full-text tables, `_index_info_cache`, vector delete hook | prepare, clear, upsert, delete, queries | rowids shared by two tables, two stores without a common transaction, cached index information |
| Syntax fallback (`fallback_indexer.py`) | declarations of all files, names to resolve, rows to write | two passes over the files, `Resolve`, receivers of calls | names that several classes share, locals that hide fields, files edited between the passes |
| Chunk construction (`embedding.py`) | none; writes `chunks`, `chunks_fts` | `build_chunks` | nested and packed spans, overlap, token budget; re-chunking over existing rows |
| Embedding run (`embedding.py`) | cursor, futures, write buffer, flush counter, open transaction | `EmbeddingPipeline.run` | results in any order, failed batches, dual writes, interruption |
| Query vectors and provider calls (`embedding.py`) | LRU cache with expiry, two semaphores, statistics | `_query_vector`, `_execute_provider_call` | concurrent queries, retries, stale check before a lock |
| Code graph (`code_graph.py`, `graph_service.py`) | `code_nodes`, `code_edges` | `build`, `code_subgraph`, `explore` | owner of a reference, degrees in step with edges |
| Intents, communities, repair (`intent_builder.py`, `community.py`, `isolated_policy.py`, `repair_calls.py`) | intents, communities, run history | builders | cached intents, selection of a run, derived counters |
| Retrieval (`retrieval.py`, `dsl.py`, `entity_query.py`) | none | `query` and its fusion strategies, `find_entity`, callers and callees | rank fusion, demotion, windows cut before filters, two tables for calls |
| MCP tools (`agent_mcp_handlers.py`, `mcp_*.py`) | the store opened by the first call, a lock | tools | gate, reads and answer around commits of a build; errors classified twice |
| MCP gateway, metadata (`mcp_gateway_local.py`, `index_metadata.py`, `index_slug.py`) | pid file, nginx configuration, JSON registry | start, stop, register, remove | load-modify-save without a lock, files checked twice, processes left behind |
| Service API, CLI (`service_api.py`, `cli.py`) | the served store with its cached `index_info` | HTTP routes, commands | threads share a store while builds rewrite its database |
| Configuration (`config.py`, `runtime_factory.py`) | none | merge with the defaults, construction of pipelines | defaults of one provider under settings for another |
| Java indexer, evaluation tools | none | subprocess, scripts | left out, see section 7 |

How they interact: an HTTP request or an MCP admin call submits a job to the scheduler; a worker
thread runs the pipeline, which opens its own `SqliteStore`, lets one of three source indexers write
the rows, then builds the graph, the chunks and the vectors, each stage in transactions of its own.
Queries read the served store and the LanceDB table, and ask the provider for the query's vector.
The scheduler protects a database from two builds; nothing but the order of writes protects the two
vector stores from each other.

What makes each part correct:

* scheduler: builds exclude one another, answers follow from the active jobs, first come first
  served, no slot idle while a job waits, no active record forgotten, every job ends, with positions that
  tell the place in the queue;
* ingestion: a run that returns wrote every record once, no part of a run is ever committed, a
  record that always raises ends the run;
* embedding: no chunk twice, none forgotten, LanceDB never behind SQLite;
* chunk stores: full-text rows, vectors in SQLite and vectors in LanceDB belong to the chunks that
  are there, whatever sequence of ingest, chunk, embed and purge came before;
* pipeline: what the database says of its origin is what wrote its rows, also after a fallback or
  a failure;
* query vectors: the cache stays within its bound, forgets the least recent and serves nothing that
  has expired, and no query waits for ever for a slot another one holds;
* syntax fallback: names and receivers mean what Java's scoping says wherever the repository decides
  it, and every row's ends are stored;
* chunk construction: the pieces of a span cover it within the budget, and no function is lost;
* retrieval: a full page without repetition, what all lists agree on comes first, also beside demoted
  test code, and the callers shown are the strongest;
* serving: an answer or a refusal names a source mode that explains it, whatever a build commits
  meanwhile; an error's advice to retry agrees with what the pipeline does itself;
* registry and gateway: the registry is whole after any death, and a route leads to the backend of
  its own index;
* configuration: a setting reaches the provider, and queries search a store that runs fill;
* code graph: every edge has a relation or a reference that explains it in the rows of the last
  build, and a subgraph is what can be reached and nothing else.

## 2. Plan

Ordered by importance; the status says what exists.

| # | modules | status |
|---|---|---|
| 1 | `BuildLeases` (abstract), `IndexJobScheduler` (implements it), proofs | done |
| 2 | `EmbeddingRun`, proofs | done |
| 3 | `Ingestion`, proofs | done |
| 4 | `ChunkStores`: chunks, full text, SQLite vectors and LanceDB under ingest, chunk, embed, purge, proofs | done |
| 5 | `BuildPipeline`: stages, backends and fallbacks with their commit points, proofs | done |
| 6 | `QueryVectors`: cache, semaphores, retries, proofs | done |
| 7 | `Retrieval`, `CodeGraph`, `CallLookup` and `EntityQuery` with proofs | done |
| 8 | `ChunkSpans`, `SyntaxIndexer`: how documents are cut and names are resolved; with proofs | done |
| 9 | `Serving` over `BuildPipeline`, `GraphExplore` and `Configuration` with proofs, `ToolErrors` | done |
| 10 | `Gateway`, `JobProgress`, with proofs | done |

A module with a state machine of its own has its own run (1 to 7). The modules of steps 8 to 10 join
the run of the component they belong to as a *scene*: a behaviour is of one scene, chosen in the
initial state, and the variables of the others stay as they are. `MCBuildPipeline` has seven scenes
(`builds`, `progress`, `syntax`, `gateway`, `serving`, `errors`, `settings`), `MCChunkStores` two (`stores`,
`cutting`), and `MCRetrieval` four (`queries`, `graph`, `names`, `seeds`). In `serving` two modules share
variables: `Serving` reads the database that the actions of `BuildPipeline` commit. In `errors` an initial
state is one input of a pure function, an exception, and the property judges what the function says of it.

## 3. Modules and the code

### `IndexJobScheduler`, `BuildLeases`

`IndexJobScheduler` is `admin_index_jobs.py`. Its variables are the fields of `IndexJobScheduler`
(`_jobs` as a sequence in insertion order, `_queue`, `_running`, the table of database paths, the
table of snapshots) and the worker threads. `submit` is one atomic action because it runs under
`_lock`; it splits by its answer into `SubmitRunning`, `SubmitQueued` and the refusals, which change
nothing and are the operator `Answer`. `_finish_job`, also under the lock, is `FinishJob` with all it
does: release, promotion of the oldest waiting job, refresh of the positions and pruning. A thread may
fail to start or die without reaching `_finish_job` (`LoseWorker`), because `thread.start()` and
exceptions that are not `Exception` are not caught.

`BuildLeases` says what a client may rely on: a lease per key, granted in the order of requests, held
until the job ends. `IndexJobScheduler` implements it under a refinement mapping (`IsLeaseService`,
with fairness `IsFairLeaseService`).

### `EmbeddingRun`

`EmbeddingPipeline.run`: the main thread's program counter, the cursor, the page's futures, the
buffer, the flush under way, the transaction and the two stores. A worker's result and the main
thread's handling of it are separate actions, so every order of completion is explored. `disk` is what
SQLite has committed and `tx` what the connection sees; LanceDB writes are durable at once. The content
of vectors, progress messages and provider statistics are left out.

### `Ingestion`

`IngestionPipeline.run` over a stream whose records are of four kinds: lists, batches, the retry that
starts the stream again without clearing lists or rows, the writes and commit after the loop, and a
crash. `clear_index_data` commits, so the empty tables are on disk before the first row. A write that raises
(`WriteRaises`) leaves the rows that got in before (`GotIn`) in the open transaction and its list as it was,
after the lists before it were written and cleared (`WrittenBefore`).

### `ChunkStores`

What the commands of an operator (`ingest`, `chunk`, `embed`, `purge-chunks`) leave in four tables:
`chunks`, the full-text table `chunks_fts` tied to it by SQLite rowids, the vectors in SQLite and the
vectors in LanceDB. `Upserted` is `INSERT OR REPLACE` with the rowids SQLite gives out, `FtsUpserted`
the full-text rows written at those rowids. `ingest` and `purge-chunks` have a commit in the middle, so
each is two actions with `Die` between them; `embed` is one action that does what `EmbeddingRun` shows
of a run, finished or interrupted. A text is the content of a file under a chunking configuration, and
a vector is the text it was computed from. One snapshot per database is assumed, which is what
`BuildPipeline` shows (`OneSnapshot`). Two sets remember what the code does not repair: `recut`, the chunks whose
text a later `chunk` replaced beside their vectors, and `lost`, the vectors whose LanceDB rows a purge dropped
before it died. The properties say that nothing else is wrong: a vector is always of the ingested content of its
file, and the two stores never have different vectors for one chunk. LanceDB may hold vectors of chunks
that are gone (`chunkstores_orphans`).

Rows of `chunks_fts` whose chunk was replaced are never deleted, also not by `purge-chunks`. They are
waste and not wrong answers, because a hit is joined with `chunks` by rowid; `KeywordHitsAreCurrent`
says so. In the mode that writes LanceDB only, every `embed` finds all chunks missing, because it asks
SQLite; that costs calls and loses nothing.

### `BuildPipeline`

`run_java_full_index_pipeline`: `request` is the configured backend and fallback mode, `pc` the stage,
`tx` the database as the build's connection sees it and `disk` what is committed, `cache` the store's
`_index_info_cache`. `Prepare` is `prepare_index` with its snapshot check, `Clear` is
`clear_index_data`, whose commit also commits the new `index_info`; the writes of the rows are two
steps so that a build can fail between them, `RecordStats` is the second `prepare_index` of the source
indexers. `IndexerRaises` has the one exception the pipeline catches: the syntax indexer of the legacy
chain, after which the document indexer goes on in the same open transaction. `StageFails` and `Crash`
end a build anywhere. Rows are known by the build and mode that wrote them, derived rows by the build
whose rows they come from; a repository without Java files, whose build has no rows, adds nothing the
properties tell apart.

### `JobProgress`

What a client sees of a job while it builds. The script is the list of messages the pipeline and
`build_chunks` and `run` emit, in their order (`ChunkMessages`, `EmbedMessages`, `SourceStages`), for
every outcome of the source stages; `record` follows them as `IndexJobRecord.apply_progress_message` does.
Batches are announced over all chunks but made page by page, so that more
may come than were announced: the percentage is then capped, and reaches its stage's end early.

### `SyntaxIndexer`

`SyntaxFallbackIndexer.run`: a first pass collects types, methods and fields of every file
(`Collect`) in one list in the order of the code's loops (`declared`, for `known_types`, `known_methods` and
`known_fields`), names are resolved against all of them (`Resolve`), a second pass reads the files again
and attributes what bodies call and use (`Scan`, `Receiver`), and `ClearRows` and `Store` replace the rows of the database. Between two files anybody may edit, add or
delete one. A text is its package, imports and declarations; the tree-sitter parse that yields them is
left out; what of the parsed declarations the code finds is not. `Visited` is what `visit` reaches: it looks at the
direct children of a type's body, so neither the members of an enum and the types inside of it, nor interface constants, annotation
elements, record components and compact constructors are ever collected, although Java knows them all. `LocalIsSeen` says
the same of local variables: `collect_locals` takes formal and caught parameters and local declarations, and
not the variables of a for-each, a resource, a pattern or an untyped lambda; of a vararg it takes the wrong name and
of a caught exception no type. A receiver under such a name is a field of that name for the code, or the own class.

The properties compare with Java's scoping rules over all that is declared (`JavaSimple`, `JavaType`, `JavaReceiver`), and
`PlainProject` names the shapes for which the code does not follow them: a type inside of an enum, types outside packages, a class
declared twice, inner classes that share a name, a foreign class imported under a name that
several classes have, and a package imported twice with `.*` (its classes are then counted twice and dropped as
ambiguous). It also rules out what Java does not compile: a package named like a class, two fields of one name in
a class, two imported classes of one name. `Followed` says which calls the scan can follow: the receiver has one
type of this repository, all of whose methods are collected; the local variable it names, if any, is of a kind that the scan sees under
its name (`LocalsAreSeen`) and of a type that Java finds here or of one that nothing here is called like (a local
of a foreign type gets the type of its only namesake); the field it names is collected, and the last name of a
qualified receiver is no field of the caller's class (`FieldsAreSeen`: `B.A.m()` is otherwise read as a call on the field `A`);
and no variable hides a type it names (`NothingObscures`). Calls on receivers of unknown type
go to the caller's own class; the property says nothing of them. `Nested` is the type of a parsed text.

### `ChunkSpans`

`build_chunks` for one document: candidates from definitions and tree-sitter ranges, functions only
or all, leaf before container, packing of small siblings, the gaps of types, the cut of each span into
pieces under a token budget with overlap (`Cut`, where `at` is the cursor), the fall-backs to
definitions and to the whole text, and symbol cards. A line is of a kind with a number of tokens
(`Tokens`). Each span is cut by itself, so spans and pieces are sets where the code has lists, and the lines a
type keeps (`Gaps`) are defined as the longest runs that nothing takes, which the code finds by sorting and merging.
`DocumentsAssumption` says that a definition the text is too short for has its whole range behind the end, as it has when an
index is older than the text; `SettingsAssumption` has the floors of the settings (one token, one line).

### `Serving`

The REST server, whose threads share one store, and the MCP tools, whose handlers take a lock. A call
is `Ask` (the checks of its arguments), `Lock`, the two look-ups of `require_capability` (`AskCapabilities`,
`AskMode`) or none (`Ungated`), one `Read` per SELECT, `Stamp` with the mode the answer names. `served` keeps the
store's `_index_info_cache`, which is never refreshed. Between any two of these steps a build may
commit: the module extends `BuildPipeline`, and `ServedSpec` interleaves the builds' steps with those of the
calls, which never wait for a build. Calls that are answered without a look at a table are the disjunct
`AtOnce` of `Ask`. `find_symbol` gives the lock up before it names the mode (`LeaveEarly`).

### `ToolErrors`, `EntityQuery`, `GraphExplore`, `CallLookup`, `Configuration`

Functions of one input. `EntityQuery`, `GraphExplore` and `Configuration` keep a request with its answer as a
specification of one step. `ToolErrors`:
`_classify_embedding_exception`, then `exception_to_mcp_error`, which sees only the text. `EntityQuery`: `find_entity` (`FindEntity`) with the windows that are cut before type and package
filter; a table may have any symbols with ids and places in the order of bm25 of their own (`TablesAssumption`). Its
property is about symbols whose name has the text (`Named`) and limits of at least 1; `WordOnly` are those that only share a word
with it, which the code answers too, after all the others.
`GraphExplore`: the seeds of `explore`, their fusion and the choice of hops, over any hits and intents; a place is
where a hit names a symbol, and the best places are taken until the limit is met. `CallLookup`: callers and
callees from `code_edges` and `relations`, each cut to `top_k` with ties in one order and merged with ties in
the other; it extends `CodeGraph`, and the run asks it of every graph that is built. `Ranking` has the sorting and
cutting of lists that it, `Retrieval`, `EntityQuery` and `GraphExplore` share. `Configuration`: `_deep_merge`,
`make_vector_stores`, `make_embedding_pipeline` and `resolve_llama_init_kwargs`. The merge is written out for the four
calls that the nesting of the defaults allows; a value is an object, a text, null or 0. `Runtime` applies `str()` and
`int()` as `runtime_factory.py` does (`TextOf`, `NumberOf`): a null model, key or address becomes the text "None", and a dimension that is
no number (`Numerals`), also an empty one, makes the construction fail.

### `Gateway`

`index_metadata.py` and `mcp_gateway_local.py`. The registry is a JSON file that a command loads, changes
and saves through one temporary file: `Open`, `WriteText` and `Rename` are apart, so that two commands meet in the
same temporary file and a death leaves one behind. `gateway start` is `Load`, `Render`, `Spawn` for each
backend, `WritePids` and the start of nginx; `gateway stop` signals what the pid file lists. A process number is
the pair of the start and the backend's place in it, so that none is used twice. `serial` and `steady`
remember what the two properties except: commands that overlapped, and databases that came or went
between the two numberings of the start whose nginx is running.

### `QueryVectors`

`_query_vector` for several request threads. `Ask` and `Recheck` are the two look-ups (`Get`), the
second with the query semaphore; `AcquireProvider`, `ProviderAnswers`, `ProviderFails` and `Wake` are an
attempt of `_execute_provider_call`, which holds the provider semaphore for the attempt only; `Leave`
releases the query semaphore and records the call, `Finish` fills the cache and records the outcome.
A thread between `Leave` and `Finish` has an answer the cache does not have, and another one may ask
the provider again: the code accepts that. The clock does not advance while a lock is awaited.

### `Retrieval`

One behaviour is one query, from `Query.validate` to the answer. `Init` picks a query, `Refuse` is every
early error; the look-ups (`ReadSymbols`, `ReadDefinitions`, `ReadReferences`, `ReadCallers`) answer at
once, a search goes on with `ReadVectors` or `ReadLists`, `Fuse` and `Answer`. What the store and the
vector search return is any ranked list over the symbols and chunks; the three fusions (`Linear`, `Rrf`,
`DenseGuarded`), the demotion of test code (`Demoted`, `Reranked`) and the cut are the code's. Scores are
integers in units of `1/One`, what a rank counts for in reciprocal rank fusion is the table `Shares`, distances count negative as LanceDB returns them. Which paths count as test
code is a set, the attachment of source text is left out.

### `CodeGraph`

`build` is one transaction and one step (`Build`, `BuildDocumentMode`), or an exception that leaves the
old graph (`BuildRaises`: an owner that is known without being defined is added to the dictionary that is
being iterated). The operators are the passes of the builder in their order: `NodesOf`, `OwnerEdges`,
`RelationEdges` (`Replace`, later rows win), `OccurrenceEdges` (`Ignore`, known edges stay), where
`OwnerAt` finds the definition around a reference by its enclosing range or, without one, by the start of
the next definition. Positions are lines. `Walk` and `CodeSubgraph` are `GraphService.code_subgraph`;
degrees are the operators `FanOut` and `FanIn`, which the code recomputes from all edges. `CallLookup` asks
the graph and the relations it was built from. `RowsAssumption` is what the rows of Java files are like: no
two definitions start on one line, and of two enclosing ranges that meet one is inside the other.
`MCRetrieval` extends `Retrieval`, `EntityQuery` and, through `CallLookup`, `CodeGraph`, which share no variable: `GraphInit`,
`GraphNext` and `GraphSpec` are the specification here.

## 4. Runs and bounds

| run | bounds | shows |
|---|---|---|
| `scheduler_safety` | 4 jobs, 2 slots, 2 waiting places, registry of 2, 8 requests whose databases and snapshots clash in part; threads may be lost | exclusive builds, correct answers, a client can follow its job and its place in the queue until it ends, refinement of `BuildLeases` |
| `scheduler_liveness` | 3 jobs, 0 configured slots | refinement of `BuildLeases` with fairness, in which every job ends |
| `embedding_runs` | 7 chunks, batches of 2, pages of 6, commit every 2 flushes, dual writes, 2 runs, an interruption anywhere; 3 workers with a buffer of 3, or 1 worker with none | no chunk twice, none forgotten, LanceDB not behind SQLite, a run ends with its buffer on disk |
| `embedding_migration` | two runs that may change the write stores | disagreement, section 5 |
| `ingestion_runs` | 8 records, batches of 2, 2 retries, 3 exceptions, 2 runs, a crash; a sound input and one with a record that always raises | completeness, a clean rerun is exact, atomicity, a run ends |
| `ingestion_retry` | one exception | disagreement, section 5 |
| `chunkstores_safety` | 2 files, 2 contents, 2 chunking configurations, 5 commands, death between commits; 5 chunking settings for documents of 7 lines with two functions anywhere in a type | keyword hits are current, vectors fit their texts but for chunks cut anew, LanceDB lacks only what a dead purge dropped; pieces cover their spans within the budget, every function can be found |
| `chunkstores_orphans` | the same, fewer commands | disagreement, section 5 |
| `build_pipeline` | 2 snapshots, 3 builds, all backends and fallback modes, exceptions and death anywhere; scenes: 0 to 3 documents and 0 to 7 chunks; 3 files with 2 edits; 2 processes, 3 repositories, 3 commands, 2 starts; 2 clients and 2 builds; every exception; 15000 documents, some malformed | one build's rows with their index_info, derived rows belong to them, no silent fallback, one snapshot; progress never falls; names and receivers are Java's where the indexer collects them, ends of rows are stored; registry whole, routes right; answers explain themselves; advice to retry is right, settings arrive |
| `query_vectors` | 2 threads, 3 queries, cache of 2, lifetime of 2 in 3 instants, 2 query slots, 1 provider slot, 1 retry, 4 questions | least recent forgotten, every query ends |
| `retrieval` | 2 symbols, 3 chunks, pages of 0 to 2, 3 strategies, 5 operations, all ranked lists with 2 keyword and 3 semantic scores; a graph of a class with 3 methods and a field in 102 versions of its rows, built over any other; tables of 3 symbols, windows of 2; 3 hits that name 4 symbols of 3 nodes, both fusions | full pages without repetition, agreement first and not undone by demotion; edges explained, subgraphs are balls of one and two hops, callers and callees are the strongest; what a name finds fits, and while the window has room nothing that fits is missing but for others that do; seeds are the nearest nodes |
| `retrieval_dense` | the queries only | disagreement, section 5 |

Why the bounds are enough: four jobs fill two slots and two places, so the fifth request meets a full
scheduler, and a registry of two is below the number of active jobs. Seven chunks in pages of six make
two pages, the last one short, with buffers that end half full. Two runs are needed for what one run
leaves to the next. Eight records make a full batch and a remainder for each kind that repeats. Five
commands are an index built twice, or purged and built again with another configuration. A third build
comes after one that failed on top of one that succeeded. Four questions are the fewest in which an
entry is used again before the one that pushes out the oldest. In `query_vectors` keys that the state
does not mention are alike, and an action constraint asks for the least of them. In `retrieval` the
queries, the graph and the search by name share no state, and a behaviour is of one of them. Two results on a page of
three make a cut, two lists of which one may lack a result make an agreement, and `InsertEvery` is 2 so
that a page of two has one insert (the code has one for every ten results). The graph's rows have methods inside each other
and side by side, with enclosing ranges, without any, and with one on line 0 that the code takes for none.

The scenes: seven chunks in pages of three and batches of two make five batches, where four were announced. Seven lines let two functions be apart, adjacent or nested, with a comment and a blank line
between them and a line over the budget. Three files are the fewest in which a name has two
meanings for a third class, and two edits can remove a class and bring another one. Two processes and
three commands are the fewest in which a command meets the temporary file of another and a third reads
what they left; starts of the gateway are checked with two commands, since they only need a registry that
changes. Two clients meet in the lock, and two builds of one snapshot, one of a syntax and one of a
document index, change the mode under them; a client with faulty arguments, who never reaches the
store, is not combined with builds. Windows of two rows stand for those of 50 and 100.

## 5. Where code and documents disagree

* `ingestion_retry`: an exception in mid-stream makes the next attempt write occurrences and relations
  again, while the specification asks for a retryable, repeatable ingestion.
* `embedding_migration`: after `sqlite_only`, an embed run with `dual` writes nothing to LanceDB; the
  migration playbook says it does.
* `chunkstores_orphans`: a snapshot ingested again keeps the LanceDB vectors of chunks that are gone;
  the description of the implementation says that the old snapshot is deleted first, with its vectors.
* `retrieval_dense`: `dense_guarded` is said to keep the vector search's results as the backbone with
  other results near the tail only; the sort after the demotion puts an inserted result first when the
  scores of the backbone are negative distances.

Met while modelling, stated in comments or left outside a property, and not checked as runs:

* HTTP status 500, a broken connection and a passed deadline are told to MCP clients as `INTERNAL_ERROR`
  (docs/mcp_metadata_and_errors.md:77 has `UPSTREAM_ERROR` for 5xx), although the pipeline retries them.
* `find_entity` with `contains` also answers with symbols that only share a word with the text
  (entity_query.py:76 says that the text is part of the name), and with one symbol for a limit of 0 or less (:78 calls the limit
  the greatest number of hits, and line 127 looks at it after a hit was added).
* A null model, API key or address becomes the text "None", which passes the checks for required settings
  (runtime_factory.py:214-243) and is handed to the embedding class or service; so does a null LanceDB path. A
  null or empty dimension raises.
* The syntax indexer never collects the members of enums, types inside of them, interface constants, annotation elements and
  record components (fallback_indexer.py:614-618), and its locals lack for-each, resource, pattern and untyped
  lambda variables (:1112-1137): calls through them go to a field of the name or to the own class.
* Registry commands that overlap lose updates; a gateway start that is aborted leaves its first backends out
  of the pid file.
* `chunk.token_counter` and `chunk.token_counter_model` never reach the pipeline, because
  `chunk_runtime_dict_from_app_config` does not copy them. A provider that is not known becomes the
  deterministic embedder.
* A map of arguments for another embedding class is joined with the default map, whose other entries still
  hand over arguments of the default class.

## 6. Proofs

Eight modules hold proofs. Each theorem is about the specification for every value of the constants that
the named assumptions of its module allow, and rests on nothing else. The bounds of the runs (numbers of
runs, builds, commands, exceptions) are constants too, so the theorems hold for any of them. TLC checked
each inductive invariant on the run's instance before it was proved.

* `IndexJobSchedulerProofs`: any number of jobs, slots, places and any requests. `Inv`
  says that the queue holds the waiting jobs and that each ownership table maps a key exactly to the
  active job that owns it; `BuildsAreExclusive` alone does not survive a submit, because `submit` asks the tables
  and not the jobs, and `AnswersCorrect` says that what it asks them is right. `LineInv` adds that a job
  waits only when all slots are taken, that no two jobs have one age, that the queue goes by age
  with every job shown its place, and that above the limit of the registry only active jobs are in it.
  `ClientsAlwaysSeeTheirJobs` follows with a lemma on ranks (the job at place n of the queue has n - 1 older
  ones waiting), and `SchedulerIsLeaseService` is the refinement of `BuildLeases`: a submit is the abstract
  request with a grant or without, `_finish_job` the abstract end with the grants of all whom it promotes, the
  rest are stutters.
* `EmbeddingRunProofs`: any numbers of chunks, workers, batches, buffers and interruptions.
  `RunInv` says where each chunk of the run is: in the page's futures, in the buffer, counted or still to be
  read (`CountInv`), never in two of them (`ApartInv`), and which of these are empty at each step
  (`PlaceInv`). `NoChunkIsHandledTwice` follows. `CommittedAlwaysInLance` assumes
  `AlwaysLance`, no setting that writes SQLite only (false without it, see `embedding_migration`);
  `LanceInv` follows the flush in progress: what the transaction has and LanceDB lacks is the batch being
  written, and a commit happens only when no store is left to write. `RunsAccountForAll` assumes
  `SteadyStores`, that all settings write LanceDB or all write SQLite only: the run reads from one
  store which chunks are missing, and answers for another one only if that one is not ahead.
* `IngestionProofs`: any stream, batch size, number of retries and crashes. The invariant of
  `CompletedRunsHaveAll` and `IngestionIsAtomic` says where each record read so far is: in its list or in its
  table, of which a write that raised half way takes neither (`WriteLeaves`). `CleanRunsAreExact` counts: `CountInv` has every record read so far exactly once in the list and
  the table together as long as the run met no exception, and the statistics equal the records read.
* `ChunkStoresProofs`: any files, contents, chunkings and sequences of commands, in each
  write mode. `StoresInv` has `KeywordHitsAlwaysCurrent`, `VectorsAlwaysFitTexts` and `StoresAlwaysAgree`
  in one with `EmbeddedInv` (every vector in SQLite has its chunk), because none is inductive alone. A deleted
  chunk's rowid may be given out again: the full-text row that stayed under it is harmless only since every upsert of
  a chunk writes the full-text row of its rowid too. `ContentInv` says that a chunk is cut from the content its file
  was ingested with, so a vector is of that content; and the text under a chunk's id changes only by a `chunk` that
  cuts the file anew (`TextAfterChunk`), which `recut` remembers. `StoresAlwaysAgree` is about the vectors of SQLite: those in
  `lost` excepted LanceDB has each of them. It does not say that LanceDB has no more.
  `FiniteAssumption` (finitely many files and chunks) is what makes a largest rowid exist.
* `ChunkStoresProofs`, the cut: `PiecesAlwaysCoverSpan` and `TextIsAlwaysFound` are about `CutSpec`, for any text,
  definitions, tree-sitter nodes, token counts and settings. `CutInv` says of each line of text of each span laid out
  that it is in a piece of its span or still ahead: behind no cursor but that of the first span (`Covered`); of the
  spans that are left only the first has pieces. The second theorem needs what is laid out as well: every
  candidate is in a pack that names it and reaches around it (`PacksTake`, where an element is taken
  from the siblings at each step until none is left), the spans of definitions reach from the first one to the end
  of the text without a hole (`DefinitionsReachTheEnd`), and where the syntax tree gave no piece its candidates had
  no text (`NoCandidateHasText`). Token counts, field budgets and packs are computed place by place; that their equations have
  a solution is `StepsExist`, and what holds from each place to the next holds at all is `Along`: both by the least
  number at which it would fail.
* `BuildPipelineProofs`, the builds: any snapshots, builds, fallbacks, exceptions and deaths.
  What readers find is not inductive by itself: the invariant adds that the cache describes the open
  transaction once `prepare_index` has run (`CacheInv`), and that the committed tables are empty while rows are
  written, with the open transaction holding rows of this build only (`WriteInv`). Every commit is then
  of one of three kinds: empty tables, the complete rows, or rows with more derived from them. This gives
  `ReadersFindOneBuild`, `DerivedBelongsToRows` and `SnapshotIsForEver`. `FallbacksAreRecorded` adds
  (`RecordInv`) that a source other than the requested one goes with a recorded failure from the moment it
  is chosen to the commit of `index_info`.
* `BuildPipelineProofs`, the calls: `AnswersAlwaysExplain` is about `ServedSpec`, any number of
  clients, stores and builds. It needs the builds' invariant twice: rows and `index_info` agree whenever a
  call reads (`Sound`), and the snapshot never changes (`SnapshotStays`), so that the store's stale
  `_index_info_cache` still names the right one (`StoreInv`). `WayInv` says what a call has learnt on its way and
  `AnswerInv` what an answer was made from. `AskedAssumption` only gives requests their type.
* `BuildPipelineProofs`, the syntax indexer: `EndsAreAlwaysSymbols`, for any files, any texts and any edits while
  the indexer runs. `SyntaxInv` says that every visited declaration in the look-up tables, and every row that waits to be
  written, has its ends among the symbols that wait with it: so what `Resolve`, `Method` and `Field` find in the
  second pass is a stored symbol even if the file was edited since. `TextsAssumption` says what a parsed text is:
  names are sequences of identifiers, a clause of a type extends or implements, and a
  declaration inside of another is inside of a type that the same text declares.
* `BuildPipelineProofs`, names and calls: `NamesAlwaysMeanWhatJavaSays` and `CallsAlwaysReachTheReceiver`, for any
  files, texts and edits, under what `PlainProject` and `Followed` ask of the texts (section 3), are two arguments each. The first is about one table of declarations: where Java's rules lead
  to a type of the repository, the five ways of `Resolve` lead there too (`ResolverIsRight`). If no other type has the
  last name, every way ends at that one (`UnsharedIsResolved`); if several have it they are not
  inside of others, so Java finds no inner type first, and the way that Java goes is the first of the five
  that finds anything (`SharedIsResolved`). The second argument says that the table and the rows are those of the texts that
  were read: `NamesInv` has one entry for each declaration of each text, one question for each name in
  a clause of a visited one, and no relation but the answers; the type around a visited declaration is visited
  (`OwnerIsVisited`); `StillInv` has, as long as nobody edits, exactly the calls of
  the files that were scanned again. An id tells the declarations of a plain project apart (`OneDeclaration`,
  `OneBody`), so the answers under it are those to its own questions. `FilesAssumption`, that no path is listed twice,
  keeps a file from being collected twice. The proofs found what the small projects of the runs did not
  have: a doubled `import p.*`, a local of a foreign type with a namesake, a package named like a class, and a field named
  like the last name of a qualified receiver; `PlainProject` and `Followed` now say so.
* `BuildPipelineProofs`, the progress of a job: `PercentNeverFallsEver`, for any numbers of documents and chunks, any
  batch size and page size. A message has a mark, the percentage that it alone would give (`Mark`); a script is
  rising if no mark is below an earlier one, the silent messages of the code graph apart (`Rising`). The script of
  a build rises (`ScriptRises`: its parts rise within bounds that fit together, the counted ones because
  division is monotone), whatever is skipped leaves it rising, and a message of a rising script takes the
  percentage exactly to its mark (`MarkIsReached`).
* `BuildPipelineProofs`, the settings: `SettingsAlwaysArrive` is about `ConfigSpec`, for any documents, however nested
  and with objects, texts, nulls and zeros anywhere, and needs no assumption. What a changed setting is mapped to is left open
  (`Changed`: a null, 0 or object as model, key or address, of which `str()` makes a text that nobody wrote, and the dimension "0"). What the merge makes of a place is one of three things: what the
  defaults say where the document is silent, the merge of both objects, or what the document puts there (`Stands`). That is
  kept from each place to the places below (`StandsBelow`), so where the defaults have no object it is what is in
  force (`StandsIsInForce`), and the arguments are made of nothing else (`ArgumentsFit`). The proof showed that a document
  which blanks `common_arg_map` as a whole was thought to keep the map of the defaults; `Below` now says that what
  replaces an object silences the defaults below it.
* `GatewayProofs`: any repositories, processes, deaths, starts and leftover backends, under
  `SettingAssumption` (finite sets, and an order of the slugs). `RegistryStaysWhole`: while commands do not overlap, a
  temporary file is the one its only writer opened or a dead one's, never the registry itself, so emptying it
  harms nobody (`SerialInv`). `RoutesAlwaysReachTheirIndex`: every backend that the pid file lists is one of
  the latest start that got that far (of those it does not list nothing is claimed), on the port that start numbered it with, and both numberings are the
  same injective one unless databases changed between them (`GatewayInv`). That ports are numbered without a gap or
  a repetition is a lemma on `Ports`.
* `QueryVectorsProofs`: `CacheForgetsLeastRecent`, any threads, keys, sizes and lifetimes. The
  invariant relates the list `_items` to the history: its order is the order of last use, and what is not in it
  has expired or was used before all that is.
* `RetrievalProofs`: any symbols, chunks, page sizes and ranked lists. `QueryInv` follows the lists
  through the fusion and the demotion to the page: they are without repetition and no longer than the fetched
  depth, `results` is a whole blend of them, and what is ahead in every list is ahead in the blend.
  `AnswersArePages` and `AheadComesFirst` follow. `StrategiesAssumption` names the three fusions and
  `SharesAssumption` says that a better rank counts for more, as `1 / (60 + rank)` does; the fusion's lemmas
  compare sums of at most three terms, so no induction is needed.
* `RetrievalProofs`, the code graph: `EdgesAlwaysExplained` and `SubgraphsAreBalls` are about `GraphSpec`, any rows under
  `RowsAssumption`, any number of ingestions and builds. `GraphInv` adds that both ends of every stored edge are stored
  nodes, also after a build in document mode and one that raised: so `_clear_repo_graph`, which deletes the
  edges at the nodes, deletes all edges, and a graph is a function of the rows it was built from. The rest is about that
  function. The definition with the smallest span around a line is the innermost one
  where all methods have enclosing ranges (`SmallestIsInnermost`, by the cardinality of nested intervals), and
  the last one above it where none has (`SmallestIsLastAbove`, since the expanded spans end before the next
  definition). Relation rows win over occurrence rows and, per pair, the greatest confidence wins
  (`RelatedAreStrongest`, `FoundAreReferred`). A walk is recursive in the number of hops; `SubgraphIsBall` is about
  one hop and two, which `WalkIsRounds` unrolls.
* `RetrievalProofs`, callers and callees: `CallsAlwaysStrongest` is about `GraphSpec` too, for any order of the ids
  (`PlaceAssumption`: different ids have different places). A call that a table knows is in the merged table with
  that confidence or a greater one, or else the cut of its table left k others that are at least as strong
  (`KeptOrBeaten`); then k hits of the merged table come before any weaker one, and none of those is on a page of k
  (`MergeShape`). Of the graph this needs only that calls join symbols with a confidence (`CallsFit`).
* `RetrievalProofs`, search by name: `FoundAlwaysFits` is about `EntitySpec`, for any symbols and windows and limits of at least 1. The
  three orders of the SELECTs are strict (`TablesAreOrdered`), so a window with room for the symbols of that name has them all
  (`WindowShape`), ahead of those found by a word (`NamedRows`), and filtering and
  cutting leave out only what is behind all that is answered (`FittingCut`).
* `RetrievalProofs`, the seeds of an exploration: `SeedsAlwaysNearest` is about `ExploreSpec`, any hits over any nodes
  (`HitsAssumption`), any floor and limits (`ExplorationsAssumption`), in an index without intents, which is the only one
  the code builds (section 7). Places in best-first order are a strict order, so what is taken until a limit is met is
  closed under better places; the first place of a node in that order carries its best score, so each node counts
  once. One list keeps its order under either fusion, since a later rank or a lower score is never worth more, and the
  floor cuts the seeds at a score and never inside of it.

Only model-checked:

* liveness: `IsFairLeaseService`, the end of runs in `EmbeddingRun` and `Ingestion`, the end of queries in
  `QueryVectors` (the provers have no rule for fairness and `ENABLED`);
* `RetryAdviceIsSound`, about a function of one input: TLC evaluates it for every exception there is.

Fairness: the scheduler's liveness assumes that threads start and that a pipeline ends, as a worker's
`try/finally` calls `_finish_job`; subprocess and provider calls have timeouts. The embedding and the
ingestion assume only that the running thread goes on and that a provider call returns within its
timeout; so do the request threads of `QueryVectors`, where weak fairness is enough for the semaphores
because the questions are finite (Python's semaphores do not promise a turn to every waiter). No
fairness is assumed of clients, interruptions, exceptions or crashes; a run that is interrupted has
ended.

## 7. Not modelled

* Intents, communities, isolation and repair: intents are made for code nodes of type `function`
  (intent_builder.py:254), but `CodeGraphBuilder` makes `class`, `interface`, `method` and `field`. `function_intents`
  stays empty, so no community, forced assignment or repair edge comes of it; what remains are the isolation
  marks of nodes, by floating-point scores. `GraphExplore` has the lists of intents as inputs, and its
  property is about an index without them.
* The SCIP parser, the tree-sitter parse and the SQL of `def_of`, `refs_of` and `symbol_exact` transform data without state
  of their own; `Retrieval` has any ranked list in their place.
* Provider clients and scip-java are external; their outcomes are choices in the models.
* Of the MCP server the transports, of the command line the parsing of arguments, of the gateway the
  reuse of process numbers.
* Of the code graph the cap `max_per_doc` and `intent_subgraph`; of the configuration the sections that only
  hand numbers over.
* `provider_max_concurrency` across pipelines: every pipeline object has its own semaphore, and the
  pipelines of a server and its jobs are not composed in one module.
* Evaluation tools and scripts measure the system and are not part of it.
* Progress texts, timings and formatting everywhere.

Every component's status is in `PROJECT.json`.
