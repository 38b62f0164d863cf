# A verification of TracePilot in TLA+

TracePilot indexes source repositories into a vector store and answers
questions about them with an agent. This directory holds TLA+ models of its
parts, the TLC configurations that check them on small instances, and proofs
checked by TLAPS. Paths below are relative to the repository root.

## 1. Inventory

| Component | Source | State it keeps | Operations | Talks to |
|---|---|---|---|---|
| Indexing service | `apps/api/tracepilot_api/services/indexing_service.py` | none of its own; one object per request | `start_index`, `get_status`, the worker `_run` | store, Redis, ingestor |
| Metadata store | `core/store.py` | SQLite tables workspaces, repositories, jobs; one connection, one lock | create/get/list/update | every service |
| Repository service | `services/repository_service.py` | git working trees on disk | `connect` (local, git), `list`, `get` | store, git |
| Workspace service | `services/workspace_service.py` | none | `create`, `_unique_slug`, `list`, `get` | store |
| Ingestor | `packages/retrieval/.../ingest.py` | per run: pending chunks, stats | `ingest` | working tree, chunking, embedder, vector store, progress callback |
| Vector store | `packages/retrieval/.../qdrant_store.py` | Qdrant points | `upsert`, `search`, `iter_chunks`, `content_hashes`, `count`, `delete_repository` | Qdrant |
| Chunking | `packages/retrieval/.../chunking.py` | parser cache | `chunk_file` | tree-sitter |
| Embeddings | `packages/retrieval/.../embeddings.py` | the dimension, the lazily loaded model | `embed_documents`, `embed_query`, `_ensure_model` | fastembed or Ollama |
| Retriever, citations | `retriever.py`, `citations.py` | none | `retrieve`, `build_citations`, `pack_context` | vector store, embedder |
| Agent graph | `packages/agent-graph/...` | the state of one run | router, planner, retriever, analyst, action planner / tool executor loop, synthesizer, judge; `Orchestrator.chat/debug/review` | model provider, retriever, tools |
| Tooling | `packages/tooling/...` | none | `execute_tool`, `safe_path`, `run_subprocess`, seven tools | file system, subprocesses |
| Telemetry | `packages/shared/tracepilot_shared/telemetry.py` | lazily created clients; traces and an index list in Redis | `Tracer`, `_persist`, `load_trace`, `list_traces` | Redis, Langfuse |
| Evaluations | `packages/evals/...` | results in Redis, scores in traces | online and offline evaluation | telemetry, model provider |
| API routes and startup | `apps/api/tracepilot_api/{main.py,routes}` | application singletons | HTTP handlers, `lifespan` | services, orchestrator |
| Web client | `apps/web` | React state | index button, status polling, chat | HTTP API |

How they interact. A request thread of the API creates a job, mirrors it to
Redis, flips the repository row and starts a daemon thread. That thread calls
the ingestor, whose progress callback writes the job row and the Redis mirror;
when ingest returns the thread commits the repository row and then the job.
Meanwhile clients poll `GET /repositories/{id}/status`, which reads the
repository row, the two Redis keys and the job table, in that order. A git
connect keeps its own copy of the repository row while it clones, and clones
into the directory an index run may clone or pull too. A question runs through
the agent graph in its request thread: nodes call the model provider, the
retriever (which reads the vector store through the embedder the ingestor also
uses) and the tools (which start programs in the working tree). When the graph
ends the thread stores its trace in Redis, pushes it on an index list, and, for
a chat, scores it and writes the scores back into the trace twice, from two
modules; `GET /traces` and `GET /evals` read that list. The web client polls,
reloads lists and posts, all at once, and applies the answers as they come.

What is hard. Several index jobs of one repository may overlap (nothing
forbids it); a row is read and written back whole by different threads; the
mirror can lose writes and keys; a store call can fail between the two halves
of a commit; the process can stop at any point and nothing is repaired at
startup; the ingestor hides its failures. A model may answer anything, at every
call; the tool loop ends by a counter that three nodes keep; a node that raises
loses what the others found. Redis commands interleave one by one. The
dimension of the collection is fixed before the embedder knows its own. The
client applies answers of requests nobody waits for any more. `PROJECT.json` lists these hazards
at their lines, each with the properties that cover it or why none does.

What would make each component correct:

- Indexing: a job only moves forward and ends; the repository row is settled
  once its jobs have ended; the mirror never runs ahead of the store; a client
  never sees a job go back.
- Ingestor and vector store: after a run the index holds the chunks of the
  tree it walked; a skipped file is really unchanged; stats describe the tree.
- Chunking: every line that is not blank is in some chunk, lines that are near
  stay together, a definition keeps to its rows.
- Embeddings: what is stored fits the collection, and no chunk is lost to a
  failing call.
- Retrieval: a chunk better in both legs is never cut for a worse one; a leg
  that fails leaves the other; the markers the model reads and those the user
  sees name the same lines; the packed context fits its budget.
- Agent graph: every request is answered within a bounded number of rounds,
  calls and steps, with every tool result analysed, from the repositories it
  named, and never surer than its source.
- Tools: only checked calls start a program, only a program that ended well is
  a success, and what is left out is told.
- Telemetry: listed traces exist and are the newest, scores are not taken back.
- Evaluations: broken answers never pass, every example has its row, and the
  overview shows what was computed.
- Workspaces: slugs are unique. Working trees: never lost, found by the tools.
- Web client: polling neither stops nor doubles, the view comes to show what
  the server has, what is shown belongs to the workspace selected.

## 2. Plan

The modules, most important behaviour first; everything listed is done but for
the last item. Of a module `M` or `MCM`, the proofs are in `M_proofs`.

1. `JobLifecycle` (abstract) and `IndexingService` (detailed, refining it), with proofs.
2. `Ingest`: the runs of a repository, batches that fail, the points of the
   store, with proofs.
3. `AgentRequest` (abstract) and `AgentGraph` (detailed, refining it), with proofs.
4. `TraceStore`: traces, scores and readers in Redis, with proofs.
5. `Chunking`, `Retrieval`, `Citations`, `Embeddings`: what becomes of a file on
   its way to the store and back; with proofs of them all.
6. `ToolRuns`, `ReadFile`, `CodeScan`: the tools; `WorkingTree`: what they run in;
   with proofs of them all.
7. `Metrics` and `Evals`, which extends it: scores of answers, dataset runs, the overview;
   with proofs.
8. `Workspaces`, with proofs.
9. `StatusServer`, the server as the web client sees it, extended by
   `StatusCard` and `RepoButton`; `WorkspaceView`; with proofs of their safety.

What meets what. `IndexingService` models the ingestor by its reports and its
return, which `Ingest` details; `AgentGraph` models a retrieval by the evidence
it may find, which `Retrieval` and `Citations` detail, and a batch of tools by
how many ran, which `ToolRuns` details; `TraceStore` models a score by who
wrote it, which `Evals` computes; `StatusServer` keeps of `IndexingService` the
order in which a row and a job are committed and the pointer.

## 3. Modules

In every module the section *Faulty variants* holds one-slip mutations of its
definitions, which show that each property can fail; the specification uses
none of them. Names are the code's where TLA+ allows it. Instances for TLC are
in the modules whose names begin with `MC` (section 4).

### JobLifecycle

The abstract life of an `IndexJob`: absent, pending, running with a progress
that never goes back, then succeeded or failed for good, and succeeded only
after the indexed row of its run was published.

### IndexingService

One repository, a set `Jobs` of index requests, a set `Clients` of pollers.
Job `j` names the request that creates it and then its worker thread; `pc[j]`
is that thread's next step.

| Variables | Code |
|---|---|
| `repo`, `jobs`, `clock` | the repositories row, the jobs table, the last stamp given by `utcnow()` |
| `redisJob`, `redisPtr` | `tracepilot:job:{id}` and `tracepilot:repo:{id}:job` |
| `pc`, `resume`, `copy` | where each thread is, where it goes after mirroring, the `Repository` object it holds |
| `draft` | the `IndexJob` a thread has stamped and not yet written |
| `source` | a local path, or a git clone in progress / over |
| `poll`, `view` | what a status request has read so far; the last answer |
| `published` | history: jobs that committed an indexed row |
| `faults`, `redisFaults`, `restarts` | how often the environment misbehaved, for the bounds |

| Actions | Code |
|---|---|
| `BeginIndex`, `CreateJob`, `FlipRepo` | the three store calls of `start_index`, `create_job` up to its lock |
| `WriteJob` | `create_job` and `update_job` under the lock: the row as it was stamped |
| `MirrorJobKey`, `MirrorRepoKey`, `SkipMirror` | the two SETs of `_mirror_job`, and its error path or absent client |
| `StartWorker`, `OnProgress`, `IngestReturns` | `_run` up to the return of `ingest` |
| `FetchRepo`, `CommitIndexed`, `FinishJob` | `_finalize_success` |
| `FetchRepo`, `CommitError`, `FailJob` | `_finalize_failure` |
| `StoreRaises` | a store call that raises: the failure path inside the worker's `try`, the end of the thread elsewhere; for a write, what was stamped is lost (`AfterLostWrite`) |
| `FinishClone` | `_connect_git` after the clone |
| `PollRepository`, `PollPointer`, `PollJobKey`, `PollRedisFails`, `PollStore` | the four reads of `get_status` |
| `RedisForgets`, `Restart` | TTL or eviction of a key; the process stopping and starting |

A job's stamp is taken before the store's lock (`store.py` 269 before 270, 297
before 298), so stamping and writing are two steps, between which other threads
stamp and write.

Abstractions. `get_job` directly before `update_job` is part of the step that
stamps, because a job's row is read and written by its own thread only. A stamp
is a strictly increasing number: `utcnow()` is taken to move forward between two
saves. A new job's two stamps are one.
A store call that raises changes nothing. A service object whose Redis ping
failed behaves like one whose every SET or GET fails. Stats are named by the
job that computed them; messages, `head_commit` and `last_indexed_at` are left
out. Progress fractions are `0..MaxProgress` and only reports that change the
fraction are steps; the ingestor's fractions only grow.

### Ingest

One repository: its working tree, the points of the vector store, and a set
`Runs` of calls of `ingest`, which may overlap because index jobs may.

| Variables | Code |
|---|---|
| `tree` | content of each path, a sequence of chunk bodies |
| `held`, `first` | which bodies the points of a path have; the one Qdrant returns first |
| `pc`, `incremental`, `scope` | next step of a run; `request.incremental`, the paths that match `request.paths` |
| `todo`, `seen`, `total`, `known` | files left, the index `i`, `max(1, len(files))`, `existing_hashes` |
| `pending`, `vectors` | the batch being filled; the batch being upserted |
| `stats`, `reported` | `RepositoryStats`; the last fraction, in percent |
| `stored`, `dropped`, `clean` | history: chunks upserted, chunks lost, whether the run lost anything or a file was edited since its walk |
| `faults`, `edits`, `restarts` | bounds on the environment |

| Actions | Code |
|---|---|
| `Start`, `OpenRepo`, `RepoUnavailable`, `Walk`, `ReadHashes` | `ingest` up to the loop: `_open_repo`, `_walk`, `content_hashes` (which may stop half way) |
| `SkipUnreadable`, `SkipUnchanged`, `IndexFile`, `ReportFile`, `EndLoop` | one iteration of the loop by its outcomes, and the flush after it |
| `Embed`, `Upsert` | `_flush`: vectors may fail or come back short; each request to Qdrant may fail on its own |
| `Finish`, `Abort` | the two ends of `ingest` |
| `Edit`, `Restart` | the working tree changes under the run; the process stops |

Abstractions. A chunk is its body and its hash is the body. Qdrant returns
points by id and ids are drawn afresh at each chunking, so after an upsert any
of the new points, or the old first one, may be the first of its path. How
many points carry a body is left out: nothing reads it. The walk and the scroll
of the hashes are one step each; a file is read in one step. Bytes and
languages are left out of the stats, and which file names are indexable is the
constant choice of `Versions` and `Gone`. `_ensure_collection` only logs its
failures and its effect is that of an upsert that fails.

### AgentRequest and AgentGraph

One request through the agent. `AgentRequest` is what it promises: accepted, a
bounded number of rounds of a bounded number of tools, answered once, with all
it learnt or with an error.

| Variables | Code |
|---|---|
| `pc` | the node LangGraph runs next; "crashed" once one has raised |
| `entry`, `mode`, `workspace` | the method of `Orchestrator`, `request.mode`, `request.workspace_id` |
| `st` | `AgentState` without its texts: scope, queries, evidence, calls, results, iterations, answer, confidence, indices, warnings |
| `resp` | what the response model carries |
| `steps`, `calls`, `executed`, `rounds` | LangGraph's steps; history: model invocations, tools and rounds run |

| Actions | Code |
|---|---|
| `Chat`, `Debug`, `Review` | the three methods up to `graph.invoke` |
| `Router`, `RetrievalPlanner`, `EvidenceRetriever`, `CodeAnalyst`, `ActionPlanner`, `ToolExecutor`, `Synthesizer`, `Judge` | one node each, with its update, its degraded outcome and, where an exception escapes, `Raises` |
| `Route`, `BackTo` | the conditional edge and the edge of the tools |
| `Degrade`, `Respond` | `_run` after an exception; the three response builders |

Abstractions. A model call is its outcome and the invocations it took
(`complete` asks for JSON again once). A chunk is a repository and a number. A
batch of tools is how many ran. `FilterScopes` is the filter `coerce_filter`
leaves of whatever the model planned. An answer is who wrote it: the model, or
the code in its place. `Answered` has both for a reply of the model, because a
reply without a text, at any confidence, gets the code's own with that
confidence and no warning; `st.degraded` says that there was no reply.

### TraceStore

What request threads do to Redis after the graph: `Tracer.finish`, `_persist`
(SET, LREM, LPUSH, LTRIM), `online._push_to_trace`, `online._persist`,
`chat._push_scores`, each command a step that may fail; the first call of
`_redis()`, which builds the client (`Initialise`, `Build`, `Ping`); one reader
in `list_traces` (LRANGE, then record by record) for `GET /traces` and
`GET /evals`; and expiry of a record.

| Variables | Code |
|---|---|
| `init`, `client` | `_redis_init` and `_redis_client`, and who builds it |
| `records`, `index`, `evals` | `tracepilot:trace:{id}`, `tracepilot:traces`, `tracepilot:evals` |
| `pc`, `mem` | next command of each request thread; the `TraceRecord` it holds |
| `reader` | what a listing has read so far |
| `faults`, `pushed`, `expired` | bound on failures; history |

A record is its scores, and a score is who wrote it last. Spans and Langfuse are
left out: nothing reads them back.

### Chunking

`chunk_file` as a function of a file: `Windows`, `MarkdownChunks`, `CodeChunks`
(`Definitions`, the gaps between them, `Trailing`) and the choice between them.
A line is blank, a heading or text; a syntax tree is its nodes, each with its
rows and the nodes `above` it; `parser` says whether a grammar is there and parsing
succeeds. The loop over windows is the set of rows they start at, `WindowStarts`. A
chunk is a range of lines with its symbol; its text is those lines.

### Retrieval

`Retriever.retrieve`: `DenseLeg`, `SparseLeg` (a scroll that may end at any
page, BM25 that may be missing), `Rank` (`ByDense`, `BySparse`, `ByFusion`), `Rerank`.
`Native` and `PrefixOk` are the filter as Qdrant and as `search` apply it,
`Search` the over-fetch. Chunks are numbered in the order of the vector search and
scores are integers. `alpha` is in parts of `Whole`, and the weighted sum of the two
legs is exact: `DensePart` and `SparsePart` are in parts of `Whole` and of the
spreads of both legs, so that nothing is rounded. A stable sort is the one ordering of
the places that sorts them, a filtered list a fold (`Among`).

### Citations

The retriever node and the two lists made of its evidence: `RunQuery` (a query may
raise), `Assemble` (`MergeEvidence`, the cut, `BuildCitations`, `PackContext`
with its trimmed block). A hit is a span and a score; a text is its length.

### Embeddings

The embedder, the collection and one run of the ingestor beside queries:
`StartRun` (which files an incremental run skips: `MaySkip`, `MustSkip`),
`Load` and `Probe` (`_ensure_model`, which sets the model before it probes it),
`EmbedLocal`, `EmbedRemote` (`OllamaEmbedder`, one request a text, zeros for a failure),
`Ensure` (`ensure_collection`, which keeps what exists), `Upsert` (a request of up
to `Request` vectors, the next one whatever became of it), `Query`,
`Delete`, and `Restart` with other settings. A vector is its dimension and
whether it is zero. Chunks are numbers in the order of the walk, `FirstOf` names
the first of each one's file; `todo`, those not yet embedded, and `vectors`, those
of the batch left to store, are sets. The one hash the store reports of a file is
that of whichever stored chunk the scroll comes to first: the file is skipped if
that is its first chunk. So it is never skipped when the first chunk has no point,
always when only the first has, and either way otherwise; where the other chunks are
does not matter. `Flushed` takes whole files, as `pending` does. The files do not
change here: edits are in `Ingest`.

### ToolRuns, ReadFile, CodeScan

`ToolRuns`: a call of repo_search, run_tests, run_lint or git_diff, from the
checks of its arguments in the tool's own order (`Validate`), `_check_command`
(`Check`) and `run_subprocess` (`Finish`, `Timeout`, `NotOnPath`,
`LaunchFails`) to the reading of the output (`Read`, `PythonSearch`). Output is
counted in units: a test, a finding, a match; matches are numbered in their
file, because rg caps each file on its own. `path` and `denied` are the verdicts of
`safe_path` and of the command check; `Raise` is any other exception of a tool,
which `_run_guarded` turns into a failed result. `which` says whether the program
is there. run_tests and run_lint look for theirs beforehand; rg and git are started
all the same, and when missing the call of the program ends with 127 (`NotOnPath`). `Seen` is
what the fallback search comes to see: matches in files too large or not readable
are passed over and told by nothing (`unseen`).
`ReadFile`: the byte budget and the slice of read_file, on the offsets at which
the lines of the file end.
`CodeScan`: the walks of static_analysis and dep_tree with their limit, their
notes and the missing `__init__.py`.

### Metrics and Evals

`Metrics` has the five heuristic metrics and the judge as operators on sets of
words, in exact fractions of `One`. `Evals` runs a dataset through them
(`Answer`, `ChatRaises`, `Evaluate`, `Aggregate`) and scores a chat turn
(`ChatTurn`, with the row `GET /evals` makes of the stored scores).

### Workspaces

`POST /workspaces` in threads: `List` and `Insert`, the two calls of the store,
with `_unique_slug` between them. A slug is a sequence of parts, so that a name
may be the numbered form of another.

### WorkingTree

The directory of one repository: `connect` (`ConnectLocal`, `ConnectGit`,
`Look`, which finds a clone or decides to make one, `ConnectEnds`) and an index run
(`Open`, `Pull`, `RunCloned`, `Walk`)
that may both clone into it (`CloneBegins`, `CloneEnds`, `CloneFails`, with the
second try without the branch), `Resolve` of the tools, and a remote that is
pushed to, a path that comes and goes, a crash that leaves a clone half made.

### StatusServer, StatusCard, RepoButton, WorkspaceView

`StatusServer` is the part of `IndexingService` a browser can tell: the row, the
jobs, the pointer, and the order of a commit. `StatusCard` is the ingestion card
(`JobProgress`): `poll`, `timer` and `list` are its requests in flight, its
scheduled tick and the page's reloads; `Render` re-arms the loop when activity
flips. `RepoButton` is the button of a repository's page (`RepoActions`), with one chain
of polls. `WorkspaceView` is `WorkspaceProvider` with the chat page's scope, the
creation of a workspace and the connect form: `call` holds the requests in
flight, each with the workspace its closure was made for, and is applied
whatever is selected by then. Rendering, drawers and texts are left out.

## 4. Runs

| Run | Module | Bounds | Checks |
|---|---|---|---|
| `store` | `MCIndexingService` | 2 jobs, local or git, no Redis, 1 store error, 1 restart, fairness | `SettledRepo`, `ImplementsLifecycle`, `JobsEnd`, `RepoLeavesIndexing` |
| `races` | `MCIndexingService` | 2 jobs, 1 client, Redis up, no failures, symmetric jobs | `ViewNeverRegresses` |
| `loss` | `MCIndexingService` | 1 job, 1 client, 3 progress values, 2 Redis failures, 1 store error, 1 restart | `TypeOK`, `RedisBehindStore`, `ViewNeverRegresses` |
| `ingest_overlap` | `MCIngest` | 2 runs, 1 file, batches of 2 chunks and 1 point, 1 failure, 1 edit, 1 restart, symmetric runs | `FullRunCovers`, `IncrementalRunFindsFirst` |
| `ingest_batches` | `MCIngest` | 1 run, 3 files, batches of 2, reports every second file, 2 failures, 1 edit, 1 restart | `TypeOK`, `ChunksAccounted`, `ReportsGrow` |
| `agent` | `MCAgentGraph` | 2 repositories in 2 workspaces, 2 chunks each, 2 rounds of 1 tool, 2 results kept, fairness | `TypeOK`, `RunBounded`, `AnalysisSeesResults`, `IndicesPointAtEvidence`, `ScopeKept`, `FallbackNotConfident`, `ImplementsRequest`, `RequestsAnswered` |
| `evidence` | `MCEvidence` | see below | `ChunksSound`, `VectorsHeal`, `RetrievalSound`, `CitationsSound` |
| `tools` | `MCTools` | see below, fairness | `CallsGuarded`, `ReportsHonest`, `Answered` |
| `web` | `MCWeb` | see below, fairness | `SpinnersBacked`, `ShownListed`, `PagesSettle`, `RefreshAfterEnd` |
| `services` | `MCServices` | see below, fairness | `DuplicatesOverlap`, `TreeHeals`, `WholeKept`, `RequestsEnd` |
| `traces` | `MCTraces` | see below | `IndexSound`, `RowsRight`, `GradesBacked`, `ScoresOnlyGrow` |
| `observed` | `MCIndexingService` | 1 job, 1 client | `ObservedTerminalTogether`, a comment of the code that it does not keep |

Five of the runs hold several modules each. Their MC module has one more
variable, chosen in the initial state, that says which module moves; the
variables of the others are `Idle` for good, so the run is the union of the
runs each module would have alone. A module's constants are those of the MC
module, whose configuration gives them their values, or are given where it is
instantiated, several times if it is checked on more than one instance. A
property of such a run is a conjunction, one part for each module, of
properties defined in that module:

| Property | Instance | Conjuncts, by their names in the modules |
|---|---|---|
| `ChunksSound` | `Chunking`: every markdown of 8 lines, plain text of 8 and 9, code of 10 lines with every pair of nodes; windows of 3 overlapping by 1 | `TypeOK`, `Covered`, `Together`, `NoneInside`, `DefinitionsWhole`, `Bounded` |
| `VectorsHeal` | `Embeddings`: a file of 2 chunks and one of 1, batches of 2, requests of 1 vector, both backends, right and wrong dimensions, 2 failures, 1 restart | `TypeOK`, `AgreedAccepts`, `NoChunkLost`, `FullRunHeals` |
| `RetrievalSound` | `Retrieval`: 4 chunks, every dense order and lexical scoring, 3 weights, top 1 or 2, a corpus limit of 3, pages of 2; and fewer scorings with every strategy, filters and reranking | `TypeOK`, `Dominance`, `DenseAlone`, `EmptyOnlyIfNothing`, `ScoresDescending` |
| `CitationsSound` | `Citations`: 3 spans, 3 queries of up to 2 hits, evidence of 2, a budget of 20 with texts of 3 and 4, or of 21 and 22 | `TypeOK`, `MarkersAgree`, `BestKept`, `WithinBudget` |
| `CallsGuarded`, `Answered` | `ToolRuns`: every call of 4 tools, every program of up to 4 units of output, a limit of 3 | `TypeOK`, `OnlyChecked`, `OkMeansRan`; every call is answered |
| `ReportsHonest` | the same; `ReadFile`: every file of up to 4 lines, every pair of bounds, every limit; `CodeScan`: every walk of 3 files of 6 sorts in 3 directories, a limit of 2 | `CutIsTold`; `TypeOK`, `Requested`, `NothingHidden`; `TypeOK`, `CutIsTold`, `CleanIsClean`, `InitsRight` |
| `SpinnersBacked` | `StatusCard`: 3 polls and 1 reload in flight, 1 job, 1 failure; `RepoButton`: 2 jobs, 2 failures; `WorkspaceView`: 3 workspaces, one of them to be created, 2 repositories, 2 requests in flight, 3 moves, 1 failure | `TypeOK`, `LoopAlive`; `TypeOK`, `SpinnerBacked`; `SpinnerBacked` |
| `ShownListed` | the same `WorkspaceView` | `TypeOK`, `AloneIsRight`, `ScopeListed` |
| `PagesSettle` | `StatusCard` with 2 polls; `RepoButton` with 2 jobs | `ViewSettles`; `KickRefreshes` |
| `RefreshAfterEnd` | `RepoButton` with 1 job, 3 failures | `RefreshedAtEnd` |
| `TreeHeals`, `WholeKept` | `WorkingTree`: 1 connect, index runs, 2 commits, 4 failures, 1 crash | `TypeOK`, `RetryHeals`, `ToolsFindTree`; `WholeStays` |
| `RequestsEnd` | `Workspaces`: 4 requests, three of one name and one named as its second; `TraceStore`: 2 requests, 2 failing commands | `EveryRequestInserts`; every thread ends |
| `IndexSound`, `ScoresOnlyGrow` | `TraceStore`: 3 requests (1 chat), 2 traces kept, a reader of 2 with any filter, 1 failing command | `TypeOK`, `IndexedHasRecord`, `IndexIsNewest`, `IndexBounded`, `ListingSound` |
| `GradesBacked`, `RowsRight` | `Evals`: a dataset of 2 examples, answers of every shape, 5 judges; 1 chat turn | `TypeOK`, `BrokenFails`, `FailureVisible`, `NamingNeverHelps`; `RowsInOrder`, `RateBacked`, and `OverviewAgrees` of the turn |

Every conjunct, some of the type invariants apart, has a mutant of its own: a
one-slip change of the code under which that conjunct is violated.

Why the bounds are enough. Threads interact through one row and one pointer,
so two jobs show every order of two read-then-write pairs; a third adds
no new pair. One client is enough because polls write nothing. One
store error reaches each of the error paths, and two Redis failures let a
write be lost and a key vanish. The `*Correct`, `RepoSettles`,
`RedisFollowsStore` and `JobsLiveTheirLifecycle` theorems remove the bounds
for what they state.

For `Ingest`: runs meet only in the points of a path, so two runs and one file
show every way a skip can rest on another run's half-finished upserts; contents
of up to two chunks that share the first or the second chunk tell the skip that is right from
the one that is not; three files and batches of two make batches that end
inside, at and after a file. The theorems remove these bounds.

For the others. `AgentGraph`: a request shares nothing with another but what it
reads, so one is enough; two rounds of one tool and two results kept stand in the
ratio of the code's two rounds of three and six, so that the results just fit. `TraceStore`: a record is written by its
own request only, and threads meet in the index and in the client; a
third request makes a trim come between the push and the trim of two others.
`Chunking`: ten lines hold a definition longer than three windows of three lines,
or shorter ones with gaps before, between and after them. `Retrieval`: of four chunks, three may be in the corpus and two
in the answer, so each cut leaves something out. `Citations`: three queries let a better hit
replace one that already displaced another; texts of one size fit the budget together,
of the other a block is trimmed, the first or the second, or dropped. `Embeddings`: three chunks in batches of two make a batch
before and a batch after the dimension is known, and a request of one vector splits the
file of two chunks (the code's requests are 256 points, so there it takes a batch of more,
which a file of more than 256 chunks or several files make, or a restart between two
requests). `WorkingTree`: four failures
let both actors fail both their clones. `StatusCard`: a third poll is
the one the button sends beside a cancelled loop's and the loop's own.
`WorkspaceView`: two requests are a load and the one that overtakes it. The
functions (`Chunking`, `ReadFile`, `CodeScan`, `Metrics`) are run over every
input of their size. The theorems of section 5 remove these bounds for every
safety property of every module. Deadlock checking is off in the runs whose modelled
activity comes to an end; with a client that polls for ever it is on.

Fairness. `FairSpec` asks weak fairness of the steps of each thread after its request began:
the operating system runs threads, and `ingest` walks a finite
list with calls that return or raise. It asks nothing of requests, polls,
failures or restarts. `JobsEnd` and `RepoLeavesIndexing` are about behaviours
without the last two (`Undisturbed`): after a restart the job stays running for
ever, since `lifespan()` repairs nothing.

The other fair specifications follow the same rule. `AgentGraph` and `ToolRuns`: nodes and calls
end because every model call and every subprocess has a timeout, which in `ToolRuns` is
the only thing that must happen once a program hangs. `TraceStore`: each
request's thread, and the client's construction. `Workspaces`: each request.
`StatusCard` and `RepoButton`: the server's jobs go on, timers fire, and a
request is answered or fails; nothing is asked of the user, of other pages or
of failures. The MC modules that combine modules restate these conditions of
their parts in their own `Spec`.

### What the docs say and the code does not do

Statements of the docs, of comments or of docstrings that the models, which
follow the code, do not satisfy. Each is a definition at the end of its module.
The run `observed` checks the first and finds it violated; no run checks the
others: they are there to be named in the configuration of the module when the
code changes to keep them, or the text is corrected.

- `IndexingService!ObservedTerminalTogether`: "a client that observes a terminal job always sees a terminal
  repo too". The worker writes the row first, but `get_status` also reads the row
  first, so the answer can pair the old row with the new job.
- `IndexingService!AnswersLatestJob`: "its latest job". With overlapping jobs the pointer and the stamp
  favour whichever was saved last.
- `IndexingService!CompletedStatsKept`: "refreshed stats". `start_index` writes back a row it read before
  another job completed, with the stats of before.
- `IndexingService!EndedJobsSettleRepo`: "becomes indexed (or error)". The connect request writes its
  registered object over the row of a job that ended during the clone.
- `Ingest!EditsReindexed`: "Any edit changes at least one chunk's content hash, which
  flips the file back". Only the first chunk's hash is compared: an edit below
  it is skipped and its chunks never reach the store.
- `Ingest!RebuiltFromScratch`: "rebuild from scratch". A full run adds points with fresh
  ids; the points of the old content stay and are still found by searches.
- `AgentGraph!NodesNeverRaise`: "Nodes never raise". `as_int` lets the `OverflowError` of an
  infinite number through (the model wrote 1e999).
- `AgentGraph!OwnTextIsTold`: "every model/tool failure becomes a `warnings` entry plus a
  grounded fallback". A reply without an answer gets the fallback and no warning; the sentence
  may be of an unreachable model only.
- `AgentGraph!CrashKeepsEvidence`: "carrying whatever evidence was gathered". `_run` answers with
  the state the run began with.
- `AgentGraph!WarningsSurface`: "All warnings surface". Debug and review responses have no
  such field.
- `AgentGraph!EvidenceInWorkspace`: "Empty = search all repos in workspace". No query carries
  the workspace: every repository is searched.
- `TraceStore!EveryRequestTraced`: "Every model call, retrieval, and tool run is traced". A caller
  of `_redis()` beside the first gets no client, and its trace is dropped.
- `TraceStore!OverviewEvaluated`: the overview derives from "the scores online evaluation
  pushed". It also shows debug traces, which only the judge node scored.
- `TraceStore!OverviewReadsEvals`: "Redis list the API's GET /evals reads from". Nothing reads it.
- `Chunking!RowsExact`: "exact `file:line` evidence". Lines are split at form feeds too,
  and rows of the tree are not.
- `Retrieval!RerankSeesPool`: "fetch wider than top_k before fusion/rerank". The encoder
  gets evidence already cut to top_k.
- `Retrieval!PrefixYieldsTopK`: "path-prefix filtering still yields top_k". Hits that hold
  the prefix elsewhere use up the over-fetch.
- `Citations!CitationsDisjoint`: "Overlapping chunks ... are collapsed". Only equal spans are.
- `Embeddings!UnchangedIsIndexed`: "True if this file is already indexed unchanged". The file's
  one reported hash is compared with its first chunk: when the second of two requests of an
  upsert fails, the first chunk stands for the file, and incremental runs in which nothing
  fails leave the other out.
- `Embeddings!UsesModelDim`: "uses the *model's* real dim". The collection is created
  before the model is loaded.
- `Embeddings!FullReindexHeals`: re-index fully after a new dimension. The old collection stays
  and refuses every batch.
- `ToolRuns!CleanMeansClean`: "ruff exit 0 = clean". A report that was cut cannot be parsed and
  counts as clean.
- `ToolRuns!NoTestsIsOk`: "5 = no tests collected (treat as soft-ok)". It fails.
- `ToolRuns!FallsBack`: "fall back to a Python walk if rg is absent or errors". Only if
  absent.
- `ToolRuns!FallbackFindsAll`: "Search the workspace for a regex/literal pattern (ripgrep, with
  a Python fallback)". The walk passes over large and unreadable files, and says nothing of it.
- `ToolRuns!CapHolds`: "cap on emitted lines". rg caps each file.
- `ReadFile!SliceReturned`: "Returns the requested slice". Lines beyond the bytes read are
  shown as an empty file.
- `Evals!UnusableFallsBack`: an unusable result should leave the heuristics. A missing
  grade scores 0.
- `Evals!JudgeNeverRaises`: "Never raises". `float()` of an integer of 310 digits does.
- `Evals!KeywordsCounted`: covered "if all its content terms appear". Words of two
  letters are in the keyword's terms and never in the answer's.
- `Evals!PassedStable`: "a `passed` flag is stable across callers". `GET /evals` has a
  threshold of its own.
- `Workspaces!SlugsUnique`: "deriving a unique slug". Two requests that both list before
  either inserts get the same.
- `WorkingTree!PullsOnIndex`: "leave it for the ingestor's incremental pull". The stored path
  is preferred and never pulled.
- `StatusCard!BadgesInSync`: "badges stay in sync". Reloads answered out of order leave the
  older one.
- `RepoButton!PollsUntilSettled`: "polls status until the run settles". A failed poll ends it.
- `WorkspaceView!ReposOfSelected`: "belonging to the selected workspace". The answer applied last
  wins, whichever workspace it is of.
- `WorkspaceView!FailuresSurface`: "failures surface". A failed load of repositories is an empty list.
- `WorkspaceView!ScopeFollowsSwitch`: "Drop selections that no longer exist after a workspace switch".
  Until the new list is there the old one is compared with.

## 5. Proofs

Every theorem is about the specification a run checks, or the same module
without the run's other parts, for all values of its constants; what it assumes
of them are the named assumptions of the modules, which TLC evaluates in the
runs. Where a property is not inductive the invariant that is was first checked
by TLC on the instance of the run. Every proof has the same shape: the initial
states satisfy the invariant, each action keeps it (a lemma for each, or for
each group that disturbs the same parts), a stutter does, and the last step is
temporal.

| Module | Invariant | Theorems, and the property of a run each states |
|---|---|---|
| `IndexingService_proofs` | `SafetyInv`, `ViewInv` | `TypeCorrect`; `RepoSettles`: `SettledRepo`; `RedisFollowsStore`: `RedisBehindStore`; `JobsLiveTheirLifecycle`: `ImplementsLifecycle`; `ViewsMoveForward`: `ViewNeverRegresses` |
| `Ingest_proofs` | `LoopInv`, `IndexInv` | `TypeCorrect`; `ReportsOnlyGrow`: `ReportsGrow`; `EveryChunkAccounted`: `ChunksAccounted`; `FullRunsCover`: `FullRunCovers`; `IncrementalRunsFindFirst`: `IncrementalRunFindsFirst` |
| `AgentGraph_proofs` | `IInv`, `Pointing` | `TypeCorrect`; `RunsAreBounded`: `RunBounded`; `AnalysesSeeResults`: `AnalysisSeesResults`; `ScopeIsKept`: `ScopeKept`; `FallbacksAreHumble`: `FallbackNotConfident`; `IndicesAreGood`: `IndicesPointAtEvidence`; `GraphRefinesRequest`: the safety part of `ImplementsRequest` |
| `TraceStore_proofs` | `TraceInv`, `EvalsInv` | `ListsAreSound`: `IndexSound`; `ScoresAreKept`: `ScoresOnlyGrow`; `RowsAreRight`: `RowsRight`; `GradesAreBacked`: `GradesBacked` |
| `Evidence_proofs` | `ChunkInv`, `EmbedInv`, `RetrieveInv`, `CiteInv` | `ChunksAreSound`: `ChunksSound`; `VectorsAreHealed`: `VectorsHeal`; `RetrievalIsSound`: `RetrievalSound`; `CitationsAreSound`: `CitationsSound` |
| `Tools_proofs` | `RunInv`, `ReadInv`, `WalkInv` | `CallsAreGuarded`: `CallsGuarded`; `ReportsAreHonest`: `ReportsHonest` |
| `Services_proofs` | `SlugsInv`, `TreeInv` | `TypeCorrect`; `OverlapOnly`, `SlugsInServices`: `DuplicatesOverlap`; `TreesAreHealed`: `TreeHeals`; `WholeTreesStay`: `WholeKept` |
| `Web_proofs` | `CardInv`, `ButtonInv`, `LoneInv`, `ViewInv` | `SpinnersAreBacked`: `SpinnersBacked`; `ShownIsListed`: `ShownListed`; `RefreshesAfterEnd`: `RefreshAfterEnd` |

**IndexingService.** Assumption: `ConstantsAssumption` only (`NoJob` is no job,
the bounds are naturals, sources are local or git); the sets of jobs and clients
and all bounds are arbitrary. `SettledRepo` is not inductive: it says nothing of a
state in which a job still runs. `SafetyInv` adds what each thread's program
counter says of its job (`ThreadOK`), of the object it has stamped and not yet written
(`DraftOK`: it follows the job's row) and of its publication (`PublishOK`), who
may leave the row "indexing" or "registered" (`RowOK`: a row that says indexing
belongs to an active job whose commit is still ahead, `Uncommitted`), the order of the
stamps (`StampsOK`) and `RedisBehindStore`. The five actions that stamp a job share one
argument, the steps that only move a thread share another; the write, and the three
writers of the repository row, have lemmas of their own.

`ViewNeverRegresses` speaks of two answers of `get_status` that may come from
the mirror once and from the table the other time. `ViewInv` says of all
copies of a job's row (in the table, in Redis, in a poll, in a client's last
answer) that those with earlier stamps are earlier in its life and none is later
than the table's (`CopiesInOrder`); that creation stamps are distinct, also those of jobs
not yet inserted (`CreationOK`); and that what was read is of a job in the table
(`ReadOK`). The theorem has the premise of the property, `NotPassed`: no newer job
was stamped before the row the client has. A copy older than that row then loses against
the newer job's stamp, and the job named does not stay the same; without a newer
job the latest row is the table's own. The premise is needed. Because stamps are taken
outside the lock, a job stamped at 2 may be inserted after a client saw an older
job's row of 5 in the table, and the next poll prefers that job's Redis copy of 3 to it:
with the premise dropped, the run `races` shows it in some twenty steps.

**Ingest.** Assumption: `ConstantsAssumption` (contents are sequences of bodies,
sizes are positive, markers are distinct from data). That a fraction is a
percentage and never falls is not inductive: it needs `ProgressOK`, that the
index plus the files left is at most `total`, and that integer division is
monotone (`DivMonotone`). For the index, `IndexInv` adds `BatchOK`, where the
chunks of a run may be at each step; `HashesHeld`, that a reported or remembered
hash is of a chunk held, which is why a stale or truncated answer of
`content_hashes` does no harm; and `CoverOK`, that a clean run owes nothing for
the files it has left behind: what it needs of them is held or waiting. Steps of
other runs keep the last because the store only grows (`HeldGrows`). The
theorems hold for any number of runs and files, any contents, batch sizes,
failures, edits and restarts.

**AgentGraph.** Assumption: `ConstantsAssumption`: the results kept cover the
rounds times the calls, and the recursion limit covers the rounds, as the
constants in the code do; there are finitely many repositories. `IInv` adds to the properties `Counted`, how many
steps, rounds and model invocations lie behind each node (without it
`RunBounded` says nothing of the next step); `Informed`, that the results held
are those of the tools that ran, that they fit the budget of the rounds so far
(`NextBudget`, the only nonlinear step) and when the last analysis saw them;
`Sure`, who answered, how sure, and whether a warning was left; and `InScope`. Steps before the first
analysis share one argument (`EarlyStep`), the two ways through the action
planner another (`PlannedStep`), as do all answers of the synthesizer
(`AnswerStep`). It follows from `WithinLimit` that no node meets LangGraph's
recursion limit. `IndicesPointAtEvidence` compares indices with a cardinality:
`Pointing` says that there are none before the synthesizer answered, that those
there are lie in the evidence it was shown, and that the evidence, a set of
finitely many chunks, is no longer touched after it.

**TraceStore.** Assumptions: `ConstantsAssumption` (a finite set of requests,
positive bounds) and `NoneAssumption`. The index is read while threads push and
trim it. `TraceInv` relates it to the history of pushes: it repeats the end of
`pushed`, newest first (`IndexOK`), has lost entries only to a trim, and is
longer than the bound by at most the threads that still have to trim (counted
with the cardinality lemmas of the library). `ThreadOK` says that an id is pushed once
and after its record, and that what a thread is about to write takes no score
back; `ReaderOK`, that what a reader showed is newer than what it has still to
look up. From the latter two the properties follow.

**Evals** (in `MCTraces`). Assumption: `Assumptions`, the `ConstantsAssumption` of both
instances: an example's words and files and an answer's are finite sets, citations,
evidence and tools are sequences, scores of evidence and the judge's grades are
integers, `NoNumber` or `Huge`, and an answer has fewer than 100 tools (the graph keeps 6;
of 100 tools with one failure, `tool_success` would reach its threshold). The dataset, the
answers, the judge's replies and their number are arbitrary. `DatasetInv` says of
each row that it is its example's, has the five metrics in order, each within 0 and
1 and passed only from its threshold on (`ScoresOK`), and does not pass when the
answer behind it is broken (`RowOK`). Most of the proof is about `Metrics`: that
each heuristic comes out as a number (`GroundingIs` to `RetrievalQualityIs`), that
rounding is monotone and keeps the range (`RoundedIs`, `RoundedGrows`), that one
failed tool of fewer than 100 stays below the mark (`ShareIs`), and that the judge
replaces none but its two metrics, and those only of an answer that has citations
(`JudgedIs`, `ReplacedIs`). `RateBacked` sums over the rows: `SumAtLeast` proves, of any finite
function to the integers, that its `SumFunction` is an integer and at least *t* for
every member of a set on which the function is at least *t* and nowhere negative. The
library's induction theorems take an operator and cannot be used, so the lemma
`Counting` states induction for a set of numbers, from the least number outside it.

**Embeddings** (in `MCEvidence`). Assumption: `Embeddings!ConstantsAssumption`:
chunks are a finite set of
numbers, those of a file follow one another, dimensions are positive (0 stands for no collection). `EmbedInv` adds that vectors
are at hand only between a batch and its upsert (`AtHand`); that once the
embedder and the collection agree, everything the embedder makes fits
(`Agreement`); and, of a run that may still come to be claimed for, that each
chunk of a full run, and each first chunk of a file, has a point, is at hand or has its
turn to come (`ChunksKept`), and in a full run the same of its true vector (`TruthKept`).

**Chunking** (in `MCEvidence`). Assumption: `Chunking!ConstantsAssumption`: the
overlap is smaller than the window, headings and the rows of nodes are lines of the file.
`ChunkInv` says that the chunks, once there, are those of the file, so the
properties are facts about what `chunk_file` computes, for files of any length
and trees of any shape. `WindowStartsAre`: a window starts at each
multiple of the step, up to the first window that reaches the end. From it follow
that windows leave no row out (`PieceCovers`), lie within the piece and none inside
another (`PieceWithin`, `PieceApart`). A markdown file is its sections
(`SectionIs`, `MarkdownIs`), a code file its definitions and the gaps
between them and after the last (`GapIs`, `DefinitionChunksAre`, `CodeIs`).
`AllTogether`, which is `Together` for each pair of lines with the boundaries
named (`Split`), is proved of each of the three, `CoveredBy` puts their parts together.

**Retrieval** (in `MCEvidence`). Assumption: `Retrieval!ConstantsAssumption`: the collection
is finite, the vector search ranks it by its dense scores, a scroll lists no
chunk twice, `top_k` is positive, the weight is between none and the `Whole`. The
size of the collection, all scores, filters and limits are arbitrary. `RetrieveInv` says
of the dense leg that it rises in the numbering and leaves out no fitting chunk
before one it holds (`DenseLegOK`), of the corpus that it fits and repeats nothing
(`CorpusOK`), and of the evidence that it is the cut of the fused ranking until the
encoder orders it (`Answered`). The stable sort keeps its elements, orders them and leaves what
is in order alone (`SortedKeeps`, `SortedBefore`, `SortedSame`); that it
exists is `SortExists`. `Dominance` follows from `BetterIsBefore`: both parts of
the weighted sum are monotone (`NormIs`, `Products`), and on a tie insertion order,
which begins with the dense leg, decides (`InsertedIs`, `FusedIs`). `DenseAlone`
follows from `DenseOrder`: with no weight on the sparse leg, or no lexical match,
the fused scores sort the dense leg and what comes after it as they were.

**Citations** (in `MCEvidence`). Assumption: `Citations!ConstantsAssumption`: the bounds are
naturals, a separator has a length, and the mark of a trimmed block fits in the
slack that is kept for it. `CiteInv` adds to the properties that what was found are
lists of hits. `UniqueIs` says of merging that one hit of each span is
left and none found was better; `ByScoreIs`, that sorting
takes none away; `CitedIs` and `CitationsAre`, that citations are the evidence in
order, numbered from one. Packing adds up lengths until one exceeds the budget:
`PackedExists` says how many blocks are taken whole and that only the next may be
trimmed, `ContextIs` that with it the whole still fits.

What a fold or a recursive function computes is proved with no rule of induction
over data. `Counting` states induction over numbers for a set; `FoldExists` and
`ChainExists` derive from it that a function with the fold's equation exists, so
that the library's CHOOSE has something to choose, and a lemma for each fold says what its
steps keep (`AmongFolds`, `UniqueFolds`, `CitationsFold`, `TotalFolds`).

**Tools** (in `MCTools`). Assumption: the three `ConstantsAssumption`s: results and numbers
are told from `None`, the lines of a file end one after the other, a walk is a finite
sequence; of a program only that it exits with a number and prints finitely many
things, and of pytest that exit code 0 means that no test failed. `RunInv` says
what each point of a call has passed (`Passed`), that exit codes 0 and 1 are the
program's own, of one that is there, and come with the cut of what it printed
(`OwnExit`: 124, 127 and -1 are not among them), and what an answer claims (`Sound`). `ReadInv` holds the
result to the slice; that a slice with no mark is the file needs that the lines
that begin within the budget are the first ones (`FirstLines`). `WalkInv` says
of a walk that no limit stopped that the counter is the number of files
analysed behind it and that nothing wrong with them went without a note
(`Behind`).

**Workspaces and WorkingTree** (in `MCServices`). No assumption on requests and names; `MaxCommits`
and the bounds are numbers. `SlugsInv` says that what a request listed are the
slugs of the rows that were there, and that a slug once inserted stays; so
workspaces that share a slug were created by requests that overlap
(`OverlapOnly` of the module alone, `SlugsInServices` within the run). `TreeInv`
says that at most one of the two actors clones, and into a directory nobody
else fills (`OneClone`), that a row with a URL never names a mounted path, also
in a copy an actor holds (`RowOK`), and how far an undisturbed run got
(`RunOK`). `WholeKept` is an action property: each step of either actor that
touches a whole tree leaves it whole.

**Web client** (in `MCWeb`). Assumptions: `CardAssumption`, `ButtonAssumption` and
`WorkspaceView!ConstantsAssumption` (finite sets of requests in flight, more
than one poll). `CardInv`: the armed loop of a card on the page waits for its
tick or for exactly one poll, and for no place that is free. `ButtonInv` is the
spinner's property with its types; `LoneInv` adds, of the only job, that what
a poll read of it stays true once it ended, from which `RefreshAfterEnd`
follows step by step. `ViewInv` says what each request in flight carries
and was answered (`CallsOK`), that the scope lies in the list shown
(`Scoped`), and that a request that is alone in flight, or the page when none is,
leaves a selection and a list that belong together (`Alone`).

**Only model-checked.** Liveness is out of the prover's reach: `JobsEnd`,
`RepoLeavesIndexing`, `RequestsAnswered` and the liveness part of
`ImplementsRequest`, `Answered`, `PagesSettle`, `RequestsEnd`.
`ObservedTerminalTogether` is violated and therefore not proved. Every other
property of a run is stated by a theorem.

## 6. Not modelled

- The chat panel's transcript: it allows one request at a time, so its state is
  sequential; the drawers and everything that only renders.
- Prompts and the texts of answers, the protocol of a model provider and the
  construction of its client: the graph depends on the outcome of a call only,
  and every outcome is allowed.
- The HTTP routes for chat, debug, review and traces beyond what `AgentGraph`,
  `TraceStore` and `Evals` take from them: they convert and delegate.
- Spans, the Langfuse mirror: written and never read back by this program.
- What parsers, regular expressions, tokenizers and encoders compute; path
  resolution inside `safe_path`, whose verdict is a choice. The manifests
  `dep_tree` lists, the loading of dataset files, the command line of the evals.
- A restart of Redis or Qdrant that loses what it had acknowledged, other than
  by expiry, eviction or a deleted repository.
- What the chat page takes from its URL when it opens (a scope to begin with), and an
  answer of `StatusCard` that has no free place in the bounded list of reloads:
  `PollAnswered` waits for one, so the bound of reloads in flight also orders them.
- An exception inside the walks of `CodeScan`: `_run_guarded` answers any with a failed
  result, as `ToolRuns!Raise` does.
- The seed script and the demo repository: they call the API once and wait.
