------------------------------- MODULE Ingest -------------------------------
(***************************************************************************)
(* Ingestor.ingest on one repository: overlapping runs (one per index job) *)
(* that walk the working tree, skip files the vector store seems to hold   *)
(* already, and embed and upsert the chunks of the others in batches.      *)
(*                                                                         *)
(* A chunk is its body, and its content_hash stands for it.  Qdrant returns *)
(* points in the order of their ids, which are drawn afresh each time a    *)
(* file is chunked, so what content_hashes reports for a path (the first   *)
(* hash it sees) is kept in `first' beside the bodies held for that path.  *)
(***************************************************************************)
EXTENDS Naturals, Sequences, FiniteSets

CONSTANTS
    Runs,           \* calls of ingest
    NumFiles,       \* paths are numbered in the order _walk sorts them
    Bodies,         \* chunk bodies
    Versions,       \* contents a file may have: sequences of chunk bodies;
                    \* <<>> is a file that is blank or looks binary
    Gone,           \* no such file, or one that _should_index refuses
    NoHash,         \* no hash known for a path
    Scopes,         \* sets of paths a request may select
    EmbedBatch,     \* _EMBED_BATCH
    UpsertBatch,    \* points per request to Qdrant
    ReportIndexed,  \* report after every so many files, when one was indexed
    ReportUnchanged, \* ... and when it was skipped as unchanged
    MaxFaults,      \* bound on failing calls
    MaxEdits,       \* bound on edits of the working tree
    MaxRestarts     \* bound on restarts of the API process

Files == 1..NumFiles

ASSUME ConstantsAssumption ==
    /\ NumFiles \in Nat
    /\ Versions \subseteq Seq(Bodies)
    /\ Gone \notin Versions
    /\ NoHash \notin Bodies
    /\ Scopes \subseteq SUBSET Files
    /\ EmbedBatch \in Nat \ {0}
    /\ UpsertBatch \in Nat \ {0}
    /\ ReportIndexed \in Nat \ {0}
    /\ ReportUnchanged \in Nat \ {0}
    /\ MaxFaults \in Nat
    /\ MaxEdits \in Nat
    /\ MaxRestarts \in Nat

VARIABLES
    tree,         \* the working tree: content of each path
    held,         \* bodies that some point holds for each path
    first,        \* body of the point Qdrant returns first for each path
    pc,           \* next step of each run
    incremental,  \* request.incremental
    scope,        \* the paths that match request.paths
    todo,         \* files the loop has not finished
    seen,         \* the loop's index i
    total,        \* max(1, len(files))
    known,        \* existing_hashes
    pending,      \* chunks waiting for a batch to be full
    vectors,      \* embedded chunks waiting for their upsert
    stats,        \* RepositoryStats: files, skipped, chunks
    reported,     \* last fraction reported, in percent
    stored,       \* history: chunks of the run that were upserted
    dropped,      \* history: chunks of the run that a failure lost
    clean,        \* history: since its walk no file was edited, and the run
                  \* lost nothing
    faults, edits, restarts

qdrantVars == <<held, first>>
requestVars == <<incremental, scope>>
loopVars == <<todo, seen, total, known>>
batchVars == <<pending, vectors, stored, dropped>>
envVars == <<faults, edits, restarts>>
vars == <<tree, qdrantVars, pc, requestVars, loopVars, batchVars, stats, reported, clean, envVars>>

-----------------------------------------------------------------------------
Chunk == [path : Files, body : Bodies]
NoStats == [files |-> 0, skipped |-> 0, chunks |-> 0]
Steps == {"idle", "open", "walk", "hashes", "files", "report", "embed", "upsert",
          "finish", "returned", "dead"}
Walked == {"hashes", "files", "report", "embed", "upsert", "finish", "returned"}

BodiesOf(content) == {content[i] : i \in DOMAIN content}
Readable(f) == tree[f] \notin {Gone, <<>>}
ChunksOf(f) == [i \in DOMAIN tree[f] |-> [path |-> f, body |-> tree[f][i]]]

Init ==
    /\ tree \in [Files -> Versions \union {Gone}]
    /\ held = [f \in Files |-> {}]
    /\ first = [f \in Files |-> NoHash]
    /\ pc = [r \in Runs |-> "idle"]
    /\ incremental = [r \in Runs |-> FALSE]
    /\ scope = [r \in Runs |-> {}]
    /\ todo = [r \in Runs |-> {}]
    /\ seen = [r \in Runs |-> 0]
    /\ total = [r \in Runs |-> 1]
    /\ known = [r \in Runs |-> [f \in Files |-> NoHash]]
    /\ pending = [r \in Runs |-> <<>>]
    /\ vectors = [r \in Runs |-> <<>>]
    /\ stats = [r \in Runs |-> NoStats]
    /\ reported = [r \in Runs |-> 0]
    /\ stored = [r \in Runs |-> 0]
    /\ dropped = [r \in Runs |-> 0]
    /\ clean = [r \in Runs |-> TRUE]
    /\ faults = 0
    /\ edits = 0
    /\ restarts = 0

Goto(r, step) == pc' = [pc EXCEPT ![r] = step]
Report(r, percent) == reported' = [reported EXCEPT ![r] = percent]

Fails ==
    /\ faults < MaxFaults
    /\ faults' = faults + 1
    /\ UNCHANGED <<edits, restarts>>

-----------------------------------------------------------------------------
(* Faulty variants: one-slip mutations of the definitions below, to show    *)
(* that the properties can fail.  The specification uses none of them.     *)

\* The share of the files still to do.
FractionLeft(r) == 10 + (85 * Cardinality(todo[r])) \div total[r]

\* max(1, ...) forgotten.
WalkEmptyTotal(r) ==
    /\ pc[r] = "walk"
    /\ todo' = [todo EXCEPT ![r] = {f \in scope[r] : tree[f] # Gone}]
    /\ total' = [total EXCEPT ![r] = Cardinality(todo'[r])]
    /\ Goto(r, IF incremental[r] THEN "hashes" ELSE "files")
    /\ UNCHANGED <<tree, qdrantVars, requestVars, seen, known, batchVars, stats, reported, clean, envVars>>

\* Any hash for the path will do.
UnchangedIfKnown(r, f) == incremental[r] /\ known[r][f] # NoHash

\* The chunks that never filled a batch are forgotten.
EndLoopNoFlush(r) ==
    /\ pc[r] = "files"
    /\ todo[r] = {}
    /\ Goto(r, "finish")
    /\ UNCHANGED <<tree, qdrantVars, requestVars, loopVars, batchVars, stats, reported, clean, envVars>>

\* pending = [] forgotten.
EmbedKeepsPending(r) ==
    /\ pc[r] = "embed"
    /\ vectors' = [vectors EXCEPT ![r] = pending[r]]
    /\ Goto(r, "upsert")
    /\ UNCHANGED <<tree, qdrantVars, requestVars, loopVars, pending, stored, dropped, stats, reported, clean, envVars>>

-----------------------------------------------------------------------------
(* ingest, up to the loop over the files. *)

Start(r) ==
    /\ pc[r] = "idle"
    /\ \E inc \in BOOLEAN, paths \in Scopes :
          /\ incremental' = [incremental EXCEPT ![r] = inc]
          /\ scope' = [scope EXCEPT ![r] = paths]
    /\ Report(r, 2)
    /\ Goto(r, "open")
    /\ UNCHANGED <<tree, qdrantVars, loopVars, batchVars, stats, clean, envVars>>

OpenRepo(r) ==
    /\ pc[r] = "open"
    /\ Report(r, 6)
    /\ Goto(r, "walk")
    /\ UNCHANGED <<tree, qdrantVars, requestVars, loopVars, batchVars, stats, clean, envVars>>

\* No local path, or neither clone nor an earlier one: ingest returns.
RepoUnavailable(r) ==
    /\ pc[r] = "open"
    /\ Fails
    /\ Report(r, 100)
    /\ Goto(r, "returned")
    /\ clean' = [clean EXCEPT ![r] = FALSE]
    /\ UNCHANGED <<tree, qdrantVars, requestVars, loopVars, batchVars, stats>>

Walk(r) ==
    /\ pc[r] = "walk"
    /\ LET files == {f \in scope[r] : tree[f] # Gone}
       IN  /\ todo' = [todo EXCEPT ![r] = files]
           /\ total' = [total EXCEPT ![r] = IF files = {} THEN 1 ELSE Cardinality(files)]
    /\ Goto(r, IF incremental[r] THEN "hashes" ELSE "files")
    /\ UNCHANGED <<tree, qdrantVars, requestVars, seen, known, batchVars, stats, reported, clean, envVars>>

\* content_hashes; a scroll that fails half way returns what it has seen.
ReadHashes(r) ==
    /\ pc[r] = "hashes"
    /\ \/ /\ known' = [known EXCEPT ![r] = first]
          /\ UNCHANGED envVars
       \/ /\ \E lost \in SUBSET Files :
                known' = [known EXCEPT ![r] = [f \in Files |-> IF f \in lost THEN NoHash ELSE first[f]]]
          /\ Fails
    /\ Goto(r, "files")
    /\ UNCHANGED <<tree, qdrantVars, requestVars, todo, seen, total, batchVars, stats, reported, clean>>

-----------------------------------------------------------------------------
(* The loop over the files. *)

\* The file the loop is at, and the fraction it reports there.
Current(r) == CHOOSE f \in todo[r] : \A g \in todo[r] : f <= g
Fraction(r) == 10 + (85 * seen[r]) \div total[r]

\* Where a run goes on after _flush: in the loop, or past it.
AfterFlush(r) == IF todo[r] = {} THEN "finish" ELSE "report"

\* Count a file that is skipped; count a file, and the chunks of it to index.
Skip(s) == [s EXCEPT !.skipped = @ + 1]
Tally(s, n) == [files |-> s.files + 1, skipped |-> s.skipped, chunks |-> s.chunks + n]

\* Leave the current file behind.
NextFile(r) ==
    /\ todo' = [todo EXCEPT ![r] = @ \ {Current(r)}]
    /\ seen' = [seen EXCEPT ![r] = @ + 1]
    /\ UNCHANGED <<total, known>>

\* The file vanished since the walk, is binary, or has no chunks.
SkipUnreadable(r) ==
    /\ pc[r] = "files"
    /\ todo[r] # {}
    /\ ~Readable(Current(r))
    /\ stats' = [stats EXCEPT ![r] = Skip(@)]
    /\ NextFile(r)
    /\ UNCHANGED <<tree, qdrantVars, pc, requestVars, batchVars, reported, clean, envVars>>

\* _unchanged compares the first chunk with the one hash the store reported.
Unchanged(r, f) == incremental[r] /\ known[r][f] = Head(tree[f])

SkipUnchanged(r) ==
    /\ pc[r] = "files"
    /\ todo[r] # {}
    /\ Readable(Current(r))
    /\ Unchanged(r, Current(r))
    /\ stats' = [stats EXCEPT ![r] = Tally(Skip(@), 0)]
    /\ IF seen[r] % ReportUnchanged = 0 THEN Report(r, Fraction(r)) ELSE UNCHANGED reported
    /\ NextFile(r)
    /\ UNCHANGED <<tree, qdrantVars, pc, requestVars, batchVars, clean, envVars>>

IndexFile(r) ==
    /\ pc[r] = "files"
    /\ todo[r] # {}
    /\ Readable(Current(r))
    /\ ~Unchanged(r, Current(r))
    /\ LET chunks == ChunksOf(Current(r))
       IN  /\ stats' = [stats EXCEPT ![r] = Tally(@, Len(chunks))]
           /\ pending' = [pending EXCEPT ![r] = @ \o chunks]
           /\ Goto(r, IF Len(pending[r]) + Len(chunks) >= EmbedBatch THEN "embed" ELSE "report")
    /\ UNCHANGED <<tree, qdrantVars, requestVars, loopVars, vectors, stored, dropped, reported, clean, envVars>>

ReportFile(r) ==
    /\ pc[r] = "report"
    /\ IF seen[r] % ReportIndexed = 0 THEN Report(r, Fraction(r)) ELSE UNCHANGED reported
    /\ NextFile(r)
    /\ Goto(r, "files")
    /\ UNCHANGED <<tree, qdrantVars, requestVars, batchVars, stats, clean, envVars>>

\* The loop is over: flush what is pending, if anything is.
EndLoop(r) ==
    /\ pc[r] = "files"
    /\ todo[r] = {}
    /\ Goto(r, IF pending[r] = <<>> THEN "finish" ELSE "embed")
    /\ UNCHANGED <<tree, qdrantVars, requestVars, loopVars, batchVars, stats, reported, clean, envVars>>

-----------------------------------------------------------------------------
(* _flush: embed, then upsert in batches; both only log their failures. *)

\* The embedder raises (no vectors) or returns fewer vectors than texts.
Embed(r) ==
    /\ pc[r] = "embed"
    /\ \E n \in 0..Len(pending[r]) :
          /\ IF n = Len(pending[r])
               THEN UNCHANGED <<clean, envVars>>
               ELSE Fails /\ clean' = [clean EXCEPT ![r] = FALSE]
          /\ vectors' = [vectors EXCEPT ![r] = SubSeq(pending[r], 1, n)]
          /\ dropped' = [dropped EXCEPT ![r] = @ + (Len(pending[r]) - n)]
          /\ Goto(r, IF n = 0 THEN AfterFlush(r) ELSE "upsert")
    /\ pending' = [pending EXCEPT ![r] = <<>>]
    /\ UNCHANGED <<tree, qdrantVars, requestVars, loopVars, stored, stats, reported>>

\* The points get fresh ids: any of them may now be the first of its path.
Insert(points) ==
    LET new == [f \in Files |-> {p.body : p \in {q \in points : q.path = f}}]
    IN  /\ held' = [f \in Files |-> held[f] \union new[f]]
        /\ first' \in [Files -> Bodies \union {NoHash}]
        /\ \A f \in Files :
              IF new[f] = {} THEN first'[f] = first[f]
                             ELSE first'[f] \in (new[f] \union {first[f]}) \ {NoHash}

Upsert(r) ==
    /\ pc[r] = "upsert"
    /\ LET n == IF Len(vectors[r]) < UpsertBatch THEN Len(vectors[r]) ELSE UpsertBatch
           batch == SubSeq(vectors[r], 1, n)
       IN  /\ \/ /\ Insert(BodiesOf(batch))
                 /\ stored' = [stored EXCEPT ![r] = @ + n]
                 /\ UNCHANGED <<dropped, clean, envVars>>
              \/ /\ Fails
                 /\ dropped' = [dropped EXCEPT ![r] = @ + n]
                 /\ clean' = [clean EXCEPT ![r] = FALSE]
                 /\ UNCHANGED <<qdrantVars, stored>>
           /\ vectors' = [vectors EXCEPT ![r] = SubSeq(@, n + 1, Len(@))]
           /\ Goto(r, IF n = Len(vectors[r]) THEN AfterFlush(r) ELSE "upsert")
    /\ UNCHANGED <<tree, requestVars, loopVars, pending, stats, reported>>

-----------------------------------------------------------------------------
(* The end of a run. *)

Finish(r) ==
    /\ pc[r] = "finish"
    /\ Report(r, 100)
    /\ Goto(r, "returned")
    /\ UNCHANGED <<tree, qdrantVars, requestVars, loopVars, batchVars, stats, clean, envVars>>

\* Anything else that raises: report, and return what there is.
Abort(r) ==
    /\ pc[r] \in {"open", "walk", "hashes", "files"}
    /\ Fails
    /\ Report(r, 100)
    /\ dropped' = [dropped EXCEPT ![r] = @ + Len(pending[r])]
    /\ pending' = [pending EXCEPT ![r] = <<>>]
    /\ clean' = [clean EXCEPT ![r] = FALSE]
    /\ Goto(r, "returned")
    /\ UNCHANGED <<tree, qdrantVars, requestVars, loopVars, vectors, stored, stats>>

-----------------------------------------------------------------------------
(* The environment. *)

\* Somebody edits, creates or removes a file.
Edit(f) ==
    /\ edits < MaxEdits
    /\ edits' = edits + 1
    /\ \E content \in Versions \union {Gone} :
          /\ content # tree[f]
          /\ tree' = [tree EXCEPT ![f] = content]
    /\ clean' = [r \in Runs |-> clean[r] /\ pc[r] \notin Walked]
    /\ UNCHANGED <<qdrantVars, pc, requestVars, loopVars, batchVars, stats, reported, faults, restarts>>

\* The API process stops: its runs are gone, the points stay.
Restart ==
    /\ restarts < MaxRestarts
    /\ restarts' = restarts + 1
    /\ pc' = [r \in Runs |-> IF pc[r] \in {"idle", "returned"} THEN pc[r] ELSE "dead"]
    /\ UNCHANGED <<tree, qdrantVars, requestVars, loopVars, batchVars, stats, reported, clean, faults, edits>>

-----------------------------------------------------------------------------
Prepare(r) == Start(r) \/ OpenRepo(r) \/ RepoUnavailable(r) \/ Walk(r) \/ ReadHashes(r)
Loop(r) ==
    \/ SkipUnreadable(r) \/ SkipUnchanged(r) \/ IndexFile(r)
    \/ ReportFile(r) \/ EndLoop(r)
Flush(r) == Embed(r) \/ Upsert(r)
End(r) == Finish(r) \/ Abort(r)

Next ==
    \/ \E r \in Runs : Prepare(r) \/ Loop(r) \/ Flush(r) \/ End(r)
    \/ \E f \in Files : Edit(f)
    \/ Restart

Spec == Init /\ [][Next]_vars

-----------------------------------------------------------------------------
(* Properties. *)

TypeOK ==
    /\ tree \in [Files -> Versions \union {Gone}]
    /\ held \in [Files -> SUBSET Bodies]
    /\ first \in [Files -> Bodies \union {NoHash}]
    /\ pc \in [Runs -> Steps]
    /\ incremental \in [Runs -> BOOLEAN]
    /\ scope \in [Runs -> SUBSET Files]
    /\ todo \in [Runs -> SUBSET Files]
    /\ seen \in [Runs -> Nat]
    /\ total \in [Runs -> Nat \ {0}]
    /\ known \in [Runs -> [Files -> Bodies \union {NoHash}]]
    /\ pending \in [Runs -> Seq(Chunk)]
    /\ vectors \in [Runs -> Seq(Chunk)]
    /\ stats \in [Runs -> [files : Nat, skipped : Nat, chunks : Nat]]
    /\ reported \in [Runs -> 0..100]
    /\ stored \in [Runs -> Nat]
    /\ dropped \in [Runs -> Nat]
    /\ clean \in [Runs -> BOOLEAN]
    /\ faults \in Nat /\ edits \in Nat /\ restarts \in Nat

\* A run that returned, lost nothing, and whose files nobody edited since.
Complete(r) == pc[r] = "returned" /\ clean[r]

\* After a full run every chunk of every file it selected is in the store,
\* whatever failed, crashed or overlapped before and during it (IngestRequest
\* with incremental = False, the batches of _flush).
FullRunCovers ==
    \A r \in Runs : Complete(r) /\ ~incremental[r] =>
        \A f \in scope[r] : Readable(f) => BodiesOf(tree[f]) \subseteq held[f]

\* An incremental run guarantees the first chunk of each file: it skips a file
\* only when the store holds that chunk (_unchanged), even when the hashes it
\* read were cut short or are stale.
IncrementalRunFindsFirst ==
    \A r \in Runs : Complete(r) =>
        \A f \in scope[r] : Readable(f) => Head(tree[f]) \in held[f]

\* The chunks a run counts are waiting, upserted, or lost to a failure, once
\* each, and none is still waiting when it returns ("indexed N chunks").
ChunksAccounted ==
    \A r \in Runs :
        /\ stats[r].chunks = Len(pending[r]) + Len(vectors[r]) + stored[r] + dropped[r]
        /\ pc[r] \in {"finish", "returned"} => pending[r] = <<>> /\ vectors[r] = <<>>

\* The fractions a run reports only grow, which is what the progress of an
\* index job rests on (IndexingService!OnProgress).
ReportsGrow == [][\A r \in Runs : reported'[r] >= reported[r]]_reported

-----------------------------------------------------------------------------
(* What the docs say, where the code does not do it; no run checks these.   *)

\* docs/retrieval.md:208-209, "Any edit changes at least one chunk's content
\* hash, which flips the file back to re-index": after an incremental run the
\* store holds every chunk of the files it selected.
EditsReindexed ==
    \A r \in Runs : Complete(r) /\ incremental[r] =>
        \A f \in scope[r] : Readable(f) => BodiesOf(tree[f]) \subseteq held[f]

\* docs/retrieval.md:213-214, a full reindex is there to "rebuild from
\* scratch": afterwards the store holds nothing but the chunks of the tree.
RebuiltFromScratch ==
    \A r \in Runs : Complete(r) /\ ~incremental[r] =>
        \A f \in scope[r] : held[f] = IF tree[f] = Gone THEN {} ELSE BodiesOf(tree[f])
=============================================================================
