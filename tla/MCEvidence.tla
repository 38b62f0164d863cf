----------------------------- MODULE MCEvidence -----------------------------
(***************************************************************************)
(* The stages that turn files into cited evidence, each on every small     *)
(* input of its own: chunk_file, the embedding of a repository's chunks,   *)
(* the retrieval of one query, and the merging of a request's queries into *)
(* citations.  The stage is chosen at the start and only its module moves; *)
(* the variables of the others are Idle.                                   *)
(***************************************************************************)
EXTENDS Integers, Sequences, FiniteSets, TLC

CONSTANTS
    None, Idle,
    Files, Window, Overlap,                                 \* of Chunking
    Embedded, AnySettings, FirstOf, Batch, Request,         \* of Embeddings
    MaxRestarts, MaxFaults,
    Asked, Whole, PoolMult, PrefixMult, CorpusLimit,        \* of Retrieval
    Page, SparsePool,
    Spans, Answers, Queries, Sizes, MaxEvidence,            \* of Citations
    MaxChars, Slack, Header, Join, Worth, Ellipsis

VARIABLES
    stage,       \* "chunk", "embed", "retrieve" or "cite"
    file, chunks,
    settings, dim, loaded, probing, collection, points, run, full, todo, vectors,
    sound, refused, agreed, faults, restarts,
    store, query, alpha, pc, dense, corpus, bm25, ev, fused, reranked,
    size, groups, left, warnings, evidence, citations, context, done

chunkVars == <<file, chunks>>
embedVars == <<settings, dim, loaded, probing, collection, points, run, full, todo, vectors,
               sound, refused, agreed, faults, restarts>>
retrieveVars == <<store, query, alpha, pc, dense, corpus, bm25, ev, fused, reranked>>
citeVars == <<size, groups, left, warnings, evidence, citations, context, done>>
vars == <<stage, chunkVars, embedVars, retrieveVars, citeVars>>

-----------------------------------------------------------------------------
(* Files: every markdown of headings, text and blank lines of eight lines,  *)
(* every plain text of eight or nine, and every tree of two nodes over ten. *)

NoNodes == [d \in {} |-> 0]
Node(f, t, d, u) == [from |-> f, to |-> t, def |-> d, above |-> u]

Plain == {[lang |-> l, n |-> n, blank |-> b, heads |-> {}, feeds |-> {}, parser |-> FALSE,
           nodes |-> NoNodes] : l \in {"python", "json", "rst", "fortran", None}, n \in 8..9, b \in SUBSET (1..8)}

Markdown == {f \in [lang : {"markdown"}, n : {8}, blank : SUBSET (1..8), heads : SUBSET (1..8),
                    feeds : {{}}, parser : {FALSE}, nodes : {NoNodes}] : f.blank \cap f.heads = {}}

\* The second node is inside the first, or after it and may share a line.
Rows == {s \in (1..10) \X (1..10) : s[1] <= s[2]}
Above(s, t) == {u \in {{}, {1}} : IF u = {1} THEN s[1] <= t[1] /\ t[2] <= s[2] ELSE s[2] <= t[1]}
Trees == UNION {{(1 :> Node(s[1], s[2], x, {})) @@ (2 :> Node(t[1], t[2], y, u)) :
                    x \in BOOLEAN, y \in BOOLEAN, u \in Above(s, t)} : s \in Rows, t \in Rows}

Code == {[lang |-> "python", n |-> 10, blank |-> b, heads |-> {}, feeds |-> {}, parser |-> p, nodes |-> t] :
            b \in {{}, {1}, {5, 6}, {6, 10}}, p \in BOOLEAN, t \in Trees}

SomeFiles == Plain \union Markdown \union Code

Chunk == INSTANCE Chunking

-----------------------------------------------------------------------------
(* Embedding: EMBEDDING_DIM and the model in every relation.                *)

With(p, d, m) == [provider |-> p, dim |-> d, model |-> m]
SomeSettings == {With("fastembed", 2, 2), With("fastembed", 1, 2), With("ollama", 2, 2), With("ollama", 1, 2)}

\* Three chunks, the first two of one file.
TwoFiles == <<1, 1, 3>>

Embed == INSTANCE Embeddings WITH
    Chunks <- Embedded, Settings <- AnySettings, pc <- run

-----------------------------------------------------------------------------
(* Retrieval over four chunks: 2 is in another repository, 4 in another     *)
(* language, and 1 has the prefix in the middle of its path.                *)

N == 4
Meta(r, l, u) == [repo |-> r, branch |-> "main", lang |-> l, type |-> "code",
                  within |-> {"src"}, under |-> u]
Metas == <<Meta("r1", "py", {}), Meta("r2", "py", {"src"}), Meta("r1", "py", {"src"}), Meta("r1", "md", {"src"})>>

Decreasing(S) == {f \in [1..N -> S] : \A i, j \in 1..N : i < j => f[i] >= f[j]}

\* Every dense ranking, every lexical scoring and two scroll orders.
Scorings == [meta : {Metas}, dense : Decreasing(-1..1), sparse : [1..N -> 0..2],
             scroll : {<<1, 2, 3, 4>>, <<4, 3, 2, 1>>}]
FewScorings == {c \in Scorings : c.dense \in {<<1, 1, 0, -1>>, <<0, 0, 0, 0>>} /\ c.sparse \in {<<0, 0, 0, 0>>, <<0, 2, 1, 0>>}}

\* Filters that let all, some or one of the chunks through.
NoFilter == [repos |-> {}, branch |-> {}, langs |-> {}, types |-> {}, prefix |-> {}]
Filters == {NoFilter, [NoFilter EXCEPT !.prefix = {"src"}],
            [NoFilter EXCEPT !.repos = {"r1"}, !.branch = {"main"}, !.langs = {"py"}, !.types = {"code"}]}

Fusions == [strategy : {"hybrid"}, topK : 1..2, rerank : {FALSE}, filter : {NoFilter}]
Others == [strategy : {"dense", "sparse", "hybrid"}, topK : 1..2, rerank : {TRUE}, filter : Filters]

SomeAsked == [store : Scorings, query : Fusions, alpha : {0, 2, 4}]
             \union [store : FewScorings, query : Others, alpha : {2}]

Retrieve == INSTANCE Retrieval

-----------------------------------------------------------------------------
(* Citations: two overlapping windows of a file and one of another; three   *)
(* queries, each answered by a ranked list of at most two chunks.           *)

AllSpans == {[file |-> 1, from |-> 1, to |-> 6], [file |-> 1, from |-> 5, to |-> 10],
             [file |-> 2, from |-> 1, to |-> 6]}
Hit == [span : AllSpans, score : 0..2]
SomeAnswers == {<<>>} \union {<<h>> : h \in Hit}
               \union {p \in Hit \X Hit : p[1].span # p[2].span /\ p[1].score >= p[2].score}

SomeSizes == {[s \in AllSpans |-> n + s.file] : n \in {2, 20}}

Cite == INSTANCE Citations

ASSUME Assumptions ==
    /\ Chunk!ConstantsAssumption /\ Embed!ConstantsAssumption
    /\ Retrieve!ConstantsAssumption /\ Cite!ConstantsAssumption

-----------------------------------------------------------------------------

IdleChunk == file = Idle /\ chunks = Idle
IdleEmbed ==
    /\ settings = Idle /\ dim = Idle /\ loaded = Idle /\ probing = Idle /\ collection = Idle
    /\ points = Idle /\ run = Idle /\ full = Idle /\ todo = Idle /\ vectors = Idle
    /\ sound = Idle /\ refused = Idle /\ agreed = Idle /\ faults = Idle /\ restarts = Idle
IdleRetrieve ==
    /\ store = Idle /\ query = Idle /\ alpha = Idle /\ pc = Idle /\ dense = Idle
    /\ corpus = Idle /\ bm25 = Idle /\ ev = Idle /\ fused = Idle /\ reranked = Idle
IdleCite ==
    /\ size = Idle /\ groups = Idle /\ left = Idle /\ warnings = Idle
    /\ evidence = Idle /\ citations = Idle /\ context = Idle /\ done = Idle

Init ==
    \/ stage = "chunk" /\ Chunk!Init /\ IdleEmbed /\ IdleRetrieve /\ IdleCite
    \/ stage = "embed" /\ Embed!Init /\ IdleChunk /\ IdleRetrieve /\ IdleCite
    \/ stage = "retrieve" /\ Retrieve!Init /\ IdleChunk /\ IdleEmbed /\ IdleCite
    \/ stage = "cite" /\ Cite!Init /\ IdleChunk /\ IdleEmbed /\ IdleRetrieve

Next ==
    /\ UNCHANGED stage
    /\ \/ stage = "chunk" /\ Chunk!Next /\ UNCHANGED <<embedVars, retrieveVars, citeVars>>
       \/ stage = "embed" /\ Embed!Next /\ UNCHANGED <<chunkVars, retrieveVars, citeVars>>
       \/ stage = "retrieve" /\ Retrieve!Next /\ UNCHANGED <<chunkVars, embedVars, citeVars>>
       \/ stage = "cite" /\ Cite!Next /\ UNCHANGED <<chunkVars, embedVars, retrieveVars>>

Spec == Init /\ [][Next]_vars

-----------------------------------------------------------------------------
(* The properties of the modules, each for its own stage.                   *)

\* chunk_file loses no line that is not blank, keeps lines at most the overlap
\* apart together unless a boundary is between them, repeats no window inside
\* another of the same piece, keeps a definition whole in chunks of its own
\* name, and no chunk is blank or longer than three windows.
ChunksSound ==
    stage = "chunk" =>
        /\ Chunk!TypeOK
        /\ Chunk!Covered /\ Chunk!Together /\ Chunk!NoneInside
        /\ Chunk!DefinitionsWhole /\ Chunk!Bounded

\* A collection whose dimension was reconciled with the model's refuses
\* nothing while the settings stay; a failing Ollama costs the direction of a
\* vector and never its chunk in a full run, nor the first chunk of a file in
\* an incremental one; and a full run in which no call failed leaves a true
\* vector for every chunk (ensure_collection, _unchanged, the embedders,
\* _flush, upsert).
VectorsHeal ==
    stage = "embed" =>
        Embed!TypeOK /\ Embed!AgreedAccepts /\ Embed!NoChunkLost /\ Embed!FullRunHeals

\* A chunk that both legs rank above another is never cut in its favour nor
\* listed after it; with all the weight on the dense leg, or no lexical match,
\* hybrid retrieval returns what dense retrieval would; and whatever fails, the
\* evidence is within top_k and the filter, best score first, and empty only
\* when no leg found anything (retrieve, _hybrid, _rerank).
RetrievalSound ==
    stage = "retrieve" =>
        /\ Retrieve!TypeOK
        /\ Retrieve!Dominance /\ Retrieve!DenseAlone
        /\ Retrieve!EmptyOnlyIfNothing /\ Retrieve!ScoresDescending

\* The [n] the model reads and the [n] the user is shown are the same lines;
\* the evidence is the best hit of each span over all queries; and the packed
\* context stays within max_context_chars (merge_evidence, build_citations,
\* pack_context).
CitationsSound ==
    stage = "cite" =>
        Cite!TypeOK /\ Cite!MarkersAgree /\ Cite!BestKept /\ Cite!WithinBudget
=============================================================================
