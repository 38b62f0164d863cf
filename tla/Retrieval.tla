----------------------------- MODULE Retrieval ------------------------------
(***************************************************************************)
(* Retriever.retrieve over the collection: the dense search, the scroll    *)
(* that BM25 scores, their fusion, the optional reranking.  Each call      *)
(* outside may fail, and each failure is answered with less evidence.      *)
(* Chunks are numbered in the order the vector search ranks them; scores   *)
(* are small integers.                                                     *)
(***************************************************************************)
EXTENDS Integers, Sequences, FiniteSets, FiniteSetsExt, SequencesExt

CONSTANTS
    Asked,          \* [store, query, alpha]: what may be stored, [meta, dense, sparse, scroll];
                    \* what is asked of it, [strategy, topK, rerank, filter]; and hybrid_alpha
    Whole,          \* the 1.0 of hybrid_alpha, which is given in parts of it
    PoolMult,       \* _DENSE_POOL_MULT
    PrefixMult,     \* how much wider search fetches under a path prefix
    CorpusLimit,    \* _BM25_CORPUS_LIMIT
    Page,           \* chunks of one scroll call
    SparsePool      \* _SPARSE_POOL // 10

ConstantsAssumption ==
    /\ Whole \in Nat \ {0}
    /\ {PoolMult, PrefixMult, CorpusLimit, Page} \subseteq Nat \ {0}
    /\ SparsePool \in Nat
    /\ \A a \in Asked :
          LET n == Len(a.store.meta)
          IN  /\ n \in Nat /\ DOMAIN a.store.meta = 1..n
              /\ a.store.dense \in [1..n -> Int] /\ a.store.sparse \in [1..n -> Int]
              /\ \A c, d \in 1..n : c < d => a.store.dense[c] >= a.store.dense[d]
              /\ a.store.scroll \in Seq(1..n) /\ IsInjective(a.store.scroll)
              /\ a.query.topK \in Nat \ {0} /\ a.alpha \in 0..Whole

VARIABLES
    store,      \* the collection
    query,      \* the request
    alpha,      \* settings.hybrid_alpha
    pc,         \* "dense", "sparse", "rank", "rerank" or "done"
    dense,      \* the dense leg: chunks, best first
    corpus,     \* the chunks BM25 scores, in scroll order
    bm25,       \* BM25 scored them: otherwise every score is 0
    ev,         \* the evidence: [id, score, by]
    fused,      \* what fusion ranked, before it is cut to top_k
    reranked    \* the cross-encoder ordered the evidence

vars == <<store, query, alpha, pc, dense, corpus, bm25, ev, fused, reranked>>
asking == <<store, query, alpha>>

Chunks == DOMAIN store.meta

\* _bm25_score of a chunk.
Score(c) == IF bm25 THEN store.sparse[c] ELSE 0

Init ==
    /\ \E a \in Asked : store = a.store /\ query = a.query /\ alpha = a.alpha
    /\ pc = "dense"
    /\ dense = <<>> /\ corpus = <<>> /\ bm25 = TRUE /\ ev = <<>> /\ fused = <<>>
    /\ reranked = FALSE

-----------------------------------------------------------------------------
(* Faulty variants: one-slip mutations of the definitions below, to show    *)
(* that the properties can fail.  The specification uses none of them.     *)

\* A constant leg counts fully, even when nothing matched.
NormFlatOne(s, all) == IF Max(all) = Min(all) THEN 1 ELSE s - Min(all)

\* Only chunks that both legs found are fused.
InsertedBoth == FoldLeft(LAMBDA r, c : IF c \in Range(corpus) THEN Append(r, c) ELSE r, <<>>, dense)

\* The encoder orders the evidence, which keeps its old scores.
ReorderedOld(order) == [i \in DOMAIN order |-> ev[order[i]]]

-----------------------------------------------------------------------------
(* Filters. *)

\* _build_filter: an empty condition is no condition.  The path condition is a
\* text match: the prefix is somewhere in the path.
Native(c) ==
    LET m == store.meta[c]  f == query.filter
    IN  /\ f.repos = {} \/ m.repo \in f.repos
        /\ f.branch = {} \/ m.branch \in f.branch
        /\ f.langs = {} \/ m.lang \in f.langs
        /\ f.types = {} \/ m.type \in f.types
        /\ f.prefix = {} \/ f.prefix \subseteq m.within

\* _path_prefix_ok.
PrefixOk(c) == query.filter.prefix \subseteq store.meta[c].under

Cut(s, n) == SubSeq(s, 1, Min({n, Len(s)}))

\* What s lists of a set, in the order of s.
Among(s, S) == FoldLeft(LAMBDA r, c : IF c \in S THEN Append(r, c) ELSE r, <<>>, s)
Allowed(s) == Among(s, {c \in Chunks : Native(c)})
Matching(s) == Among(s, {c \in Chunks : PrefixOk(c)})

\* QdrantStore.search: the best hits of the filter, then those of the prefix.
Ranking == [c \in Chunks |-> c]
Fetch(limit) == IF query.filter.prefix = {} THEN limit ELSE limit * PrefixMult
Search(limit) == Cut(Matching(Cut(Allowed(Ranking), Fetch(limit))), limit)

\* QdrantStore.iter_chunks, after n pages.
Scrolled(n) == Cut(Matching(Cut(Allowed(store.scroll), n * Page)), CorpusLimit)

Pool == query.topK * PoolMult

-----------------------------------------------------------------------------
(* Scores and orders. *)

\* sorted(..., reverse=True): by score, ties in the order they came.
Sorted(order, s) ==
    LET Before(a, b) == s[order[a]] > s[order[b]] \/ (s[order[a]] = s[order[b]] /\ a < b)
        places == CHOOSE p \in Injection(DOMAIN order, DOMAIN order) :
                    \A i, j \in DOMAIN order : i < j => Before(p[i], p[j])
    IN  [i \in DOMAIN order |-> order[places[i]]]

\* _min_max_norm of one score among all, in parts of their spread.
Spread(all) == IF Max(all) = Min(all) THEN 1 ELSE Max(all) - Min(all)
Norm(s, all) ==
    IF Max(all) = Min(all) THEN (IF Max(all) > 0 THEN 1 ELSE 0) ELSE s - Min(all)

DenseScores == {store.dense[d] : d \in Range(dense)}
SparseScores == {Score(d) : d \in Range(corpus)}
DenseNorm(c) == IF c \in Range(dense) THEN Norm(store.dense[c], DenseScores) ELSE 0
SparseNorm(c) == IF c \in Range(corpus) THEN Norm(Score(c), SparseScores) ELSE 0

\* What a leg adds to the weighted sum of a chunk, in parts of Whole and of
\* both spreads.
DensePart(c) == alpha * DenseNorm(c) * Spread(SparseScores)
SparsePart(c) == (Whole - alpha) * SparseNorm(c) * Spread(DenseScores)

\* A faulty variant of the next definition: the second leg overwrites the
\* score of the first.
FusedOverwrite(c) == IF c \in Range(corpus) THEN SparsePart(c) ELSE DensePart(c)

\* The weighted sum of the two legs.
Fused(c) == DensePart(c) + SparsePart(c)

\* Chunks in the order the dict of scores got them.
Inserted == dense \o Among(corpus, Chunks \ Range(dense))

Listed(order, s, by) == [i \in DOMAIN order |-> [id |-> order[i], score |-> s[order[i]], by |-> by]]

BySparse == LET s == [c \in Range(corpus) |-> Score(c)] IN Listed(Sorted(corpus, s), s, "sparse")
ByDense == Listed(dense, store.dense, "dense")
ByFusion == LET s == [c \in Range(Inserted) |-> Fused(c)] IN Listed(Sorted(Inserted, s), s, "hybrid")

-----------------------------------------------------------------------------
(* The steps of retrieve. *)

\* _dense, and the dense leg of _hybrid: the embedder or the search may fail.
DenseLeg ==
    /\ pc = "dense"
    /\ dense' \in IF query.strategy = "sparse" THEN {<<>>} ELSE {Search(Pool), <<>>}
    /\ pc' = IF query.strategy = "dense" THEN "rank" ELSE "sparse"
    /\ UNCHANGED <<asking, corpus, bm25, ev, fused, reranked>>

\* iter_chunks keeps the pages it got before a failure; BM25 may be missing.
SparseLeg ==
    /\ pc = "sparse"
    /\ \E n \in 0..Len(store.scroll) : corpus' = Scrolled(n)
    /\ bm25' \in BOOLEAN
    /\ pc' = "rank"
    /\ UNCHANGED <<asking, dense, ev, fused, reranked>>

\* _dense, _sparse or _hybrid put the legs together and cut to top_k.
Ranked ==
    IF query.strategy = "dense" THEN ByDense
    ELSE IF query.strategy = "sparse" THEN Cut(BySparse, Max({query.topK, SparsePool}))
    ELSE IF corpus = <<>> THEN ByDense
    ELSE IF dense = <<>> THEN BySparse
    ELSE ByFusion

Rank ==
    /\ pc = "rank"
    /\ fused' = Ranked
    /\ ev' = Cut(fused', query.topK)
    /\ pc' = IF query.rerank /\ fused' # <<>> THEN "rerank" ELSE "done"
    /\ UNCHANGED <<asking, dense, corpus, bm25, reranked>>

\* _rerank: the encoder's scores order the evidence; an encoder that is
\* missing, raises or returns another number of scores changes nothing.
Reordered(order) == [i \in DOMAIN order |-> [ev[order[i]] EXCEPT !.score = Len(ev) - i]]

Rerank ==
    /\ pc = "rerank"
    /\ \/ \E p \in Bijection(DOMAIN ev, DOMAIN ev) :
            ev' = Reordered(p) /\ reranked' = TRUE
       \/ UNCHANGED <<ev, reranked>>
    /\ pc' = "done"
    /\ UNCHANGED <<asking, dense, corpus, bm25, fused>>

Next == DenseLeg \/ SparseLeg \/ Rank \/ Rerank

Spec == Init /\ [][Next]_vars

-----------------------------------------------------------------------------
(* Properties. *)

Ids == [i \in DOMAIN ev |-> ev[i].id]
Place(c) == CHOOSE i \in DOMAIN ev : ev[i].id = c
Hybrid == pc = "done" /\ query.strategy = "hybrid" /\ ~reranked

\* Evidence is at most top_k chunks, each once, and each passes the filter:
\* the fusion of two legs repeats none, and no stage brings back a chunk the
\* path prefix excludes.
TypeOK ==
    /\ Len(ev) <= query.topK
    /\ \A i, j \in DOMAIN ev : ev[i].id = ev[j].id => i = j
    /\ \A i \in DOMAIN ev : Native(ev[i].id) /\ query.filter.prefix \subseteq store.meta[ev[i].id].under

\* A chunk that both legs rank above another is never cut in its favour, nor
\* listed after it, whatever the weight and whichever leg missed the other.
Better(a, b) ==
    /\ store.dense[a] > store.dense[b]
    /\ b \in Range(corpus) => Score(a) > Score(b)
    /\ alpha < Whole \/ a \in Range(dense)

Dominance ==
    Hybrid /\ dense # <<>> => \A a \in Range(corpus), b \in Range(Ids) :
        Better(a, b) => a \in Range(Ids) /\ Place(a) < Place(b)

\* With all the weight on the dense leg, or with no lexical match at all,
\* hybrid retrieval returns what dense retrieval would.
DenseAlone ==
    LET flat == \A c \in Range(corpus) : Score(c) = 0
    IN  Hybrid /\ dense # <<>> /\ (alpha = Whole \/ (alpha > 0 /\ flat))
          => Cut(Ids, Len(dense)) = Cut(dense, Len(Ids))

\* A leg that fails, a page that fails, or an encoder that fails leaves the
\* rest: the answer is empty only when no leg found anything.
EmptyOnlyIfNothing == pc = "done" /\ ev = <<>> => dense = <<>> /\ corpus = <<>>

\* Evidence is listed best score first, whichever stage scored it: a later
\* merge and the citations rely on it.
ScoresDescending == pc = "done" => \A i, j \in DOMAIN ev : i < j => ev[i].score >= ev[j].score

-----------------------------------------------------------------------------
(* What the docs say, where the code does not do it; no run checks these.   *)

\* retriever.py:28 "fetch wider than top_k before fusion/rerank to improve
\* recall": the encoder may put any chunk of the pool into the answer.
RerankSeesPool ==
    [][reranked' /\ ~reranked => Len(ev) = Len(fused)]_vars

\* qdrant_store.py:220 "Over-fetch a little so post-hoc path-prefix filtering
\* still yields top_k": a search finds as many chunks under the prefix as
\* there are, up to the number asked for.
PrefixYieldsTopK ==
    pc = "rank" /\ dense # <<>> => Len(dense) = Min({Pool, Len(Matching(Allowed(Ranking)))})
=============================================================================
