----------------------------- MODULE Embeddings -----------------------------
(***************************************************************************)
(* The embedder and the collection its vectors go to.  The collection is   *)
(* created once, with the dimension the embedder has at that moment; the   *)
(* embedder learns the dimension of its model when it first uses it.  One  *)
(* run of the ingestor and one retrieval share the embedder; the process   *)
(* may be restarted with other settings while the collection stays.        *)
(***************************************************************************)
EXTENDS Integers, FiniteSets

CONSTANTS
    Chunks,        \* the chunks of the repository, numbers in the order they are found
    Settings,      \* records [provider, dim, model]: EMBEDDING_DIM, and the model's own
    FirstOf,       \* the first chunk of each chunk's file
    Batch,         \* _EMBED_BATCH
    Request,       \* vectors one request to Qdrant holds (256)
    MaxRestarts,   \* bound on restarts
    MaxFaults      \* bound on failed calls to a model or to Qdrant

ConstantsAssumption ==
    /\ Chunks \subseteq Nat /\ IsFiniteSet(Chunks)
    /\ FirstOf \in [Chunks -> Chunks]
    /\ \A c, d \in Chunks :
          FirstOf[c] <= c /\ FirstOf[FirstOf[c]] = FirstOf[c] /\ (c <= d => FirstOf[c] <= FirstOf[d])
    /\ Batch \in Nat \ {0} /\ Request \in Nat \ {0} /\ MaxRestarts \in Nat /\ MaxFaults \in Nat
    /\ \A s \in Settings : s.dim > 0 /\ s.model > 0

VARIABLES
    settings,    \* of the running process
    dim,         \* embedder.dim
    loaded,      \* _model is set, or _dim_checked
    probing,     \* the threads inside the probe of _ensure_model
    collection,  \* dimension of the collection, 0 when there is none
    points,      \* for each chunk, the vectors stored: [dim, zero]
    pc,          \* of the run: "idle", "ensure", "flush" or "upsert"
    full,        \* the run is not incremental
    todo,        \* chunks to embed, the lower first
    vectors,     \* what is left to store of the embedded batch: [chunk, dim, zero] of each chunk
    sound,       \* history: whether a call failed in the run other than the
                 \* listing of hashes, "none" before the first
    refused,     \* history: Qdrant refused vectors since the process started
    agreed,      \* history: the collection was created with the model's
                 \* dimension, and the embedder has known it since
    faults, restarts

vars == <<settings, dim, loaded, probing, collection, points, pc, full, todo, vectors, sound,
          refused, agreed, faults, restarts>>
runVars == <<pc, full, todo, vectors, sound>>
embedderVars == <<dim, loaded, probing>>

Heads == {FirstOf[c] : c \in Chunks}
Vectors == [dim : {s.dim : s \in Settings} \cup {s.model : s \in Settings}, zero : BOOLEAN]

Init ==
    /\ settings \in Settings
    /\ dim = settings.dim /\ loaded = FALSE /\ probing = {}
    /\ collection = 0 /\ points = [c \in Chunks |-> {}]
    /\ pc = "idle" /\ full = FALSE /\ todo = {} /\ vectors = {} /\ sound = "none"
    /\ refused = FALSE /\ agreed = FALSE /\ faults = 0 /\ restarts = 0

\* What a text that succeeds gets, and one that fails: zeros of the dimension
\* known at the time.
Real(c) == [chunk |-> c, dim |-> settings.model, zero |-> FALSE]
Zero(c, d) == [chunk |-> c, dim |-> d, zero |-> TRUE]

-----------------------------------------------------------------------------
(* Faulty variants: one-slip mutations of the definitions below, to show    *)
(* that the properties can fail.  The specification uses none of them.     *)

\* The collection is created with the configured dimension.
NewDimConfigured == settings.dim

\* A text that failed is left out.
OllamaSkips(batch, failed) ==
    {Real(c) : c \in batch \ failed}

\* A full run skips what has a point as well.
MaySkipAlways(whole) == {f \in Heads : points[f] # {}}

-----------------------------------------------------------------------------
Fault == faults < MaxFaults /\ faults' = faults + 1

InRun == pc # "idle"

Fastembed == settings.provider = "fastembed"

\* content_hashes keeps the hash of one stored chunk of each file, the first
\* the scroll comes to, and a file is skipped when that is its first chunk's:
\* never without it, always when no other chunk of the file is stored, and
\* else as the scroll goes.
MaySkip(whole) == {f \in Heads : ~whole /\ points[f] # {}}
MustSkip(whole) ==
    {f \in MaySkip(whole) : \A c \in Chunks : FirstOf[c] = f /\ points[c] # {} => c = f}

\* A full run takes every file; an incremental one all it does not skip.  A
\* scroll that breaks off knows fewer files.
StartRun(whole, skipped) ==
    /\ pc = "idle"
    /\ skipped \subseteq MaySkip(whole)
    /\ \/ MustSkip(whole) \subseteq skipped /\ UNCHANGED faults
       \/ ~whole /\ Fault
    /\ pc' = "ensure" /\ full' = whole /\ sound' = "sound"
    /\ todo' = {c \in Chunks : FirstOf[c] \notin skipped}
    /\ UNCHANGED <<settings, embedderVars, collection, points, vectors, refused, agreed, restarts>>

\* The dimension of a new collection.
NewDim == dim

\* ensure_collection: an existing collection is left as it is.
Ensure ==
    /\ pc = "ensure" /\ pc' = "flush"
    /\ \/ /\ collection = 0
          /\ collection' = NewDim /\ agreed' = (dim = settings.model)
          /\ UNCHANGED <<sound, faults>>
       \/ /\ collection # 0
          /\ UNCHANGED <<collection, agreed, sound, faults>>
       \/ /\ Fault /\ sound' = "failed"
          /\ UNCHANGED <<collection, agreed>>
    /\ UNCHANGED <<settings, embedderVars, points, full, todo, vectors, refused, restarts>>

\* _ensure_model sets the model, and only then probes it.
Load(thread) ==
    /\ Fastembed /\ ~loaded /\ probing = {}
    /\ thread = "run" => (pc = "flush" /\ todo # {})
    /\ loaded' = TRUE /\ probing' = {thread}
    /\ UNCHANGED <<settings, dim, collection, points, runVars, refused, agreed, faults, restarts>>

Probe(thread) ==
    /\ thread \in probing
    /\ probing' = probing \ {thread}
    /\ \/ dim' = settings.model /\ UNCHANGED faults
       \/ Fault /\ UNCHANGED dim
    /\ UNCHANGED <<settings, loaded, collection, points, runVars, refused, agreed, restarts>>

\* The next batch: the first files of what is left, whole, up to the one that
\* fills it.
Flushed == {c \in todo : Cardinality({d \in todo : d < FirstOf[c]}) < Batch}

Rest == todo \ Flushed

\* embed_documents of FastEmbedEmbedder.
EmbedLocal ==
    /\ Fastembed /\ loaded /\ "run" \notin probing
    /\ pc = "flush" /\ todo # {}
    /\ \/ /\ vectors' = {Real(c) : c \in Flushed}
          /\ pc' = "upsert" /\ UNCHANGED <<sound, faults>>
       \/ /\ Fault /\ vectors' = {} /\ pc' = "flush" /\ sound' = "failed"
    /\ todo' = Rest
    /\ UNCHANGED <<settings, embedderVars, collection, points, full, refused, agreed, restarts>>

\* The model cannot be loaded: the batch is dropped.
LoadFails ==
    /\ Fastembed /\ ~loaded
    /\ pc = "flush" /\ todo # {}
    /\ Fault /\ sound' = "failed" /\ todo' = Rest
    /\ UNCHANGED <<settings, embedderVars, collection, points, pc, full, vectors, refused, agreed, restarts>>

\* The first text that succeeds reconciles the dimension.
Known(batch, failed, c) ==
    IF \E d \in batch \ failed : d < c THEN settings.model ELSE dim

Ollama(batch, failed) ==
    {Real(c) : c \in batch \ failed} \cup {Zero(c, Known(batch, failed, c)) : c \in failed}

\* embed_documents of OllamaEmbedder: one request for each text.
EmbedRemote(failed) ==
    /\ ~Fastembed
    /\ pc = "flush" /\ todo # {}
    /\ failed \subseteq Flushed
    /\ faults' = faults + Cardinality(failed) /\ faults' <= MaxFaults
    /\ vectors' = Ollama(Flushed, failed)
    /\ IF failed = Flushed THEN UNCHANGED <<dim, loaded>>
       ELSE loaded' = TRUE /\ dim' = settings.model
    /\ sound' = IF failed # {} /\ sound = "sound" THEN "zeros" ELSE sound
    /\ pc' = "upsert" /\ todo' = Rest
    /\ UNCHANGED <<settings, probing, collection, points, full, refused, agreed, restarts>>

\* Qdrant takes a request of vectors of its dimension, or none of it.
Accepts(batch) == \A v \in batch : v.dim = collection

Stored(batch) ==
    [c \in Chunks |-> points[c] \cup {[dim |-> v.dim, zero |-> v.zero] : v \in {w \in batch : w.chunk = c}}]

\* The vectors of the next request.
Group == {v \in vectors : Cardinality({w \in vectors : w.chunk < v.chunk}) < Request}

\* One request; whatever becomes of it, the next follows.
Upsert ==
    /\ pc = "upsert"
    /\ \/ /\ Accepts(Group) /\ points' = Stored(Group) /\ UNCHANGED <<sound, refused, faults>>
       \/ /\ ~Accepts(Group) /\ refused' = (refused \/ collection # 0)
          /\ UNCHANGED <<points, sound, faults>>
       \/ /\ Fault /\ sound' = "failed" /\ UNCHANGED <<points, refused>>
    /\ vectors' = vectors \ Group
    /\ pc' = IF vectors' = {} THEN "flush" ELSE "upsert"
    /\ UNCHANGED <<settings, embedderVars, collection, full, todo, agreed, restarts>>

EndRun ==
    /\ pc = "flush" /\ todo = {}
    /\ pc' = "idle"
    /\ UNCHANGED <<settings, embedderVars, collection, points, full, todo, vectors, sound, refused, agreed, faults, restarts>>

\* search with a vector of another dimension is refused and finds nothing.
Searched(d) == refused' = (refused \/ (collection \notin {0, d}))

\* embed_query, and the search; a first success of Ollama reconciles here too.
Query ==
    /\ \/ /\ Fastembed /\ loaded /\ "query" \notin probing
          /\ Searched(settings.model) /\ UNCHANGED <<dim, loaded, faults>>
       \/ /\ ~Fastembed /\ dim' = settings.model /\ loaded' = TRUE
          /\ Searched(settings.model) /\ UNCHANGED faults
       \/ /\ ~Fastembed /\ Fault
          /\ Searched(dim) /\ UNCHANGED <<dim, loaded>>
    /\ UNCHANGED <<settings, probing, collection, points, runVars, agreed, restarts>>

\* delete_repository drops the points, and not the collection.
Delete ==
    /\ collection # 0
    /\ points' = [c \in Chunks |-> {}]
    /\ sound' = IF InRun THEN "failed" ELSE "none"
    /\ UNCHANGED <<settings, embedderVars, collection, pc, full, todo, vectors, refused, agreed, faults, restarts>>

\* A new process, perhaps with other settings; the collection is kept.
Restart ==
    /\ restarts < MaxRestarts /\ restarts' = restarts + 1
    /\ settings' \in Settings
    /\ dim' = settings'.dim /\ loaded' = FALSE /\ probing' = {}
    /\ pc' = "idle" /\ todo' = {} /\ vectors' = {} /\ sound' = "none" /\ full' = FALSE
    /\ refused' = FALSE /\ agreed' = (agreed /\ settings' = settings /\ dim' = settings.model)
    /\ UNCHANGED <<collection, points, faults>>

Next ==
    \/ \E whole \in BOOLEAN, skipped \in SUBSET Heads : StartRun(whole, skipped)
    \/ Ensure \/ EmbedLocal \/ LoadFails \/ Upsert \/ EndRun
    \/ \E thread \in {"run", "query"} : Load(thread) \/ Probe(thread)
    \/ \E failed \in SUBSET Chunks : EmbedRemote(failed)
    \/ Query \/ Delete \/ Restart

Spec == Init /\ [][Next]_vars

-----------------------------------------------------------------------------
TypeOK ==
    /\ settings \in Settings /\ dim \in {s.dim : s \in Settings} \cup {s.model : s \in Settings}
    /\ loaded \in BOOLEAN /\ probing \subseteq {"run", "query"}
    /\ points \in [Chunks -> SUBSET Vectors]
    /\ pc \in {"idle", "ensure", "flush", "upsert"} /\ full \in BOOLEAN
    /\ todo \subseteq Chunks /\ {v.chunk : v \in vectors} \subseteq Chunks
    /\ \A v \in vectors : [dim |-> v.dim, zero |-> v.zero] \in Vectors
    /\ sound \in {"none", "sound", "zeros", "failed"} /\ refused \in BOOLEAN /\ agreed \in BOOLEAN

\* A collection created once the dimension was reconciled, or configured as the
\* model has it, refuses nothing as long as the settings stay: no batch, no
\* query, and no zero vector made of a dimension of before.
AgreedAccepts == agreed => ~refused

\* A failing Ollama costs the direction of a vector and never its chunk: after
\* a full run in which nothing else failed every chunk has a point.  After an
\* incremental one every file has: the point of its first chunk, the only one
\* a file is not skipped without.
NoChunkLost ==
    (pc = "idle" /\ sound \in {"sound", "zeros"} /\ agreed) =>
        \A c \in Chunks : full \/ c \in Heads => points[c] # {}

\* A full run in which no call failed leaves a true vector for every chunk,
\* also for those an earlier failure stored as zeros.
FullRunHeals ==
    (pc = "idle" /\ full /\ sound = "sound" /\ agreed) =>
        \A c \in Chunks : [dim |-> settings.model, zero |-> FALSE] \in points[c]

-----------------------------------------------------------------------------
(* What the docs say, where the code does not do it; no run checks it.      *)

\* ingest.py:279, a file is skipped when it "is already indexed unchanged":
\* after an incremental run in which nothing failed every chunk has a point.
\* A file of which only the first chunk is stored is skipped all the same.
UnchangedIsIndexed ==
    (pc = "idle" /\ sound = "sound" /\ agreed) => \A c \in Chunks : points[c] # {}

\* The model's dimension is used when the configured one disagrees.
UsesModelDim == (collection # 0 /\ restarts = 0) => ~refused

\* A full run after the model was switched makes the chunks retrievable.
FullReindexHeals ==
    (pc = "idle" /\ full /\ sound = "sound") =>
        \A c \in Chunks : [dim |-> settings.model, zero |-> FALSE] \in points[c]
=============================================================================
