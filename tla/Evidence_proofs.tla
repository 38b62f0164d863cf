-------------------------- MODULE Evidence_proofs ---------------------------
(***************************************************************************)
(* What the stages that turn files into cited evidence owe to their        *)
(* callers, whatever the files, the settings, the collection, the queries  *)
(* and the failures are: embedding, citations, chunking and retrieval,     *)
(* each with an invariant of its own, and at the end a theorem for each.   *)
(***************************************************************************)
EXTENDS MCEvidence, FiniteSetTheorems, WellFoundedInduction, TLAPS

-----------------------------------------------------------------------------
(* Embedding.                                                               *)

\* Vectors are at hand only between a batch's embedding and its upsert, and
\* nothing can be refused before there is a collection.
AtHand ==
    /\ run # "upsert" => vectors = {}
    /\ run = "idle" => todo = {}
    /\ collection = 0 => ~refused

\* Once the embedder and the collection agree, whatever the embedder makes has
\* the dimension of both.
Agreement ==
    agreed =>
        /\ collection = settings.model /\ dim = settings.model /\ ~refused
        /\ \A v \in vectors : v.dim = settings.model

\* Of a run that may still come to be claimed for: before the collection is
\* ensured it is not known whether it agrees.
Claimed == agreed \/ run = "ensure"

\* A chunk has a point, or its turn is still to come; an incremental run owes
\* that to the first chunk of each file.
ChunksKept ==
    sound \in {"sound", "zeros"} /\ Claimed =>
        \A c \in Embedded :
            full \/ c \in Embed!Heads =>
                points[c] # {} \/ c \in todo \/ \E v \in vectors : v.chunk = c

\* In a full run the same holds of its true vector.
TruthKept ==
    full /\ sound = "sound" /\ Claimed =>
        \A c \in Embedded :
            \/ [dim |-> settings.model, zero |-> FALSE] \in points[c]
            \/ c \in todo
            \/ Embed!Real(c) \in vectors

EmbedInv == Embed!TypeOK /\ AtHand /\ Agreement /\ ChunksKept /\ TruthKept

LEMMA InitEmbed ==
    ASSUME Embed!Init
    PROVE  EmbedInv
<1> USE DEF Embed!Init
<1>1. Embed!TypeOK
  BY DEF Embed!TypeOK
<1>2. AtHand /\ Agreement /\ ChunksKept /\ TruthKept
  BY DEF AtHand, Agreement, ChunksKept, TruthKept, Claimed
<1> QED
  BY <1>1, <1>2 DEF EmbedInv

\* A batch is of what is left, and its vectors are of the settings' dimension
\* or of the embedder's.
LEMMA FlushedLeft ==
    Embed!Flushed \subseteq todo /\ Embed!Rest \subseteq todo /\ todo = Embed!Flushed \cup Embed!Rest
  BY DEF Embed!Flushed, Embed!Rest

LEMMA OllamaMakes ==
    ASSUME NEW batch, NEW failed \in SUBSET batch
    PROVE  /\ \A v \in Embed!Ollama(batch, failed) :
                v.chunk \in batch /\ v.dim \in {settings.model, dim} /\ v.zero \in BOOLEAN
           /\ \A c \in batch : \E v \in Embed!Ollama(batch, failed) : v.chunk = c
           /\ failed = {} => \A c \in batch : Embed!Real(c) \in Embed!Ollama(batch, failed)
<1>1. \A c \in batch \ failed : Embed!Real(c) \in Embed!Ollama(batch, failed)
  BY DEF Embed!Ollama
<1>2. \A c \in failed : Embed!Zero(c, Embed!Known(batch, failed, c)) \in Embed!Ollama(batch, failed)
  BY DEF Embed!Ollama
<1>3. \A c, d : Embed!Real(c).chunk = c /\ Embed!Zero(c, d).chunk = c
  BY DEF Embed!Real, Embed!Zero
<1>4. \A c \in batch : \E v \in Embed!Ollama(batch, failed) : v.chunk = c
  BY <1>1, <1>2, <1>3
<1>5. ASSUME NEW v \in Embed!Ollama(batch, failed)
      PROVE  v.chunk \in batch /\ v.dim \in {settings.model, dim} /\ v.zero \in BOOLEAN
  <2>1. CASE \E c \in batch \ failed : v = Embed!Real(c)
    BY <2>1 DEF Embed!Real
  <2>2. CASE \E c \in failed : v = Embed!Zero(c, Embed!Known(batch, failed, c))
    BY <2>2 DEF Embed!Zero, Embed!Known
  <2> QED
    BY <2>1, <2>2 DEF Embed!Ollama
<1> QED
  BY <1>1, <1>4, <1>5

\* The types, action by action.
LEMMA EmbedTypesStep ==
    ASSUME Embed!TypeOK, Embed!Next
    PROVE  Embed!TypeOK'
<1> USE DEF Embed!TypeOK, Embed!runVars, Embed!embedderVars, Embed!Fault
<1>1. ASSUME NEW whole \in BOOLEAN, NEW skipped \in SUBSET Embed!Heads, Embed!StartRun(whole, skipped)
      PROVE  Embed!TypeOK'
  BY <1>1 DEF Embed!StartRun
<1>2. CASE Embed!Ensure
  <2>1. agreed' \in BOOLEAN
    BY <1>2, Zenon DEF Embed!Ensure
  <2>2. sound' \in {"none", "sound", "zeros", "failed"}
    BY <1>2 DEF Embed!Ensure
  <2> QED
    BY <1>2, <2>1, <2>2 DEF Embed!Ensure
<1>3. ASSUME NEW thread \in {"run", "query"}, Embed!Load(thread) PROVE Embed!TypeOK'
  BY <1>3 DEF Embed!Load
<1>4. ASSUME NEW thread \in {"run", "query"}, Embed!Probe(thread) PROVE Embed!TypeOK'
  BY <1>4 DEF Embed!Probe
<1>5. CASE Embed!EmbedLocal
  <2>1. \A c \in Embed!Flushed : Embed!Real(c).chunk \in Embedded
                /\ [dim |-> Embed!Real(c).dim, zero |-> Embed!Real(c).zero] \in Embed!Vectors
    BY FlushedLeft DEF Embed!Real, Embed!Vectors
  <2> QED
    BY <1>5, <2>1, FlushedLeft DEF Embed!EmbedLocal
<1>6. CASE Embed!LoadFails
  BY <1>6, FlushedLeft DEF Embed!LoadFails
<1>7. ASSUME NEW failed \in SUBSET Embedded, Embed!EmbedRemote(failed) PROVE Embed!TypeOK'
  <2>1. \A v \in vectors' : v.chunk \in Embedded /\ [dim |-> v.dim, zero |-> v.zero] \in Embed!Vectors
    BY <1>7, FlushedLeft, OllamaMakes DEF Embed!EmbedRemote, Embed!Vectors
  <2>2. sound' \in {"none", "sound", "zeros", "failed"} /\ loaded' \in BOOLEAN
    BY <1>7 DEF Embed!EmbedRemote
  <2> QED
    BY <1>7, <2>1, <2>2, FlushedLeft DEF Embed!EmbedRemote
<1>8. CASE Embed!Upsert
  <2>0. Embed!Group \subseteq vectors
    BY DEF Embed!Group
  <2>1. points' \in [Embedded -> SUBSET Embed!Vectors]
    BY <1>8, <2>0 DEF Embed!Upsert, Embed!Stored
  <2>2. refused' \in BOOLEAN
    BY <1>8, Zenon DEF Embed!Upsert
  <2> QED
    BY <1>8, <2>0, <2>1, <2>2 DEF Embed!Upsert
<1>9. CASE Embed!EndRun
  BY <1>9 DEF Embed!EndRun
<1>10. CASE Embed!Query
  <2>1. refused' \in BOOLEAN
    BY <1>10, Zenon DEF Embed!Query, Embed!Searched
  <2> QED
    BY <1>10, <2>1 DEF Embed!Query
<1>11. CASE Embed!Delete
  BY <1>11 DEF Embed!Delete
<1>12. CASE Embed!Restart
  <2>1. agreed' \in BOOLEAN
    BY <1>12, Zenon DEF Embed!Restart
  <2> QED
    BY <1>12, <2>1 DEF Embed!Restart
<1> QED
  BY <1>1, <1>2, <1>3, <1>4, <1>5, <1>6, <1>7, <1>8, <1>9, <1>10, <1>11, <1>12 DEF Embed!Next

LEMMA AtHandStep ==
    ASSUME Embed!TypeOK, AtHand, Embed!Next
    PROVE  AtHand'
<1> USE DEF AtHand, Embed!runVars, Embed!embedderVars
<1>1. ASSUME NEW whole \in BOOLEAN, NEW skipped \in SUBSET Embed!Heads, Embed!StartRun(whole, skipped)
      PROVE  AtHand'
  BY <1>1 DEF Embed!StartRun
<1>2. CASE Embed!Ensure
  BY <1>2 DEF Embed!Ensure
<1>3. ASSUME NEW thread \in {"run", "query"}, Embed!Load(thread) \/ Embed!Probe(thread) PROVE AtHand'
  BY <1>3 DEF Embed!Load, Embed!Probe
<1>4. CASE Embed!EmbedLocal \/ Embed!LoadFails
  BY <1>4 DEF Embed!EmbedLocal, Embed!LoadFails
<1>5. ASSUME NEW failed \in SUBSET Embedded, Embed!EmbedRemote(failed) PROVE AtHand'
  BY <1>5 DEF Embed!EmbedRemote
<1>6. CASE Embed!Upsert
  <2>1. collection = 0 => ~refused'
    BY <1>6 DEF Embed!Upsert
  <2> QED
    BY <1>6, <2>1 DEF Embed!Upsert
<1>9. CASE Embed!EndRun
  BY <1>9 DEF Embed!EndRun
<1>7. CASE Embed!Query \/ Embed!Delete
  BY <1>7 DEF Embed!Query, Embed!Searched, Embed!Delete
<1>8. CASE Embed!Restart
  BY <1>8 DEF Embed!Restart
<1> QED
  BY <1>1, <1>2, <1>3, <1>4, <1>5, <1>6, <1>7, <1>8, <1>9 DEF Embed!Next

LEMMA AgreementStep ==
    ASSUME Embed!TypeOK, AtHand, Agreement, Embed!Next
    PROVE  Agreement'
<1> USE DEF Agreement, Embed!runVars, Embed!embedderVars
<1>1. ASSUME NEW whole \in BOOLEAN, NEW skipped \in SUBSET Embed!Heads, Embed!StartRun(whole, skipped)
      PROVE  Agreement'
  BY <1>1 DEF Embed!StartRun
<1>2. CASE Embed!Ensure
  BY <1>2 DEF Embed!Ensure, Embed!NewDim, AtHand
<1>3. ASSUME NEW thread \in {"run", "query"}, Embed!Load(thread) \/ Embed!Probe(thread) PROVE Agreement'
  BY <1>3 DEF Embed!Load, Embed!Probe
<1>4. CASE Embed!EmbedLocal
  <2>1. \A v \in vectors' : v.dim = settings.model
    BY <1>4 DEF Embed!EmbedLocal, Embed!Real
  <2> QED
    BY <1>4, <2>1 DEF Embed!EmbedLocal
<1>9. CASE Embed!LoadFails
  BY <1>9 DEF Embed!LoadFails
<1>5. ASSUME NEW failed \in SUBSET Embedded, Embed!EmbedRemote(failed) PROVE Agreement'
  BY <1>5, OllamaMakes DEF Embed!EmbedRemote
<1>6. CASE Embed!Upsert \/ Embed!EndRun
  BY <1>6 DEF Embed!Upsert, Embed!Accepts, Embed!Group, Embed!EndRun
<1>7. CASE Embed!Query \/ Embed!Delete
  BY <1>7 DEF Embed!Query, Embed!Searched, Embed!Delete
<1>8. CASE Embed!Restart
  BY <1>8, Assumptions DEF Embed!Restart, Embed!ConstantsAssumption
<1> QED
  BY <1>1, <1>2, <1>3, <1>4, <1>5, <1>6, <1>7, <1>8, <1>9 DEF Embed!Next

\* A run takes what it owes a point, or it has one.
LEMMA TakenOrStored ==
    ASSUME Embed!TypeOK, NEW whole \in BOOLEAN, NEW skipped \in SUBSET Embed!Heads,
           Embed!StartRun(whole, skipped), NEW c \in Embedded
    PROVE  /\ whole => c \in todo'
           /\ c \in Embed!Heads => c \in todo' \/ points[c] # {}
<1>1. skipped \subseteq Embed!MaySkip(whole) /\ todo' = {d \in Embedded : FirstOf[d] \notin skipped}
  BY DEF Embed!StartRun
<1>2. \A f \in skipped : ~whole /\ points[f] # {}
  BY <1>1 DEF Embed!MaySkip
<1>3. c \in Embed!Heads => FirstOf[c] = c
  BY Assumptions DEF Embed!Heads, Embed!ConstantsAssumption
<1> QED
  BY <1>1, <1>2, <1>3

\* No step of a run takes a chunk it owes a point from all of what is left, the
\* batch and the points: a batch moves as a whole, and a request of it is
\* stored if it agrees.
LEMMA KeptStep ==
    ASSUME EmbedInv, Embed!Next
    PROVE  ChunksKept' /\ TruthKept'
<1> USE DEF EmbedInv, ChunksKept, TruthKept, Claimed, Embed!TypeOK, Embed!Real, Embed!runVars, Embed!embedderVars
<1>1. ASSUME NEW whole \in BOOLEAN, NEW skipped \in SUBSET Embed!Heads, Embed!StartRun(whole, skipped)
      PROVE  ChunksKept' /\ TruthKept'
  <2>1. points' = points /\ full' = whole
    BY <1>1 DEF Embed!StartRun
  <2> QED
    BY <1>1, <2>1, TakenOrStored
<1>2. CASE Embed!Ensure
  BY <1>2 DEF Embed!Ensure
<1>3. ASSUME NEW thread \in {"run", "query"}, Embed!Load(thread) \/ Embed!Probe(thread) PROVE ChunksKept' /\ TruthKept'
  <2>1. UNCHANGED <<settings, points, run, full, todo, vectors, sound, agreed>>
    BY <1>3 DEF Embed!Load, Embed!Probe
  <2> QED
    BY <2>1
<1>4. CASE Embed!EmbedLocal
  <2>1. sound' # "failed" => \A c \in Embed!Flushed : Embed!Real(c)' \in vectors' /\ Embed!Real(c)'.chunk = c
    BY <1>4 DEF Embed!EmbedLocal
  <2>2. vectors = {}
    BY <1>4 DEF Embed!EmbedLocal, AtHand
  <2> QED
    BY <1>4, <2>1, <2>2, FlushedLeft DEF Embed!EmbedLocal
<1>5. CASE Embed!LoadFails
  BY <1>5 DEF Embed!LoadFails
<1>6. ASSUME NEW failed \in SUBSET Embedded, Embed!EmbedRemote(failed) PROVE ChunksKept' /\ TruthKept'
  <2>1. vectors = {}
    BY <1>6 DEF Embed!EmbedRemote, AtHand
  <2>2. \A c \in Embed!Flushed : \E v \in vectors' : v.chunk = c
    BY <1>6, OllamaMakes DEF Embed!EmbedRemote
  <2>3. sound' = "sound" => \A c \in Embed!Flushed : Embed!Real(c)' \in vectors'
    BY <1>6, OllamaMakes DEF Embed!EmbedRemote
  <2>4. UNCHANGED <<settings, points, full, agreed>> /\ todo' = Embed!Rest /\ run = "flush" /\ run' = "upsert"
    BY <1>6 DEF Embed!EmbedRemote
  <2>5. sound' = "sound" => sound = "sound"
    BY <1>6 DEF Embed!EmbedRemote
  <2>6. sound' \in {"sound", "zeros"} => sound \in {"sound", "zeros"}
    BY <1>6 DEF Embed!EmbedRemote
  <2>7. ChunksKept'
    BY <2>1, <2>2, <2>4, <2>6, FlushedLeft
  <2>8. TruthKept'
    BY <2>1, <2>3, <2>4, <2>5, FlushedLeft
  <2> QED
    BY <2>7, <2>8
<1>7. CASE Embed!Upsert
  <2>1. agreed => Embed!Accepts(Embed!Group)
    BY DEF Agreement, Embed!Accepts, Embed!Group
  <2>2. CASE sound' = "failed" \/ ~agreed
    BY <1>7, <2>2 DEF Embed!Upsert
  <2>3. CASE sound' # "failed" /\ agreed
    <3>1. points' = Embed!Stored(Embed!Group)
      BY <1>7, <2>1, <2>3 DEF Embed!Upsert
    <3>2. UNCHANGED <<settings, full, sound, agreed, todo>> /\ vectors' = vectors \ Embed!Group
      BY <1>7, <2>3 DEF Embed!Upsert
    <3>3. \A c \in Embedded : points[c] \subseteq points'[c]
                /\ \A v \in Embed!Group : v.chunk = c => [dim |-> v.dim, zero |-> v.zero] \in points'[c]
      BY <3>1 DEF Embed!Stored
    <3> QED
      BY <2>3, <3>2, <3>3
  <2> QED
    BY <2>2, <2>3
<1>8. CASE Embed!EndRun
  BY <1>8 DEF Embed!EndRun, AtHand
<1>9. CASE Embed!Query
  BY <1>9 DEF Embed!Query
<1>10. CASE Embed!Delete
  BY <1>10 DEF Embed!Delete
<1>11. CASE Embed!Restart
  BY <1>11 DEF Embed!Restart
<1> QED
  BY <1>1, <1>2, <1>3, <1>4, <1>5, <1>6, <1>7, <1>8, <1>9, <1>10, <1>11 DEF Embed!Next

-----------------------------------------------------------------------------
(* Numbers, orders and folds: what the steps below are counted with.        *)

\* Numbers counted from 0.
LEMMA Counting ==
    ASSUME NEW S, 0 \in S, \A n \in Nat : n \in S => n + 1 \in S
    PROVE  \A n \in Nat : n \in S
<1> DEFINE out == {n \in Nat : n \notin S}
<1> SUFFICES ASSUME out # {} PROVE FALSE
  OBVIOUS
<1>1. PICK m \in out : \A k \in out : ~(<<k, m>> \in OpToRel(<, Nat))
  <2>1. out \subseteq Nat
    OBVIOUS
  <2> HIDE DEF out
  <2>2. \E m \in out : \A k \in out : ~(<<k, m>> \in OpToRel(<, Nat))
    BY <2>1, NatLessThanWellFounded, WFMin, Zenon
  <2> QED
    BY <2>2
<1>2. m \in Nat \ {0} /\ m \notin S
  OBVIOUS
<1>3. m - 1 \in Nat /\ m - 1 + 1 = m
  BY <1>2
<1>4. m - 1 \in out
  BY <1>2, <1>3
<1>5. <<m - 1, m>> \in OpToRel(<, Nat)
  BY <1>2, <1>3 DEF OpToRel
<1> QED
  BY <1>1, <1>4, <1>5

\* A set of numbers has a least, and one that is bounded a greatest.
LEMMA LeastExists ==
    ASSUME NEW S \in SUBSET Nat, S # {}
    PROVE  \E m \in S : \A k \in S : m <= k
<1>1. PICK m \in S : \A k \in S : ~(<<k, m>> \in OpToRel(<, Nat))
  BY NatLessThanWellFounded, WFMin, Zenon
<1>2. ASSUME NEW k \in S, k < m PROVE FALSE
  <2>1. <<k, m>> \in OpToRel(<, Nat)
    BY <1>2 DEF OpToRel
  <2> QED
    BY <1>1, <2>1
<1> QED
  BY <1>2

LEMMA GreatestExists ==
    ASSUME NEW n \in Nat, NEW S \in SUBSET (0..n), S # {}
    PROVE  \E m \in S : \A k \in S : m >= k
<1> DEFINE above == {k \in Nat : \A y \in S : y <= k}
<1>1. n \in above
  OBVIOUS
<1>2. PICK m \in above : \A k \in above : m <= k
  <2>1. above \in SUBSET Nat /\ above # {}
    BY <1>1
  <2> HIDE DEF above
  <2> QED
    BY <2>1, LeastExists
<1>3. m \in S
  <2> SUFFICES ASSUME m \notin S PROVE FALSE
    OBVIOUS
  <2>1. \A y \in S : y <= m - 1
    OBVIOUS
  <2>2. m # 0
    <3>1. PICK y \in S : TRUE
      OBVIOUS
    <3>2. y \in Nat /\ y <= m /\ y # m
      BY <2>1
    <3> QED
      BY <3>2
  <2>3. m - 1 \in above
    BY <2>1, <2>2
  <2> QED
    BY <1>2, <2>3
<1> QED
  BY <1>3

\* The greatest of a set.
Top(s) == CHOOSE m \in s : \A y \in s : m >= y

LEMMA TopIs ==
    ASSUME NEW n \in Nat, NEW s \in SUBSET (0..n), s # {}
    PROVE  Top(s) \in s /\ \A y \in s : Top(s) >= y
  BY GreatestExists, Zenon DEF Top

LEMMA TopIsOne ==
    ASSUME NEW s \in SUBSET Int, NEW m \in s, \A y \in s : m >= y
    PROVE  Top(s) = m
<1>1. \A x \in s : (\A y \in s : x >= y) <=> x = m
  OBVIOUS
<1> QED
  BY <1>1 DEF Top

LEMMA TopUpTo ==
    ASSUME NEW i \in Nat \ {0}
    PROVE  1..i # {} /\ Top(1..i) = i /\ (1..i) \ {Top(1..i)} = 1..(i - 1)
<1>1. Top(1..i) = i
  <2>1. 1..i \in SUBSET Int /\ i \in 1..i /\ \A y \in 1..i : i >= y
    OBVIOUS
  <2> QED
    BY <2>1, TopIsOne
<1> QED
  BY <1>1

\* A fold over 1..n is a function of the sets of numbers folded: it exists.
Folds(f, b, op, s) == f[s] = IF s = {} THEN b ELSE op[<<f[s \ {Top(s)}], Top(s)>>]

LEMMA FoldExists ==
    ASSUME NEW n \in Nat, NEW T, NEW b \in T, NEW op, op \in [T \X (1..n) -> T]
    PROVE  \E f : f \in [SUBSET (1..n) -> T] /\ \A s \in SUBSET (1..n) : Folds(f, b, op, s)
<1> DEFINE Good(k, f) == f \in [SUBSET (1..k) -> T] /\ \A s \in SUBSET (1..k) : Folds(f, b, op, s)
           upTo == {k \in Nat : k <= n => \E f : Good(k, f)}
<1>1. 0 \in upTo
  <2> DEFINE f == [s \in SUBSET (1..0) |-> b]
  <2>1. \A s \in SUBSET (1..0) : s = {} /\ f[s] = b
    OBVIOUS
  <2>2. f \in [SUBSET (1..0) -> T]
    OBVIOUS
  <2> HIDE DEF f
  <2>3. Good(0, f)
    BY <2>1, <2>2 DEF Folds
  <2> HIDE DEF Good
  <2> QED
    BY <2>3
<1>2. ASSUME NEW k \in Nat, k \in upTo PROVE k + 1 \in upTo
  <2> HIDE DEF Good
  <2> SUFFICES ASSUME k + 1 <= n PROVE \E f : Good(k + 1, f)
    OBVIOUS
  <2>1. PICK f : Good(k, f)
    BY <1>2
  <2> USE DEF Good
  <2> DEFINE g == [s \in SUBSET (1..(k + 1)) |->
                     IF k + 1 \in s THEN op[<<f[s \ {k + 1}], k + 1>>] ELSE f[s]]
  <2>2. \A s \in SUBSET (1..(k + 1)) : s \ {k + 1} \in SUBSET (1..k) /\ f[s \ {k + 1}] \in T
    BY <2>1
  <2>3. g \in [SUBSET (1..(k + 1)) -> T]
    <3> SUFFICES ASSUME NEW s \in SUBSET (1..(k + 1))
                 PROVE  (IF k + 1 \in s THEN op[<<f[s \ {k + 1}], k + 1>>] ELSE f[s]) \in T
      OBVIOUS
    <3>1. CASE k + 1 \in s
      <4>1. <<f[s \ {k + 1}], k + 1>> \in T \X (1..n)
        BY <2>2
      <4> QED
        BY <4>1, <3>1
    <3>2. CASE k + 1 \notin s
      <4>1. s = s \ {k + 1}
        BY <3>2
      <4> QED
        BY <4>1, <2>2, <3>2
    <3> QED
      BY <3>1, <3>2
  <2>4. ASSUME NEW s \in SUBSET (1..(k + 1)) PROVE Folds(g, b, op, s)
    <3>1. CASE k + 1 \in s
      <4>1. Top(s) = k + 1
        BY <3>1, TopIsOne
      <4>2. g[s \ {k + 1}] = f[s \ {k + 1}]
        OBVIOUS
      <4> QED
        BY <3>1, <4>1, <4>2 DEF Folds
    <3>2. CASE k + 1 \notin s
      <4>1. s \in SUBSET (1..k)
        BY <3>2
      <4>2. \A x : s \ {x} \in SUBSET (1..k) /\ k + 1 \notin s \ {x}
        BY <4>1, <3>2
      <4>3. \A t \in SUBSET (1..k) : g[t] = f[t]
        <5> SUFFICES ASSUME NEW t \in SUBSET (1..k) PROVE g[t] = f[t]
          OBVIOUS
        <5>1. t \in SUBSET (1..(k + 1)) /\ k + 1 \notin t
          OBVIOUS
        <5> QED
          BY <5>1
      <4> QED
        BY <4>1, <4>2, <4>3, <2>1 DEF Folds
    <3> QED
      BY <3>1, <3>2
  <2> HIDE DEF g
  <2>5. Good(k + 1, g)
    BY <2>3, <2>4
  <2> HIDE DEF Good
  <2> QED
    BY <2>5
<1> HIDE DEF upTo
<1>3. n \in upTo
  BY <1>1, <1>2, Counting
<1> HIDE DEF Good
<1>4. \E f : Good(n, f)
  BY <1>3 DEF upTo
<1> QED
  BY <1>4 DEF Good

\* So does a function that each number gets from the one before.
Chains(f, b, op, i) == f[i] = IF i = 0 THEN b ELSE op[<<f[i - 1], i>>]

LEMMA ChainExists ==
    ASSUME NEW n \in Nat, NEW T, NEW b \in T, NEW op, op \in [T \X (1..n) -> T]
    PROVE  \E f : f \in [0..n -> T] /\ \A i \in 0..n : Chains(f, b, op, i)
<1>1. PICK f : f \in [SUBSET (1..n) -> T] /\ \A s \in SUBSET (1..n) : Folds(f, b, op, s)
  BY FoldExists
<1> DEFINE g == [i \in 0..n |-> f[1..i]]
<1>2. \A i \in 0..n : 1..i \in SUBSET (1..n)
  OBVIOUS
<1>3. g \in [0..n -> T]
  BY <1>1, <1>2
<1>4. ASSUME NEW i \in 0..n PROVE Chains(g, b, op, i)
  <2>1. CASE i = 0
    <3>1. 1..0 = {} /\ {} \in SUBSET (1..n)
      OBVIOUS
    <3>2. f[{}] = b
      BY <1>1, <3>1 DEF Folds
    <3> QED
      BY <3>1, <3>2, <2>1 DEF Chains
  <2>2. CASE i # 0
    <3>1. i \in Nat \ {0} /\ i - 1 \in 0..n
      BY <2>2
    <3>2. 1..i # {} /\ Top(1..i) = i /\ (1..i) \ {Top(1..i)} = 1..(i - 1)
      BY <3>1, TopUpTo
    <3>3. f[1..i] = op[<<f[1..(i - 1)], i>>]
      BY <1>1, <1>2, <3>2 DEF Folds
    <3> QED
      BY <3>1, <3>3, <2>2 DEF Chains
  <2> QED
    BY <2>1, <2>2
<1> HIDE DEF g
<1> QED
  BY <1>3, <1>4
\* What is ordered one before the other can be listed in that order.
LEMMA SortExists ==
    ASSUME NEW n \in Nat, NEW R,
           \A a, b \in 1..n : a # b => <<a, b>> \in R \/ <<b, a>> \in R,
           \A a, b, c \in 1..n : <<a, b>> \in R /\ <<b, c>> \in R => <<a, c>> \in R
    PROVE  \E p \in [1..n -> 1..n] :
              /\ \A i, j \in 1..n : p[i] = p[j] => i = j
              /\ \A i, j \in 1..n : i < j => <<p[i], p[j]>> \in R
<1> DEFINE Lists(p, k) ==
              /\ p \in [1..k -> 1..k]
              /\ \A i, j \in 1..k : p[i] = p[j] => i = j
              /\ \A i, j \in 1..k : i < j => <<p[i], p[j]>> \in R
           upTo == {k \in Nat : k <= n => \E p : Lists(p, k)}
<1>1. 0 \in upTo
  <2>1. Lists(<<>>, 0)
    OBVIOUS
  <2> HIDE DEF Lists
  <2> QED
    BY <2>1
<1>2. ASSUME NEW k \in Nat, k \in upTo PROVE k + 1 \in upTo
  <2> SUFFICES ASSUME k + 1 <= n PROVE \E p : Lists(p, k + 1)
    OBVIOUS
  <2>1. PICK p : Lists(p, k)
    BY <1>2
  <2> DEFINE after == {i \in 1..k : <<k + 1, p[i]>> \in R} \cup {k + 1}
  <2>2. PICK q \in after : \A i \in after : q <= i
    <3>1. after \in SUBSET Nat /\ after # {}
      OBVIOUS
    <3> HIDE DEF after
    <3> QED
      BY <3>1, LeastExists
  <2>3. q \in 1..(k + 1)
    OBVIOUS
  <2>4. \A i \in 1..k : p[i] \in 1..k
    BY <2>1
  <2>5. \A i \in 1..k : i < q => <<p[i], k + 1>> \in R
    <3> SUFFICES ASSUME NEW i \in 1..k, i < q PROVE <<p[i], k + 1>> \in R
      OBVIOUS
    <3>1. i \notin after
      BY <2>2, <2>3
    <3>2. p[i] \in 1..n /\ p[i] # k + 1 /\ k + 1 \in 1..n
      BY <2>4
    <3> QED
      BY <3>1, <3>2
  <2>6. \A i \in 1..k : q <= i => <<k + 1, p[i]>> \in R
    <3> SUFFICES ASSUME NEW i \in 1..k, q <= i PROVE <<k + 1, p[i]>> \in R
      OBVIOUS
    <3>1. q \in 1..k /\ <<k + 1, p[q]>> \in R
      BY <2>2, <2>3
    <3>2. q # i => <<p[q], p[i]>> \in R
      BY <2>1, <3>1
    <3>3. k + 1 \in 1..n /\ p[q] \in 1..n /\ p[i] \in 1..n
      BY <2>4, <3>1
    <3> QED
      BY <3>1, <3>2, <3>3
  <2> DEFINE r == [i \in 1..(k + 1) |-> IF i < q THEN p[i] ELSE IF i = q THEN k + 1 ELSE p[i - 1]]
  <2>7. r \in [1..(k + 1) -> 1..(k + 1)]
    <3> SUFFICES ASSUME NEW i \in 1..(k + 1)
                 PROVE  (IF i < q THEN p[i] ELSE IF i = q THEN k + 1 ELSE p[i - 1]) \in 1..(k + 1)
      OBVIOUS
    <3>1. i < q => i \in 1..k
      BY <2>3
    <3>2. i > q => i - 1 \in 1..k
      BY <2>3
    <3> QED
      BY <2>3, <2>4, <3>1, <3>2
  <2>8. \A i \in 1..(k + 1) :
           \/ i < q /\ i \in 1..k /\ r[i] = p[i]
           \/ i = q /\ r[i] = k + 1
           \/ i > q /\ i - 1 \in 1..k /\ r[i] = p[i - 1]
    BY <2>3
  <2> HIDE DEF r, after
  <2>9. ASSUME NEW i \in 1..(k + 1), NEW j \in 1..(k + 1), r[i] = r[j] PROVE i = j
    <3>1. \A x \in 1..(k + 1) : x # q => r[x] \in 1..k
      BY <2>4, <2>8
    <3>2. r[q] = k + 1
      BY <2>3, <2>8
    <3>3. (i = q) <=> (j = q)
      BY <2>9, <3>1, <3>2
    <3>4. CASE i < q /\ j < q
      <4>1. i \in 1..k /\ j \in 1..k /\ p[i] = p[j]
        BY <2>8, <2>9, <3>4, <2>3
      <4> QED
        BY <4>1, <2>1
    <3>5. CASE i > q /\ j > q
      <4>1. i - 1 \in 1..k /\ j - 1 \in 1..k /\ p[i - 1] = p[j - 1]
        BY <2>8, <2>9, <3>5, <2>3
      <4>2. i - 1 = j - 1
        BY <4>1, <2>1
      <4> QED
        BY <4>2
    <3>6. CASE i < q /\ j > q
      <4>1. i \in 1..k /\ j - 1 \in 1..k /\ p[i] = p[j - 1]
        BY <2>8, <2>9, <3>6, <2>3
      <4>2. i = j - 1
        BY <4>1, <2>1
      <4> QED
        BY <4>2, <3>6, <2>3
    <3>7. CASE i > q /\ j < q
      <4>1. i - 1 \in 1..k /\ j \in 1..k /\ p[i - 1] = p[j]
        BY <2>8, <2>9, <3>7, <2>3
      <4>2. i - 1 = j
        BY <4>1, <2>1
      <4> QED
        BY <4>2, <3>7, <2>3
    <3> QED
      BY <3>3, <3>4, <3>5, <3>6, <3>7, <2>3
  <2>10. ASSUME NEW i \in 1..(k + 1), NEW j \in 1..(k + 1), i < j PROVE <<r[i], r[j]>> \in R
    <3>1. CASE i < q /\ j < q
      <4>1. i \in 1..k /\ j \in 1..k /\ r[i] = p[i] /\ r[j] = p[j]
        BY <2>8, <3>1, <2>3
      <4> QED
        BY <4>1, <2>1, <2>10
    <3>2. CASE i < q /\ j = q
      BY <2>5, <2>8, <2>10, <3>2
    <3>3. CASE i < q /\ j > q
      <4>1. i \in 1..k /\ j - 1 \in 1..k /\ i < j - 1 /\ r[i] = p[i] /\ r[j] = p[j - 1]
        BY <2>8, <3>3, <2>3
      <4> QED
        BY <4>1, <2>1
    <3>4. CASE i = q /\ j > q
      <4>1. j - 1 \in 1..k /\ q <= j - 1 /\ r[i] = k + 1 /\ r[j] = p[j - 1]
        BY <2>8, <3>4, <2>3
      <4> QED
        BY <4>1, <2>6
    <3>5. CASE i > q
      <4>1. i - 1 \in 1..k /\ j - 1 \in 1..k /\ i - 1 < j - 1 /\ r[i] = p[i - 1] /\ r[j] = p[j - 1]
        BY <2>8, <3>5, <2>3, <2>10
      <4> QED
        BY <4>1, <2>1
    <3> QED
      BY <3>1, <3>2, <3>3, <3>4, <3>5, <2>10, <2>3
  <2>11. Lists(r, k + 1)
    BY <2>7, <2>9, <2>10
  <2> HIDE DEF Lists
  <2> QED
    BY <2>11
<1> HIDE DEF upTo
<1>3. n \in upTo
  BY <1>1, <1>2, Counting
<1> USE DEF upTo
<1> QED
  BY <1>3, SMTT(30)

\* Numbers 1 to n that are given to 1 to n, none twice, are all given.
LEMMA InjectiveIsOnto ==
    ASSUME NEW n \in Nat, NEW p \in [1..n -> 1..n], \A i, j \in 1..n : p[i] = p[j] => i = j
    PROVE  \A m \in 1..n : \E i \in 1..n : p[i] = m
<1> SUFFICES ASSUME NEW m \in 1..n, \A i \in 1..n : p[i] # m PROVE FALSE
  OBVIOUS
<1>1. IsFiniteSet(1..n) /\ Cardinality(1..n) = n
  BY FS_Interval
<1>2. IsFiniteSet((1..n) \ {m}) /\ Cardinality((1..n) \ {m}) = n - 1
  BY <1>1, FS_RemoveElement
<1>3. p \in [1..n -> (1..n) \ {m}]
  OBVIOUS
<1>4. \E i, j \in 1..n : i # j /\ p[i] = p[j]
  <2> DEFINE A == 1..n
             B == (1..n) \ {m}
  <2>1. IsFiniteSet(A) /\ IsFiniteSet(B) /\ Cardinality(B) < Cardinality(A) /\ p \in [A -> B]
    BY <1>1, <1>2, <1>3
  <2> HIDE DEF A, B
  <2>2. \E i, j \in A : i # j /\ p[i] = p[j]
    BY <2>1, FS_PigeonHole, Zenon
  <2> QED
    BY <2>2 DEF A
<1> QED
  BY <1>4

-----------------------------------------------------------------------------
(* Citations.                                                               *)

Found == [span : Spans, score : Int]

\* A list that has no span twice; a list that has a hit's span, scored at least
\* as high.
Apart(s) == \A i, j \in DOMAIN s : s[i].span = s[j].span => i = j
Holds(s, h) == \E i \in DOMAIN s : s[i].span = h.span /\ s[i].score >= h.score

LEMMA CiteTop ==
    ASSUME NEW S PROVE Cite!Max(S) = Top(S)
  BY Zenon DEF Cite!Max, Top

LEMMA CiteRange ==
    ASSUME NEW f PROVE Cite!Range(f) = {f[i] : i \in DOMAIN f}
  BY Zenon DEF Cite!Range

LEMMA CiteCut ==
    ASSUME NEW E, NEW s \in Seq(E), NEW n \in Nat
    PROVE  LET c == Cite!Cut(s, n)
           IN  /\ c \in Seq(E) /\ Len(c) <= n /\ Len(c) <= Len(s)
               /\ Len(c) < Len(s) => Len(c) = n
               /\ \A i \in 1..Len(c) : c[i] = s[i]
<1> DEFINE m == IF n <= Len(s) THEN n ELSE Len(s)
<1>1. Cite!Min({n, Len(s)}) = m
  <2>1. Len(s) \in Nat
    OBVIOUS
  <2>2. \A x \in {n, Len(s)} : (\A y \in {n, Len(s)} : x <= y) <=> x = m
    BY <2>1
  <2>3. m \in {n, Len(s)}
    OBVIOUS
  <2> HIDE DEF m
  <2> QED
    BY <2>2, <2>3 DEF Cite!Min
<1>2. Cite!Cut(s, n) = SubSeq(s, 1, m)
  BY <1>1, Zenon DEF Cite!Cut
<1> QED
  BY <1>2

\* The fold of the merge: one hit after the other is merged.
LEMMA MergedIs ==
    ASSUME NEW best \in Seq(Found), NEW h \in Found
    PROVE  LET m == Cite!Merged(best, h)
           IN  /\ m \in Seq(Found)
               /\ Apart(best) => Apart(m)
               /\ Holds(m, h) /\ \A x \in Found : Holds(best, x) => Holds(m, x)
<1> DEFINE m == Cite!Merged(best, h)
           place == CHOOSE i \in DOMAIN best : best[i].span = h.span
<1>1. /\ Cite!Kept(h, best) <=> Holds(best, h)
      /\ (\E b \in Cite!Range(best) : b.span = h.span) <=> \E i \in DOMAIN best : best[i].span = h.span
  BY CiteRange DEF Cite!Kept, Holds
<1>2. m = IF Holds(best, h) THEN best
          ELSE IF \E i \in DOMAIN best : best[i].span = h.span THEN [best EXCEPT ![place] = h]
          ELSE Append(best, h)
  BY <1>1, Zenon DEF Cite!Merged
<1> SUFFICES /\ m \in Seq(Found)
             /\ Apart(best) => Apart(m)
             /\ Holds(m, h) /\ \A x \in Found : Holds(best, x) => Holds(m, x)
  OBVIOUS
<1> HIDE DEF m
<1>3. CASE Holds(best, h)
  BY <1>2, <1>3
<1>4. CASE ~Holds(best, h) /\ \E i \in DOMAIN best : best[i].span = h.span
  <2>1. place \in DOMAIN best /\ best[place].span = h.span
    BY <1>4
  <2> HIDE DEF place
  <2>2. m = [best EXCEPT ![place] = h]
    BY <1>2, <1>4
  <2>3. \A i \in DOMAIN best : best[i] \in Found
    OBVIOUS
  <2>4. ~(best[place].score >= h.score)
    BY <1>4, <2>1 DEF Holds
  <2>5. /\ m \in Seq(Found) /\ DOMAIN m = DOMAIN best /\ m[place] = h
        /\ \A i \in DOMAIN best : i # place => m[i] = best[i]
    BY <2>1, <2>2
  <2>6. ASSUME NEW i \in DOMAIN best PROVE m[i].span = best[i].span /\ m[i].score >= best[i].score
    <3>1. best[i].score \in Int /\ best[place].score \in Int /\ h.score \in Int
      BY <2>1, <2>3 DEF Found
    <3>2. CASE i = place
      BY <3>1, <3>2, <2>1, <2>4, <2>5
    <3>3. CASE i # place
      BY <3>1, <3>3, <2>5
    <3> QED
      BY <3>2, <3>3
  <2>7. ASSUME NEW x \in Found, Holds(best, x) PROVE Holds(m, x)
    BY <2>3, <2>5, <2>6, <2>7 DEF Holds, Found
  <2>8. Apart(best) => Apart(m)
    BY <2>5, <2>6 DEF Apart
  <2>9. Holds(m, h)
    BY <2>1, <2>5 DEF Holds, Found
  <2> QED
    BY <2>5, <2>7, <2>8, <2>9
<1>5. CASE ~Holds(best, h) /\ ~\E i \in DOMAIN best : best[i].span = h.span
  <2>1. m = Append(best, h)
    BY <1>2, <1>5
  <2>2. /\ m \in Seq(Found) /\ DOMAIN m = 1..(Len(best) + 1) /\ DOMAIN best = 1..Len(best)
        /\ m[Len(best) + 1] = h /\ Len(best) \in Nat
        /\ \A i \in DOMAIN best : m[i] = best[i]
    BY <2>1
  <2>3. Apart(best) => Apart(m)
    BY <1>5, <2>2 DEF Apart
  <2>4. Holds(m, h)
    BY <2>2, SMTT(30) DEF Holds, Found
  <2>5. ASSUME NEW x \in Found, Holds(best, x) PROVE Holds(m, x)
    BY <2>2, <2>5 DEF Holds
  <2> QED
    BY <2>2, <2>3, <2>4, <2>5
<1> QED
  BY <1>3, <1>4, <1>5

LEMMA UniqueFolds ==
    ASSUME NEW hits \in Seq(Found)
    PROVE  \E u : /\ u[0] = <<>> /\ Cite!Unique(hits) = u[Len(hits)]
                  /\ \A i \in 1..Len(hits) : u[i] = Cite!Merged(u[i - 1], hits[i])
<1> DEFINE n == Len(hits)
           T == Seq(Found)
           Step(g, s) == IF s = {} THEN <<>> ELSE Cite!Merged(g[s \ {Top(s)}], hits[Top(s)])
           op == [x \in T \X (1..n) |-> Cite!Merged(x[1], hits[x[2]])]
<1>1. Cite!Unique(hits) = (CHOOSE g : g = [s \in SUBSET DOMAIN hits |-> Step(g, s)])[DOMAIN hits]
  BY CiteTop, Zenon DEF Cite!Unique, Cite!FoldLeft, Cite!MapThenFoldSet
<1>2. n \in Nat /\ DOMAIN hits = 1..n /\ <<>> \in T /\ \A i \in 1..n : hits[i] \in Found
  OBVIOUS
<1>3. op \in [T \X (1..n) -> T]
  BY <1>2, MergedIs
<1>4. \A b \in T, i \in 1..n : op[<<b, i>>] = Cite!Merged(b, hits[i])
  OBVIOUS
<1> HIDE DEF op, n, T
<1>5. PICK f : f \in [SUBSET (1..n) -> T] /\ \A s \in SUBSET (1..n) : Folds(f, <<>>, op, s)
  BY <1>2, <1>3, FoldExists
<1>6. \A s \in SUBSET (1..n) : f[s] = Step(f, s)
  <2> SUFFICES ASSUME NEW s \in SUBSET (1..n), s # {} PROVE f[s] = Step(f, s)
    BY <1>5 DEF Folds
  <2>1. \A x : s \ {x} \in SUBSET (1..n)
    OBVIOUS
  <2>2. Top(s) \in 1..n
    <3>1. s \in SUBSET (0..n)
      OBVIOUS
    <3>2. Top(s) \in s
      BY <3>1, <1>2, TopIs
    <3> QED
      BY <3>2
  <2>3. f[s \ {Top(s)}] \in T
    BY <2>1, <1>5
  <2> QED
    BY <1>4, <1>5, <2>2, <2>3 DEF Folds
<1>7. f = [s \in SUBSET (1..n) |-> Step(f, s)]
  <2> HIDE DEF Step
  <2> QED
    BY <1>5, <1>6
<1> DEFINE g == CHOOSE g : g = [s \in SUBSET (1..n) |-> Step(g, s)]
<1>8. g = [s \in SUBSET (1..n) |-> Step(g, s)]
  <2> HIDE DEF Step
  <2> QED
    BY <1>7
<1>9. Cite!Unique(hits) = g[1..n]
  BY <1>1, <1>2
<1> HIDE DEF g
<1>10. \A s \in SUBSET (1..n) : g[s] = Step(g, s)
  <2> HIDE DEF Step
  <2> QED
    BY <1>8
<1> DEFINE u == [i \in 0..n |-> g[1..i]]
<1>11. u[0] = <<>>
  <2>1. 1..0 = {} /\ {} \in SUBSET (1..n) /\ 0 \in 0..n
    BY <1>2
  <2> QED
    BY <1>10, <2>1
<1>12. u[n] = Cite!Unique(hits)
  BY <1>2, <1>9
<1>13. ASSUME NEW i \in 1..n PROVE u[i] = Cite!Merged(u[i - 1], hits[i])
  <2>1. i \in Nat \ {0} /\ i - 1 \in 0..n /\ i \in 0..n /\ 1..i \in SUBSET (1..n)
    BY <1>2
  <2>2. 1..i # {} /\ Top(1..i) = i /\ (1..i) \ {Top(1..i)} = 1..(i - 1)
    BY <2>1, TopUpTo
  <2>3. g[1..i] = Cite!Merged(g[1..(i - 1)], hits[i])
    BY <1>10, <2>1, <2>2
  <2> QED
    BY <2>1, <2>3
<1> HIDE DEF u
<1> QED
  BY <1>11, <1>12, <1>13 DEF n

\* Merging leaves every span once, with the best score seen.
LEMMA UniqueIs ==
    ASSUME NEW hits \in Seq(Found)
    PROVE  /\ Cite!Unique(hits) \in Seq(Found) /\ Apart(Cite!Unique(hits))
           /\ \A k \in DOMAIN hits : Holds(Cite!Unique(hits), hits[k])
<1>1. PICK u : /\ u[0] = <<>> /\ Cite!Unique(hits) = u[Len(hits)]
               /\ \A i \in 1..Len(hits) : u[i] = Cite!Merged(u[i - 1], hits[i])
  BY UniqueFolds
<1> DEFINE Good(i) == u[i] \in Seq(Found) /\ Apart(u[i]) /\ \A k \in 1..i : Holds(u[i], hits[k])
           upTo == {i \in Nat : i <= Len(hits) => Good(i)}
<1>2. 0 \in upTo
  <2>1. u[0] \in Seq(Found) /\ DOMAIN u[0] = {} /\ 1..0 = {}
    BY <1>1
  <2>2. Good(0)
    BY <2>1 DEF Apart
  <2> HIDE DEF Good
  <2> QED
    BY <2>2
<1>3. ASSUME NEW i \in Nat, i \in upTo PROVE i + 1 \in upTo
  <2> SUFFICES ASSUME i + 1 <= Len(hits) PROVE Good(i + 1)
    OBVIOUS
  <2>1. Good(i) /\ i + 1 \in 1..Len(hits) /\ i + 1 - 1 = i
    BY <1>3
  <2>2. u[i + 1] = Cite!Merged(u[i], hits[i + 1]) /\ \A k \in 1..(i + 1) : hits[k] \in Found
    BY <1>1, <2>1
  <2>3. /\ u[i + 1] \in Seq(Found) /\ Apart(u[i + 1])
        /\ Holds(u[i + 1], hits[i + 1]) /\ \A x \in Found : Holds(u[i], x) => Holds(u[i + 1], x)
    <3> DEFINE m == Cite!Merged(u[i], hits[i + 1])
    <3>1. u[i] \in Seq(Found) /\ hits[i + 1] \in Found
      BY <2>1, <2>2
    <3>2. /\ m \in Seq(Found) /\ (Apart(u[i]) => Apart(m))
          /\ Holds(m, hits[i + 1]) /\ \A x \in Found : Holds(u[i], x) => Holds(m, x)
      BY <3>1, MergedIs, Zenon
    <3> HIDE DEF m
    <3>3. u[i + 1] = m
      BY <2>2 DEF m
    <3> QED
      BY <2>1, <3>2, <3>3
  <2>4. \A k \in 1..(i + 1) : k \in 1..i \/ k = i + 1
    OBVIOUS
  <2> QED
    BY <2>1, <2>2, <2>3, <2>4
<1> HIDE DEF upTo
<1>4. Len(hits) \in upTo
  BY <1>2, <1>3, Counting
<1> QED
  BY <1>1, <1>4 DEF upTo

\* Flattened groups hold every hit of every group.
LEMMA FlatIs ==
    ASSUME NEW gs \in Seq(Seq(Found))
    PROVE  /\ Cite!FlattenSeq(gs) \in Seq(Found)
           /\ \A i \in DOMAIN gs : \A j \in DOMAIN gs[i] :
                 \E k \in DOMAIN Cite!FlattenSeq(gs) : Cite!FlattenSeq(gs)[k] = gs[i][j]
<1> DEFINE n == Len(gs)
           T == Seq(Found)
           Step(g, i) == IF i = 1 THEN gs[i] ELSE g[i - 1] \o gs[i]
           op == [x \in T \X (1..n) |-> IF x[2] = 1 THEN gs[1] ELSE x[1] \o gs[x[2]]]
<1>1. n \in Nat /\ DOMAIN gs = 1..n /\ <<>> \in T /\ \A i \in 1..n : gs[i] \in T
  OBVIOUS
<1>2. CASE n = 0
  <2>1. Cite!FlattenSeq(gs) = gs
    BY <1>2, Zenon DEF Cite!FlattenSeq
  <2>2. gs = <<>>
    BY <1>2
  <2> QED
    BY <2>1, <2>2
<1>3. CASE n # 0
  <2>1. Cite!FlattenSeq(gs) = (CHOOSE g : g = [i \in 1..n |-> Step(g, i)])[n]
    BY <1>3, Zenon DEF Cite!FlattenSeq
  <2>2. \A b, c \in T : b \o c \in T
    OBVIOUS
  <2>3. op \in [T \X (1..n) -> T]
    BY <1>1, <1>3, <2>2
  <2>4. \A b \in T, i \in 1..n : op[<<b, i>>] = IF i = 1 THEN gs[1] ELSE b \o gs[i]
    OBVIOUS
  <2> HIDE DEF op, n, T
  <2>5. PICK f : f \in [0..n -> T] /\ \A i \in 0..n : Chains(f, <<>>, op, i)
    BY <1>1, <2>3, ChainExists
  <2> DEFINE h == [i \in 1..n |-> f[i]]
  <2>6. \A i \in 1..n : h[i] = Step(h, i)
    <3> SUFFICES ASSUME NEW i \in 1..n PROVE h[i] = Step(h, i)
      OBVIOUS
    <3>1. i \in 0..n /\ i - 1 \in 0..n /\ i # 0 /\ (i # 1 => i - 1 \in 1..n)
      BY <1>1
    <3>2. f[i] = op[<<f[i - 1], i>>] /\ f[i - 1] \in T
      BY <2>5, <3>1 DEF Chains
    <3> QED
      BY <2>4, <3>1, <3>2
  <2>7. h = [i \in 1..n |-> Step(h, i)]
    <3>1. h = [i \in 1..n |-> h[i]]
      OBVIOUS
    <3> HIDE DEF Step, h
    <3> QED
      BY <2>6, <3>1
  <2> HIDE DEF h
  <2> DEFINE g == CHOOSE g : g = [i \in 1..n |-> Step(g, i)]
  <2>8. g = [i \in 1..n |-> Step(g, i)]
    <3> HIDE DEF Step
    <3> QED
      BY <2>7
  <2>9. Cite!FlattenSeq(gs) = g[n]
    BY <2>1
  <2> HIDE DEF g
  <2>10. \A i \in 1..n : g[i] = Step(g, i)
    <3> HIDE DEF Step
    <3> QED
      BY <2>8
  <2> DEFINE Good(i) ==
              /\ g[i] \in Seq(Found)
              /\ \A k \in 1..i : \A j \in DOMAIN gs[k] : \E m \in DOMAIN g[i] : g[i][m] = gs[k][j]
             upTo == {i \in Nat : i + 1 <= n => Good(i + 1)}
  <2>11. 0 \in upTo
    <3>1. 1 \in 1..n /\ g[1] = gs[1] /\ 1..1 = {1}
      BY <1>1, <1>3, <2>10
    <3>2. Good(1)
      BY <1>1, <3>1 DEF T
    <3> HIDE DEF Good
    <3> QED
      BY <3>2
  <2>12. ASSUME NEW i \in Nat, i \in upTo PROVE i + 1 \in upTo
    <3> SUFFICES ASSUME i + 1 + 1 <= n PROVE Good(i + 1 + 1)
      OBVIOUS
    <3> DEFINE p == i + 1
    <3>1. p \in 1..n /\ p + 1 \in 1..n /\ p + 1 # 1
      BY <1>1
    <3>2. Good(p)
      BY <2>12, <3>1
    <3> HIDE DEF p, Good
    <3>3. g[p + 1] = g[p] \o gs[p + 1]
      <4>1. g[p + 1] = Step(g, p + 1)
        BY <2>10, <3>1
      <4> HIDE DEF g
      <4>2. (p + 1) - 1 = p
        BY <1>1, <3>1
      <4> QED
        BY <3>1, <4>1, <4>2, Zenon
    <3> USE DEF Good
    <3>4. gs[p + 1] \in Seq(Found) /\ g[p] \in Seq(Found)
      BY <1>1, <3>1, <3>2 DEF T
    <3>5. g[p + 1] \in Seq(Found)
      BY <3>3, <3>4
    <3>6. /\ \A m \in DOMAIN g[p] : m \in DOMAIN g[p + 1] /\ g[p + 1][m] = g[p][m]
          /\ \A j \in DOMAIN gs[p + 1] : /\ Len(g[p]) + j \in DOMAIN g[p + 1]
                                         /\ g[p + 1][Len(g[p]) + j] = gs[p + 1][j]
      <4> DEFINE a == g[p]
                 b == gs[p + 1]
                 c == g[p + 1]
      <4>1. c = a \o b /\ a \in Seq(Found) /\ b \in Seq(Found)
        BY <3>3, <3>4
      <4> HIDE DEF a, b, c
      <4>2. /\ \A m \in DOMAIN a : m \in DOMAIN c /\ c[m] = a[m]
            /\ \A j \in DOMAIN b : Len(a) + j \in DOMAIN c /\ c[Len(a) + j] = b[j]
        BY <4>1
      <4> QED
        BY <4>2 DEF a, b, c
    <3>7. ASSUME NEW k \in 1..(p + 1), NEW j \in DOMAIN gs[k]
          PROVE  \E m \in DOMAIN g[p + 1] : g[p + 1][m] = gs[k][j]
      <4>1. CASE k = p + 1
        BY <3>6, <4>1
      <4>2. CASE k # p + 1
        <5>1. k \in 1..p
          BY <3>1, <4>2
        <5>2. PICK m \in DOMAIN g[p] : g[p][m] = gs[k][j]
          BY <3>2, <5>1
        <5> QED
          BY <3>6, <5>2
      <4> QED
        BY <4>1, <4>2
    <3>8. Good(p + 1)
      BY <3>5, <3>7
    <3> HIDE DEF Good
    <3> QED
      BY <3>8 DEF p
  <2> HIDE DEF upTo
  <2>13. n - 1 \in Nat /\ n - 1 \in upTo
    <3>1. n - 1 \in Nat
      BY <1>1, <1>3
    <3> QED
      BY <3>1, <2>11, <2>12, Counting
  <2>14. Good(n)
    <3>1. n - 1 + 1 = n
      BY <1>1
    <3> HIDE DEF Good
    <3>2. n - 1 + 1 <= n => Good(n - 1 + 1)
      BY <2>13 DEF upTo
    <3> QED
      BY <1>1, <3>1, <3>2
  <2> QED
    BY <1>1, <2>9, <2>14
<1> QED
  BY <1>2, <1>3

\* Sorting keeps what it sorts and puts the best first.
LEMMA ByScoreIs ==
    ASSUME NEW u \in Seq(Found), Apart(u)
    PROVE  LET r == Cite!ByScore(u)
           IN  /\ r \in Seq(Found) /\ Len(r) = Len(u) /\ Apart(r)
               /\ \A i \in DOMAIN u : \E j \in DOMAIN r : r[j] = u[i]
               /\ \A i, j \in DOMAIN r : i < j => r[i].score >= r[j].score
<1> DEFINE n == Len(u)
           Before(a, b) == u[a].score > u[b].score \/ (u[a].score = u[b].score /\ a < b)
           R == {ab \in (1..n) \X (1..n) : Before(ab[1], ab[2])}
           order == CHOOSE p \in Cite!Injection(DOMAIN u, DOMAIN u) :
                      \A i, j \in DOMAIN u : i < j => Before(p[i], p[j])
<1>1. n \in Nat /\ DOMAIN u = 1..n /\ \A i \in 1..n : u[i] \in Found /\ u[i].score \in Int
  <2>1. n \in Nat /\ DOMAIN u = 1..n /\ \A i \in 1..n : u[i] \in Found
    OBVIOUS
  <2>2. \A x \in Found : x.score \in Int
    BY DEF Found
  <2> QED
    BY <2>1, <2>2
<1>2. Cite!ByScore(u) = [i \in DOMAIN u |-> u[order[i]]]
  BY Zenon DEF Cite!ByScore
<1>3. \A a, b \in 1..n : <<a, b>> \in R <=> Before(a, b)
  OBVIOUS
<1>4. /\ \A a, b \in 1..n : a # b => <<a, b>> \in R \/ <<b, a>> \in R
      /\ \A a, b, c \in 1..n : <<a, b>> \in R /\ <<b, c>> \in R => <<a, c>> \in R
  <2> HIDE DEF R
  <2>1. \A a, b \in 1..n : a # b => Before(a, b) \/ Before(b, a)
    BY <1>1
  <2>2. \A a, b, c \in 1..n : Before(a, b) /\ Before(b, c) => Before(a, c)
    BY <1>1
  <2> HIDE DEF Before
  <2> QED
    BY <1>3, <2>1, <2>2
<1> HIDE DEF R, n
<1>5. PICK p \in [1..n -> 1..n] : /\ \A i, j \in 1..n : p[i] = p[j] => i = j
                                  /\ \A i, j \in 1..n : i < j => <<p[i], p[j]>> \in R
  BY <1>1, <1>4, SortExists
<1> HIDE DEF Before
<1>6. p \in Cite!Injection(DOMAIN u, DOMAIN u) /\ \A i, j \in DOMAIN u : i < j => Before(p[i], p[j])
  BY <1>1, <1>3, <1>5 DEF Cite!Injection, Cite!IsInjective
<1>7. order \in Cite!Injection(DOMAIN u, DOMAIN u) /\ \A i, j \in DOMAIN u : i < j => Before(order[i], order[j])
  BY <1>6
<1> HIDE DEF order
<1>8. order \in [1..n -> 1..n] /\ \A i, j \in 1..n : order[i] = order[j] => i = j
  BY <1>1, <1>7 DEF Cite!Injection, Cite!IsInjective
<1>9. \A m \in 1..n : \E i \in 1..n : order[i] = m
  BY <1>1, <1>8, InjectiveIsOnto
<1> DEFINE r == Cite!ByScore(u)
<1>10. r = [i \in 1..n |-> u[order[i]]]
  BY <1>1, <1>2
<1> HIDE DEF r
<1>11. /\ DOMAIN r = 1..n
       /\ \A i \in 1..n : order[i] \in 1..n /\ r[i] = u[order[i]] /\ r[i] \in Found
  <2>1. \A i \in 1..n : order[i] \in 1..n
    BY <1>8
  <2>2. DOMAIN r = 1..n /\ \A i \in 1..n : r[i] = u[order[i]]
    BY <1>10
  <2> QED
    BY <1>1, <2>1, <2>2
<1>12. r \in Seq(Found) /\ Len(r) = n
  <2>1. r \in [1..n -> Found]
    BY <1>10, <1>11
  <2> QED
    BY <1>1, <2>1
<1>13. Apart(r)
  <2> SUFFICES ASSUME NEW i \in 1..n, NEW j \in 1..n, r[i].span = r[j].span PROVE i = j
    BY <1>11 DEF Apart
  <2>1. u[order[i]].span = u[order[j]].span /\ order[i] \in DOMAIN u /\ order[j] \in DOMAIN u
    BY <1>1, <1>11
  <2>2. order[i] = order[j]
    BY <2>1 DEF Apart
  <2> QED
    BY <1>8, <2>2
<1>14. ASSUME NEW i \in DOMAIN u PROVE \E j \in DOMAIN r : r[j] = u[i]
  <2>1. PICK j \in 1..n : order[j] = i
    BY <1>1, <1>9
  <2> QED
    BY <1>11, <2>1
<1>15. ASSUME NEW i \in DOMAIN r, NEW j \in DOMAIN r, i < j PROVE r[i].score >= r[j].score
  <2>1. i \in 1..n /\ j \in 1..n
    BY <1>11
  <2>2. Before(order[i], order[j])
    BY <1>1, <1>7, <1>15, <2>1
  <2>3. r[i] = u[order[i]] /\ r[j] = u[order[j]] /\ r[i].score \in Int /\ r[j].score \in Int
    BY <1>1, <1>11, <2>1
  <2> QED
    BY <2>2, <2>3 DEF Before
<1> QED
  BY <1>11, <1>12, <1>13, <1>14, <1>15 DEF r, n

\* A list without a span twice is cited hit by hit.
Citation == [index : Nat, span : Spans]

LEMMA CitedIs ==
    ASSUME NEW list \in Seq(Citation), NEW h \in Found
    PROVE  /\ Cite!Cited(list, h) \in Seq(Citation)
           /\ (\A i \in DOMAIN list : list[i].span # h.span)
                => Cite!Cited(list, h) = Append(list, [index |-> Len(list) + 1, span |-> h.span])
<1> DEFINE c == [index |-> Len(list) + 1, span |-> h.span]
<1>1. Cite!Cited(list, h) = IF \E i \in DOMAIN list : list[i].span = h.span THEN list ELSE Append(list, c)
  <2>1. (\E b \in Cite!Range(list) : b.span = h.span) <=> \E i \in DOMAIN list : list[i].span = h.span
    BY CiteRange
  <2> QED
    BY <2>1, Zenon DEF Cite!Cited
<1>2. c \in Citation
  BY DEF Citation, Found
<1> HIDE DEF c
<1>3. Append(list, c) \in Seq(Citation)
  BY <1>2
<1>4. CASE \E i \in DOMAIN list : list[i].span = h.span
  BY <1>1, <1>4, Zenon
<1>5. CASE ~\E i \in DOMAIN list : list[i].span = h.span
  BY <1>1, <1>3, <1>5, Zenon DEF c
<1> QED
  BY <1>4, <1>5

LEMMA CitationsFold ==
    ASSUME NEW hits \in Seq(Found)
    PROVE  \E u : /\ u[0] = <<>> /\ Cite!BuildCitations(hits) = u[Len(hits)]
                  /\ \A i \in 1..Len(hits) : u[i] = Cite!Cited(u[i - 1], hits[i])
<1> DEFINE n == Len(hits)
           T == Seq(Citation)
           Step(g, s) == IF s = {} THEN <<>> ELSE Cite!Cited(g[s \ {Top(s)}], hits[Top(s)])
           op == [x \in T \X (1..n) |-> Cite!Cited(x[1], hits[x[2]])]
<1>1. Cite!BuildCitations(hits) = (CHOOSE g : g = [s \in SUBSET DOMAIN hits |-> Step(g, s)])[DOMAIN hits]
  BY CiteTop, Zenon DEF Cite!BuildCitations, Cite!FoldLeft, Cite!MapThenFoldSet
<1>2. n \in Nat /\ DOMAIN hits = 1..n /\ <<>> \in T /\ \A i \in 1..n : hits[i] \in Found
  OBVIOUS
<1>3. op \in [T \X (1..n) -> T]
  BY <1>2, CitedIs
<1>4. \A b \in T, i \in 1..n : op[<<b, i>>] = Cite!Cited(b, hits[i])
  OBVIOUS
<1> HIDE DEF op, n, T
<1>5. PICK f : f \in [SUBSET (1..n) -> T] /\ \A s \in SUBSET (1..n) : Folds(f, <<>>, op, s)
  BY <1>2, <1>3, FoldExists
<1>6. \A s \in SUBSET (1..n) : f[s] = Step(f, s)
  <2> SUFFICES ASSUME NEW s \in SUBSET (1..n), s # {} PROVE f[s] = Step(f, s)
    BY <1>5 DEF Folds
  <2>1. \A x : s \ {x} \in SUBSET (1..n)
    OBVIOUS
  <2>2. Top(s) \in 1..n
    <3>1. s \in SUBSET (0..n)
      OBVIOUS
    <3>2. Top(s) \in s
      BY <3>1, <1>2, TopIs
    <3> QED
      BY <3>2
  <2>3. f[s \ {Top(s)}] \in T
    BY <2>1, <1>5
  <2> QED
    BY <1>4, <1>5, <2>2, <2>3 DEF Folds
<1>7. f = [s \in SUBSET (1..n) |-> Step(f, s)]
  <2> HIDE DEF Step
  <2> QED
    BY <1>5, <1>6
<1> DEFINE g == CHOOSE g : g = [s \in SUBSET (1..n) |-> Step(g, s)]
<1>8. g = [s \in SUBSET (1..n) |-> Step(g, s)]
  <2> HIDE DEF Step
  <2> QED
    BY <1>7
<1>9. Cite!BuildCitations(hits) = g[1..n]
  BY <1>1, <1>2
<1> HIDE DEF g
<1>10. \A s \in SUBSET (1..n) : g[s] = Step(g, s)
  <2> HIDE DEF Step
  <2> QED
    BY <1>8
<1> DEFINE u == [i \in 0..n |-> g[1..i]]
<1>11. u[0] = <<>>
  <2>1. 1..0 = {} /\ {} \in SUBSET (1..n) /\ 0 \in 0..n
    BY <1>2
  <2> QED
    BY <1>10, <2>1
<1>12. u[n] = Cite!BuildCitations(hits)
  BY <1>2, <1>9
<1>13. ASSUME NEW i \in 1..n PROVE u[i] = Cite!Cited(u[i - 1], hits[i])
  <2>1. i \in Nat \ {0} /\ i - 1 \in 0..n /\ i \in 0..n /\ 1..i \in SUBSET (1..n)
    BY <1>2
  <2>2. 1..i # {} /\ Top(1..i) = i /\ (1..i) \ {Top(1..i)} = 1..(i - 1)
    BY <2>1, TopUpTo
  <2>3. g[1..i] = Cite!Cited(g[1..(i - 1)], hits[i])
    BY <1>10, <2>1, <2>2
  <2> QED
    BY <2>1, <2>3
<1> HIDE DEF u
<1> QED
  BY <1>11, <1>12, <1>13 DEF n

LEMMA CitationsAre ==
    ASSUME NEW hits \in Seq(Found), Apart(hits)
    PROVE  /\ Len(Cite!BuildCitations(hits)) = Len(hits)
           /\ \A i \in 1..Len(hits) : Cite!BuildCitations(hits)[i].span = hits[i].span
<1>1. PICK u : /\ u[0] = <<>> /\ Cite!BuildCitations(hits) = u[Len(hits)]
               /\ \A i \in 1..Len(hits) : u[i] = Cite!Cited(u[i - 1], hits[i])
  BY CitationsFold
<1> DEFINE Good(i) == /\ u[i] \in Seq(Citation) /\ Len(u[i]) = i
                      /\ \A k \in 1..i : u[i][k].span = hits[k].span
           upTo == {i \in Nat : i <= Len(hits) => Good(i)}
<1>2. 0 \in upTo
  <2>1. u[0] \in Seq(Citation) /\ Len(u[0]) = 0 /\ 1..0 = {}
    BY <1>1
  <2>2. Good(0)
    BY <2>1
  <2> HIDE DEF Good
  <2> QED
    BY <2>2
<1>3. ASSUME NEW i \in Nat, i \in upTo PROVE i + 1 \in upTo
  <2> SUFFICES ASSUME i + 1 <= Len(hits) PROVE Good(i + 1)
    OBVIOUS
  <2>1. Good(i) /\ i + 1 \in 1..Len(hits) /\ (i + 1) - 1 = i
    BY <1>3
  <2> DEFINE h == hits[i + 1]
             b == u[i]
             c == [index |-> Len(b) + 1, span |-> h.span]
  <2>2. u[i + 1] = Cite!Cited(b, h)
    <3> HIDE DEF b, h
    <3>1. u[i + 1] = Cite!Cited(u[(i + 1) - 1], hits[i + 1])
      BY <1>1, <2>1
    <3> QED
      BY <2>1, <3>1, Zenon DEF b, h
  <2>3. \A k \in 1..i : b[k].span # h.span
    <3> SUFFICES ASSUME NEW k \in 1..i PROVE hits[k].span # hits[i + 1].span
      BY <2>1
    <3>1. k \in DOMAIN hits /\ i + 1 \in DOMAIN hits /\ k # i + 1
      BY <2>1
    <3> QED
      BY <3>1 DEF Apart
  <2>4. b \in Seq(Citation) /\ DOMAIN b = 1..i /\ Len(b) = i /\ h \in Found
    BY <2>1
  <2>5. c \in Citation
    BY <2>4 DEF Citation, Found
  <2> HIDE DEF b, h
  <2>6. u[i + 1] = Append(b, c)
    BY <2>2, <2>3, <2>4, CitedIs
  <2> HIDE DEF c
  <2>7. u[i + 1] \in Seq(Citation) /\ Len(u[i + 1]) = i + 1 /\ u[i + 1][i + 1] = c
        /\ \A k \in 1..i : u[i + 1][k] = b[k]
    BY <2>4, <2>5, <2>6
  <2>8. ASSUME NEW k \in 1..(i + 1) PROVE u[i + 1][k].span = hits[k].span
    <3>1. CASE k = i + 1
      BY <2>7, <3>1 DEF c, h
    <3>2. CASE k # i + 1
      <4>1. k \in 1..i
        BY <3>2
      <4> QED
        BY <2>1, <2>7, <4>1 DEF b
    <3> QED
      BY <3>1, <3>2
  <2> QED
    BY <2>7, <2>8
<1> HIDE DEF upTo
<1>4. Len(hits) \in upTo
  BY <1>2, <1>3, Counting
<1> QED
  BY <1>1, <1>4 DEF upTo

\* The packed blocks: those that fit whole, and one that may be trimmed.
Block == [marker : Nat, span : Spans, length : Nat]

LEMMA CiteNumbers ==
    /\ Queries \in Nat /\ MaxEvidence \in Nat /\ MaxChars \in Nat /\ Slack \in Nat /\ Header \in Nat
    /\ Join \in Nat /\ Worth \in Nat /\ Ellipsis \in Nat /\ Join > 0 /\ Ellipsis <= Slack
    /\ Answers \subseteq Seq(Found) /\ Sizes \subseteq [Spans -> Nat]
  BY Assumptions DEF Assumptions, Cite!ConstantsAssumption, Found

LEMMA BudgetIs ==
    /\ Cite!Budget \in Nat
    /\ Cite!Budget = IF MaxChars >= Slack THEN MaxChars - Slack ELSE 0
<1> DEFINE b == IF MaxChars >= Slack THEN MaxChars - Slack ELSE 0
           s == {0, MaxChars - Slack}
<1>1. s \in SUBSET Int /\ b \in s /\ b \in Nat /\ \A y \in s : b >= y
  BY CiteNumbers
<1>2. Cite!Budget = Top(s)
  BY CiteTop, Zenon DEF Cite!Budget
<1> HIDE DEF b, s
<1>3. Cite!Budget = b
  BY <1>1, <1>2, TopIsOne
<1> QED
  BY <1>1, <1>3 DEF b

LEMMA LengthIs ==
    ASSUME size \in [Spans -> Nat], NEW h \in Found
    PROVE  Cite!Length(h.span) \in Nat \ {0}
<1>1. size[h.span] \in Nat
  BY DEF Found
<1> QED
  BY <1>1, CiteNumbers DEF Cite!Length

\* What pack_context makes of hits: used is what the first blocks take, and fit
\* how many of them are within the budget.
Packed(hits, used, fit) ==
    /\ used[0] = 0 /\ \A i \in 0..Len(hits) : used[i] \in Nat
    /\ \A i \in 1..Len(hits) : used[i] = used[i - 1] + Cite!Length(hits[i].span)
    /\ fit \in 0..Len(hits) /\ used[fit] <= Cite!Budget
    /\ LET whole == [i \in 1..fit |-> [marker |-> i, span |-> hits[i].span,
                                       length |-> Cite!Length(hits[i].span)]]
       IN  Cite!PackContext(hits) =
              IF fit = Len(hits) THEN whole
              ELSE whole \o Cite!Trimmed(used[fit], hits[fit + 1], fit + 1)

LEMMA PackedExists ==
    ASSUME size \in [Spans -> Nat], NEW hits \in Seq(Found)
    PROVE  \E used, fit : Packed(hits, used, fit)
<1> DEFINE n == Len(hits)
           L(i) == Cite!Length(hits[i].span)
           Sum(g, i) == IF i = 0 THEN 0 ELSE g[i - 1] + L(i)
           op == [x \in Nat \X (1..n) |-> x[1] + L(x[2])]
           used == CHOOSE g : g = [i \in 0..n |-> Sum(g, i)]
           fit == Cite!Max({i \in 0..n : used[i] <= Cite!Budget})
           whole == [i \in 1..fit |-> [marker |-> i, span |-> hits[i].span, length |-> L(i)]]
<1>1. n \in Nat /\ DOMAIN hits = 1..n /\ \A i \in 1..n : L(i) \in Nat
  <2>1. \A i \in 1..n : hits[i] \in Found
    OBVIOUS
  <2> QED
    BY <2>1, LengthIs
<1>2. Cite!PackContext(hits) = IF fit = n THEN whole
                               ELSE whole \o Cite!Trimmed(used[fit], hits[fit + 1], fit + 1)
  BY Zenon DEF Cite!PackContext
<1> HIDE DEF n, L
<1>3. op \in [Nat \X (1..n) -> Nat] /\ \A b \in Nat, i \in 1..n : op[<<b, i>>] = b + L(i)
  BY <1>1, SMTT(30)
<1> HIDE DEF op
<1>4. PICK f : f \in [0..n -> Nat] /\ \A i \in 0..n : Chains(f, 0, op, i)
  BY <1>1, <1>3, ChainExists
<1>5. \A i \in 0..n : f[i] = Sum(f, i)
  <2> SUFFICES ASSUME NEW i \in 0..n, i # 0 PROVE f[i] = Sum(f, i)
    BY <1>4 DEF Chains
  <2>1. i \in 1..n /\ i - 1 \in 0..n
    BY <1>1
  <2>2. f[i - 1] \in Nat
    BY <1>4, <2>1
  <2> QED
    BY <1>3, <1>4, <2>1, <2>2 DEF Chains
<1>6. f = [i \in 0..n |-> Sum(f, i)]
  <2> HIDE DEF Sum
  <2> QED
    BY <1>4, <1>5
<1>7. used = [i \in 0..n |-> Sum(used, i)]
  <2> HIDE DEF Sum
  <2> QED
    BY <1>6
<1> HIDE DEF used
<1>8. \A i \in 0..n : used[i] = Sum(used, i)
  <2> HIDE DEF Sum
  <2> QED
    BY <1>7
<1>9. used[0] = 0
  BY <1>1, <1>8
<1>10. \A i \in 1..n : used[i] = used[i - 1] + L(i)
  BY <1>1, <1>8
<1>11. \A i \in 0..n : used[i] \in Nat
  <2> DEFINE upTo == {i \in Nat : i <= n => used[i] \in Nat}
  <2>1. 0 \in upTo
    BY <1>9
  <2>2. ASSUME NEW i \in Nat, i \in upTo PROVE i + 1 \in upTo
    <3> SUFFICES ASSUME i + 1 <= n PROVE used[i + 1] \in Nat
      OBVIOUS
    <3>1. i + 1 \in 1..n /\ (i + 1) - 1 = i /\ used[i] \in Nat /\ L(i + 1) \in Nat
      BY <1>1, <2>2
    <3> QED
      BY <1>10, <3>1
  <2> HIDE DEF upTo
  <2>3. \A i \in Nat : i \in upTo
    BY <2>1, <2>2, Counting
  <2> QED
    BY <1>1, <2>3 DEF upTo
<1>12. fit \in 0..n /\ used[fit] <= Cite!Budget
  <2> DEFINE s == {i \in 0..n : used[i] <= Cite!Budget}
  <2>1. 0 \in s /\ s \in SUBSET (0..n) /\ s # {}
    BY <1>1, <1>9, BudgetIs
  <2>2. fit = Top(s)
    BY CiteTop
  <2> HIDE DEF s, fit
  <2>3. fit \in s
    BY <1>1, <2>1, <2>2, TopIs
  <2> QED
    BY <2>3 DEF s
<1> HIDE DEF fit
<1>13. Packed(hits, used, fit)
  BY <1>2, <1>9, <1>10, <1>11, <1>12 DEF Packed, n, L
<1> QED
  BY <1>13

\* The lengths of blocks, one after the other.
LEMMA TotalFolds ==
    ASSUME NEW blocks \in Seq(Block)
    PROVE  \E u : /\ u[0] = 0 /\ Cite!Total(blocks) = u[Len(blocks)]
                  /\ \A i \in 1..Len(blocks) : u[i] = u[i - 1] + blocks[i].length
<1> DEFINE n == Len(blocks)
           L(i) == blocks[i].length
           Step(g, s) == IF s = {} THEN 0 ELSE g[s \ {Top(s)}] + blocks[Top(s)].length
           op == [x \in Nat \X (1..n) |-> x[1] + L(x[2])]
<1>1. Cite!Total(blocks) = (CHOOSE g : g = [s \in SUBSET DOMAIN blocks |-> Step(g, s)])[DOMAIN blocks]
  BY CiteTop, Zenon DEF Cite!Total, Cite!FoldLeft, Cite!MapThenFoldSet
<1>2. n \in Nat /\ DOMAIN blocks = 1..n /\ \A i \in 1..n : L(i) \in Nat
  <2>1. n \in Nat /\ DOMAIN blocks = 1..n /\ \A i \in 1..n : blocks[i] \in Block
    OBVIOUS
  <2>2. \A b \in Block : b.length \in Nat
    BY DEF Block
  <2> QED
    BY <2>1, <2>2
<1> HIDE DEF n
<1>3. op \in [Nat \X (1..n) -> Nat] /\ \A b \in Nat, i \in 1..n : op[<<b, i>>] = b + L(i)
  <2> HIDE DEF L
  <2> QED
    BY <1>2, SMTT(30)
<1> HIDE DEF op
<1>4. PICK f : f \in [SUBSET (1..n) -> Nat] /\ \A s \in SUBSET (1..n) : Folds(f, 0, op, s)
  BY <1>2, <1>3, FoldExists
<1>5. \A s \in SUBSET (1..n) : f[s] = Step(f, s)
  <2> SUFFICES ASSUME NEW s \in SUBSET (1..n), s # {} PROVE f[s] = Step(f, s)
    BY <1>4 DEF Folds
  <2>1. \A x : s \ {x} \in SUBSET (1..n)
    OBVIOUS
  <2>2. Top(s) \in 1..n
    <3>1. s \in SUBSET (0..n)
      OBVIOUS
    <3>2. Top(s) \in s
      BY <3>1, <1>2, TopIs
    <3> QED
      BY <3>2
  <2>3. f[s \ {Top(s)}] \in Nat
    BY <2>1, <1>4
  <2> QED
    BY <1>3, <1>4, <2>2, <2>3 DEF Folds
<1>6. f = [s \in SUBSET (1..n) |-> Step(f, s)]
  <2> HIDE DEF Step
  <2> QED
    BY <1>4, <1>5
<1> DEFINE g == CHOOSE g : g = [s \in SUBSET (1..n) |-> Step(g, s)]
<1>7. g = [s \in SUBSET (1..n) |-> Step(g, s)]
  <2> HIDE DEF Step
  <2> QED
    BY <1>6
<1>8. Cite!Total(blocks) = g[1..n]
  BY <1>1, <1>2
<1> HIDE DEF g
<1>9. \A s \in SUBSET (1..n) : g[s] = Step(g, s)
  <2> HIDE DEF Step
  <2> QED
    BY <1>7
<1> DEFINE u == [i \in 0..n |-> g[1..i]]
<1>10. u[0] = 0
  <2>1. 1..0 = {} /\ {} \in SUBSET (1..n) /\ 0 \in 0..n
    BY <1>2
  <2> QED
    BY <1>9, <2>1
<1>11. u[n] = Cite!Total(blocks)
  BY <1>2, <1>8
<1>12. ASSUME NEW i \in 1..n PROVE u[i] = u[i - 1] + L(i)
  <2>1. i \in Nat \ {0} /\ i - 1 \in 0..n /\ i \in 0..n /\ 1..i \in SUBSET (1..n)
    BY <1>2
  <2>2. 1..i # {} /\ Top(1..i) = i /\ (1..i) \ {Top(1..i)} = 1..(i - 1)
    BY <2>1, TopUpTo
  <2>3. g[1..i] = g[1..(i - 1)] + L(i)
    BY <1>9, <2>1, <2>2
  <2> QED
    BY <2>1, <2>3
<1> HIDE DEF u
<1> QED
  BY <1>10, <1>11, <1>12 DEF n

\* The blocks are of the hits in their order and together within the budget;
\* the trimmed one fits because its mark takes no more than the slack.
LEMMA ContextIs ==
    ASSUME size \in [Spans -> Nat], NEW hits \in Seq(Found)
    PROVE  LET c == Cite!PackContext(hits)
           IN  /\ c \in Seq(Block) /\ Len(c) <= Len(hits)
               /\ \A i \in 1..Len(c) : c[i].marker = i /\ c[i].span = hits[i].span
               /\ Cite!Total(c) <= MaxChars
<1> DEFINE n == Len(hits)
           L(i) == Cite!Length(hits[i].span)
           c == Cite!PackContext(hits)
<1>1. PICK used, fit : Packed(hits, used, fit)
  BY PackedExists
<1> DEFINE whole == [i \in 1..fit |-> [marker |-> i, span |-> hits[i].span, length |-> L(i)]]
           over == Cite!Trimmed(used[fit], hits[fit + 1], fit + 1)
           room == Cite!Budget - used[fit] - Header - 2 * Join
           last == [marker |-> fit + 1, span |-> hits[fit + 1].span, length |-> Header + 1 + room + Ellipsis]
<1>2. n \in Nat /\ \A i \in 1..n : hits[i] \in Found /\ L(i) \in Nat /\ hits[i].span \in Spans
  <2>1. n \in Nat /\ \A i \in 1..n : hits[i] \in Found
    OBVIOUS
  <2>2. \A h \in Found : h.span \in Spans /\ Cite!Length(h.span) \in Nat
    BY LengthIs DEF Found
  <2> QED
    BY <2>1, <2>2
<1>3. /\ used[0] = 0 /\ \A i \in 0..n : used[i] \in Nat
      /\ \A i \in 1..n : used[i] = used[i - 1] + L(i)
      /\ fit \in 0..n /\ used[fit] <= Cite!Budget
      /\ c = IF fit = n THEN whole ELSE whole \o over
  BY <1>1 DEF Packed
<1>4. over = IF room > Worth THEN <<last>> ELSE <<>>
  BY Zenon DEF Cite!Trimmed
<1>s. SUFFICES /\ c \in Seq(Block) /\ Len(c) <= n
               /\ \A i \in 1..Len(c) : c[i].marker = i /\ c[i].span = hits[i].span
               /\ Cite!Total(c) <= MaxChars
  OBVIOUS
<1> HIDE DEF n, L, c, over
<1>5. whole \in Seq(Block) /\ Len(whole) = fit /\ \A i \in 1..fit : whole[i].length = L(i)
  <2>1. \A i \in 1..fit : i \in 1..n /\ i \in Nat
    BY <1>2, <1>3
  <2>2. \A i \in 1..fit : whole[i] \in Block
    BY <1>2, <2>1 DEF Block
  <2>3. whole \in [1..fit -> Block] /\ fit \in Nat
    BY <1>2, <1>3, <2>2
  <2> HIDE DEF whole
  <2>4. whole \in Seq(Block) /\ Len(whole) = fit
    BY <2>3
  <2> QED
    BY <2>4 DEF whole
<1>6. \A i \in 1..fit : whole[i].marker = i /\ whole[i].span = hits[i].span
  OBVIOUS
<1> HIDE DEF whole
\* What the whole blocks of a context take together.
<1>7. ASSUME NEW t, t[0] = 0, \A i \in 1..fit : t[i] = t[i - 1] + L(i)
      PROVE  t[fit] = used[fit]
  <2> DEFINE upTo == {i \in Nat : i <= fit => t[i] = used[i]}
  <2>1. 0 \in upTo
    BY <1>3, <1>7
  <2>2. ASSUME NEW i \in Nat, i \in upTo PROVE i + 1 \in upTo
    <3> SUFFICES ASSUME i + 1 <= fit PROVE t[i + 1] = used[i + 1]
      OBVIOUS
    <3>1. i + 1 \in 1..fit /\ i + 1 \in 1..n /\ (i + 1) - 1 = i /\ t[i] = used[i]
      BY <1>2, <1>3, <2>2
    <3> QED
      BY <1>3, <1>7, <3>1
  <2> HIDE DEF upTo
  <2>3. \A i \in Nat : i \in upTo
    BY <2>1, <2>2, Counting
  <2> QED
    BY <1>2, <1>3, <2>3 DEF upTo
<1>8. fit \in Nat /\ used[fit] \in Nat /\ Cite!Budget \in Nat /\ Cite!Budget <= MaxChars
  BY <1>2, <1>3, BudgetIs, CiteNumbers
<1>9. CASE c = whole
  <2>1. PICK t : /\ t[0] = 0 /\ Cite!Total(whole) = t[Len(whole)]
                 /\ \A i \in 1..Len(whole) : t[i] = t[i - 1] + whole[i].length
    BY <1>5, TotalFolds
  <2>2. t[0] = 0 /\ \A i \in 1..fit : t[i] = t[i - 1] + L(i)
    BY <1>5, <2>1
  <2>3. t[fit] = used[fit]
    BY <1>7, <2>2, Zenon
  <2>4. Cite!Total(c) = used[fit]
    BY <1>5, <1>9, <2>1, <2>3, Zenon
  <2>5. Cite!Total(c) <= MaxChars
    <3>1. MaxChars \in Nat
      BY CiteNumbers
    <3> QED
      BY <1>3, <1>8, <2>4, <3>1
  <2>6. fit <= n
    BY <1>2, <1>3
  <2> QED
    BY <1>5, <1>6, <1>9, <2>5, <2>6
<1>10. CASE fit # n /\ room > Worth /\ c = whole \o <<last>>
  <2>0. /\ MaxChars \in Nat /\ Slack \in Nat /\ Header \in Nat /\ Join \in Nat /\ Join > 0
        /\ Worth \in Nat /\ Ellipsis \in Nat /\ Ellipsis <= Slack
    BY CiteNumbers
  <2>1. fit + 1 \in 1..n /\ room \in Int
    <3>1. n \in Nat /\ fit \in 0..n /\ fit # n
      BY <1>2, <1>3, <1>10
    <3>2. fit + 1 \in 1..n
      BY <3>1
    <3>3. room \in Int
      BY <1>8, <2>0
    <3> QED
      BY <3>2, <3>3
  <2>r. room = Cite!Budget - used[fit] - Header - 2 * Join /\ room > Worth
    BY <1>10
  <2> HIDE DEF room
  <2>2. last \in Block
    <3>1. Header + 1 + room + Ellipsis \in Nat /\ fit + 1 \in Nat
      BY <1>8, <2>0, <2>1, <2>r, SMTT(30)
    <3> QED
      BY <1>2, <2>1, <3>1 DEF Block
  <2>3. last.marker = fit + 1 /\ last.span = hits[fit + 1].span /\ last.length = Header + 1 + room + Ellipsis
    OBVIOUS
  <2> HIDE DEF last
  <2>4. /\ c \in Seq(Block) /\ Len(c) = fit + 1 /\ c[fit + 1] = last
        /\ \A i \in 1..fit : c[i] = whole[i]
    <3>1. c = whole \o <<last>>
      BY <1>10
    <3>2. whole \in Seq(Block) /\ Len(whole) = fit
      BY <1>5
    <3> QED
      BY <1>8, <2>2, <3>1, <3>2
  <2>5. PICK t : /\ t[0] = 0 /\ Cite!Total(c) = t[Len(c)]
                 /\ \A i \in 1..Len(c) : t[i] = t[i - 1] + c[i].length
    BY <2>4, TotalFolds
  <2>6. t[fit] = used[fit]
    <3>1. ASSUME NEW i \in 1..fit PROVE t[i] = t[i - 1] + L(i)
      <4>1. i \in 1..Len(c)
        BY <1>8, <2>4
      <4> QED
        BY <1>5, <2>4, <2>5, <4>1
    <3>2. t[0] = 0
      BY <2>5
    <3> QED
      BY <1>7, <3>1, <3>2, Zenon
  <2>7. Cite!Total(c) = used[fit] + (Header + 1 + room + Ellipsis)
    <3>1. fit + 1 \in 1..Len(c) /\ (fit + 1) - 1 = fit
      BY <1>8, <2>4
    <3>2. t[fit + 1] = t[fit] + c[fit + 1].length
      BY <2>5, <3>1
    <3> QED
      BY <2>3, <2>4, <2>5, <2>6, <3>2
  <2>8. Cite!Total(c) <= MaxChars
    <3>1. Cite!Budget = MaxChars - Slack
      <4>1. room <= Cite!Budget /\ room > 0
        BY <1>8, <2>0, <2>1, <2>r, SMTT(30)
      <4>2. Cite!Budget > 0
        BY <1>8, <2>1, <4>1
      <4> QED
        BY <4>2, BudgetIs, <2>0
    <3>2. Cite!Total(c) = 1 + (MaxChars - Slack) + Ellipsis - 2 * Join
      <4>1. used[fit] \in Int /\ Cite!Budget \in Int /\ room \in Int
        BY <1>8, <2>1
      <4>2. used[fit] + (Header + 1 + room + Ellipsis) = 1 + (MaxChars - Slack) + Ellipsis - 2 * Join
        <5>1. PICK u \in Int, b \in Int, h \in Int, j \in Int, e \in Int :
                 u = used[fit] /\ b = Cite!Budget /\ h = Header /\ j = Join /\ e = Ellipsis
          BY <2>0, <4>1
        <5>2. u + (h + 1 + (b - u - h - 2 * j) + e) = 1 + b + e - 2 * j
          OBVIOUS
        <5> QED
          BY <2>r, <3>1, <5>1, <5>2, Zenon
      <4> QED
        BY <2>7, <4>2
    <3> QED
      BY <2>0, <3>2
  <2>9. ASSUME NEW i \in 1..Len(c) PROVE c[i].marker = i /\ c[i].span = hits[i].span
    <3>1. i = fit + 1 \/ i \in 1..fit
      BY <1>8, <2>4
    <3> QED
      BY <1>6, <2>3, <2>4, <3>1
  <2>10. Len(c) <= n
    BY <1>2, <2>1, <2>4
  <2> QED
    BY <2>4, <2>8, <2>9, <2>10
<1>11. c = whole \/ (fit # n /\ room > Worth /\ c = whole \o <<last>>)
  <2>1. whole \o <<>> = whole
    BY <1>5
  <2> HIDE DEF room, last
  <2> QED
    BY <1>3, <1>4, <2>1
<1> QED
  BY <1>9, <1>10, <1>11

-----------------------------------------------------------------------------

\* The node has warned at most once of each query it ran and once of having no
\* evidence; and what it assembled has the properties.
CiteInv ==
    /\ size \in Sizes /\ groups \in Seq(Answers) /\ left \in 0..Queries /\ done \in BOOLEAN
    /\ warnings \in Nat /\ warnings + left <= Queries + (IF done THEN 1 ELSE 0)
    /\ done => left = 0
    /\ Len(evidence) <= MaxEvidence
    /\ Cite!MarkersAgree /\ Cite!BestKept /\ Cite!WithinBudget

LEMMA InitCite ==
    ASSUME Cite!Init
    PROVE  CiteInv
<1>1. Len(evidence) = 0 /\ groups \in Seq(Answers)
  BY DEF Cite!Init
<1>2. size \in Sizes /\ left = Queries /\ warnings = 0 /\ done = FALSE
  BY DEF Cite!Init
<1>3. Cite!MarkersAgree /\ Cite!BestKept /\ Cite!WithinBudget
  BY <1>2, Zenon DEF Cite!MarkersAgree, Cite!BestKept, Cite!WithinBudget
<1>4. warnings \in Nat /\ warnings + left <= Queries + (IF done THEN 1 ELSE 0) /\ left \in 0..Queries
  BY <1>2, CiteNumbers
<1>5. Len(evidence) <= MaxEvidence
  BY <1>1, CiteNumbers
<1> QED
  BY <1>1, <1>2, <1>3, <1>4, <1>5, Zenon DEF CiteInv

\* The evidence is the best of what the queries found, and the citations and
\* the blocks are made of it.
LEMMA AssembledIs ==
    ASSUME size \in [Spans -> Nat], groups \in Seq(Answers)
    PROVE  LET hits == Cite!Cut(Cite!MergeEvidence, MaxEvidence)
           IN  /\ hits \in Seq(Found) /\ Len(hits) <= MaxEvidence /\ Apart(hits)
               /\ \A h \in Cite!Hits :
                     \/ \E i \in DOMAIN hits : hits[i].span = h.span /\ hits[i].score >= h.score
                     \/ Len(hits) = MaxEvidence /\ \A i \in DOMAIN hits : hits[i].score >= h.score
<1> DEFINE flat == Cite!FlattenSeq(groups)
           u == Cite!Unique(flat)
           r == Cite!ByScore(u)
           hits == Cite!Cut(r, MaxEvidence)
<1>1. Cite!MergeEvidence = r
  BY Zenon DEF Cite!MergeEvidence
<1>2. groups \in Seq(Seq(Found))
  BY CiteNumbers
<1>3. /\ flat \in Seq(Found)
      /\ \A i \in DOMAIN groups : \A j \in DOMAIN groups[i] : \E k \in DOMAIN flat : flat[k] = groups[i][j]
  BY <1>2, FlatIs, Zenon
<1> HIDE DEF flat
<1>4. u \in Seq(Found) /\ Apart(u) /\ \A k \in DOMAIN flat : Holds(u, flat[k])
  BY <1>3, UniqueIs, Zenon
<1> HIDE DEF u
<1>5. /\ r \in Seq(Found) /\ Len(r) = Len(u) /\ Apart(r)
      /\ \A i \in DOMAIN u : \E j \in DOMAIN r : r[j] = u[i]
      /\ \A i, j \in DOMAIN r : i < j => r[i].score >= r[j].score
  BY <1>4, ByScoreIs, Zenon
<1> HIDE DEF r
<1>6. /\ hits \in Seq(Found) /\ Len(hits) <= MaxEvidence /\ Len(hits) <= Len(r)
      /\ Len(hits) < Len(r) => Len(hits) = MaxEvidence
      /\ \A i \in 1..Len(hits) : hits[i] = r[i]
  BY <1>5, CiteNumbers, CiteCut, Zenon
<1> HIDE DEF hits
<1>7. DOMAIN hits = 1..Len(hits) /\ DOMAIN r = 1..Len(r) /\ Len(hits) \in Nat /\ Len(r) \in Nat
  BY <1>5, <1>6
<1>8. \A i \in DOMAIN hits : i \in DOMAIN r /\ hits[i] = r[i]
  BY <1>6, <1>7
<1>9. Apart(hits)
  BY <1>5, <1>8 DEF Apart
<1>10. ASSUME NEW h \in Cite!Hits
       PROVE  \/ \E i \in DOMAIN hits : hits[i].span = h.span /\ hits[i].score >= h.score
              \/ Len(hits) = MaxEvidence /\ \A i \in DOMAIN hits : hits[i].score >= h.score
  <2>1. \E i \in DOMAIN groups : \E j \in DOMAIN groups[i] : h = groups[i][j]
    <3>1. Cite!Hits = UNION {Cite!Range(g) : g \in Cite!Range(groups)}
      BY Zenon DEF Cite!Hits
    <3>2. PICK g \in Cite!Range(groups) : h \in Cite!Range(g)
      BY <3>1, Zenon
    <3>3. PICK i \in DOMAIN groups : g = groups[i]
      BY <3>2, CiteRange, Zenon
    <3>4. PICK j \in DOMAIN g : h = g[j]
      BY <3>2, CiteRange, Zenon
    <3> QED
      BY <3>3, <3>4
  <2>2. Holds(u, h) /\ h \in Found
    <3>1. PICK i \in DOMAIN groups : \E j \in DOMAIN groups[i] : h = groups[i][j]
      BY <2>1
    <3>2. groups[i] \in Seq(Found)
      BY <1>2
    <3> QED
      BY <1>3, <1>4, <2>1, <3>1, <3>2
  <2>3. PICK k \in DOMAIN u : u[k].span = h.span /\ u[k].score >= h.score
    BY <2>2 DEF Holds
  <2>4. PICK m \in DOMAIN r : r[m].span = h.span /\ r[m].score >= h.score
    BY <1>5, <2>3
  <2>5. CASE m \in DOMAIN hits
    BY <1>8, <2>4, <2>5
  <2>6. CASE m \notin DOMAIN hits
    <3>1. Len(hits) = MaxEvidence /\ \A i2 \in DOMAIN hits : i2 < m
      BY <1>6, <1>7, <2>4, <2>6
    <3>2. ASSUME NEW i2 \in DOMAIN hits PROVE hits[i2].score >= h.score
      <4>1. hits[i2] = r[i2] /\ i2 \in DOMAIN r /\ r[i2].score >= r[m].score
        BY <1>5, <1>8, <3>1
      <4>2. r[i2] \in Found /\ r[m] \in Found /\ h \in Found
        BY <1>5, <2>2, <2>4, <4>1
      <4>3. r[i2].score \in Int /\ r[m].score \in Int /\ h.score \in Int
        BY <4>2 DEF Found
      <4> QED
        BY <2>4, <4>1, <4>3
    <3> QED
      BY <3>1, <3>2
  <2> QED
    BY <2>5, <2>6
<1> QED
  BY <1>1, <1>6, <1>9, <1>10 DEF hits

LEMMA CiteStep ==
    ASSUME CiteInv, Cite!Next
    PROVE  CiteInv'
<1>1. CASE Cite!RunQuery
  <2>1. ~done /\ ~done' /\ left \in Nat \ {0} /\ left' = left - 1 /\ left' \in 0..Queries
    BY <1>1, CiteNumbers DEF CiteInv, Cite!RunQuery
  <2>2. groups' \in Seq(Answers)
    BY <1>1 DEF CiteInv, Cite!RunQuery
  <2>3. warnings' \in Nat /\ warnings' + left' <= Queries
    BY <1>1, <2>1, CiteNumbers DEF CiteInv, Cite!RunQuery
  <2>4. (Cite!MarkersAgree /\ Cite!BestKept /\ Cite!WithinBudget)'
    BY <2>1 DEF Cite!MarkersAgree, Cite!BestKept, Cite!WithinBudget
  <2>5. size' = size /\ evidence' = evidence /\ done' = done
    BY <1>1 DEF Cite!RunQuery
  <2>6. warnings' + left' <= Queries + (IF done' THEN 1 ELSE 0)
    <3>1. (IF done' THEN 1 ELSE 0) = 0
      BY <2>1
    <3>2. Queries \in Nat
      BY CiteNumbers
    <3>3. warnings' + left' <= Queries + 0
      <4>1. Queries + 0 = Queries
        BY <3>2
      <4> QED
        BY <2>3, <4>1, Zenon
    <3> QED
      BY <3>1, <3>3, Zenon
  <2>7. /\ size' \in Sizes /\ done' \in BOOLEAN /\ (done' => left' = 0)
        /\ Len(evidence') <= MaxEvidence
    BY <2>1, <2>5, Zenon DEF CiteInv
  <2> QED
    BY <2>1, <2>2, <2>3, <2>4, <2>6, <2>7, Zenon DEF CiteInv
<1>2. CASE Cite!Assemble
  <2> DEFINE hits == Cite!Cut(Cite!MergeEvidence, MaxEvidence)
  <2>1. size \in [Spans -> Nat] /\ groups \in Seq(Answers)
    BY CiteNumbers DEF CiteInv
  <2>2. /\ hits \in Seq(Found) /\ Len(hits) <= MaxEvidence /\ Apart(hits)
        /\ \A h \in Cite!Hits :
              \/ \E i \in DOMAIN hits : hits[i].span = h.span /\ hits[i].score >= h.score
              \/ Len(hits) = MaxEvidence /\ \A i \in DOMAIN hits : hits[i].score >= h.score
    BY <2>1, AssembledIs, Zenon
  <2>3. /\ evidence' = hits /\ citations' = Cite!BuildCitations(hits) /\ context' = Cite!PackContext(hits)
        /\ warnings' = (IF hits = <<>> THEN warnings + 1 ELSE warnings)
        /\ left = 0 /\ ~done /\ done' = TRUE /\ UNCHANGED <<size, groups, left>>
    BY <1>2, Zenon DEF Cite!Assemble
  <2> HIDE DEF hits
  <2>4. /\ Len(citations') = Len(hits)
        /\ \A i \in 1..Len(hits) : citations'[i].span = hits[i].span
    BY <2>2, <2>3, CitationsAre
  <2>5. /\ context' \in Seq(Block) /\ Len(context') <= Len(hits)
        /\ \A i \in 1..Len(context') : context'[i].marker = i /\ context'[i].span = hits[i].span
        /\ Cite!Total(context') <= MaxChars
    BY <2>1, <2>2, <2>3, ContextIs
  <2>6. Cite!MarkersAgree'
    <3>1. DOMAIN context' = 1..Len(context') /\ Len(context') \in Nat /\ Len(hits) \in Nat
      BY <2>2, <2>5
    <3>2. \A i \in DOMAIN context' : i \in 1..Len(context') /\ i \in 1..Len(hits)
      BY <2>5, <3>1
    <3> QED
      BY <2>3, <2>4, <2>5, <3>2 DEF Cite!MarkersAgree
  <2>7. Cite!BestKept'
    <3>1. Cite!Hits' = Cite!Hits
      BY <2>3 DEF Cite!Hits
    <3> QED
      BY <2>2, <2>3, <3>1 DEF Cite!BestKept
  <2>8. Cite!WithinBudget'
    BY <2>5 DEF Cite!WithinBudget
  <2>9. warnings' \in Nat /\ warnings' + left' <= Queries + 1
    BY <2>3, CiteNumbers DEF CiteInv
  <2> QED
    BY <2>2, <2>3, <2>6, <2>7, <2>8, <2>9 DEF CiteInv
<1> QED
  BY <1>1, <1>2 DEF Cite!Next

LEMMA CiteStutter ==
    ASSUME CiteInv, UNCHANGED citeVars
    PROVE  CiteInv'
<1>1. /\ size' = size /\ groups' = groups /\ left' = left /\ warnings' = warnings
      /\ evidence' = evidence /\ citations' = citations /\ context' = context /\ done' = done
  BY DEF citeVars
<1>2. Cite!Hits' = Cite!Hits
  BY <1>1 DEF Cite!Hits
<1>3. /\ Cite!MarkersAgree' = Cite!MarkersAgree /\ Cite!BestKept' = Cite!BestKept
      /\ Cite!WithinBudget' = Cite!WithinBudget
  BY <1>1, <1>2 DEF Cite!MarkersAgree, Cite!BestKept, Cite!WithinBudget
<1> QED
  BY <1>1, <1>3 DEF CiteInv

LEMMA CiteTyped ==
    ASSUME CiteInv
    PROVE  Cite!TypeOK /\ Cite!MarkersAgree /\ Cite!BestKept /\ Cite!WithinBudget
  BY CiteNumbers DEF CiteInv, Cite!TypeOK

-----------------------------------------------------------------------------
(* Chunking: windows. *)

\* Where the window that starts after line i ends, of a piece that ends at b.
End(i, b) == IF i + Window <= b THEN i + Window ELSE b

\* The windows of a piece, under the name of the piece.
Piece(a, b, s) ==
    {Chunk!Chunk(i + 1, End(i, b), s) :
        i \in {i \in Chunk!WindowStarts(a, b) : ~Chunk!Blank(i, End(i, b))}}

LEMMA ChunkNumbers ==
    /\ Window \in Nat /\ Window > 0 /\ Overlap \in Nat /\ Overlap < Window
    /\ Chunk!Step \in Nat /\ Chunk!Step > 0 /\ Chunk!Step = Window - Overlap
<1>1. Window \in Nat /\ Window > 0 /\ Overlap \in Nat /\ Overlap < Window
  BY Assumptions DEF Chunk!ConstantsAssumption
<1> QED
  BY <1>1 DEF Chunk!Step

LEMMA ChunkMin ==
    ASSUME NEW x \in Int, NEW y \in Int
    PROVE  Chunk!Min({x, y}) = IF x <= y THEN x ELSE y
<1> DEFINE m == IF x <= y THEN x ELSE y
<1>1. \A z \in {x, y} : (\A w \in {x, y} : z <= w) <=> z = m
  OBVIOUS
<1>2. m \in {x, y}
  OBVIOUS
<1> HIDE DEF m
<1>3. (CHOOSE z \in {x, y} : \A w \in {x, y} : z <= w) = m
  BY <1>1, <1>2
<1> QED
  BY <1>3, Zenon DEF Chunk!Min, m

LEMMA Multiples ==
    ASSUME NEW k \in Nat, NEW m \in Nat, NEW p \in Nat, p > 0
    PROVE  /\ k * p \in Nat /\ k <= k * p
           /\ (k + 1) * p = k * p + p
           /\ k < m => k * p + p <= m * p
<1>1. \A q \in Nat : q * p \in Nat /\ q <= q * p /\ (q + 1) * p = q * p + p
  OBVIOUS
<1>2. ASSUME k < m PROVE k * p + p <= m * p
  <2>1. PICK t \in Nat : m = (k + 1) + t
    <3>1. m - (k + 1) \in Nat /\ m = (k + 1) + (m - (k + 1))
      BY <1>2
    <3> QED
      BY <3>1
  <2>2. ((k + 1) + t) * p = (k + 1) * p + t * p
    OBVIOUS
  <2>3. t * p \in Nat /\ (k + 1) * p = k * p + p /\ k * p \in Nat
    BY <1>1
  <2> QED
    BY <2>1, <2>2, <2>3
<1> QED
  BY <1>1, <1>2

\* The windows of a piece start at its start, and a step after any window that
\* does not reach its end; two of them start at least a step apart.
LEMMA WindowStartsAre ==
    ASSUME NEW a \in Nat, NEW b \in Nat
    PROVE  /\ \A i \in Chunk!WindowStarts(a, b) :
                 /\ i \in Nat /\ a <= i /\ i < b
                 /\ i > a => (i - Chunk!Step) + Window < b
                 /\ i + Window < b => i + Chunk!Step \in Chunk!WindowStarts(a, b)
           /\ a < b => a \in Chunk!WindowStarts(a, b)
           /\ \A i, j \in Chunk!WindowStarts(a, b) : i < j => i + Chunk!Step <= j
<1> DEFINE p == Chunk!Step
           W == Chunk!WindowStarts(a, b)
           Of(i, k) == k \in 0..(b - a) /\ i = a + k * p
<1>1. /\ p \in Nat /\ p > 0 /\ p = Window - Overlap
      /\ Window \in Nat /\ Window > 0 /\ Overlap \in Nat /\ Overlap < Window
  BY ChunkNumbers
<1>2. \A i : i \in W <=> (\E k \in 0..(b - a) : i = a + k * p) /\ i < b /\ (i > a => (i - p) + Window < b)
  BY Zenon DEF Chunk!WindowStarts
<1> HIDE DEF p, W
<1>3. \A i \in W : i \in Nat /\ a <= i /\ i < b /\ (i > a => (i - p) + Window < b)
  <2> TAKE i \in W
  <2>1. PICK k \in 0..(b - a) : i = a + k * p
    BY <1>2
  <2>2. k * p \in Nat
    BY <1>1, Multiples
  <2> QED
    BY <1>2, <2>1, <2>2
<1>4. ASSUME NEW i \in W, i + Window < b PROVE i + p \in W
  <2>1. PICK k \in 0..(b - a) : i = a + k * p
    BY <1>2
  <2>2. k * p \in Nat /\ (k + 1) * p = k * p + p /\ k + 1 <= (k + 1) * p
    BY <1>1, Multiples
  <2>3. i + p = a + (k + 1) * p /\ i + p < b /\ (i + p) - p = i
    BY <1>1, <1>3, <1>4, <2>1, <2>2
  <2>4. k + 1 \in 0..(b - a)
    <3>1. k \in Nat /\ k + 1 \in Nat
      OBVIOUS
    <3>2. (k + 1) * p \in Nat
      BY <1>1, <3>1, Multiples
    <3>3. PICK q \in Nat : q = (k + 1) * p
      BY <3>2
    <3>4. a + q < b /\ k + 1 <= q
      BY <2>2, <2>3, <3>3
    <3> QED
      BY <3>1, <3>4
  <2> QED
    BY <1>2, <1>4, <2>3, <2>4
<1>5. ASSUME a < b PROVE a \in W
  <2>1. 0 \in 0..(b - a) /\ a = a + 0 * p
    BY <1>1, <1>5
  <2> QED
    BY <1>2, <1>5, <2>1
<1>6. ASSUME NEW i \in W, NEW j \in W, i < j PROVE i + p <= j
  <2>1. PICK k \in 0..(b - a) : i = a + k * p
    BY <1>2
  <2>2. PICK m \in 0..(b - a) : j = a + m * p
    BY <1>2
  <2>3. k \in Nat /\ m \in Nat
    OBVIOUS
  <2>4. k * p \in Nat /\ m * p \in Nat /\ (k < m => k * p + p <= m * p) /\ (m < k => m * p + p <= k * p)
    BY <1>1, <2>3, Multiples
  <2>5. k < m
    <3>1. CASE k = m
      BY <1>6, <2>1, <2>2, <2>4, <3>1
    <3>2. CASE m < k
      BY <1>1, <1>6, <2>1, <2>2, <2>4, <3>2
    <3> QED
      BY <2>3, <3>1, <3>2
  <2> QED
    BY <1>1, <2>1, <2>2, <2>4, <2>5
<1> QED
  BY <1>3, <1>4, <1>5, <1>6 DEF p, W

LEMMA PieceIs ==
    ASSUME NEW a \in Nat, NEW b \in Nat, NEW s, NEW c \in Piece(a, b, s)
    PROVE  \E i \in Chunk!WindowStarts(a, b) :
              /\ c = [from |-> i + 1, to |-> End(i, b), symbol |-> s]
              /\ ~(((i + 1)..End(i, b)) \subseteq file.blank)
  BY Zenon DEF Piece, Chunk!Chunk, Chunk!Blank

LEMMA WindowsAre ==
    ASSUME NEW a \in Nat, NEW b \in Nat
    PROVE  /\ Chunk!Windows(a, b) = Piece(a, b, None)
           /\ \A s : Chunk!Named(Chunk!Windows(a, b), s) = Piece(a, b, s)
<1>1. \A i \in Chunk!WindowStarts(a, b) : Chunk!Min({i + Window, b}) = End(i, b)
  <2> TAKE i \in Chunk!WindowStarts(a, b)
  <2>1. i + Window \in Int /\ b \in Int
    <3>1. i \in Nat
      BY WindowStartsAre
    <3>2. Window \in Nat
      BY ChunkNumbers
    <3> QED
      BY <3>1, <3>2
  <2> QED
    BY <2>1, ChunkMin, Zenon DEF End
<1>2. Chunk!Windows(a, b) = Piece(a, b, None)
  BY <1>1, Zenon DEF Chunk!Windows, Piece
<1>3. ASSUME NEW s PROVE Chunk!Named(Piece(a, b, None), s) = Piece(a, b, s)
  <2>1. \A x, y, r : [Chunk!Chunk(x, y, r) EXCEPT !.symbol = s] = Chunk!Chunk(x, y, s)
    BY DEF Chunk!Chunk
  <2>2. Chunk!Named(Piece(a, b, None), s) = {[c EXCEPT !.symbol = s] : c \in Piece(a, b, None)}
    BY Zenon DEF Chunk!Named
  <2>3. ASSUME NEW c \in Piece(a, b, None) PROVE [c EXCEPT !.symbol = s] \in Piece(a, b, s)
    <3>1. PICK i \in {i \in Chunk!WindowStarts(a, b) : ~Chunk!Blank(i, End(i, b))} :
             c = Chunk!Chunk(i + 1, End(i, b), None)
      BY Zenon DEF Piece
    <3>2. [c EXCEPT !.symbol = s] = Chunk!Chunk(i + 1, End(i, b), s)
      BY <2>1, <3>1, Zenon
    <3> QED
      BY <3>2, Zenon DEF Piece
  <2>4. ASSUME NEW c \in Piece(a, b, s) PROVE \E d \in Piece(a, b, None) : c = [d EXCEPT !.symbol = s]
    <3>1. PICK i \in {i \in Chunk!WindowStarts(a, b) : ~Chunk!Blank(i, End(i, b))} :
             c = Chunk!Chunk(i + 1, End(i, b), s)
      BY Zenon DEF Piece
    <3>2. Chunk!Chunk(i + 1, End(i, b), None) \in Piece(a, b, None)
      BY Zenon DEF Piece
    <3>3. c = [Chunk!Chunk(i + 1, End(i, b), None) EXCEPT !.symbol = s]
      BY <2>1, <3>1, Zenon
    <3> QED
      BY <3>2, <3>3, Zenon
  <2>5. \A c : c \in {[d EXCEPT !.symbol = s] : d \in Piece(a, b, None)} <=> c \in Piece(a, b, s)
    BY <2>3, <2>4, Zenon
  <2> QED
    BY <2>2, <2>5, Zenon
<1> QED
  BY <1>2, <1>3, Zenon

\* A window is of lines of its piece, not all blank, at most a window long.
LEMMA PieceWithin ==
    ASSUME NEW a \in Nat, NEW b \in Nat, NEW s, NEW c \in Piece(a, b, s)
    PROVE  /\ c.from \in Nat /\ c.to \in Nat /\ a < c.from /\ c.from <= c.to /\ c.to <= b
           /\ c.symbol = s /\ c.to - c.from < Window /\ ~(c.from..c.to \subseteq file.blank)
<1>1. PICK i \in Chunk!WindowStarts(a, b) :
         /\ c = [from |-> i + 1, to |-> End(i, b), symbol |-> s]
         /\ ~(((i + 1)..End(i, b)) \subseteq file.blank)
  BY PieceIs
<1>2. i \in Nat /\ a <= i /\ i < b /\ Window \in Nat /\ Window > 0
  BY ChunkNumbers, WindowStartsAre
<1>3. c.from = i + 1 /\ c.to = End(i, b) /\ c.symbol = s
  BY <1>1
<1>4. End(i, b) \in Nat /\ i + 1 <= End(i, b) /\ End(i, b) <= b /\ End(i, b) - (i + 1) < Window
  BY <1>2 DEF End
<1> QED
  BY <1>1, <1>2, <1>3, <1>4

\* No window of a piece is inside another: each ends after those before it.
LEMMA PieceApart ==
    ASSUME NEW a \in Nat, NEW b \in Nat, NEW s, NEW c \in Piece(a, b, s), NEW d \in Piece(a, b, s),
           c.from..c.to \subseteq d.from..d.to
    PROVE  c = d
<1>1. PICK i \in Chunk!WindowStarts(a, b) : c = [from |-> i + 1, to |-> End(i, b), symbol |-> s]
  BY PieceIs
<1>2. PICK j \in Chunk!WindowStarts(a, b) : d = [from |-> j + 1, to |-> End(j, b), symbol |-> s]
  BY PieceIs
<1>3. /\ i \in Nat /\ j \in Nat /\ a <= i /\ i < b /\ a <= j /\ j < b
      /\ j > a => (j - Chunk!Step) + Window < b
      /\ i > a => (i - Chunk!Step) + Window < b
      /\ j < i => j + Chunk!Step <= i
      /\ Window \in Nat /\ Window > 0 /\ Chunk!Step \in Nat /\ Chunk!Step > 0
  BY ChunkNumbers, WindowStartsAre
<1>4. c.from = i + 1 /\ c.to = End(i, b) /\ d.from = j + 1 /\ d.to = End(j, b)
  BY <1>1, <1>2
<1>5. End(i, b) \in Nat /\ i + 1 <= End(i, b) /\ End(j, b) \in Nat /\ j + 1 <= End(j, b)
  BY <1>3 DEF End
<1>6. i + 1 \in (j + 1)..End(j, b) /\ End(i, b) \in (j + 1)..End(j, b)
  <2>1. i + 1 \in (i + 1)..End(i, b) /\ End(i, b) \in (i + 1)..End(i, b)
    BY <1>3, <1>5
  <2> QED
    BY <1>4, <2>1
<1>7. j <= i /\ End(i, b) <= End(j, b)
  BY <1>3, <1>5, <1>6
<1>8. ~(j < i)
  <2> SUFFICES ASSUME j < i PROVE FALSE
    OBVIOUS
  <2>1. j + Chunk!Step <= i /\ (i - Chunk!Step) + Window < b
    BY <1>3
  <2>2. j + Window < b
    BY <1>3, <2>1
  <2>3. End(j, b) = j + Window
    BY <1>3, <2>2 DEF End
  <2>4. End(i, b) > j + Window
    BY <1>3, <2>2 DEF End
  <2> QED
    BY <1>3, <1>5, <1>7, <2>3, <2>4
<1>9. i = j
  BY <1>3, <1>7, <1>8
<1> QED
  BY <1>1, <1>2, <1>9

\* Lines at most the overlap apart are together in a window of their piece.
LEMMA PieceCovers ==
    ASSUME NEW a \in Nat, NEW b \in Nat, NEW s, NEW x \in Nat, NEW y \in Nat,
           a < x, x <= y, y <= b, y <= x + Overlap, x \notin file.blank
    PROVE  \E c \in Piece(a, b, s) : x..y \subseteq c.from..c.to
<1> DEFINE below == {i \in Chunk!WindowStarts(a, b) : i < x}
<1>1. below \in SUBSET (0..x) /\ below # {}
  <2>1. a \in below
    BY WindowStartsAre
  <2>2. \A i \in below : i \in 0..x
    BY WindowStartsAre
  <2> QED
    BY <2>1, <2>2
<1>2. PICK i \in below : \A k \in below : i >= k
  <2> HIDE DEF below
  <2> QED
    BY <1>1, GreatestExists
<1>3. /\ i \in Nat /\ i < x /\ i < b /\ i \in Chunk!WindowStarts(a, b)
      /\ i + Window < b => i + Chunk!Step \in Chunk!WindowStarts(a, b)
  BY WindowStartsAre
<1>4. /\ Window \in Nat /\ Overlap \in Nat /\ Overlap < Window
      /\ Chunk!Step \in Nat /\ Chunk!Step > 0 /\ Chunk!Step = Window - Overlap
  BY ChunkNumbers
<1>5. y <= i + Window
  <2> SUFFICES ASSUME y > i + Window PROVE FALSE
    BY <1>3, <1>4
  <2>1. i + Window < b /\ i + Chunk!Step < x
    BY <1>3, <1>4
  <2>2. i + Chunk!Step \in below
    BY <1>3, <2>1
  <2> QED
    BY <1>2, <1>3, <1>4, <2>2
<1>6. y <= End(i, b) /\ End(i, b) \in Nat
  BY <1>3, <1>4, <1>5 DEF End
<1>7. x \in (i + 1)..End(i, b)
  BY <1>3, <1>6
<1> DEFINE c == Chunk!Chunk(i + 1, End(i, b), s)
<1>8. c \in Piece(a, b, s)
  <2>1. ~Chunk!Blank(i, End(i, b))
    BY <1>7, Zenon DEF Chunk!Blank
  <2> QED
    BY <1>3, <2>1, Zenon DEF Piece
<1>9. c.from = i + 1 /\ c.to = End(i, b)
  BY DEF Chunk!Chunk
<1>10. x..y \subseteq (i + 1)..End(i, b)
  BY <1>3, <1>6
<1> HIDE DEF c
<1> QED
  BY <1>8, <1>9, <1>10

-----------------------------------------------------------------------------
(* Chunking: what every kind of file keeps. *)

LEMMA FileIs ==
    ASSUME file \in Files
    PROVE  /\ file.n \in Nat /\ file.heads \subseteq 1..file.n
           /\ None \notin file.heads /\ None \notin DOMAIN file.nodes
           /\ \A d \in DOMAIN file.nodes :
                 file.nodes[d].from \in 1..file.n /\ file.nodes[d].to \in file.nodes[d].from..file.n
  BY Assumptions DEF Chunk!ConstantsAssumption

\* A definition has the rows and the name of a node that the walk reaches.
LEMMA DefinitionIs ==
    ASSUME file \in Files, NEW d \in Chunk!Definitions
    PROVE  /\ d.name \in DOMAIN file.nodes /\ d.name # None
           /\ d.from = file.nodes[d.name].from /\ d.to = file.nodes[d.name].to
           /\ d = [from |-> d.from, to |-> d.to, name |-> d.name]
           /\ Chunk!Reached(d.name) /\ file.nodes[d.name].def
           /\ d.from \in 1..file.n /\ d.to \in d.from..file.n
           /\ d.from \in Nat /\ d.to \in Nat /\ d.from > 0 /\ d.from <= d.to /\ d.to <= file.n
<1>1. PICK k \in {k \in DOMAIN file.nodes : Chunk!Reached(k) /\ file.nodes[k].def} :
         d = [from |-> file.nodes[k].from, to |-> file.nodes[k].to, name |-> k]
  BY Zenon DEF Chunk!Definitions
<1>2. k \in DOMAIN file.nodes /\ Chunk!Reached(k) /\ file.nodes[k].def
  BY <1>1
<1>3. d.name = k /\ d.from = file.nodes[k].from /\ d.to = file.nodes[k].to
  BY <1>1
<1>4. file.n \in Nat /\ d.from \in 1..file.n /\ d.to \in d.from..file.n /\ k # None
  BY <1>2, <1>3, FileIs
<1>5. d.from \in Nat /\ d.to \in Nat /\ d.from > 0 /\ d.from <= d.to /\ d.to <= file.n
  BY <1>4
<1> QED
  BY <1>1, <1>2, <1>3, <1>4, <1>5

\* A heading or the end of a definition keeps lines x..y from one chunk.
Split(x, y) ==
    \/ Chunk!ChunkType(file.lang) = "markdown" /\ \E h \in file.heads : h - 1 \in x..y /\ h \in x..y
    \/ \E d \in Chunk!Cut : \/ d.from - 1 \in x..y /\ d.from \in x..y
                            \/ d.to \in x..y /\ d.to + 1 \in x..y

\* Lines that are not split and at most the overlap apart are in one chunk.
AllTogether ==
    \A x \in 1..file.n : \A y \in x..file.n :
        y <= x + Overlap /\ (x..y) \cap file.blank = {} /\ ~Split(x, y)
            => \E c \in chunks : x..y \subseteq c.from..c.to

LEMMA CoveredBy ==
    ASSUME file \in Files, AllTogether
    PROVE  Chunk!Covered /\ Chunk!Together
<1>0. file.n \in Nat /\ Overlap \in Nat
  BY FileIs, ChunkNumbers
<1>1. ASSUME NEW x \in (1..file.n) \ file.blank
      PROVE  x \in UNION {Chunk!Span(c) : c \in chunks}
  <2>1. x \in 1..file.n /\ x \in x..file.n /\ x <= x + Overlap /\ (x..x) \cap file.blank = {} /\ x \in x..x
    BY <1>0
  <2>2. ~Split(x, x)
    <3>1. \A h \in file.heads : h \in x..x => ~(h - 1 \in x..x)
      BY <1>0, FileIs
    <3>2. \A d \in Chunk!Cut : d.from \in Nat /\ d.to \in Nat
      <4>1. \A d \in Chunk!Cut : d \in Chunk!Definitions
        BY Zenon DEF Chunk!Cut
      <4> QED
        BY <4>1, DefinitionIs
    <3>3. \A z \in Int : ~(z - 1 \in x..x /\ z \in x..x) /\ ~(z \in x..x /\ z + 1 \in x..x)
      BY <1>0
    <3> QED
      BY <3>1, <3>2, <3>3 DEF Split
  <2>3. PICK c \in chunks : x..x \subseteq c.from..c.to
    BY <2>1, <2>2 DEF AllTogether
  <2> QED
    BY <2>1, <2>3 DEF Chunk!Span
<1>2. Chunk!Covered
  BY <1>1, Zenon DEF Chunk!Covered
<1>3. ASSUME NEW i \in 1..(file.n - Overlap), (i..(i + Overlap)) \cap file.blank = {}, ~Split(i, i + Overlap)
      PROVE  \E c \in chunks : i..(i + Overlap) \subseteq Chunk!Span(c)
  <2>1. i \in 1..file.n /\ i + Overlap \in i..file.n /\ i + Overlap <= i + Overlap
    BY <1>0
  <2> QED
    BY <1>3, <2>1 DEF AllTogether, Chunk!Span
<1>4. Chunk!Together
  BY <1>3, Zenon DEF Chunk!Together, Split
<1> QED
  BY <1>2, <1>4

-----------------------------------------------------------------------------
(* Files that are only windowed. *)

LEMMA WindowedIs ==
    ASSUME file \in Files, chunks = Chunk!Windows(0, file.n), Chunk!Cut = {},
           Chunk!ChunkType(file.lang) # "markdown"
    PROVE  /\ Chunk!TypeOK /\ Chunk!Covered /\ Chunk!Together /\ Chunk!NoneInside
           /\ Chunk!DefinitionsWhole /\ Chunk!Bounded
<1>0. file.n \in Nat /\ 0 \in Nat
  BY FileIs
<1>1. chunks = Piece(0, file.n, None)
  BY <1>0, WindowsAre
<1>2. \A c \in chunks : /\ c.from \in Nat /\ c.to \in Nat /\ 0 < c.from /\ c.from <= c.to /\ c.to <= file.n
                        /\ c.symbol = None /\ c.to - c.from < Window /\ ~(c.from..c.to \subseteq file.blank)
  BY <1>0, <1>1, PieceWithin
<1>3. Chunk!TypeOK
  BY <1>2 DEF Chunk!TypeOK, Chunk!Span
<1>4. AllTogether
  <2> SUFFICES ASSUME NEW x \in 1..file.n, NEW y \in x..file.n, y <= x + Overlap, (x..y) \cap file.blank = {}
               PROVE  \E c \in chunks : x..y \subseteq c.from..c.to
    BY DEF AllTogether
  <2>1. x \in Nat /\ y \in Nat /\ 0 < x /\ x <= y /\ y <= file.n /\ x \in x..y
    BY <1>0
  <2>2. x \notin file.blank
    BY <2>1
  <2> QED
    BY <1>0, <1>1, <2>1, <2>2, PieceCovers
<1>5. Chunk!NoneInside
  BY <1>0, <1>1, PieceApart DEF Chunk!NoneInside, Chunk!Span
<1>6. Chunk!DefinitionsWhole
  BY <1>2, Zenon DEF Chunk!DefinitionsWhole
<1>7. Chunk!Bounded
  BY <1>2, ChunkNumbers DEF Chunk!Bounded
<1> QED
  BY <1>3, <1>4, <1>5, <1>6, <1>7, CoveredBy

-----------------------------------------------------------------------------
(* Markdown. *)

\* A section ends before the next one starts, and the last at the end.
LEMMA SectionEndIs ==
    ASSUME file \in Files, file.n > 0, NEW s \in Chunk!Starts
    PROVE  /\ s \in 1..file.n /\ Chunk!SectionEnd(s) \in s..file.n
           /\ \A h \in Chunk!Starts : h > s => h > Chunk!SectionEnd(s)
           /\ Chunk!SectionEnd(s) = file.n \/ Chunk!SectionEnd(s) + 1 \in Chunk!Starts
<1>0. file.n \in Nat /\ Chunk!Starts \subseteq 1..file.n
  BY FileIs DEF Chunk!Starts
<1> DEFINE ends == {file.n} \union {h - 1 : h \in {h \in Chunk!Starts : h > s}}
<1>1. /\ file.n \in ends
      /\ \A h \in Chunk!Starts : h > s => h - 1 \in ends
      /\ \A e \in ends : e = file.n \/ (\E h \in Chunk!Starts : h > s /\ e = h - 1)
  OBVIOUS
<1>2. Chunk!SectionEnd(s) = Chunk!Min(ends)
  BY Zenon DEF Chunk!SectionEnd
<1> HIDE DEF ends
<1>3. \A e \in ends : e \in s..file.n /\ e \in Nat
  <2> TAKE e \in ends
  <2>1. s \in 1..file.n
    BY <1>0
  <2>2. CASE e = file.n
    BY <1>0, <2>1, <2>2
  <2>3. CASE \E h \in Chunk!Starts : h > s /\ e = h - 1
    BY <1>0, <2>1, <2>3
  <2> QED
    BY <1>1, <2>2, <2>3
<1>4. PICK m \in ends : \A e \in ends : m <= e
  <2>1. ends \in SUBSET Nat /\ ends # {}
    BY <1>1, <1>3
  <2> QED
    BY <2>1, LeastExists
<1>5. \A x \in ends : (\A e \in ends : x <= e) <=> x = m
  BY <1>3, <1>4
<1>6. (CHOOSE x \in ends : \A e \in ends : x <= e) = m
  BY <1>5
<1>7. Chunk!SectionEnd(s) = m
  BY <1>2, <1>6, Zenon DEF Chunk!Min
<1>8. m \in s..file.n /\ s \in 1..file.n
  BY <1>0, <1>3
<1>9. ASSUME NEW h \in Chunk!Starts, h > s PROVE h > m
  <2>1. h - 1 \in ends
    BY <1>1, <1>9
  <2>2. m <= h - 1
    BY <1>4, <2>1
  <2> QED
    BY <1>0, <1>8, <2>2
<1>10. m = file.n \/ m + 1 \in Chunk!Starts
  <2> SUFFICES ASSUME m # file.n PROVE m + 1 \in Chunk!Starts
    OBVIOUS
  <2>1. PICK h \in Chunk!Starts : h > s /\ m = h - 1
    BY <1>1
  <2>2. h = m + 1
    BY <1>0, <2>1
  <2> QED
    BY <2>2
<1> QED
  BY <1>7, <1>8, <1>9, <1>10

\* The last line of the text of a section, and the chunks of the section.
LastOf(s) == IF Chunk!SectionEnd(s) \in file.blank THEN Chunk!SectionEnd(s) - 1 ELSE Chunk!SectionEnd(s)

LEMMA SectionIs ==
    ASSUME file \in Files, file.n > 0, NEW s \in Chunk!Starts
    PROVE  LET e == Chunk!SectionEnd(s)
           IN  /\ LastOf(s) \in Nat /\ LastOf(s) <= e /\ e <= LastOf(s) + 1
               /\ Chunk!SectionChunks(s) =
                     IF s..e \subseteq file.blank THEN {}
                     ELSE IF LastOf(s) - s + 1 <= 2 * Window THEN {Chunk!Chunk(s, e, Chunk!Heading(s))}
                     ELSE Piece(s - 1, LastOf(s), Chunk!Heading(s))
<1> DEFINE e == Chunk!SectionEnd(s)
<1>0. file.n \in Nat /\ s \in 1..file.n /\ e \in s..file.n
  BY FileIs, SectionEndIs
<1>1. LastOf(s) \in Nat /\ LastOf(s) <= e /\ e <= LastOf(s) + 1
  BY <1>0 DEF LastOf
<1>2. s - 1 \in Nat /\ (s - 1) + 1 = s
  BY <1>0
<1>3. Chunk!Named(Chunk!Windows(s - 1, LastOf(s)), Chunk!Heading(s)) = Piece(s - 1, LastOf(s), Chunk!Heading(s))
  BY <1>1, <1>2, WindowsAre
<1>4. Chunk!Blank(s - 1, e) <=> s..e \subseteq file.blank
  BY <1>2, Zenon DEF Chunk!Blank
<1>5. Chunk!SectionChunks(s) =
         IF Chunk!Blank(s - 1, e) THEN {}
         ELSE IF LastOf(s) - s + 1 <= 2 * Window THEN {Chunk!Chunk(s, e, Chunk!Heading(s))}
         ELSE Chunk!Named(Chunk!Windows(s - 1, LastOf(s)), Chunk!Heading(s))
  BY Zenon DEF Chunk!SectionChunks, LastOf
<1> HIDE DEF e
<1>6. Chunk!SectionChunks(s) =
         IF s..e \subseteq file.blank THEN {}
         ELSE IF LastOf(s) - s + 1 <= 2 * Window THEN {Chunk!Chunk(s, e, Chunk!Heading(s))}
         ELSE Piece(s - 1, LastOf(s), Chunk!Heading(s))
  BY <1>3, <1>4, <1>5, Zenon
<1> QED
  BY <1>1, <1>6 DEF e

\* Chunks of a section are of its lines.
LEMMA SectionWithin ==
    ASSUME file \in Files, file.n > 0, NEW s \in Chunk!Starts, NEW c \in Chunk!SectionChunks(s)
    PROVE  /\ c.from \in Nat /\ c.to \in Nat /\ s <= c.from /\ c.from <= c.to /\ c.to <= Chunk!SectionEnd(s)
           /\ c.to - c.from < 3 * Window /\ ~(c.from..c.to \subseteq file.blank)
<1> DEFINE e == Chunk!SectionEnd(s)
           l == LastOf(s)
<1>0. file.n \in Nat /\ s \in 1..file.n /\ e \in s..file.n
  BY FileIs, SectionEndIs
<1>1. /\ l \in Nat /\ l <= e /\ e <= l + 1
      /\ Chunk!SectionChunks(s) =
            IF s..e \subseteq file.blank THEN {}
            ELSE IF l - s + 1 <= 2 * Window THEN {Chunk!Chunk(s, e, Chunk!Heading(s))}
            ELSE Piece(s - 1, l, Chunk!Heading(s))
  BY SectionIs
<1> HIDE DEF e, l
<1>2. CASE ~(s..e \subseteq file.blank) /\ l - s + 1 <= 2 * Window /\ c = Chunk!Chunk(s, e, Chunk!Heading(s))
  <2>1. c.from = s /\ c.to = e
    BY <1>2 DEF Chunk!Chunk
  <2>2. Window \in Nat /\ Window > 0
    BY ChunkNumbers
  <2>3. e - s < 3 * Window
    BY <1>0, <1>1, <1>2, <2>2
  <2> QED
    BY <1>0, <1>2, <2>1, <2>3 DEF e
<1>3. CASE c \in Piece(s - 1, l, Chunk!Heading(s))
  <2>1. s - 1 \in Nat
    BY <1>0
  <2>2. /\ c.from \in Nat /\ c.to \in Nat /\ s - 1 < c.from /\ c.from <= c.to /\ c.to <= l
        /\ c.to - c.from < Window /\ ~(c.from..c.to \subseteq file.blank)
    BY <1>1, <1>3, <2>1, PieceWithin
  <2>3. s <= c.from /\ c.to <= e /\ c.to - c.from < 3 * Window
    BY <1>0, <1>1, <2>2, ChunkNumbers
  <2> QED
    BY <2>2, <2>3 DEF e
<1> QED
  BY <1>1, <1>2, <1>3

LEMMA MarkdownIs ==
    ASSUME file \in Files, file.n > 0, chunks = Chunk!MarkdownChunks,
           Chunk!ChunkType(file.lang) = "markdown"
    PROVE  /\ Chunk!TypeOK /\ Chunk!Covered /\ Chunk!Together /\ Chunk!NoneInside
           /\ Chunk!DefinitionsWhole /\ Chunk!Bounded
<1>0. file.n \in Nat /\ Chunk!Starts \subseteq 1..file.n
  BY FileIs DEF Chunk!Starts
<1>1. /\ \A c \in chunks : \E s \in Chunk!Starts : c \in Chunk!SectionChunks(s)
      /\ \A s \in Chunk!Starts : Chunk!SectionChunks(s) \subseteq chunks
  BY Zenon DEF Chunk!MarkdownChunks
<1>2. \A c \in chunks : /\ c.from \in Nat /\ c.to \in Nat /\ 1 <= c.from /\ c.from <= c.to /\ c.to <= file.n
                        /\ c.to - c.from < 3 * Window /\ ~(c.from..c.to \subseteq file.blank)
  <2> TAKE c \in chunks
  <2>1. PICK s \in Chunk!Starts : c \in Chunk!SectionChunks(s)
    BY <1>1
  <2>2. s \in 1..file.n /\ Chunk!SectionEnd(s) \in s..file.n
    BY SectionEndIs
  <2> QED
    BY <1>0, <2>1, <2>2, SectionWithin
<1>3. Chunk!TypeOK
  BY <1>2 DEF Chunk!TypeOK, Chunk!Span
<1>4. Chunk!Bounded
  BY <1>2, Zenon DEF Chunk!Bounded
<1>5. AllTogether
  <2> SUFFICES ASSUME NEW x \in 1..file.n, NEW y \in x..file.n, y <= x + Overlap, (x..y) \cap file.blank = {},
                      ~Split(x, y)
               PROVE  \E c \in chunks : x..y \subseteq c.from..c.to
    BY DEF AllTogether
  <2>1. x \in Nat /\ y \in Nat /\ 0 < x /\ x <= y /\ y <= file.n /\ x \in x..y /\ y \in x..y
    BY <1>0
  <2>2. x \notin file.blank /\ y \notin file.blank
    BY <2>1
  <2> DEFINE before == {s \in Chunk!Starts : s <= x}
  <2>3. PICK s \in before : \A k \in before : s >= k
    <3>1. before \in SUBSET (0..x) /\ 1 \in before
      BY <1>0, <2>1 DEF Chunk!Starts
    <3> HIDE DEF before
    <3> QED
      BY <2>1, <3>1, GreatestExists
  <2> DEFINE e == Chunk!SectionEnd(s)
             l == LastOf(s)
  <2>4. s \in Chunk!Starts /\ s <= x /\ \A k \in Chunk!Starts : k <= x => s >= k
    BY <2>3
  <2>5. /\ s \in 1..file.n /\ e \in s..file.n
        /\ e = file.n \/ e + 1 \in Chunk!Starts
        /\ \A h \in Chunk!Starts : h > s => h > e
    BY <2>4, SectionEndIs
  <2>6. /\ l \in Nat /\ l <= e /\ e <= l + 1
        /\ Chunk!SectionChunks(s) =
              IF s..e \subseteq file.blank THEN {}
              ELSE IF l - s + 1 <= 2 * Window THEN {Chunk!Chunk(s, e, Chunk!Heading(s))}
              ELSE Piece(s - 1, l, Chunk!Heading(s))
    BY <2>4, SectionIs
  <2>7. l = (IF e \in file.blank THEN e - 1 ELSE e)
    BY Zenon DEF LastOf
  <2> HIDE DEF before, e, l
  <2>8. x <= e
    <3> SUFFICES ASSUME e < x PROVE FALSE
      BY <1>0, <2>1, <2>5
    <3>1. e + 1 \in Chunk!Starts /\ e + 1 <= x
      BY <1>0, <2>1, <2>5
    <3>2. s >= e + 1
      BY <2>4, <3>1
    <3> QED
      BY <1>0, <2>5, <3>2
  <2>9. y <= e
    <3> SUFFICES ASSUME e < y PROVE FALSE
      BY <1>0, <2>1, <2>5
    <3>1. e + 1 \in Chunk!Starts /\ e + 1 # 1
      BY <1>0, <2>1, <2>5
    <3>2. e + 1 \in file.heads
      BY <3>1 DEF Chunk!Starts
    <3>3. e \in x..y /\ e + 1 \in x..y /\ (e + 1) - 1 = e
      BY <1>0, <2>1, <2>5, <2>8
    <3>4. Split(x, y)
      BY <3>2, <3>3, Zenon DEF Split
    <3> QED
      BY <3>4
  <2>10. y <= l
    BY <1>0, <2>1, <2>2, <2>5, <2>7, <2>9
  <2>11. ~(s..e \subseteq file.blank)
    <3>1. x \in s..e
      BY <1>0, <2>1, <2>4, <2>5, <2>8
    <3> QED
      BY <2>2, <3>1
  <2>12. CASE l - s + 1 <= 2 * Window
    <3>1. Chunk!Chunk(s, e, Chunk!Heading(s)) \in chunks
      BY <1>1, <2>4, <2>6, <2>11, <2>12
    <3>2. Chunk!Chunk(s, e, Chunk!Heading(s)).from = s /\ Chunk!Chunk(s, e, Chunk!Heading(s)).to = e
      BY DEF Chunk!Chunk
    <3>3. x..y \subseteq s..e
      BY <1>0, <2>1, <2>4, <2>5, <2>9
    <3> QED
      BY <3>1, <3>2, <3>3
  <2>13. CASE ~(l - s + 1 <= 2 * Window)
    <3>1. Chunk!SectionChunks(s) = Piece(s - 1, l, Chunk!Heading(s))
      BY <2>6, <2>11, <2>13
    <3>2. s - 1 \in Nat /\ s - 1 < x
      BY <1>0, <2>1, <2>4, <2>5
    <3>3. \E c \in Piece(s - 1, l, Chunk!Heading(s)) : x..y \subseteq c.from..c.to
      BY <2>1, <2>2, <2>6, <2>10, <3>2, PieceCovers
    <3> QED
      BY <1>1, <2>4, <3>1, <3>3
  <2> QED
    BY <2>12, <2>13
<1>6. ASSUME NEW c \in chunks, NEW d \in chunks, c.from..c.to \subseteq d.from..d.to PROVE c = d
  <2>1. PICK s \in Chunk!Starts : c \in Chunk!SectionChunks(s)
    BY <1>1
  <2>2. PICK t \in Chunk!Starts : d \in Chunk!SectionChunks(t)
    BY <1>1
  <2>3. /\ c.from \in Nat /\ c.to \in Nat /\ s <= c.from /\ c.from <= c.to /\ c.to <= Chunk!SectionEnd(s)
        /\ d.from \in Nat /\ d.to \in Nat /\ t <= d.from /\ d.from <= d.to /\ d.to <= Chunk!SectionEnd(t)
    BY <2>1, <2>2, SectionWithin
  <2>4. d.from <= c.from /\ c.from <= d.to
    <3>1. c.from \in c.from..c.to
      BY <2>3
    <3>2. c.from \in d.from..d.to
      BY <1>6, <3>1
    <3> QED
      BY <2>3, <3>2
  <2>5. /\ s \in 1..file.n /\ Chunk!SectionEnd(s) \in s..file.n /\ (t > s => t > Chunk!SectionEnd(s))
        /\ t \in 1..file.n /\ Chunk!SectionEnd(t) \in t..file.n /\ (s > t => s > Chunk!SectionEnd(t))
    BY SectionEndIs
  <2>6. s = t
    <3>1. ~(t > s) /\ ~(s > t)
      BY <1>0, <2>3, <2>4, <2>5
    <3> QED
      BY <1>0, <2>5, <3>1
  <2>7. /\ LastOf(s) \in Nat
        /\ Chunk!SectionChunks(s) =
              IF s..Chunk!SectionEnd(s) \subseteq file.blank THEN {}
              ELSE IF LastOf(s) - s + 1 <= 2 * Window THEN {Chunk!Chunk(s, Chunk!SectionEnd(s), Chunk!Heading(s))}
              ELSE Piece(s - 1, LastOf(s), Chunk!Heading(s))
    BY SectionIs
  <2>8. CASE Chunk!SectionChunks(s) = Piece(s - 1, LastOf(s), Chunk!Heading(s))
    <3>1. s - 1 \in Nat
      BY <1>0, <2>5
    <3> QED
      BY <1>6, <2>1, <2>2, <2>6, <2>7, <2>8, <3>1, PieceApart
  <2>9. CASE Chunk!SectionChunks(s) # Piece(s - 1, LastOf(s), Chunk!Heading(s))
    <3>1. \/ Chunk!SectionChunks(s) = {}
          \/ Chunk!SectionChunks(s) = {Chunk!Chunk(s, Chunk!SectionEnd(s), Chunk!Heading(s))}
      BY <2>7, <2>9, Zenon
    <3>2. d \in Chunk!SectionChunks(s)
      BY <2>2, <2>6
    <3> QED
      BY <2>1, <3>1, <3>2
  <2> QED
    BY <2>8, <2>9
<1>7. Chunk!NoneInside
  BY <1>6, Zenon DEF Chunk!NoneInside, Chunk!Span
<1>8. Chunk!DefinitionsWhole
  <2>1. Chunk!ChunkType(file.lang) # "code"
    OBVIOUS
  <2>2. Chunk!Cut = {}
    BY <2>1, Zenon DEF Chunk!Cut
  <2> QED
    BY <2>1, <2>2, Zenon DEF Chunk!DefinitionsWhole
<1> QED
  BY <1>3, <1>4, <1>5, <1>7, <1>8, CoveredBy

-----------------------------------------------------------------------------
(* Code: definitions and the gaps between them. *)

\* What comes before a row ends where an earlier definition does.
LEMMA PrevEndIs ==
    ASSUME file \in Files, NEW row \in Nat
    PROVE  /\ Chunk!PrevEnd(row) \in 0..file.n
           /\ \A d \in Chunk!Definitions : d.from < row => d.to <= Chunk!PrevEnd(row)
           /\ \/ Chunk!PrevEnd(row) = 0
              \/ \E d \in Chunk!Definitions : d.from < row /\ d.to = Chunk!PrevEnd(row)
<1> DEFINE ends == {0} \union {d.to : d \in {d \in Chunk!Definitions : d.from < row}}
<1>0. file.n \in Nat
  BY FileIs
<1>1. /\ 0 \in ends
      /\ \A d \in Chunk!Definitions : d.from < row => d.to \in ends
      /\ \A e \in ends : e = 0 \/ \E d \in Chunk!Definitions : d.from < row /\ e = d.to
  OBVIOUS
<1>2. Chunk!PrevEnd(row) = Top(ends)
  BY Zenon DEF Chunk!PrevEnd, Chunk!Max, Top
<1> HIDE DEF ends
<1>3. ends \in SUBSET (0..file.n) /\ ends # {}
  <2>1. \A d \in Chunk!Definitions : d.to \in 0..file.n
    BY <1>0, DefinitionIs
  <2> QED
    BY <1>0, <1>1, <2>1
<1>4. Top(ends) \in ends /\ \A y \in ends : Top(ends) >= y
  BY <1>0, <1>3, TopIs
<1>5. \A d \in Chunk!Definitions : d.from < row => d.to <= Top(ends)
  <2> TAKE d \in Chunk!Definitions
  <2> HAVE d.from < row
  <2>1. d.to \in ends /\ d.to \in 0..file.n /\ Top(ends) \in 0..file.n
    BY <1>1, <1>3, <1>4
  <2> QED
    BY <1>0, <1>4, <2>1
<1> QED
  BY <1>1, <1>2, <1>3, <1>4, <1>5

\* Rows that end a gap: where a definition starts, and past the end.
RowsOf(n) == {d.from : d \in Chunk!Definitions} \union {n + 1}

LEMMA GapIs ==
    ASSUME file \in Files, NEW r \in RowsOf(file.n)
    PROVE  /\ r \in 1..(file.n + 1) /\ r \in Nat /\ r - 1 \in Nat
           /\ Chunk!PrevEnd(r) \in Nat
           /\ Chunk!Gap(r) = IF r - 1 > Chunk!PrevEnd(r) THEN Piece(Chunk!PrevEnd(r), r - 1, None) ELSE {}
<1>0. file.n \in Nat
  BY FileIs
<1>1. r \in 1..(file.n + 1) /\ r \in Nat /\ r - 1 \in Nat
  <2>1. CASE r = file.n + 1
    BY <1>0, <2>1
  <2>2. CASE \E d \in Chunk!Definitions : r = d.from
    BY <1>0, <2>2, DefinitionIs
  <2> QED
    BY <2>1, <2>2 DEF RowsOf
<1>2. Chunk!PrevEnd(r) \in Nat
  BY <1>0, <1>1, PrevEndIs
<1>3. Chunk!Windows(Chunk!PrevEnd(r), r - 1) = Piece(Chunk!PrevEnd(r), r - 1, None)
  BY <1>1, <1>2, WindowsAre
<1> QED
  BY <1>1, <1>2, <1>3, Zenon DEF Chunk!Gap

\* A chunk of a gap is after the definitions that start before the gap ends.
LEMMA GapWithin ==
    ASSUME file \in Files, NEW r \in RowsOf(file.n), NEW c \in Chunk!Gap(r)
    PROVE  /\ c.from \in Nat /\ c.to \in Nat /\ 1 <= c.from /\ c.from <= c.to /\ c.to < r /\ c.to <= file.n
           /\ c.symbol = None /\ c.to - c.from < 3 * Window /\ ~(c.from..c.to \subseteq file.blank)
           /\ \A d \in Chunk!Definitions : d.from < r => d.to < c.from
<1>1. /\ r \in 1..(file.n + 1) /\ r \in Nat /\ r - 1 \in Nat /\ Chunk!PrevEnd(r) \in Nat
      /\ c \in Piece(Chunk!PrevEnd(r), r - 1, None)
  BY GapIs
<1>2. /\ c.from \in Nat /\ c.to \in Nat /\ Chunk!PrevEnd(r) < c.from /\ c.from <= c.to /\ c.to <= r - 1
      /\ c.symbol = None /\ c.to - c.from < Window /\ ~(c.from..c.to \subseteq file.blank)
  BY <1>1, PieceWithin
<1>3. \A d \in Chunk!Definitions : d.from < r => d.to <= Chunk!PrevEnd(r)
  BY <1>1, PrevEndIs
<1>4. \A d \in Chunk!Definitions : d.from < r => d.to < c.from
  BY <1>1, <1>2, <1>3, DefinitionIs
<1>5. 1 <= c.from /\ c.to < r /\ c.to <= file.n
  BY <1>1, <1>2, FileIs
<1>6. c.to - c.from < 3 * Window
  BY <1>2, ChunkNumbers
<1> QED
  BY <1>2, <1>4, <1>5, <1>6

LEMMA DefinitionChunksAre ==
    ASSUME file \in Files, NEW d \in Chunk!Definitions
    PROVE  /\ d.from - 1 \in Nat
           /\ Chunk!DefinitionChunks(d) =
                 IF d.to - d.from + 1 > 3 * Window THEN Piece(d.from - 1, d.to, d.name)
                 ELSE {c \in {Chunk!Chunk(d.from, d.to, d.name)} : ~(d.from..d.to \subseteq file.blank)}
<1>1. d.from \in Nat /\ d.from > 0 /\ d.to \in Nat
  BY DefinitionIs
<1>2. d.from - 1 \in Nat /\ (d.from - 1) + 1 = d.from
  BY <1>1
<1>3. Chunk!Named(Chunk!Windows(d.from - 1, d.to), d.name) = Piece(d.from - 1, d.to, d.name)
  BY <1>1, <1>2, WindowsAre
<1>4. Chunk!Blank(d.from - 1, d.to) <=> d.from..d.to \subseteq file.blank
  BY <1>2, Zenon DEF Chunk!Blank
<1>5. {c \in {Chunk!Chunk(d.from, d.to, d.name)} : ~Chunk!Blank(d.from - 1, d.to)}
         = {c \in {Chunk!Chunk(d.from, d.to, d.name)} : ~(d.from..d.to \subseteq file.blank)}
  BY <1>4, Zenon
<1> QED
  BY <1>2, <1>3, <1>5, Zenon DEF Chunk!DefinitionChunks

\* The chunks of a definition keep to its rows and have its name.
LEMMA DefinitionWithin ==
    ASSUME file \in Files, NEW d \in Chunk!Definitions, NEW c \in Chunk!DefinitionChunks(d)
    PROVE  /\ c.from \in Nat /\ c.to \in Nat /\ d.from <= c.from /\ c.from <= c.to /\ c.to <= d.to
           /\ c.symbol = d.name /\ c.to - c.from < 3 * Window /\ ~(c.from..c.to \subseteq file.blank)
<1>0. /\ d.from \in Nat /\ d.to \in Nat /\ d.from > 0 /\ d.from <= d.to /\ d.from - 1 \in Nat
      /\ Window \in Nat /\ Window > 0
  BY DefinitionIs, DefinitionChunksAre, ChunkNumbers
<1>1. CASE d.to - d.from + 1 > 3 * Window
  <2>1. c \in Piece(d.from - 1, d.to, d.name)
    BY <1>1, DefinitionChunksAre
  <2>2. /\ c.from \in Nat /\ c.to \in Nat /\ d.from - 1 < c.from /\ c.from <= c.to /\ c.to <= d.to
        /\ c.symbol = d.name /\ c.to - c.from < Window /\ ~(c.from..c.to \subseteq file.blank)
    BY <1>0, <2>1, PieceWithin
  <2>3. d.from <= c.from /\ c.to - c.from < 3 * Window
    BY <1>0, <2>2
  <2> QED
    BY <2>2, <2>3
<1>2. CASE ~(d.to - d.from + 1 > 3 * Window)
  <2>1. c = Chunk!Chunk(d.from, d.to, d.name) /\ ~(d.from..d.to \subseteq file.blank)
    BY <1>2, DefinitionChunksAre
  <2>2. c.from = d.from /\ c.to = d.to /\ c.symbol = d.name
    BY <2>1 DEF Chunk!Chunk
  <2>3. d.to - d.from < 3 * Window
    BY <1>0, <1>2
  <2> QED
    BY <1>0, <2>1, <2>2, <2>3
<1> QED
  BY <1>1, <1>2

LEMMA CodeIs ==
    ASSUME file \in Files, Chunk!ChunkType(file.lang) = "code", Chunk!Parsed, Chunk!Definitions # {},
           chunks = Chunk!CodeChunks
    PROVE  /\ Chunk!TypeOK /\ Chunk!Covered /\ Chunk!Together /\ Chunk!NoneInside
           /\ Chunk!DefinitionsWhole /\ Chunk!Bounded
<1> DEFINE D == Chunk!Definitions
           R == RowsOf(file.n)
<1>0. file.n \in Nat /\ Overlap \in Nat /\ Window \in Nat /\ Window > 0
  BY FileIs, ChunkNumbers
<1>1. /\ \A c \in chunks : (\E r \in R : c \in Chunk!Gap(r)) \/ (\E d \in D : c \in Chunk!DefinitionChunks(d))
      /\ \A r \in R : Chunk!Gap(r) \subseteq chunks
      /\ \A d \in D : Chunk!DefinitionChunks(d) \subseteq chunks
  <2>1. chunks = Chunk!Gap(file.n + 1) \union
                    UNION {Chunk!Gap(d.from) \union Chunk!DefinitionChunks(d) : d \in Chunk!Definitions}
    BY Zenon DEF Chunk!CodeChunks, Chunk!Trailing
  <2>2. \A r : r \in R <=> r = file.n + 1 \/ \E d \in D : r = d.from
    BY Zenon DEF RowsOf
  <2> HIDE DEF R
  <2>3. \A c : c \in chunks <=> \/ c \in Chunk!Gap(file.n + 1)
                               \/ \E d \in D : c \in Chunk!Gap(d.from) \/ c \in Chunk!DefinitionChunks(d)
    BY <2>1
  <2>4. \A c \in chunks : (\E r \in R : c \in Chunk!Gap(r)) \/ (\E d \in D : c \in Chunk!DefinitionChunks(d))
    BY <2>2, <2>3, Zenon
  <2>5. ASSUME NEW r \in R, NEW c \in Chunk!Gap(r) PROVE c \in chunks
    BY <2>2, <2>3, Zenon
  <2>6. ASSUME NEW d \in D, NEW c \in Chunk!DefinitionChunks(d) PROVE c \in chunks
    BY <2>3, Zenon
  <2> QED
    BY <2>4, <2>5, <2>6, Zenon
<1>2. Chunk!Cut = D
  BY Zenon DEF Chunk!Cut
<1>3. \A d \in D : d.from \in Nat /\ d.to \in Nat /\ d.from > 0 /\ d.from <= d.to /\ d.to <= file.n /\ d.name # None
  BY DefinitionIs
<1> HIDE DEF D, R
<1>4. \A c \in chunks : /\ c.from \in Nat /\ c.to \in Nat /\ 1 <= c.from /\ c.from <= c.to /\ c.to <= file.n
                        /\ c.to - c.from < 3 * Window /\ ~(c.from..c.to \subseteq file.blank)
  <2> TAKE c \in chunks
  <2>1. CASE \E r \in R : c \in Chunk!Gap(r)
    BY <2>1, GapWithin DEF R
  <2>2. CASE \E d \in D : c \in Chunk!DefinitionChunks(d)
    <3>1. PICK d \in D : c \in Chunk!DefinitionChunks(d)
      BY <2>2
    <3>2. /\ c.from \in Nat /\ c.to \in Nat /\ d.from <= c.from /\ c.from <= c.to /\ c.to <= d.to
          /\ c.to - c.from < 3 * Window /\ ~(c.from..c.to \subseteq file.blank)
      BY <3>1, DefinitionWithin DEF D
    <3>3. 1 <= c.from /\ c.to <= file.n
      BY <1>0, <1>3, <3>2
    <3> QED
      BY <3>2, <3>3
  <2> QED
    BY <1>1, <2>1, <2>2
<1>5. Chunk!TypeOK
  BY <1>4 DEF Chunk!TypeOK, Chunk!Span
<1>6. Chunk!Bounded
  BY <1>4, Zenon DEF Chunk!Bounded
<1>7. AllTogether
  <2> SUFFICES ASSUME NEW x \in 1..file.n, NEW y \in x..file.n, y <= x + Overlap, (x..y) \cap file.blank = {},
                      ~Split(x, y)
               PROVE  \E c \in chunks : x..y \subseteq c.from..c.to
    BY DEF AllTogether
  <2>1. x \in Nat /\ y \in Nat /\ 0 < x /\ x <= y /\ y <= file.n /\ x \in x..y
    BY <1>0
  <2>2. x \notin file.blank
    BY <2>1
  <2>3. \A d \in D : ~(d.from - 1 \in x..y /\ d.from \in x..y) /\ ~(d.to \in x..y /\ d.to + 1 \in x..y)
    BY <1>2 DEF Split
  <2>4. ASSUME NEW d \in D, d.from <= x, x <= d.to
        PROVE  \E c \in chunks : x..y \subseteq c.from..c.to
    <3>1. y <= d.to
      <4> SUFFICES ASSUME d.to < y PROVE FALSE
        BY <1>3, <2>1
      <4>1. d.to \in x..y /\ d.to + 1 \in x..y
        BY <1>3, <2>1, <2>4
      <4> QED
        BY <2>3, <4>1
    <3>2. /\ d.from - 1 \in Nat
          /\ Chunk!DefinitionChunks(d) =
                IF d.to - d.from + 1 > 3 * Window THEN Piece(d.from - 1, d.to, d.name)
                ELSE {c \in {Chunk!Chunk(d.from, d.to, d.name)} : ~(d.from..d.to \subseteq file.blank)}
      BY DefinitionChunksAre DEF D
    <3>3. CASE d.to - d.from + 1 > 3 * Window
      <4>1. d.from - 1 < x
        BY <1>3, <2>1, <2>4
      <4>2. \E c \in Piece(d.from - 1, d.to, d.name) : x..y \subseteq c.from..c.to
        BY <1>3, <2>1, <2>2, <3>1, <3>2, <4>1, PieceCovers
      <4> QED
        BY <1>1, <3>2, <3>3, <4>2
    <3>4. CASE ~(d.to - d.from + 1 > 3 * Window)
      <4>1. x \in d.from..d.to /\ x..y \subseteq d.from..d.to
        BY <1>3, <2>1, <2>4, <3>1
      <4>2. Chunk!Chunk(d.from, d.to, d.name) \in chunks
        BY <1>1, <2>2, <3>2, <3>4, <4>1
      <4>3. Chunk!Chunk(d.from, d.to, d.name).from = d.from /\ Chunk!Chunk(d.from, d.to, d.name).to = d.to
        BY DEF Chunk!Chunk
      <4> QED
        BY <4>1, <4>2, <4>3
    <3> QED
      BY <3>3, <3>4
  <2>5. ASSUME \A d \in D : ~(d.from <= x /\ x <= d.to)
        PROVE  \E c \in chunks : x..y \subseteq c.from..c.to
    <3> DEFINE after == {r \in R : r > x}
    <3>1. after \in SUBSET Nat /\ file.n + 1 \in after
      <4>1. \A r \in R : r \in Nat
        BY GapIs DEF R
      <4>2. file.n + 1 \in R
        BY DEF R, RowsOf
      <4> QED
        BY <1>0, <2>1, <4>1, <4>2
    <3>2. PICK r \in after : \A k \in after : r <= k
      <4> HIDE DEF after
      <4> QED
        BY <3>1, LeastExists
    <3>3. /\ r \in R /\ r > x
          /\ r \in 1..(file.n + 1) /\ r \in Nat /\ r - 1 \in Nat /\ Chunk!PrevEnd(r) \in Nat
          /\ Chunk!Gap(r) = IF r - 1 > Chunk!PrevEnd(r) THEN Piece(Chunk!PrevEnd(r), r - 1, None) ELSE {}
      BY GapIs DEF R
    <3>4. \A d \in D : d.from < r => d.to < x
      <4> TAKE d \in D
      <4> HAVE d.from < r
      <4>1. d.from \in R
        BY Zenon DEF R, RowsOf, D
      <4>2. ~(d.from > x)
        <5> SUFFICES ASSUME d.from > x PROVE FALSE
          OBVIOUS
        <5>1. r <= d.from
          BY <3>2, <4>1
        <5> QED
          BY <1>3, <3>3, <5>1
      <4> QED
        BY <1>3, <2>1, <2>5, <4>2
    <3>5. Chunk!PrevEnd(r) < x
      BY <2>1, <3>3, <3>4, PrevEndIs DEF D
    <3>6. y <= r - 1
      <4> SUFFICES ASSUME r <= y PROVE FALSE
        BY <2>1, <3>3
      <4>1. r # file.n + 1
        BY <1>0, <2>1
      <4>2. PICK d \in D : r = d.from
        BY <3>3, <4>1 DEF R, RowsOf, D
      <4>3. d.from - 1 \in x..y /\ d.from \in x..y
        BY <2>1, <3>3, <4>2
      <4> QED
        BY <2>3, <4>3
    <3>7. Chunk!Gap(r) = Piece(Chunk!PrevEnd(r), r - 1, None)
      BY <2>1, <3>3, <3>5, <3>6
    <3>8. \E c \in Piece(Chunk!PrevEnd(r), r - 1, None) : x..y \subseteq c.from..c.to
      BY <2>1, <2>2, <3>3, <3>5, <3>6, PieceCovers
    <3> QED
      BY <1>1, <3>3, <3>7, <3>8
  <2> QED
    BY <2>4, <2>5
<1>8. ASSUME NEW c \in chunks, NEW e \in chunks, c.symbol = e.symbol, c.from..c.to \subseteq e.from..e.to
      PROVE  c = e
  <2>0. /\ c.from \in Nat /\ c.to \in Nat /\ e.from \in Nat /\ e.to \in Nat
        /\ e.from <= c.from /\ c.from <= e.to /\ c.from <= c.to
    <3>1. c.from \in c.from..c.to
      BY <1>4
    <3>2. c.from \in e.from..e.to
      BY <1>8, <3>1
    <3> QED
      BY <1>4, <3>2
  <2>1. ASSUME NEW r \in R, c \in Chunk!Gap(r), NEW t \in R, e \in Chunk!Gap(t) PROVE c = e
    <3>1. /\ c.from < r /\ \A d \in D : d.from < r => d.to < c.from
          /\ e.from < t /\ e.to < t /\ c.to < r /\ \A d \in D : d.from < t => d.to < e.from
      <4>1. c.to < r /\ (\A d \in D : d.from < r => d.to < c.from)
        BY <2>1, GapWithin DEF R, D
      <4>2. e.to < t /\ e.from <= e.to /\ (\A d \in D : d.from < t => d.to < e.from)
        BY <2>1, GapWithin DEF R, D
      <4>3. r \in Nat /\ t \in Nat
        BY GapIs DEF R
      <4> QED
        BY <2>0, <4>1, <4>2, <4>3
    <3>2. r \in Nat /\ t \in Nat /\ r <= file.n + 1 /\ t <= file.n + 1
      BY GapIs DEF R
    <3>3. \A u \in R : u = file.n + 1 \/ \E d \in D : u = d.from
      BY Zenon DEF R, RowsOf, D
    <3>4. ~(r < t)
      <4> SUFFICES ASSUME r < t PROVE FALSE
        OBVIOUS
      <4>1. PICK d \in D : r = d.from
        BY <1>0, <3>2, <3>3
      <4> QED
        BY <1>3, <2>0, <3>1, <3>2, <4>1
    <3>5. ~(t < r)
      <4> SUFFICES ASSUME t < r PROVE FALSE
        OBVIOUS
      <4>1. PICK d \in D : t = d.from
        BY <1>0, <3>2, <3>3
      <4> QED
        BY <1>3, <2>0, <3>1, <3>2, <4>1
    <3>6. r = t
      BY <3>2, <3>4, <3>5
    <3>7. /\ r - 1 \in Nat /\ Chunk!PrevEnd(r) \in Nat
          /\ c \in Piece(Chunk!PrevEnd(r), r - 1, None) /\ e \in Piece(Chunk!PrevEnd(r), r - 1, None)
      BY <2>1, <3>6, GapIs DEF R
    <3> QED
      BY <1>8, <3>7, PieceApart
  <2>2. ASSUME NEW d \in D, c \in Chunk!DefinitionChunks(d), NEW k \in D, e \in Chunk!DefinitionChunks(k)
        PROVE  c = e
    <3>1. c.symbol = d.name /\ e.symbol = k.name
      BY <2>2, DefinitionWithin DEF D
    <3>2. d = k
      <4>1. /\ d.from = file.nodes[d.name].from /\ d.to = file.nodes[d.name].to
            /\ d = [from |-> d.from, to |-> d.to, name |-> d.name]
            /\ k.from = file.nodes[k.name].from /\ k.to = file.nodes[k.name].to
            /\ k = [from |-> k.from, to |-> k.to, name |-> k.name]
        BY DefinitionIs DEF D
      <4>2. d.name = k.name
        BY <1>8, <3>1
      <4> QED
        BY <4>1, <4>2, Zenon
    <3>3. /\ d.from - 1 \in Nat
          /\ Chunk!DefinitionChunks(d) =
                IF d.to - d.from + 1 > 3 * Window THEN Piece(d.from - 1, d.to, d.name)
                ELSE {b \in {Chunk!Chunk(d.from, d.to, d.name)} : ~(d.from..d.to \subseteq file.blank)}
      BY DefinitionChunksAre DEF D
    <3>4. CASE d.to - d.from + 1 > 3 * Window
      <4>1. c \in Piece(d.from - 1, d.to, d.name) /\ e \in Piece(d.from - 1, d.to, d.name)
        BY <2>2, <3>2, <3>3, <3>4
      <4> QED
        BY <1>3, <1>8, <3>3, <4>1, PieceApart
    <3>5. CASE ~(d.to - d.from + 1 > 3 * Window)
      BY <2>2, <3>2, <3>3, <3>5
    <3> QED
      BY <3>4, <3>5
  <2>3. ASSUME NEW r \in R, NEW b \in Chunk!Gap(r) PROVE b.symbol = None
    BY GapWithin DEF R
  <2>4. ASSUME NEW d \in D, NEW b \in Chunk!DefinitionChunks(d) PROVE b.symbol # None
    BY <1>3, DefinitionWithin DEF D
  <2> QED
    BY <1>1, <1>8, <2>1, <2>2, <2>3, <2>4
<1>9. Chunk!NoneInside
  BY <1>8, Zenon DEF Chunk!NoneInside, Chunk!Span
<1>10. \A c \in chunks : c.symbol # None => \E d \in D : c \in Chunk!DefinitionChunks(d) /\ c.symbol = d.name
  <2> TAKE c \in chunks
  <2>1. CASE \E r \in R : c \in Chunk!Gap(r)
    BY <2>1, GapWithin DEF R
  <2>2. CASE \E d \in D : c \in Chunk!DefinitionChunks(d)
    BY <2>2, DefinitionWithin DEF D
  <2> QED
    BY <1>1, <2>1, <2>2
<1>11. ASSUME NEW d \in D
       PROVE  /\ \A c \in chunks : c.symbol = d.name => c.from..c.to \subseteq d.from..d.to
              /\ d.to - d.from + 1 <= 3 * Window /\ ~(d.from..d.to \subseteq file.blank)
                    => Chunk!Chunk(d.from, d.to, d.name) \in chunks
  <2>1. ASSUME NEW c \in chunks, c.symbol = d.name PROVE c.from..c.to \subseteq d.from..d.to
    <3>1. PICK k \in D : c \in Chunk!DefinitionChunks(k) /\ c.symbol = k.name
      BY <1>3, <1>10, <2>1
    <3>2. k.from = d.from /\ k.to = d.to
      <4>1. /\ d.from = file.nodes[d.name].from /\ d.to = file.nodes[d.name].to
            /\ k.from = file.nodes[k.name].from /\ k.to = file.nodes[k.name].to
        BY DefinitionIs DEF D
      <4> QED
        BY <2>1, <3>1, <4>1, Zenon
    <3>3. /\ c.from \in Nat /\ c.to \in Nat /\ k.from <= c.from /\ c.to <= k.to
      BY <3>1, DefinitionWithin DEF D
    <3> QED
      BY <1>3, <3>2, <3>3
  <2>2. ASSUME d.to - d.from + 1 <= 3 * Window, ~(d.from..d.to \subseteq file.blank)
        PROVE  Chunk!Chunk(d.from, d.to, d.name) \in chunks
    <3>1. ~(d.to - d.from + 1 > 3 * Window)
      BY <1>0, <1>3, <2>2
    <3>2. Chunk!DefinitionChunks(d) = {b \in {Chunk!Chunk(d.from, d.to, d.name)} : ~(d.from..d.to \subseteq file.blank)}
      BY <3>1, DefinitionChunksAre DEF D
    <3> QED
      BY <1>1, <2>2, <3>2
  <2> QED
    BY <2>1, <2>2
<1>12. ASSUME NEW c \in chunks, c.symbol # None, NEW k \in DOMAIN file.nodes, c.symbol \in file.nodes[k].above,
              NEW e \in chunks, e.symbol = k
       PROVE  FALSE
  <2>1. PICK d \in D : c.symbol = d.name
    BY <1>10, <1>12
  <2>2. e.symbol # None
    BY <1>12, FileIs
  <2>3. PICK b \in D : e.symbol = b.name
    BY <1>10, <2>2
  <2>4. file.nodes[c.symbol].def /\ Chunk!Reached(k)
    BY <1>12, <2>1, <2>3, DefinitionIs DEF D
  <2> QED
    BY <1>12, <2>4, Zenon DEF Chunk!Reached
<1>13. Chunk!DefinitionsWhole
  <2>1. \A d \in D : Chunk!Blank(d.from - 1, d.to) <=> d.from..d.to \subseteq file.blank
    <3> TAKE d \in D
    <3>1. (d.from - 1) + 1 = d.from
      BY <1>3
    <3> QED
      BY <3>1, Zenon DEF Chunk!Blank
  <2> QED
    BY <1>2, <1>11, <1>12, <2>1, Zenon DEF Chunk!DefinitionsWhole, Chunk!Span
<1> QED
  BY <1>5, <1>6, <1>7, <1>9, <1>13, CoveredBy

-----------------------------------------------------------------------------
(* What chunk_file returns. *)

Result ==
    IF Chunk!Blank(0, file.n) THEN {}
    ELSE IF Chunk!ChunkType(file.lang) = "markdown" THEN Chunk!MarkdownChunks
    ELSE IF Chunk!ChunkType(file.lang) = "code" THEN Chunk!CodeChunks
    ELSE Chunk!Windows(0, file.n)

ChunkInv == file \in Files /\ (chunks = None \/ chunks = Result)

LEMMA InitChunk ==
    ASSUME Chunk!Init
    PROVE  ChunkInv
  BY Zenon DEF Chunk!Init, ChunkInv

LEMMA ChunkStep ==
    ASSUME ChunkInv, Chunk!Next
    PROVE  ChunkInv'
<1>1. chunks' = Result /\ file' = file
  BY ZenonT(30) DEF Chunk!Next, Chunk!ChunkFile, Result
<1>2. Result' = Result
  <2>1. Chunk!Definitions' = Chunk!Definitions
    BY <1>1 DEF Chunk!Definitions, Chunk!Reached
  <2>2. Chunk!MarkdownChunks' = Chunk!MarkdownChunks
    BY <1>1 DEF Chunk!MarkdownChunks, Chunk!Windows, Chunk!Blank, Chunk!Starts, Chunk!SectionChunks,
                Chunk!SectionEnd, Chunk!Heading
  <2>3. Chunk!CodeChunks' = Chunk!CodeChunks
    BY <1>1, <2>1 DEF Chunk!CodeChunks, Chunk!Windows, Chunk!Blank, Chunk!Parsed, Chunk!Gap, Chunk!PrevEnd,
                      Chunk!Trailing, Chunk!DefinitionChunks
  <2> QED
    BY <1>1, <2>2, <2>3 DEF Result, Chunk!Windows, Chunk!Blank
<1> QED
  BY <1>1, <1>2 DEF ChunkInv

LEMMA ChunkStutter ==
    ASSUME ChunkInv, UNCHANGED chunkVars
    PROVE  ChunkInv'
<1>1. chunks' = chunks /\ file' = file
  BY DEF chunkVars
<1>2. Result' = Result
  BY <1>1 DEF Result, Chunk!Blank, Chunk!MarkdownChunks, Chunk!CodeChunks, Chunk!Windows, Chunk!Starts,
              Chunk!SectionChunks, Chunk!SectionEnd, Chunk!Heading, Chunk!Parsed, Chunk!Definitions, Chunk!Reached,
              Chunk!Gap, Chunk!PrevEnd, Chunk!Trailing, Chunk!DefinitionChunks
<1> QED
  BY <1>1, <1>2 DEF ChunkInv

LEMMA ChunkTyped ==
    ASSUME ChunkInv
    PROVE  /\ Chunk!TypeOK /\ Chunk!Covered /\ Chunk!Together /\ Chunk!NoneInside
           /\ Chunk!DefinitionsWhole /\ Chunk!Bounded
<1>1. CASE chunks = None
  BY <1>1, Zenon DEF Chunk!Done, Chunk!TypeOK, Chunk!Covered, Chunk!Together, Chunk!NoneInside,
                     Chunk!DefinitionsWhole, Chunk!Bounded
<1>2. CASE chunks = Result
  <2>0. file \in Files /\ file.n \in Nat
    BY FileIs DEF ChunkInv
  <2>1. CASE Chunk!Blank(0, file.n)
    <3>1. chunks = {} /\ 1..file.n \subseteq file.blank
      BY <1>2, <2>1 DEF Result, Chunk!Blank
    <3>2. AllTogether
      <4> SUFFICES ASSUME NEW x \in 1..file.n, NEW y \in x..file.n, (x..y) \cap file.blank = {}
                   PROVE  FALSE
        BY Zenon DEF AllTogether
      <4>1. x \in x..y /\ x \in file.blank
        BY <2>0, <3>1
      <4> QED
        BY <4>1
    <3>3. Chunk!DefinitionsWhole
      <4>1. ASSUME NEW d \in Chunk!Cut PROVE Chunk!Blank(d.from - 1, d.to)
        <5>1. d \in Chunk!Definitions
          BY Zenon DEF Chunk!Cut
        <5>2. d.from \in Nat /\ d.to \in Nat /\ d.from > 0 /\ d.to <= file.n
          BY <2>0, <5>1, DefinitionIs
        <5>3. ((d.from - 1) + 1)..d.to \subseteq 1..file.n
          BY <2>0, <5>2
        <5> QED
          BY <3>1, <5>3 DEF Chunk!Blank
      <4> QED
        BY <3>1, <4>1, Zenon DEF Chunk!DefinitionsWhole
    <3> QED
      BY <2>0, <3>1, <3>2, <3>3, CoveredBy, Zenon DEF Chunk!TypeOK, Chunk!NoneInside, Chunk!Bounded
  <2>2. CASE ~Chunk!Blank(0, file.n)
    <3>0. file.n > 0
      <4> SUFFICES ASSUME file.n = 0 PROVE FALSE
        BY <2>0
      <4> QED
        BY <2>2 DEF Chunk!Blank
    <3>1. CASE Chunk!ChunkType(file.lang) = "markdown"
      <4>1. chunks = Chunk!MarkdownChunks
        BY <1>2, <2>2, <3>1, Zenon DEF Result
      <4> QED
        BY <2>0, <3>0, <3>1, <4>1, MarkdownIs
    <3>2. CASE Chunk!ChunkType(file.lang) = "code"
      <4>1. Chunk!ChunkType(file.lang) # "markdown"
        BY <3>2
      <4>2. chunks = Chunk!CodeChunks
        BY <1>2, <2>2, <3>2, <4>1, Zenon DEF Result
      <4>3. CASE Chunk!Parsed /\ Chunk!Definitions # {}
        BY <2>0, <3>2, <4>2, <4>3, CodeIs
      <4>4. CASE ~(Chunk!Parsed /\ Chunk!Definitions # {})
        <5>1. chunks = Chunk!Windows(0, file.n)
          BY <4>2, <4>4, Zenon DEF Chunk!CodeChunks
        <5>2. Chunk!Cut = {}
          BY <4>4, Zenon DEF Chunk!Cut
        <5> QED
          BY <2>0, <4>1, <5>1, <5>2, WindowedIs
      <4> QED
        BY <4>3, <4>4
    <3>3. CASE Chunk!ChunkType(file.lang) \notin {"markdown", "code"}
      <4>1. chunks = Chunk!Windows(0, file.n)
        BY <1>2, <2>2, <3>3 DEF Result
      <4>2. Chunk!Cut = {}
        BY <3>3 DEF Chunk!Cut
      <4> QED
        BY <2>0, <3>3, <4>1, <4>2, WindowedIs
    <3> QED
      BY <3>1, <3>2, <3>3
  <2> QED
    BY <2>1, <2>2
<1> QED
  BY <1>1, <1>2 DEF ChunkInv

-----------------------------------------------------------------------------
(* Retrieval: cutting and filtering a list.                                 *)

LEMMA RetrieveRange ==
    ASSUME NEW f PROVE Retrieve!Range(f) = {f[i] : i \in DOMAIN f}
  BY Zenon DEF Retrieve!Range

LEMMA RetrieveCut ==
    ASSUME NEW E, NEW s \in Seq(E), NEW n \in Nat
    PROVE  LET c == Retrieve!Cut(s, n)
           IN  /\ c \in Seq(E) /\ Len(c) = IF n <= Len(s) THEN n ELSE Len(s)
               /\ \A i \in 1..Len(c) : c[i] = s[i]
<1> DEFINE m == IF n <= Len(s) THEN n ELSE Len(s)
<1>1. Retrieve!Min({n, Len(s)}) = m
  <2>1. Len(s) \in Nat
    OBVIOUS
  <2>2. \A x \in {n, Len(s)} : (\A y \in {n, Len(s)} : x <= y) <=> x = m
    BY <2>1
  <2>3. m \in {n, Len(s)}
    OBVIOUS
  <2> HIDE DEF m
  <2> QED
    BY <2>2, <2>3 DEF Retrieve!Min
<1>2. Retrieve!Cut(s, n) = SubSeq(s, 1, m)
  BY <1>1, Zenon DEF Retrieve!Cut
<1> QED
  BY <1>2

\* r lists what s does of a set, in the order of s: e is where.
Picks(r, s, S, e) ==
    /\ Len(r) \in Nat /\ DOMAIN r = 1..Len(r) /\ e \in [1..Len(r) -> 1..Len(s)]
    /\ \A i \in 1..Len(r) : r[i] = s[e[i]] /\ r[i] \in S
    /\ \A i, j \in 1..Len(r) : i < j => e[i] < e[j]
    /\ \A k \in 1..Len(s) : s[k] \in S => \E i \in 1..Len(r) : e[i] = k

LEMMA AmongFolds ==
    ASSUME NEW E, NEW s \in Seq(E), NEW S
    PROVE  \E u : /\ u[0] = <<>> /\ Retrieve!Among(s, S) = u[Len(s)]
                  /\ \A i \in 1..Len(s) : u[i] = IF s[i] \in S THEN Append(u[i - 1], s[i]) ELSE u[i - 1]
<1> DEFINE n == Len(s)
           T == Seq(E)
           Next1(r, c) == IF c \in S THEN Append(r, c) ELSE r
           StepOf(g, w) == IF w = {} THEN <<>> ELSE Next1(g[w \ {Top(w)}], s[Top(w)])
           op == [x \in T \X (1..n) |-> Next1(x[1], s[x[2]])]
<1>0. \A W : Retrieve!Max(W) = Top(W)
  BY Zenon DEF Retrieve!Max, Top
<1>1. Retrieve!Among(s, S) = (CHOOSE g : g = [w \in SUBSET DOMAIN s |-> StepOf(g, w)])[DOMAIN s]
  BY <1>0, Zenon DEF Retrieve!Among, Retrieve!FoldLeft, Retrieve!MapThenFoldSet
<1>2. n \in Nat /\ DOMAIN s = 1..n /\ <<>> \in T /\ \A i \in 1..n : s[i] \in E
  OBVIOUS
<1>3. op \in [T \X (1..n) -> T]
  <2>1. \A r \in T, c \in E : Next1(r, c) \in T
    OBVIOUS
  <2> HIDE DEF T, Next1, n
  <2> QED
    BY <1>2, <2>1
<1>4. \A b \in T, i \in 1..n : op[<<b, i>>] = Next1(b, s[i])
  OBVIOUS
<1> HIDE DEF op, n, T, Next1
<1>5. PICK f : f \in [SUBSET (1..n) -> T] /\ \A w \in SUBSET (1..n) : Folds(f, <<>>, op, w)
  BY <1>2, <1>3, FoldExists
<1>6. \A w \in SUBSET (1..n) : f[w] = StepOf(f, w)
  <2> SUFFICES ASSUME NEW w \in SUBSET (1..n), w # {} PROVE f[w] = StepOf(f, w)
    BY <1>5 DEF Folds
  <2>1. \A x : w \ {x} \in SUBSET (1..n)
    OBVIOUS
  <2>2. Top(w) \in 1..n
    <3>1. w \in SUBSET (0..n)
      OBVIOUS
    <3>2. Top(w) \in w
      BY <3>1, <1>2, TopIs
    <3> QED
      BY <3>2
  <2>3. f[w \ {Top(w)}] \in T
    BY <2>1, <1>5
  <2> QED
    BY <1>4, <1>5, <2>2, <2>3 DEF Folds
<1>7. f = [w \in SUBSET (1..n) |-> StepOf(f, w)]
  <2> HIDE DEF StepOf
  <2> QED
    BY <1>5, <1>6
<1> DEFINE g == CHOOSE g : g = [w \in SUBSET (1..n) |-> StepOf(g, w)]
<1>8. g = [w \in SUBSET (1..n) |-> StepOf(g, w)]
  <2> HIDE DEF StepOf
  <2> QED
    BY <1>7
<1>9. Retrieve!Among(s, S) = g[1..n]
  BY <1>1, <1>2
<1> HIDE DEF g
<1>10. \A w \in SUBSET (1..n) : g[w] = StepOf(g, w)
  <2> HIDE DEF StepOf
  <2> QED
    BY <1>8
<1> DEFINE u == [i \in 0..n |-> g[1..i]]
<1>11. u[0] = <<>>
  <2>1. 1..0 = {} /\ {} \in SUBSET (1..n) /\ 0 \in 0..n
    BY <1>2
  <2> QED
    BY <1>10, <2>1
<1>12. u[n] = Retrieve!Among(s, S)
  BY <1>2, <1>9
<1>13. ASSUME NEW i \in 1..n PROVE u[i] = Next1(u[i - 1], s[i])
  <2>1. i \in Nat \ {0} /\ i - 1 \in 0..n /\ i \in 0..n /\ 1..i \in SUBSET (1..n)
    BY <1>2
  <2>2. 1..i # {} /\ Top(1..i) = i /\ (1..i) \ {Top(1..i)} = 1..(i - 1)
    BY <2>1, TopUpTo
  <2>3. g[1..i] = Next1(g[1..(i - 1)], s[i])
    BY <1>10, <2>1, <2>2
  <2> QED
    BY <2>1, <2>3
<1> HIDE DEF u
<1> QED
  BY <1>11, <1>12, <1>13 DEF n, Next1

LEMMA AmongIs ==
    ASSUME NEW E, NEW s \in Seq(E), NEW S
    PROVE  /\ Retrieve!Among(s, S) \in Seq(E)
           /\ \E e : Picks(Retrieve!Among(s, S), s, S, e)
<1>1. PICK u : /\ u[0] = <<>> /\ Retrieve!Among(s, S) = u[Len(s)]
               /\ \A i \in 1..Len(s) : u[i] = IF s[i] \in S THEN Append(u[i - 1], s[i]) ELSE u[i - 1]
  BY AmongFolds
<1> DEFINE n == Len(s)
           Goes(e, k) ==
              /\ u[k] \in Seq(E) /\ e \in [1..Len(u[k]) -> 1..k]
              /\ \A i \in 1..Len(u[k]) : u[k][i] = s[e[i]] /\ u[k][i] \in S
              /\ \A i, j \in 1..Len(u[k]) : i < j => e[i] < e[j]
              /\ \A m \in 1..k : s[m] \in S => \E i \in 1..Len(u[k]) : e[i] = m
           upTo == {k \in Nat : k <= n => \E e : Goes(e, k)}
<1>0. n \in Nat /\ \A i \in 1..n : s[i] \in E
  OBVIOUS
<1>2. 0 \in upTo
  <2>1. u[0] \in Seq(E) /\ 1..Len(u[0]) = {} /\ 1..0 = {}
    BY <1>1
  <2>2. Goes([i \in {} |-> 0], 0)
    BY <2>1
  <2> HIDE DEF Goes
  <2> QED
    BY <2>2
<1>3. ASSUME NEW k \in Nat, k \in upTo PROVE k + 1 \in upTo
  <2> SUFFICES ASSUME k + 1 <= n PROVE \E e : Goes(e, k + 1)
    BY SMTT(30)
  <2>1. PICK e : Goes(e, k)
    <3> HIDE DEF Goes
    <3> QED
      BY <1>0, <1>3
  <2>2. k + 1 \in 1..n /\ (k + 1) - 1 = k /\ s[k + 1] \in E
    BY <1>0
  <2>3. CASE s[k + 1] \notin S
    <3>1. u[k + 1] = u[k]
      BY <1>1, <2>2, <2>3
    <3>2. Goes(e, k + 1)
      <4>1. /\ u[k + 1] \in Seq(E) /\ e \in [1..Len(u[k + 1]) -> 1..(k + 1)]
        BY <2>1, <3>1
      <4>2. /\ \A i \in 1..Len(u[k + 1]) : u[k + 1][i] = s[e[i]] /\ u[k + 1][i] \in S
            /\ \A i, j \in 1..Len(u[k + 1]) : i < j => e[i] < e[j]
        BY <2>1, <3>1
      <4>3. \A m \in 1..(k + 1) : s[m] \in S => \E i \in 1..Len(u[k + 1]) : e[i] = m
        <5> SUFFICES ASSUME NEW m \in 1..(k + 1), s[m] \in S
                     PROVE  \E i \in 1..Len(u[k + 1]) : e[i] = m
          OBVIOUS
        <5>1. m \in 1..k
          BY <2>3
        <5> QED
          BY <2>1, <3>1, <5>1
      <4> QED
        BY <4>1, <4>2, <4>3
    <3> HIDE DEF Goes
    <3> QED
      BY <3>2
  <2>4. CASE s[k + 1] \in S
    <3> DEFINE l == Len(u[k]) + 1
               d == [i \in 1..l |-> IF i = l THEN k + 1 ELSE e[i]]
    <3>1. u[k + 1] = Append(u[k], s[k + 1])
      BY <1>1, <2>2, <2>4
    <3>2. /\ u[k + 1] \in Seq(E) /\ Len(u[k + 1]) = l /\ l \in Nat \ {0} /\ u[k + 1][l] = s[k + 1]
          /\ \A i \in 1..Len(u[k]) : u[k + 1][i] = u[k][i]
      BY <2>1, <2>2, <3>1
    <3>3. \A i \in 1..l : i = l \/ (i # l /\ i < l /\ i \in 1..Len(u[k]))
      BY <2>1
    <3>a. \A i \in 1..l : d[i] = IF i = l THEN k + 1 ELSE e[i]
      OBVIOUS
    <3>b. DOMAIN d = 1..l /\ d = [i \in 1..l |-> d[i]]
      OBVIOUS
    <3>c. Len(u[k]) \in Nat /\ l = Len(u[k]) + 1 /\ \A i \in 1..Len(u[k]) : e[i] \in 1..k
      <4>1. u[k] \in Seq(E) /\ e \in [1..Len(u[k]) -> 1..k]
        BY <2>1
      <4>2. Len(u[k]) \in Nat
        BY <4>1
      <4>3. \A i \in 1..Len(u[k]) : e[i] \in 1..k
        BY <4>1
      <4> QED
        BY <4>2, <4>3
    <3> HIDE DEF d, l
    <3>4. /\ d[l] = k + 1
          /\ \A i \in 1..Len(u[k]) : d[i] = e[i] /\ e[i] \in 1..k /\ i \in 1..l
      <4>1. l \in 1..l /\ \A i \in 1..Len(u[k]) : i \in 1..l /\ i # l
        BY <3>c
      <4> QED
        BY <3>a, <3>c, <4>1
    <3>5. \A i \in 1..l : d[i] \in 1..(k + 1)
      <4> TAKE i \in 1..l
      <4>1. CASE i = l
        BY <3>4, <4>1
      <4>2. CASE i \in 1..Len(u[k])
        BY <3>4, <4>2
      <4> QED
        BY <3>3, <4>1, <4>2
    <3>6. d \in [1..l -> 1..(k + 1)]
      BY <3>5, <3>b
    <3>7. \A i \in 1..l : u[k + 1][i] = s[d[i]] /\ u[k + 1][i] \in S
      <4> TAKE i \in 1..l
      <4>1. CASE i = l
        BY <2>4, <3>2, <3>4, <4>1
      <4>2. CASE i \in 1..Len(u[k])
        BY <2>1, <3>2, <3>4, <4>2
      <4> QED
        BY <3>3, <4>1, <4>2
    <3>8. \A i, j \in 1..l : i < j => d[i] < d[j]
      <4> TAKE i, j \in 1..l
      <4> HAVE i < j
      <4>1. i \in 1..Len(u[k])
        BY <3>2, <3>3
      <4>2. CASE j = l
        BY <3>4, <4>1, <4>2
      <4>3. CASE j \in 1..Len(u[k])
        BY <2>1, <3>4, <4>1, <4>3
      <4> QED
        BY <3>3, <4>2, <4>3
    <3>9. \A m \in 1..(k + 1) : s[m] \in S => \E i \in 1..l : d[i] = m
      <4> SUFFICES ASSUME NEW m \in 1..(k + 1), s[m] \in S PROVE \E i \in 1..l : d[i] = m
        OBVIOUS
      <4>1. CASE m = k + 1
        <5>1. l \in 1..l
          BY <3>2
        <5> QED
          BY <3>4, <4>1, <5>1
      <4>2. CASE m \in 1..k
        BY <2>1, <3>4, <4>2
      <4> QED
        BY <4>1, <4>2
    <3>10. Goes(d, k + 1)
      BY <3>2, <3>6, <3>7, <3>8, <3>9
    <3> HIDE DEF Goes
    <3> QED
      BY <3>10
  <2> QED
    BY <2>3, <2>4
<1> HIDE DEF upTo
<1>4. n \in upTo
  BY <1>0, <1>2, <1>3, Counting
<1>5. PICK e : Goes(e, n)
  <2> HIDE DEF Goes
  <2> QED
    BY <1>0, <1>4 DEF upTo
<1> DEFINE r == Retrieve!Among(s, S)
<1>6. r = u[n]
  BY <1>1
<1>7. r \in Seq(E) /\ Len(r) \in Nat /\ DOMAIN r = 1..Len(r)
  BY <1>5, <1>6
<1> HIDE DEF r
<1>8. Picks(r, s, S, e)
  BY <1>5, <1>6, <1>7 DEF Picks
<1> QED
  BY <1>7, <1>8 DEF r

\* Lists without repetition, and lists in increasing order.
Once(s) == \A i, j \in DOMAIN s : s[i] = s[j] => i = j
Rising(s) == \A i, j \in DOMAIN s : i < j => s[i] < s[j]

\* What is listed of a set: once if it was once, rising if it was rising.
LEMMA AmongKeeps ==
    ASSUME NEW E, NEW s \in Seq(E), NEW S
    PROVE  LET r == Retrieve!Among(s, S)
           IN  /\ r \in Seq(E)
               /\ \A c : c \in Retrieve!Range(r) <=> c \in Retrieve!Range(s) /\ c \in S
               /\ Once(s) => Once(r)
               /\ Rising(s) => Rising(r)
<1> DEFINE r == Retrieve!Among(s, S)
<1>1. r \in Seq(E)
  BY AmongIs
<1>2. PICK e : Picks(r, s, S, e)
  BY AmongIs
<1> HIDE DEF r
<1>3. DOMAIN s = 1..Len(s) /\ Len(s) \in Nat /\ DOMAIN r = 1..Len(r) /\ Len(r) \in Nat
  BY <1>1
<1>4. /\ \A i \in DOMAIN r : e[i] \in DOMAIN s /\ r[i] = s[e[i]] /\ r[i] \in S
      /\ \A i, j \in DOMAIN r : i < j => e[i] < e[j]
      /\ \A k \in DOMAIN s : s[k] \in S => \E i \in DOMAIN r : e[i] = k
  BY <1>2, <1>3 DEF Picks
<1>5. \A c : c \in Retrieve!Range(r) <=> c \in Retrieve!Range(s) /\ c \in S
  <2>1. ASSUME NEW c \in Retrieve!Range(r) PROVE c \in Retrieve!Range(s) /\ c \in S
    BY <1>4, RetrieveRange
  <2>2. ASSUME NEW c \in Retrieve!Range(s), c \in S PROVE c \in Retrieve!Range(r)
    <3>1. PICK k \in DOMAIN s : c = s[k]
      BY RetrieveRange
    <3>2. PICK i \in DOMAIN r : e[i] = k
      BY <1>4, <2>2, <3>1
    <3>3. r[i] = c
      BY <1>4, <3>1, <3>2
    <3> QED
      BY <3>3, RetrieveRange
  <2> QED
    BY <2>1, <2>2
<1>6. \A i, j \in DOMAIN r : e[i] = e[j] => i = j
  <2> TAKE i, j \in DOMAIN r
  <2>1. i \in Nat /\ j \in Nat /\ e[i] \in Nat /\ e[j] \in Nat
    BY <1>3, <1>4
  <2> QED
    BY <1>4, <2>1
<1>7. Once(s) => Once(r)
  BY <1>4, <1>6 DEF Once
<1>8. Rising(s) => Rising(r)
  BY <1>4 DEF Rising
<1> QED
  BY <1>1, <1>5, <1>7, <1>8 DEF r

\* A cut of a rising list has all that is below what it has.
LEMMA CutKeeps ==
    ASSUME NEW E, NEW s \in Seq(E), NEW n \in Nat
    PROVE  LET c == Retrieve!Cut(s, n)
           IN  /\ c \in Seq(E)
               /\ \A x \in Retrieve!Range(c) : x \in Retrieve!Range(s)
               /\ Once(s) => Once(c)
               /\ E \subseteq Int /\ Rising(s) =>
                     /\ Rising(c)
                     /\ \A x \in Retrieve!Range(s), y \in Retrieve!Range(c) : x < y => x \in Retrieve!Range(c)
<1> DEFINE c == Retrieve!Cut(s, n)
<1>1. /\ c \in Seq(E) /\ Len(c) = IF n <= Len(s) THEN n ELSE Len(s)
      /\ \A i \in 1..Len(c) : c[i] = s[i]
  BY RetrieveCut
<1> HIDE DEF c
<1>2. DOMAIN s = 1..Len(s) /\ Len(s) \in Nat /\ DOMAIN c = 1..Len(c) /\ Len(c) \in Nat
  BY <1>1
<1>3. \A i \in DOMAIN c : i \in DOMAIN s /\ c[i] = s[i] /\ i \in Nat
  BY <1>1, <1>2
<1>4. \A x \in Retrieve!Range(c) : x \in Retrieve!Range(s)
  BY <1>3, RetrieveRange
<1>5. Once(s) => Once(c)
  BY <1>3 DEF Once
<1>6. ASSUME E \subseteq Int, Rising(s)
      PROVE  /\ Rising(c)
             /\ \A x \in Retrieve!Range(s), y \in Retrieve!Range(c) : x < y => x \in Retrieve!Range(c)
  <2>1. Rising(c)
    BY <1>3, <1>6 DEF Rising
  <2>2. ASSUME NEW x \in Retrieve!Range(s), NEW y \in Retrieve!Range(c), x < y
        PROVE  x \in Retrieve!Range(c)
    <3>1. PICK i \in DOMAIN s : x = s[i]
      BY RetrieveRange
    <3>2. PICK j \in DOMAIN c : y = c[j]
      BY RetrieveRange
    <3>3. s[i] \in Int /\ s[j] \in Int /\ j \in DOMAIN s /\ y = s[j] /\ i \in Nat /\ j \in Nat
      <4>1. j \in DOMAIN s /\ y = s[j] /\ j \in Nat
        BY <1>3, <3>2
      <4>2. i \in Nat
        BY <1>2, <3>1
      <4>3. \A k \in DOMAIN s : s[k] \in E
        OBVIOUS
      <4> QED
        BY <1>6, <4>1, <4>2, <4>3
    <3>4. i < j
      <4> SUFFICES ASSUME ~(i < j) PROVE FALSE
        OBVIOUS
      <4>1. i = j \/ j < i
        BY <3>3
      <4>2. j < i => s[j] < s[i]
        BY <1>6, <3>1, <3>3 DEF Rising
      <4> QED
        BY <2>2, <3>1, <3>3, <4>1, <4>2
    <3>5. i \in DOMAIN c
      BY <1>2, <3>1, <3>2, <3>4
    <3> QED
      BY <1>3, <3>1, <3>5, RetrieveRange
  <2> QED
    BY <2>1, <2>2
<1> QED
  BY <1>1, <1>4, <1>5, <1>6 DEF c

-----------------------------------------------------------------------------
(* Retrieval: the legs.                                                     *)

\* What is stored and asked is one of what may be.
Wanted == \E a \in Asked : store = a.store /\ query = a.query /\ alpha = a.alpha

LEMMA RetrieveNumbers ==
    /\ Whole \in Nat /\ Whole > 0 /\ PoolMult \in Nat /\ PoolMult > 0 /\ PrefixMult \in Nat /\ PrefixMult > 0
    /\ CorpusLimit \in Nat /\ Page \in Nat /\ SparsePool \in Nat
<1>1. {PoolMult, PrefixMult, CorpusLimit, Page} \subseteq Nat \ {0} /\ SparsePool \in Nat /\ Whole \in Nat \ {0}
  BY Assumptions DEF Retrieve!ConstantsAssumption
<1> QED
  BY <1>1

LEMMA WantedIs ==
    ASSUME Wanted
    PROVE  /\ Len(store.meta) \in Nat /\ Retrieve!Chunks = 1..Len(store.meta)
           /\ store.dense \in [Retrieve!Chunks -> Int] /\ store.sparse \in [Retrieve!Chunks -> Int]
           /\ \A c, d \in Retrieve!Chunks : c < d => store.dense[c] >= store.dense[d]
           /\ store.scroll \in Seq(Retrieve!Chunks) /\ Once(store.scroll)
           /\ query.topK \in Nat /\ query.topK > 0 /\ alpha \in Nat /\ alpha <= Whole
<1>1. PICK a \in Asked : store = a.store /\ query = a.query /\ alpha = a.alpha
  BY DEF Wanted
<1>2. /\ Len(store.meta) \in Nat /\ DOMAIN store.meta = 1..Len(store.meta)
      /\ store.dense \in [1..Len(store.meta) -> Int] /\ store.sparse \in [1..Len(store.meta) -> Int]
      /\ \A c, d \in 1..Len(store.meta) : c < d => store.dense[c] >= store.dense[d]
      /\ store.scroll \in Seq(1..Len(store.meta)) /\ Retrieve!IsInjective(store.scroll)
      /\ query.topK \in Nat \ {0} /\ alpha \in 0..Whole
  BY <1>1, Assumptions, Zenon DEF Retrieve!ConstantsAssumption
<1>3. Retrieve!Chunks = 1..Len(store.meta)
  BY <1>2 DEF Retrieve!Chunks
<1>4. Once(store.scroll)
  BY <1>2 DEF Once, Retrieve!IsInjective
<1>5. query.topK \in Nat /\ query.topK > 0 /\ alpha \in Nat /\ alpha <= Whole
  BY <1>2, RetrieveNumbers
<1> QED
  BY <1>2, <1>3, <1>4, <1>5

\* A chunk that the filter and the path prefix let through.
Fits(c) == Retrieve!Native(c) /\ Retrieve!PrefixOk(c)

\* The dense leg: chunks in the order of the ranking, and with any all that
\* fit and rank above it.
DenseLegOK ==
    /\ dense \in Seq(Retrieve!Chunks) /\ Rising(dense)
    /\ \A c \in Retrieve!Range(dense) : Fits(c)
    /\ \A a \in Retrieve!Chunks, b \in Retrieve!Range(dense) : a < b /\ Fits(a) => a \in Retrieve!Range(dense)

\* The lexical leg: chunks that fit, each once.
CorpusOK ==
    /\ corpus \in Seq(Retrieve!Chunks) /\ Once(corpus)
    /\ \A c \in Retrieve!Range(corpus) : Fits(c)

LEMMA EmptyLeg ==
    ASSUME NEW E
    PROVE  <<>> \in Seq(E) /\ Rising(<<>>) /\ Once(<<>>) /\ Retrieve!Range(<<>>) = {}
<1>1. Retrieve!Range(<<>>) = {<<>>[i] : i \in DOMAIN <<>>}
  BY RetrieveRange
<1> QED
  BY <1>1 DEF Rising, Once

LEMMA SearchIs ==
    ASSUME Wanted, NEW limit \in Nat
    PROVE  LET s == Retrieve!Search(limit)
           IN  /\ s \in Seq(Retrieve!Chunks) /\ Rising(s)
               /\ \A c \in Retrieve!Range(s) : Fits(c)
               /\ \A a \in Retrieve!Chunks, b \in Retrieve!Range(s) : a < b /\ Fits(a) => a \in Retrieve!Range(s)
<1> DEFINE E == Retrieve!Chunks
           k == Retrieve!Ranking
           all == Retrieve!Allowed(k)
           some == Retrieve!Cut(all, Retrieve!Fetch(limit))
           fit == Retrieve!Matching(some)
           s == Retrieve!Cut(fit, limit)
           natives == {c \in E : Retrieve!Native(c)}
           prefixed == {c \in E : Retrieve!PrefixOk(c)}
<1>0. E \subseteq Int
  BY WantedIs
<1>1. k \in Seq(E) /\ Rising(k) /\ \A c : c \in Retrieve!Range(k) <=> c \in E
  <2>1. k = [c \in E |-> c] /\ E = 1..Len(store.meta) /\ Len(store.meta) \in Nat
    BY WantedIs DEF Retrieve!Ranking
  <2> HIDE DEF k, E
  <2>2. k \in Seq(E) /\ DOMAIN k = E /\ \A c \in E : k[c] = c
    BY <2>1
  <2>3. Rising(k)
    BY <2>2 DEF Rising
  <2> QED
    BY <2>2, <2>3, RetrieveRange
<1>2. all = Retrieve!Among(k, natives) /\ fit = Retrieve!Among(some, prefixed)
  BY Zenon DEF Retrieve!Allowed, Retrieve!Matching
<1>3. Retrieve!Fetch(limit) \in Nat
  BY RetrieveNumbers DEF Retrieve!Fetch
<1>4. Retrieve!Search(limit) = s
  BY Zenon DEF Retrieve!Search
<1>5. \A c : (c \in natives <=> c \in E /\ Retrieve!Native(c)) /\ (c \in prefixed <=> c \in E /\ Retrieve!PrefixOk(c))
  OBVIOUS
<1> HIDE DEF k, natives, prefixed, E
<1>6. /\ all \in Seq(E) /\ Rising(all)
      /\ \A c : c \in Retrieve!Range(all) <=> c \in Retrieve!Range(k) /\ c \in natives
  BY <1>1, <1>2, AmongKeeps
<1> HIDE DEF all
<1>7. /\ some \in Seq(E) /\ Rising(some)
      /\ \A x \in Retrieve!Range(some) : x \in Retrieve!Range(all)
      /\ \A x \in Retrieve!Range(all), y \in Retrieve!Range(some) : x < y => x \in Retrieve!Range(some)
  BY <1>0, <1>3, <1>6, CutKeeps
<1> HIDE DEF some
<1>8. /\ fit \in Seq(E) /\ Rising(fit)
      /\ \A c : c \in Retrieve!Range(fit) <=> c \in Retrieve!Range(some) /\ c \in prefixed
  BY <1>2, <1>7, AmongKeeps
<1> HIDE DEF fit
<1>9. /\ s \in Seq(E) /\ Rising(s)
      /\ \A x \in Retrieve!Range(s) : x \in Retrieve!Range(fit)
      /\ \A x \in Retrieve!Range(fit), y \in Retrieve!Range(s) : x < y => x \in Retrieve!Range(s)
  BY <1>0, <1>8, CutKeeps
<1> HIDE DEF s
<1>10. \A c \in Retrieve!Range(s) : Fits(c)
  BY <1>5, <1>6, <1>7, <1>8, <1>9 DEF Fits
<1>11. ASSUME NEW a \in E, NEW b \in Retrieve!Range(s), a < b, Fits(a) PROVE a \in Retrieve!Range(s)
  <2>1. a \in natives /\ a \in prefixed /\ a \in Retrieve!Range(k)
    BY <1>1, <1>5, <1>11 DEF Fits
  <2>2. b \in Retrieve!Range(fit) /\ b \in Retrieve!Range(some)
    BY <1>8, <1>9
  <2>3. a \in Retrieve!Range(some)
    BY <1>6, <1>7, <1>11, <2>1, <2>2
  <2> QED
    BY <1>8, <1>9, <1>11, <2>1, <2>2, <2>3
<1> QED
  BY <1>4, <1>9, <1>10, <1>11 DEF E

LEMMA ScrolledIs ==
    ASSUME Wanted, NEW n \in Nat
    PROVE  LET s == Retrieve!Scrolled(n)
           IN  s \in Seq(Retrieve!Chunks) /\ Once(s) /\ \A c \in Retrieve!Range(s) : Fits(c)
<1> DEFINE E == Retrieve!Chunks
           all == Retrieve!Allowed(store.scroll)
           some == Retrieve!Cut(all, n * Page)
           fit == Retrieve!Matching(some)
           s == Retrieve!Cut(fit, CorpusLimit)
           natives == {c \in E : Retrieve!Native(c)}
           prefixed == {c \in E : Retrieve!PrefixOk(c)}
<1>1. store.scroll \in Seq(E) /\ Once(store.scroll)
  BY WantedIs
<1>2. all = Retrieve!Among(store.scroll, natives) /\ fit = Retrieve!Among(some, prefixed)
  BY Zenon DEF Retrieve!Allowed, Retrieve!Matching
<1>3. n * Page \in Nat /\ CorpusLimit \in Nat
  BY RetrieveNumbers
<1>4. Retrieve!Scrolled(n) = s
  BY Zenon DEF Retrieve!Scrolled
<1>5. \A c : (c \in natives <=> c \in E /\ Retrieve!Native(c)) /\ (c \in prefixed <=> c \in E /\ Retrieve!PrefixOk(c))
  OBVIOUS
<1> HIDE DEF natives, prefixed, E
<1>6. /\ all \in Seq(E) /\ Once(all)
      /\ \A c : c \in Retrieve!Range(all) <=> c \in Retrieve!Range(store.scroll) /\ c \in natives
  BY <1>1, <1>2, AmongKeeps
<1> HIDE DEF all
<1>7. some \in Seq(E) /\ Once(some) /\ \A x \in Retrieve!Range(some) : x \in Retrieve!Range(all)
  BY <1>3, <1>6, CutKeeps
<1> HIDE DEF some
<1>8. /\ fit \in Seq(E) /\ Once(fit)
      /\ \A c : c \in Retrieve!Range(fit) <=> c \in Retrieve!Range(some) /\ c \in prefixed
  BY <1>2, <1>7, AmongKeeps
<1> HIDE DEF fit
<1>9. s \in Seq(E) /\ Once(s) /\ \A x \in Retrieve!Range(s) : x \in Retrieve!Range(fit)
  BY <1>3, <1>8, CutKeeps
<1> HIDE DEF s
<1>10. \A c \in Retrieve!Range(s) : Fits(c)
  BY <1>5, <1>6, <1>7, <1>8, <1>9 DEF Fits
<1> QED
  BY <1>4, <1>9, <1>10 DEF E

-----------------------------------------------------------------------------
(* Retrieval: sorting.                                                      *)

\* r lists order, what scores higher first, and p says what comes from where.
SortedAs(r, order, s, p) ==
    /\ p \in [1..Len(order) -> 1..Len(order)]
    /\ \A i, j \in 1..Len(order) : p[i] = p[j] => i = j
    /\ \A m \in 1..Len(order) : \E i \in 1..Len(order) : p[i] = m
    /\ \A i \in 1..Len(order) : r[i] = order[p[i]]
    /\ \A i, j \in 1..Len(order) : i < j => \/ s[r[i]] > s[r[j]]
                                            \/ s[r[i]] = s[r[j]] /\ p[i] < p[j]

LEMMA SortedIs ==
    ASSUME NEW E, NEW order \in Seq(E), NEW s, \A i \in DOMAIN order : s[order[i]] \in Int
    PROVE  /\ Retrieve!Sorted(order, s) \in Seq(E) /\ Len(Retrieve!Sorted(order, s)) = Len(order)
           /\ \E p : SortedAs(Retrieve!Sorted(order, s), order, s, p)
<1> DEFINE n == Len(order)
           Before(a, b) == s[order[a]] > s[order[b]] \/ (s[order[a]] = s[order[b]] /\ a < b)
           R == {ab \in (1..n) \X (1..n) : Before(ab[1], ab[2])}
           p == CHOOSE q \in Retrieve!Injection(DOMAIN order, DOMAIN order) :
                   \A i, j \in DOMAIN order : i < j => Before(q[i], q[j])
           r == Retrieve!Sorted(order, s)
<1>1. n \in Nat /\ DOMAIN order = 1..n /\ \A i \in 1..n : order[i] \in E /\ s[order[i]] \in Int
  OBVIOUS
<1>2. r = [i \in DOMAIN order |-> order[p[i]]]
  BY Zenon DEF Retrieve!Sorted
<1>3. \A a, b \in 1..n : <<a, b>> \in R <=> Before(a, b)
  OBVIOUS
<1>4. /\ \A a, b \in 1..n : a # b => <<a, b>> \in R \/ <<b, a>> \in R
      /\ \A a, b, c \in 1..n : <<a, b>> \in R /\ <<b, c>> \in R => <<a, c>> \in R
  <2> HIDE DEF R
  <2>1. \A a, b \in 1..n : a # b => Before(a, b) \/ Before(b, a)
    BY <1>1
  <2>2. \A a, b, c \in 1..n : Before(a, b) /\ Before(b, c) => Before(a, c)
    BY <1>1
  <2> HIDE DEF Before
  <2> QED
    BY <1>3, <2>1, <2>2
<1> HIDE DEF R, n, r
<1>5. PICK q \in [1..n -> 1..n] : /\ \A i, j \in 1..n : q[i] = q[j] => i = j
                                  /\ \A i, j \in 1..n : i < j => <<q[i], q[j]>> \in R
  BY <1>1, <1>4, SortExists
<1> HIDE DEF Before
<1>6. /\ q \in Retrieve!Injection(DOMAIN order, DOMAIN order)
      /\ \A i, j \in DOMAIN order : i < j => Before(q[i], q[j])
  BY <1>1, <1>3, <1>5 DEF Retrieve!Injection, Retrieve!IsInjective
<1>7. /\ p \in Retrieve!Injection(DOMAIN order, DOMAIN order)
      /\ \A i, j \in DOMAIN order : i < j => Before(p[i], p[j])
  BY <1>6
<1> HIDE DEF p
<1>8. p \in [1..n -> 1..n] /\ \A i, j \in 1..n : p[i] = p[j] => i = j
  BY <1>1, <1>7 DEF Retrieve!Injection, Retrieve!IsInjective
<1>9. \A m \in 1..n : \E i \in 1..n : p[i] = m
  BY <1>1, <1>8, InjectiveIsOnto
<1>10. r = [i \in 1..n |-> order[p[i]]]
  BY <1>1, <1>2
<1>11. \A i \in 1..n : p[i] \in 1..n /\ r[i] = order[p[i]] /\ order[p[i]] \in E
  <2>1. \A i \in 1..n : p[i] \in 1..n
    BY <1>8
  <2> QED
    BY <1>1, <1>10, <2>1
<1>12. r \in Seq(E) /\ Len(r) = n
  <2>1. r \in [1..n -> E]
    BY <1>10, <1>11
  <2> QED
    BY <1>1, <2>1, SMTT(30)
<1>13. \A i, j \in 1..n : i < j => \/ s[r[i]] > s[r[j]]
                                   \/ s[r[i]] = s[r[j]] /\ p[i] < p[j]
  <2> TAKE i, j \in 1..n
  <2> HAVE i < j
  <2>1. Before(p[i], p[j])
    BY <1>1, <1>7
  <2>2. r[i] = order[p[i]] /\ r[j] = order[p[j]]
    BY <1>11
  <2> QED
    BY <2>1, <2>2, Zenon DEF Before
<1>14. SortedAs(r, order, s, p)
  BY <1>8, <1>9, <1>11, <1>13 DEF SortedAs, n
<1> QED
  BY <1>12, <1>14 DEF r, n

\* What sorting keeps.
LEMMA SortedKeeps ==
    ASSUME NEW E, NEW order \in Seq(E), NEW s, \A i \in DOMAIN order : s[order[i]] \in Int
    PROVE  LET r == Retrieve!Sorted(order, s)
           IN  /\ r \in Seq(E) /\ Len(r) = Len(order)
               /\ \A c : c \in Retrieve!Range(r) <=> c \in Retrieve!Range(order)
               /\ Once(order) => Once(r)
               /\ \A i, j \in DOMAIN r : i < j => s[r[i]] >= s[r[j]]
<1> DEFINE r == Retrieve!Sorted(order, s)
           n == Len(order)
<1>1. r \in Seq(E) /\ Len(r) = n /\ \E p : SortedAs(r, order, s, p)
  BY SortedIs
<1>2. PICK p : SortedAs(r, order, s, p)
  BY <1>1, Zenon
<1> HIDE DEF r
<1>3. DOMAIN r = 1..n /\ DOMAIN order = 1..n /\ n \in Nat
  BY <1>1
<1> HIDE DEF n
<1>4. /\ \A i \in 1..n : p[i] \in 1..n /\ r[i] = order[p[i]] /\ s[r[i]] \in Int
      /\ \A i, j \in 1..n : p[i] = p[j] => i = j
      /\ \A m \in 1..n : \E i \in 1..n : p[i] = m
      /\ \A i, j \in 1..n : i < j => s[r[i]] > s[r[j]] \/ s[r[i]] = s[r[j]]
  BY <1>2, <1>3 DEF SortedAs, n
<1>5. \A c : c \in Retrieve!Range(r) <=> c \in Retrieve!Range(order)
  <2>1. ASSUME NEW c \in Retrieve!Range(r) PROVE c \in Retrieve!Range(order)
    BY <1>3, <1>4, RetrieveRange
  <2>2. ASSUME NEW c \in Retrieve!Range(order) PROVE c \in Retrieve!Range(r)
    <3>1. PICK m \in 1..n : c = order[m]
      BY <1>3, RetrieveRange
    <3>2. PICK i \in 1..n : p[i] = m
      BY <1>4
    <3>3. r[i] = c
      BY <1>4, <3>1, <3>2
    <3> QED
      BY <1>3, <3>3, RetrieveRange
  <2> QED
    BY <2>1, <2>2
<1>6. Once(order) => Once(r)
  <2> SUFFICES ASSUME Once(order), NEW i \in 1..n, NEW j \in 1..n, r[i] = r[j] PROVE i = j
    BY <1>3, Zenon DEF Once
  <2>1. p[i] \in DOMAIN order /\ p[j] \in DOMAIN order /\ order[p[i]] = order[p[j]]
    BY <1>3, <1>4
  <2>2. p[i] = p[j]
    BY <2>1, Zenon DEF Once
  <2> QED
    BY <1>4, <2>2
<1>7. \A i, j \in DOMAIN r : i < j => s[r[i]] >= s[r[j]]
  <2> TAKE i, j \in DOMAIN r
  <2> HAVE i < j
  <2>1. s[r[i]] \in Int /\ s[r[j]] \in Int /\ (s[r[i]] > s[r[j]] \/ s[r[i]] = s[r[j]])
    BY <1>3, <1>4
  <2> QED
    BY <2>1
<1> QED
  BY <1>1, <1>5, <1>6, <1>7 DEF r, n

Precedes(r, u, v) == \E i, j \in DOMAIN r : i < j /\ r[i] = u /\ r[j] = v

\* What scores higher, or as high and came earlier, is listed earlier.
LEMMA SortedBefore ==
    ASSUME NEW E, NEW order \in Seq(E), NEW s, \A i \in DOMAIN order : s[order[i]] \in Int,
           NEW a \in DOMAIN order, NEW b \in DOMAIN order,
           s[order[a]] > s[order[b]] \/ (s[order[a]] = s[order[b]] /\ a < b)
    PROVE  Precedes(Retrieve!Sorted(order, s), order[a], order[b])
<1> DEFINE r == Retrieve!Sorted(order, s)
           n == Len(order)
<1>1. r \in Seq(E) /\ Len(r) = n /\ \E p : SortedAs(r, order, s, p)
  BY SortedIs
<1>2. PICK p : SortedAs(r, order, s, p)
  BY <1>1, Zenon
<1> HIDE DEF r
<1>3. DOMAIN r = 1..n /\ DOMAIN order = 1..n /\ n \in Nat
  BY <1>1
<1>4. PICK i \in 1..n : p[i] = a
  BY <1>2, <1>3 DEF SortedAs
<1>5. PICK j \in 1..n : p[j] = b
  BY <1>2, <1>3 DEF SortedAs
<1>6. r[i] = order[a] /\ r[j] = order[b]
  BY <1>2, <1>4, <1>5 DEF SortedAs
<1>7. s[order[a]] \in Int /\ s[order[b]] \in Int /\ a \in Nat /\ b \in Nat
  BY <1>3
<1>8. ~(j < i)
  <2> SUFFICES ASSUME j < i PROVE FALSE
    OBVIOUS
  <2>1. s[r[j]] > s[r[i]] \/ (s[r[j]] = s[r[i]] /\ p[j] < p[i])
    BY <1>2 DEF SortedAs
  <2> QED
    BY <1>4, <1>5, <1>6, <1>7, <2>1
<1>9. i # j
  BY <1>4, <1>5, <1>7
<1>10. i < j
  BY <1>3, <1>8, <1>9
<1> QED
  BY <1>3, <1>6, <1>10 DEF r, Precedes

\* Numbers 1 to n given to 1 to n in increasing order are given to themselves.
LEMMA RisingIsIdentity ==
    ASSUME NEW n \in Nat, NEW p \in [1..n -> 1..n], \A m \in 1..n : \E i \in 1..n : p[i] = m,
           \A i, j \in 1..n : i < j => p[i] < p[j]
    PROVE  \A i \in 1..n : p[i] = i
<1> DEFINE off == {i \in 1..n : p[i] # i}
<1> SUFFICES ASSUME off # {} PROVE FALSE
  OBVIOUS
<1>1. PICK i \in off : \A k \in off : i <= k
  <2>1. off \in SUBSET Nat
    OBVIOUS
  <2> HIDE DEF off
  <2> QED
    BY <2>1, LeastExists
<1>2. i \in 1..n /\ p[i] # i /\ p[i] \in 1..n /\ \A k \in 1..n : k < i => p[k] = k
  BY <1>1
<1>3. PICK j \in 1..n : p[j] = i
  BY <1>2
<1>4. j > i
  <2>1. j # i
    BY <1>2, <1>3
  <2>2. ~(j < i)
    <3> SUFFICES ASSUME j < i PROVE FALSE
      OBVIOUS
    <3>1. p[j] = j
      BY <1>2
    <3> QED
      BY <1>3, <2>1, <3>1
  <2>3. i \in Nat /\ j \in Nat
    BY <1>2
  <2> QED
    BY <2>1, <2>2, <2>3
<1>5. p[i] < i
  BY <1>2, <1>3, <1>4
<1>6. p[p[i]] = p[i] /\ p[p[i]] < p[i]
  BY <1>2, <1>5
<1> QED
  BY <1>2, <1>6

\* What is listed best first already stays as it is.
LEMMA SortedSame ==
    ASSUME NEW E, NEW order \in Seq(E), NEW s, \A i \in DOMAIN order : s[order[i]] \in Int,
           \A i, j \in DOMAIN order : i < j => s[order[i]] >= s[order[j]]
    PROVE  Retrieve!Sorted(order, s) = order
<1> DEFINE r == Retrieve!Sorted(order, s)
           n == Len(order)
<1>1. r \in Seq(E) /\ Len(r) = n /\ \E p : SortedAs(r, order, s, p)
  BY SortedIs
<1>2. PICK p : SortedAs(r, order, s, p)
  BY <1>1, Zenon
<1> HIDE DEF r
<1>3. DOMAIN r = 1..n /\ DOMAIN order = 1..n /\ n \in Nat
  BY <1>1
<1>4. /\ p \in [1..n -> 1..n]
      /\ \A i, j \in 1..n : p[i] = p[j] => i = j
      /\ \A m \in 1..n : \E i \in 1..n : p[i] = m
      /\ \A i \in 1..n : r[i] = order[p[i]]
      /\ \A i, j \in 1..n : i < j => s[r[i]] > s[r[j]] \/ (s[r[i]] = s[r[j]] /\ p[i] < p[j])
  BY <1>2 DEF SortedAs
<1> HIDE DEF n
<1>5. ASSUME NEW i \in 1..n, NEW j \in 1..n, i < j PROVE p[i] < p[j]
  <2>1. /\ p[i] \in 1..n /\ p[j] \in 1..n /\ p[i] # p[j]
        /\ s[order[p[i]]] \in Int /\ s[order[p[j]]] \in Int
    <3>1. p[i] \in 1..n /\ p[j] \in 1..n /\ i # j
      BY <1>3, <1>4, <1>5, SMTT(30)
    <3> QED
      BY <1>3, <1>4, <3>1
  <2>2. s[order[p[i]]] > s[order[p[j]]] \/ p[i] < p[j]
    BY <1>4, <1>5
  <2>3. p[j] < p[i] => s[order[p[j]]] >= s[order[p[i]]]
    BY <1>3, <2>1
  <2> QED
    BY <1>3, <2>1, <2>2, <2>3
<1>6. \A i \in 1..n : p[i] = i
  BY <1>3, <1>4, <1>5, RisingIsIdentity
<1>7. \A i \in 1..n : r[i] = order[i]
  BY <1>4, <1>6
<1>8. r = order
  BY <1>1, <1>3, <1>7
<1> QED
  BY <1>8 DEF r

-----------------------------------------------------------------------------
(* Retrieval: the scores.                                                   *)

\* The scores of a leg have a greatest and a least.
LEMMA ExtremesExist ==
    ASSUME NEW n \in Nat, n > 0, NEW f \in [1..n -> Int]
    PROVE  \E i, k \in 1..n : \A j \in 1..n : f[i] >= f[j] /\ f[j] >= f[k]
<1> DEFINE Good(m) == \E i, k \in 1..(m + 1) : \A j \in 1..(m + 1) : f[i] >= f[j] /\ f[j] >= f[k]
           upTo == {m \in Nat : m + 1 <= n => Good(m)}
<1>1. 0 \in upTo
  <2>1. 1 \in 1..n /\ f[1] \in Int /\ 1..(0 + 1) = {1}
    OBVIOUS
  <2>2. Good(0)
    BY <2>1
  <2> HIDE DEF Good
  <2> QED
    BY <2>2
<1>2. ASSUME NEW m \in Nat, m \in upTo PROVE m + 1 \in upTo
  <2> SUFFICES ASSUME (m + 1) + 1 <= n PROVE Good(m + 1)
    OBVIOUS
  <2>1. Good(m)
    <3> HIDE DEF Good
    <3> QED
      BY <1>2
  <2>2. PICK i \in 1..(m + 1), k \in 1..(m + 1) : \A j \in 1..(m + 1) : f[i] >= f[j] /\ f[j] >= f[k]
    BY <2>1
  <2> DEFINE l == (m + 1) + 1
  <2>3. /\ l \in 1..n /\ l \in 1..l /\ i \in 1..l /\ k \in 1..l /\ f[l] \in Int /\ f[i] \in Int /\ f[k] \in Int
        /\ \A j \in 1..l : f[j] \in Int /\ (j = l \/ j \in 1..(m + 1))
    OBVIOUS
  <2> HIDE DEF l
  <2> DEFINE x == IF f[l] >= f[i] THEN l ELSE i
             y == IF f[k] >= f[l] THEN l ELSE k
  <2>4. x \in 1..l /\ y \in 1..l
    BY <2>3
  <2>5. \A j \in 1..l : f[x] >= f[j] /\ f[j] >= f[y]
    <3> TAKE j \in 1..l
    <3>1. CASE j = l
      BY <2>3, <3>1
    <3>2. CASE j \in 1..(m + 1)
      BY <2>2, <2>3, <3>2
    <3> QED
      BY <2>3, <3>1, <3>2
  <2> HIDE DEF x, y
  <2> QED
    BY <2>4, <2>5 DEF l
<1> HIDE DEF upTo
<1>3. n - 1 \in upTo
  <2>1. n - 1 \in Nat
    OBVIOUS
  <2> QED
    BY <1>1, <1>2, <2>1, Counting
<1>4. Good(n - 1)
  <2> HIDE DEF Good
  <2>1. n - 1 \in Nat /\ (n - 1) + 1 = n /\ n <= n
    OBVIOUS
  <2> QED
    BY <1>3, <2>1 DEF upTo
<1>5. (n - 1) + 1 = n
  OBVIOUS
<1> QED
  BY <1>4, <1>5

\* A normalised score is a number that keeps the order of the scores.
LEMMA NormIs ==
    ASSUME NEW n \in Nat, n > 0, NEW f \in [1..n -> Int], NEW all, all = {f[i] : i \in 1..n}
    PROVE  /\ Retrieve!Spread(all) \in Nat /\ Retrieve!Spread(all) > 0
           /\ \A s \in all : s \in Int /\ Retrieve!Norm(s, all) \in Nat
           /\ \A s, t \in all : s > t => Retrieve!Norm(s, all) > Retrieve!Norm(t, all)
           /\ all = {0} => Retrieve!Norm(0, all) = 0
<1>1. PICK i \in 1..n, k \in 1..n : \A j \in 1..n : f[i] >= f[j] /\ f[j] >= f[k]
  BY ExtremesExist
<1> DEFINE hi == f[i]
           lo == f[k]
<1>2. hi \in all /\ lo \in all /\ hi \in Int /\ lo \in Int /\ \A s \in all : s \in Int /\ hi >= s /\ s >= lo
  BY <1>1
<1> HIDE DEF hi, lo
<1>3. Retrieve!Max(all) = hi
  <2>1. Top(all) = hi
    <3>1. all \in SUBSET Int
      BY <1>2
    <3> QED
      BY <1>2, <3>1, TopIsOne
  <2> QED
    BY <2>1, Zenon DEF Retrieve!Max, Top
<1>4. Retrieve!Min(all) = lo
  <2>1. \A x \in all : (\A y \in all : x <= y) <=> x = lo
    BY <1>2
  <2>2. (CHOOSE x \in all : \A y \in all : x <= y) = lo
    BY <1>2, <2>1
  <2> QED
    BY <2>2, Zenon DEF Retrieve!Min
<1>5. Retrieve!Spread(all) = IF hi = lo THEN 1 ELSE hi - lo
  BY <1>3, <1>4, Zenon DEF Retrieve!Spread
<1>6. \A s : Retrieve!Norm(s, all) = IF hi = lo THEN (IF hi > 0 THEN 1 ELSE 0) ELSE s - lo
  BY <1>3, <1>4, Zenon DEF Retrieve!Norm
<1>7. Retrieve!Spread(all) \in Nat /\ Retrieve!Spread(all) > 0
  <2>1. hi >= lo
    BY <1>2
  <2> QED
    BY <1>2, <1>5, <2>1
<1>8. \A s \in all : s \in Int /\ Retrieve!Norm(s, all) \in Nat
  BY <1>2, <1>6
<1>9. \A s, t \in all : s > t => Retrieve!Norm(s, all) > Retrieve!Norm(t, all)
  <2> TAKE s, t \in all
  <2> HAVE s > t
  <2>1. s \in Int /\ t \in Int /\ hi >= s /\ t >= lo
    BY <1>2
  <2>2. hi # lo
    BY <1>2, <2>1
  <2> QED
    BY <1>2, <1>6, <2>1, <2>2, SMTT(30)
<1>10. ASSUME all = {0} PROVE Retrieve!Norm(0, all) = 0
  <2>1. hi = 0 /\ lo = 0
    BY <1>2, <1>10
  <2>2. ~(hi > 0)
    BY <2>1
  <2> QED
    BY <1>6, <2>1, <2>2, Zenon
<1> QED
  BY <1>7, <1>8, <1>9, <1>10

\* Products keep the order.
LEMMA Products ==
    ASSUME NEW k \in Nat, NEW x \in Nat, NEW y \in Nat
    PROVE  /\ k * x \in Nat /\ x * k \in Nat
           /\ x <= y => k * x <= k * y /\ x * k <= y * k
           /\ x < y /\ k > 0 => k * x < k * y /\ x * k < y * k
<1>1. \A q, r \in Nat : q * r \in Nat /\ q * r = r * q
  OBVIOUS
<1>2. ASSUME x <= y PROVE /\ k * x <= k * y /\ x * k <= y * k
                         /\ x < y /\ k > 0 => k * x < k * y /\ x * k < y * k
  <2>1. PICK d \in Nat : y = x + d
    <3>1. y - x \in Nat /\ y = x + (y - x)
      BY <1>2
    <3> QED
      BY <3>1
  <2>2. k * (x + d) = k * x + k * d
    OBVIOUS
  <2>3. k * x \in Nat /\ k * d \in Nat /\ k * y \in Nat /\ x * k = k * x /\ y * k = k * y
    BY <1>1
  <2>4. k * y = k * x + k * d
    BY <2>1, <2>2
  <2>5. k > 0 /\ d > 0 => k * d > 0
    OBVIOUS
  <2>6. x < y => d > 0
    BY <2>1
  <2> QED
    BY <2>3, <2>4, <2>5, <2>6
<1> QED
  BY <1>1, <1>2

\* A score of a chunk of the lexical leg; both legs' scores and what they add.
LEMMA DenseLegScores ==
    ASSUME Wanted, DenseLegOK, dense # <<>>
    PROVE  /\ Retrieve!Spread(Retrieve!DenseScores) \in Nat /\ Retrieve!Spread(Retrieve!DenseScores) > 0
           /\ \A c : Retrieve!DenseNorm(c) \in Nat
           /\ \A c : c \notin Retrieve!Range(dense) => Retrieve!DenseNorm(c) = 0
           /\ \A a, b \in Retrieve!Range(dense) :
                 store.dense[a] > store.dense[b] => Retrieve!DenseNorm(a) > Retrieve!DenseNorm(b)
           /\ \A a, b \in Retrieve!Range(dense) :
                 store.dense[a] = store.dense[b] => Retrieve!DenseNorm(a) = Retrieve!DenseNorm(b)
<1> DEFINE n == Len(dense)
           f == [i \in 1..n |-> store.dense[dense[i]]]
           all == Retrieve!DenseScores
<1>1. n \in Nat /\ n > 0 /\ DOMAIN dense = 1..n /\ \A i \in 1..n : dense[i] \in Retrieve!Chunks
  BY DEF DenseLegOK
<1>2. \A c \in Retrieve!Chunks : store.dense[c] \in Int
  BY WantedIs
<1> HIDE DEF n
<1>3. f \in [1..n -> Int]
  BY <1>1, <1>2
<1>4. all = {store.dense[d] : d \in Retrieve!Range(dense)}
  BY Zenon DEF Retrieve!DenseScores
<1>5. Retrieve!Range(dense) = {dense[i] : i \in 1..n}
  BY <1>1, RetrieveRange
<1>6. all = {f[i] : i \in 1..n}
  BY <1>4, <1>5
<1> HIDE DEF f, all
<1>7. /\ Retrieve!Spread(all) \in Nat /\ Retrieve!Spread(all) > 0
      /\ \A s \in all : s \in Int /\ Retrieve!Norm(s, all) \in Nat
      /\ \A s, t \in all : s > t => Retrieve!Norm(s, all) > Retrieve!Norm(t, all)
  BY <1>1, <1>3, <1>6, NormIs
<1>8. \A c : Retrieve!DenseNorm(c) = IF c \in Retrieve!Range(dense) THEN Retrieve!Norm(store.dense[c], all) ELSE 0
  BY Zenon DEF Retrieve!DenseNorm, all
<1>9. \A c \in Retrieve!Range(dense) : store.dense[c] \in all
  BY <1>4
<1> QED
  BY <1>7, <1>8, <1>9 DEF all

LEMMA ScoreIs ==
    ASSUME Wanted, bm25 \in BOOLEAN, NEW c \in Retrieve!Chunks
    PROVE  Retrieve!Score(c) \in Int
<1>1. store.sparse[c] \in Int
  BY WantedIs
<1> QED
  BY <1>1 DEF Retrieve!Score

LEMMA CorpusScores ==
    ASSUME Wanted, CorpusOK, bm25 \in BOOLEAN, corpus # <<>>
    PROVE  /\ Retrieve!Spread(Retrieve!SparseScores) \in Nat /\ Retrieve!Spread(Retrieve!SparseScores) > 0
           /\ \A c : Retrieve!SparseNorm(c) \in Nat
           /\ \A c : c \notin Retrieve!Range(corpus) => Retrieve!SparseNorm(c) = 0
           /\ \A a, b \in Retrieve!Range(corpus) :
                 Retrieve!Score(a) > Retrieve!Score(b) => Retrieve!SparseNorm(a) > Retrieve!SparseNorm(b)
           /\ (\A c \in Retrieve!Range(corpus) : Retrieve!Score(c) = 0) => \A c : Retrieve!SparseNorm(c) = 0
<1> DEFINE n == Len(corpus)
           f == [i \in 1..n |-> Retrieve!Score(corpus[i])]
           all == Retrieve!SparseScores
<1>1. n \in Nat /\ n > 0 /\ DOMAIN corpus = 1..n /\ \A i \in 1..n : corpus[i] \in Retrieve!Chunks
  BY DEF CorpusOK
<1>2. \A c \in Retrieve!Chunks : Retrieve!Score(c) \in Int
  BY ScoreIs
<1> HIDE DEF n
<1>3. f \in [1..n -> Int]
  BY <1>1, <1>2
<1>4. all = {Retrieve!Score(d) : d \in Retrieve!Range(corpus)}
  BY Zenon DEF Retrieve!SparseScores
<1>5. Retrieve!Range(corpus) = {corpus[i] : i \in 1..n}
  BY <1>1, RetrieveRange
<1>6. all = {f[i] : i \in 1..n}
  BY <1>4, <1>5
<1> HIDE DEF f, all
<1>7. /\ Retrieve!Spread(all) \in Nat /\ Retrieve!Spread(all) > 0
      /\ \A s \in all : s \in Int /\ Retrieve!Norm(s, all) \in Nat
      /\ \A s, t \in all : s > t => Retrieve!Norm(s, all) > Retrieve!Norm(t, all)
      /\ all = {0} => Retrieve!Norm(0, all) = 0
  BY <1>1, <1>3, <1>6, NormIs
<1>8. \A c : Retrieve!SparseNorm(c) = IF c \in Retrieve!Range(corpus) THEN Retrieve!Norm(Retrieve!Score(c), all) ELSE 0
  BY Zenon DEF Retrieve!SparseNorm, all
<1>9. \A c \in Retrieve!Range(corpus) : Retrieve!Score(c) \in all
  BY <1>4
<1>10. ASSUME \A c \in Retrieve!Range(corpus) : Retrieve!Score(c) = 0
       PROVE  \A c : Retrieve!SparseNorm(c) = 0
  <2>1. corpus[1] \in Retrieve!Range(corpus)
    BY <1>1, <1>5
  <2>2. \A s : s \in all <=> s = 0
    BY <1>4, <1>10, <2>1
  <2>3. all = {0}
    BY <2>2
  <2> QED
    BY <1>7, <1>8, <1>10, <2>3
<1> QED
  BY <1>7, <1>8, <1>9, <1>10 DEF all

-----------------------------------------------------------------------------
(* Retrieval: fusion.                                                       *)

\* What the dict of scores lists: the dense leg, then the rest of the other.
LEMMA InsertedIs ==
    ASSUME Wanted, DenseLegOK, CorpusOK
    PROVE  LET m == Retrieve!Inserted
           IN  /\ m \in Seq(Retrieve!Chunks) /\ Once(m) /\ Len(m) >= Len(dense)
               /\ \A c : c \in Retrieve!Range(m) <=> c \in Retrieve!Range(dense) \/ c \in Retrieve!Range(corpus)
               /\ \A i \in 1..Len(dense) : i \in DOMAIN m /\ m[i] = dense[i]
               /\ \A i \in DOMAIN m : i > Len(dense) => m[i] \notin Retrieve!Range(dense)
<1> DEFINE E == Retrieve!Chunks
           rest == Retrieve!Among(corpus, E \ Retrieve!Range(dense))
           m == Retrieve!Inserted
           d == Len(dense)
<1>0. dense \in Seq(E) /\ Rising(dense) /\ corpus \in Seq(E) /\ Once(corpus) /\ E \subseteq Int
  BY WantedIs DEF DenseLegOK, CorpusOK
<1>1. m = dense \o rest
  BY Zenon DEF Retrieve!Inserted
<1> HIDE DEF E, m
<1>2. /\ rest \in Seq(E) /\ Once(rest)
      /\ \A c : c \in Retrieve!Range(rest) <=> c \in Retrieve!Range(corpus) /\ c \in E \ Retrieve!Range(dense)
  BY <1>0, AmongKeeps
<1> HIDE DEF rest
<1>3. Once(dense)
  <2> SUFFICES ASSUME NEW i \in DOMAIN dense, NEW j \in DOMAIN dense, dense[i] = dense[j] PROVE i = j
    BY DEF Once
  <2>1. \A k \in DOMAIN dense : k \in Nat /\ dense[k] \in E
    BY <1>0
  <2>2. i \in Nat /\ j \in Nat /\ dense[i] \in Int /\ dense[j] \in Int
    BY <1>0, <2>1
  <2>3. (i < j => dense[i] < dense[j]) /\ (j < i => dense[j] < dense[i])
    BY <1>0 DEF Rising
  <2> QED
    BY <2>2, <2>3
<1>4. /\ m \in Seq(E) /\ d \in Nat /\ Len(rest) \in Nat /\ Len(m) = d + Len(rest)
      /\ DOMAIN dense = 1..d /\ DOMAIN rest = 1..Len(rest) /\ DOMAIN m = 1..Len(m)
      /\ \A i \in 1..d : m[i] = dense[i]
      /\ \A i \in 1..Len(rest) : m[d + i] = rest[i]
  BY <1>0, <1>1, <1>2
<1> HIDE DEF d
<1>5. \A i \in DOMAIN m : \/ i \in 1..d /\ m[i] = dense[i] /\ m[i] \in Retrieve!Range(dense)
                          \/ /\ i > d /\ i - d \in 1..Len(rest) /\ m[i] = rest[i - d]
                             /\ m[i] \in Retrieve!Range(rest)
  <2> TAKE i \in DOMAIN m
  <2>1. CASE i <= d
    <3>1. i \in 1..d /\ m[i] = dense[i]
      BY <1>4, <2>1
    <3> QED
      BY <1>4, <3>1, RetrieveRange
  <2>2. CASE i > d
    <3>1. i - d \in 1..Len(rest) /\ d + (i - d) = i
      BY <1>4, <2>2
    <3>2. m[i] = rest[i - d]
      BY <1>4, <3>1
    <3> QED
      BY <1>4, <2>2, <3>1, <3>2, RetrieveRange
  <2>3. i \in Nat
    BY <1>4
  <2> QED
    BY <1>4, <2>1, <2>2, <2>3
<1>6. \A i \in DOMAIN m : i > d => m[i] \notin Retrieve!Range(dense)
  <2> TAKE i \in DOMAIN m
  <2> HAVE i > d
  <2>1. ~(i \in 1..d)
    BY <1>4
  <2> QED
    BY <1>2, <1>5, <2>1
<1>7. Once(m)
  <2> SUFFICES ASSUME NEW i \in DOMAIN m, NEW j \in DOMAIN m, m[i] = m[j] PROVE i = j
    BY DEF Once
  <2>1. i \in Nat /\ j \in Nat
    BY <1>4
  <2>2. CASE i \in 1..d
    <3>1. j \in 1..d
      <4>1. m[i] \in Retrieve!Range(dense)
        <5>1. i \in DOMAIN dense /\ m[i] = dense[i]
          BY <1>4, <2>2
        <5> QED
          BY <5>1, RetrieveRange
      <4>2. ~(j > d)
        BY <1>6, <4>1
      <4> QED
        BY <1>4, <2>1, <4>2
    <3> QED
      BY <1>3, <1>4, <2>2, <3>1 DEF Once
  <2>3. CASE i > d
    <3>1. j > d
      <4>1. m[j] \notin Retrieve!Range(dense)
        BY <1>6, <2>3
      <4> QED
        BY <1>5, <4>1
    <3>2. i - d \in DOMAIN rest /\ j - d \in DOMAIN rest /\ rest[i - d] = rest[j - d]
      BY <1>4, <1>5, <2>1, <2>3, <3>1
    <3>3. i - d = j - d
      BY <1>2, <3>2, Zenon DEF Once
    <3> QED
      BY <1>4, <2>1, <3>3
  <2> QED
    BY <1>5, <2>2, <2>3
<1>8. \A c : c \in Retrieve!Range(m) <=> c \in Retrieve!Range(dense) \/ c \in Retrieve!Range(corpus)
  <2>1. ASSUME NEW c \in Retrieve!Range(m) PROVE c \in Retrieve!Range(dense) \/ c \in Retrieve!Range(corpus)
    <3>1. PICK i \in DOMAIN m : c = m[i]
      BY RetrieveRange
    <3> QED
      BY <1>2, <1>5, <3>1
  <2>2. ASSUME NEW c \in Retrieve!Range(dense) PROVE c \in Retrieve!Range(m)
    <3>1. PICK i \in DOMAIN dense : c = dense[i]
      BY RetrieveRange
    <3>2. i \in DOMAIN m /\ m[i] = c
      BY <1>4, <3>1
    <3> QED
      BY <3>2, RetrieveRange
  <2>3. ASSUME NEW c \in Retrieve!Range(corpus), c \notin Retrieve!Range(dense) PROVE c \in Retrieve!Range(m)
    <3>1. c \in E
      <4>1. PICK i \in DOMAIN corpus : c = corpus[i]
        BY RetrieveRange
      <4> QED
        BY <1>0, <4>1
    <3>2. c \in Retrieve!Range(rest)
      BY <1>2, <2>3, <3>1
    <3>3. PICK i \in DOMAIN rest : c = rest[i]
      BY <3>2, RetrieveRange
    <3>4. d + i \in DOMAIN m /\ m[d + i] = c
      BY <1>4, <3>3
    <3> QED
      BY <3>4, RetrieveRange
  <2> QED
    BY <2>1, <2>2, <2>3
<1>9. Len(m) >= d /\ \A i \in 1..d : i \in DOMAIN m /\ m[i] = dense[i]
  BY <1>4
<1> QED
  BY <1>4, <1>6, <1>7, <1>8, <1>9 DEF m, d, E

\* A chunk that scores no less in either leg is fused no lower; higher, if it
\* scores higher in a leg that has weight.
LEMMA FusedIs ==
    ASSUME Wanted, DenseLegOK, CorpusOK, bm25 \in BOOLEAN, dense # <<>>, corpus # <<>>
    PROVE  /\ \A c : Retrieve!Fused(c) \in Nat
           /\ \A a, b : /\ Retrieve!DenseNorm(a) >= Retrieve!DenseNorm(b) \/ alpha = 0
                        /\ Retrieve!SparseNorm(a) >= Retrieve!SparseNorm(b) \/ alpha = Whole
                 => /\ Retrieve!Fused(a) >= Retrieve!Fused(b)
                    /\ alpha > 0 /\ Retrieve!DenseNorm(a) > Retrieve!DenseNorm(b)
                          => Retrieve!Fused(a) > Retrieve!Fused(b)
                    /\ alpha < Whole /\ Retrieve!SparseNorm(a) > Retrieve!SparseNorm(b)
                          => Retrieve!Fused(a) > Retrieve!Fused(b)
<1> DEFINE D(c) == Retrieve!DenseNorm(c)
           P(c) == Retrieve!SparseNorm(c)
           u == Retrieve!Spread(Retrieve!SparseScores)
           v == Retrieve!Spread(Retrieve!DenseScores)
           w == Whole - alpha
<1>1. /\ u \in Nat /\ u > 0 /\ v \in Nat /\ v > 0
      /\ \A c : D(c) \in Nat /\ P(c) \in Nat
  BY DenseLegScores, CorpusScores
<1>2. alpha \in Nat /\ w \in Nat /\ (w > 0 <=> alpha < Whole) /\ (w = 0 <=> alpha = Whole)
  BY WantedIs, RetrieveNumbers
<1>3. \A c : Retrieve!Fused(c) = alpha * D(c) * u + w * P(c) * v
  BY Zenon DEF Retrieve!Fused, Retrieve!DensePart, Retrieve!SparsePart
<1> HIDE DEF D, P, u, v, w
<1>4. ASSUME NEW k \in Nat, NEW x \in Nat, NEW y \in Nat, NEW z \in Nat, z > 0
      PROVE  /\ k * x * z \in Nat /\ k * y * z \in Nat
             /\ x >= y \/ k = 0 => k * x * z >= k * y * z
             /\ k > 0 /\ x > y => k * x * z > k * y * z
  <2>1. k * x \in Nat /\ k * y \in Nat
    BY Products
  <2>2. k * x * z \in Nat /\ k * y * z \in Nat
    BY <2>1, Products
  <2>3. x >= y => k * x * z >= k * y * z
    <3>1. x >= y => k * y <= k * x
      BY Products
    <3>2. k * y <= k * x => k * y * z <= k * x * z
      BY <2>1, Products
    <3> QED
      BY <2>2, <3>1, <3>2
  <2>4. k = 0 => k * x * z = 0 /\ k * y * z = 0
    OBVIOUS
  <2>5. k > 0 /\ x > y => k * x * z > k * y * z
    <3>1. k > 0 /\ x > y => k * y < k * x
      BY Products
    <3>2. k * y < k * x => k * y * z < k * x * z
      BY <1>4, <2>1, Products
    <3> QED
      BY <2>2, <3>1, <3>2
  <2> QED
    BY <2>2, <2>3, <2>4, <2>5
<1>5. \A c : /\ Retrieve!Fused(c) \in Nat
             /\ alpha * D(c) * u \in Nat /\ w * P(c) * v \in Nat
  <2> TAKE c
  <2>1. alpha * D(c) * u \in Nat
    BY <1>1, <1>2, <1>4
  <2>2. w * P(c) * v \in Nat
    BY <1>1, <1>2, <1>4
  <2> QED
    BY <1>3, <2>1, <2>2
<1>6. ASSUME NEW a, NEW b, D(a) >= D(b) \/ alpha = 0, P(a) >= P(b) \/ alpha = Whole
      PROVE  /\ Retrieve!Fused(a) >= Retrieve!Fused(b)
             /\ alpha > 0 /\ D(a) > D(b) => Retrieve!Fused(a) > Retrieve!Fused(b)
             /\ alpha < Whole /\ P(a) > P(b) => Retrieve!Fused(a) > Retrieve!Fused(b)
  <2> DEFINE da == alpha * D(a) * u
             db == alpha * D(b) * u
             pa == w * P(a) * v
             pb == w * P(b) * v
  <2>1. /\ da \in Nat /\ db \in Nat /\ pa \in Nat /\ pb \in Nat
        /\ Retrieve!Fused(a) = da + pa /\ Retrieve!Fused(b) = db + pb
    BY <1>3, <1>5
  <2>2. (D(a) >= D(b) \/ alpha = 0 => da >= db) /\ (alpha > 0 /\ D(a) > D(b) => da > db)
    BY <1>1, <1>2, <1>4
  <2>3. (P(a) >= P(b) \/ w = 0 => pa >= pb) /\ (w > 0 /\ P(a) > P(b) => pa > pb)
    BY <1>1, <1>2, <1>4
  <2> HIDE DEF da, db, pa, pb
  <2>4. da >= db /\ pa >= pb
    BY <1>2, <1>6, <2>2, <2>3
  <2>5. Retrieve!Fused(a) >= Retrieve!Fused(b)
    BY <2>1, <2>4
  <2>6. ASSUME alpha > 0 /\ D(a) > D(b) PROVE Retrieve!Fused(a) > Retrieve!Fused(b)
    BY <2>1, <2>2, <2>4, <2>6
  <2>7. ASSUME alpha < Whole /\ P(a) > P(b) PROVE Retrieve!Fused(a) > Retrieve!Fused(b)
    <3>1. pa > pb
      BY <1>2, <2>3, <2>7
    <3> QED
      BY <2>1, <2>4, <3>1
  <2> QED
    BY <2>5, <2>6, <2>7
<1> QED
  BY <1>5, <1>6 DEF D, P

-----------------------------------------------------------------------------
(* Retrieval: the evidence.                                                 *)

Evidence == [id : Retrieve!Chunks, score : Int, by : {"sparse", "dense", "hybrid"}]

\* Chunks that fit, each once, best score first.
Listing(e) ==
    /\ e \in Seq(Evidence)
    /\ \A i, j \in DOMAIN e : e[i].id = e[j].id => i = j
    /\ \A i \in DOMAIN e : Fits(e[i].id)
    /\ \A i, j \in DOMAIN e : i < j => e[i].score >= e[j].score

LEMMA ListedIs ==
    ASSUME NEW order \in Seq(Retrieve!Chunks), NEW s, NEW by \in {"sparse", "dense", "hybrid"},
           Once(order), \A c \in Retrieve!Range(order) : Fits(c),
           \A i \in DOMAIN order : s[order[i]] \in Int,
           \A i, j \in DOMAIN order : i < j => s[order[i]] >= s[order[j]]
    PROVE  LET e == Retrieve!Listed(order, s, by)
           IN  /\ Listing(e) /\ Len(e) = Len(order)
               /\ \A i \in DOMAIN order : e[i].id = order[i]
<1> DEFINE e == Retrieve!Listed(order, s, by)
           n == Len(order)
<1>1. e = [i \in DOMAIN order |-> [id |-> order[i], score |-> s[order[i]], by |-> by]]
  BY Zenon DEF Retrieve!Listed
<1>2. n \in Nat /\ DOMAIN order = 1..n /\ \A i \in 1..n : order[i] \in Retrieve!Chunks
  OBVIOUS
<1> HIDE DEF n, e
<1>3. \A i \in 1..n : e[i] = [id |-> order[i], score |-> s[order[i]], by |-> by]
  BY <1>1, <1>2
<1>4. \A i \in 1..n : e[i] \in Evidence
  <2> TAKE i \in 1..n
  <2>1. order[i] \in Retrieve!Chunks /\ s[order[i]] \in Int
    BY <1>2
  <2>2. e[i] = [id |-> order[i], score |-> s[order[i]], by |-> by]
    BY <1>3
  <2>3. [id |-> order[i], score |-> s[order[i]], by |-> by]
          \in [id : Retrieve!Chunks, score : Int, by : {"sparse", "dense", "hybrid"}]
    BY <2>1
  <2> QED
    BY <2>2, <2>3, Zenon DEF Evidence
<1>5. e \in Seq(Evidence) /\ Len(e) = n /\ DOMAIN e = 1..n
  <2>1. e \in [1..n -> Evidence]
    BY <1>1, <1>2, <1>4
  <2> QED
    BY <1>2, <2>1
<1>6. \A i \in 1..n : e[i].id = order[i] /\ e[i].score = s[order[i]]
  <2> TAKE i \in 1..n
  <2>1. e[i] = [id |-> order[i], score |-> s[order[i]], by |-> by]
    BY <1>3, Zenon
  <2>2. \A x, y, z : [id |-> x, score |-> y, by |-> z].id = x /\ [id |-> x, score |-> y, by |-> z].score = y
    OBVIOUS
  <2> QED
    BY <2>1, <2>2
<1>7. \A i \in DOMAIN e : Fits(e[i].id)
  <2> TAKE i \in DOMAIN e
  <2>1. order[i] \in Retrieve!Range(order) /\ e[i].id = order[i]
    BY <1>2, <1>5, <1>6, RetrieveRange
  <2> QED
    BY <2>1
<1>8. \A i, j \in DOMAIN e : e[i].id = e[j].id => i = j
  BY <1>2, <1>5, <1>6 DEF Once
<1>9. \A i, j \in DOMAIN e : i < j => e[i].score >= e[j].score
  BY <1>2, <1>5, <1>6
<1> QED
  BY <1>2, <1>5, <1>6, <1>7, <1>8, <1>9 DEF Listing, e, n

LEMMA ListingCut ==
    ASSUME NEW e, Listing(e), NEW n \in Nat
    PROVE  LET c == Retrieve!Cut(e, n)
           IN  /\ Listing(c) /\ Len(c) = IF n <= Len(e) THEN n ELSE Len(e)
               /\ \A i \in DOMAIN c : i \in DOMAIN e /\ c[i] = e[i]
<1> DEFINE c == Retrieve!Cut(e, n)
<1>0. e \in Seq(Evidence)
  BY DEF Listing
<1>1. /\ c \in Seq(Evidence) /\ Len(c) = IF n <= Len(e) THEN n ELSE Len(e)
      /\ \A i \in 1..Len(c) : c[i] = e[i]
  BY <1>0, RetrieveCut
<1> HIDE DEF c
<1>2. DOMAIN c = 1..Len(c) /\ DOMAIN e = 1..Len(e) /\ Len(c) \in Nat /\ Len(e) \in Nat
  BY <1>0, <1>1
<1>3. \A i \in DOMAIN c : i \in DOMAIN e /\ c[i] = e[i]
  BY <1>1, <1>2
<1>4. Listing(c)
  BY <1>1, <1>3 DEF Listing
<1> QED
  BY <1>1, <1>3, <1>4 DEF c

LEMMA ByDenseIs ==
    ASSUME Wanted, DenseLegOK
    PROVE  LET e == Retrieve!ByDense
           IN  /\ Listing(e) /\ Len(e) = Len(dense)
               /\ \A i \in DOMAIN dense : e[i].id = dense[i]
<1>1. dense \in Seq(Retrieve!Chunks) /\ Rising(dense) /\ \A c \in Retrieve!Range(dense) : Fits(c)
  BY DEF DenseLegOK
<1>2. \A i \in DOMAIN dense : dense[i] \in Retrieve!Chunks /\ i \in Nat
  BY <1>1
<1>3. /\ \A c \in Retrieve!Chunks : c \in Int /\ store.dense[c] \in Int
      /\ \A c, d \in Retrieve!Chunks : c < d => store.dense[c] >= store.dense[d]
  BY WantedIs
<1>4. Once(dense)
  <2> SUFFICES ASSUME NEW i \in DOMAIN dense, NEW j \in DOMAIN dense, dense[i] = dense[j] PROVE i = j
    BY DEF Once
  <2>1. i \in Nat /\ j \in Nat /\ dense[i] \in Int /\ dense[j] \in Int
    BY <1>2, <1>3
  <2>2. (i < j => dense[i] < dense[j]) /\ (j < i => dense[j] < dense[i])
    BY <1>1 DEF Rising
  <2> QED
    BY <2>1, <2>2
<1>5. \A i \in DOMAIN dense : store.dense[dense[i]] \in Int
  BY <1>2, <1>3
<1>6. \A i, j \in DOMAIN dense : i < j => store.dense[dense[i]] >= store.dense[dense[j]]
  BY <1>1, <1>2, <1>3 DEF Rising
<1> QED
  BY <1>1, <1>4, <1>5, <1>6, ListedIs DEF Retrieve!ByDense

\* What the sorted leg or fusion lists.
LEMMA SortedListing ==
    ASSUME NEW order \in Seq(Retrieve!Chunks), NEW s, NEW by \in {"sparse", "dense", "hybrid"},
           Once(order), \A c \in Retrieve!Range(order) : Fits(c) /\ s[c] \in Int
    PROVE  LET r == Retrieve!Sorted(order, s)
               e == Retrieve!Listed(r, s, by)
           IN  /\ Listing(e) /\ Len(e) = Len(order) /\ r \in Seq(Retrieve!Chunks) /\ Len(r) = Len(order)
               /\ Once(r)
               /\ \A i \in DOMAIN r : e[i].id = r[i]
<1> DEFINE r == Retrieve!Sorted(order, s)
<1>1. \A i \in DOMAIN order : s[order[i]] \in Int
  BY RetrieveRange
<1>2. /\ r \in Seq(Retrieve!Chunks) /\ Len(r) = Len(order)
      /\ \A c : c \in Retrieve!Range(r) <=> c \in Retrieve!Range(order)
      /\ Once(r)
      /\ \A i, j \in DOMAIN r : i < j => s[r[i]] >= s[r[j]]
  BY <1>1, SortedKeeps
<1> HIDE DEF r
<1>3. \A i \in DOMAIN r : s[r[i]] \in Int
  BY <1>2, RetrieveRange
<1>4. \A c \in Retrieve!Range(r) : Fits(c)
  BY <1>2
<1> DEFINE e == Retrieve!Listed(r, s, by)
<1>5. Listing(e) /\ Len(e) = Len(r) /\ \A i \in DOMAIN r : e[i].id = r[i]
  BY <1>2, <1>3, <1>4, ListedIs
<1> QED
  BY <1>2, <1>5 DEF r, e

LEMMA BySparseIs ==
    ASSUME Wanted, CorpusOK, bm25 \in BOOLEAN
    PROVE  Listing(Retrieve!BySparse) /\ Len(Retrieve!BySparse) = Len(corpus)
<1> DEFINE s == [c \in Retrieve!Range(corpus) |-> Retrieve!Score(c)]
<1>1. corpus \in Seq(Retrieve!Chunks) /\ Once(corpus) /\ \A c \in Retrieve!Range(corpus) : Fits(c)
  BY DEF CorpusOK
<1>2. \A c \in Retrieve!Range(corpus) : s[c] \in Int
  <2> TAKE c \in Retrieve!Range(corpus)
  <2>1. c \in Retrieve!Chunks
    BY <1>1, RetrieveRange
  <2>2. Retrieve!Score(c) \in Int
    BY <2>1, ScoreIs
  <2> QED
    BY <2>2
<1>3. Retrieve!BySparse = Retrieve!Listed(Retrieve!Sorted(corpus, s), s, "sparse")
  BY Zenon DEF Retrieve!BySparse
<1> HIDE DEF s
<1> QED
  BY <1>1, <1>2, <1>3, SortedListing

\* The scores that fusion sorts by.
FusedScores == [c \in Retrieve!Range(Retrieve!Inserted) |-> Retrieve!Fused(c)]

LEMMA ByFusionIs ==
    ASSUME Wanted, DenseLegOK, CorpusOK, bm25 \in BOOLEAN, dense # <<>>, corpus # <<>>
    PROVE  LET r == Retrieve!Sorted(Retrieve!Inserted, FusedScores)
               e == Retrieve!ByFusion
           IN  /\ Listing(e) /\ Len(e) = Len(Retrieve!Inserted)
               /\ r \in Seq(Retrieve!Chunks) /\ Len(r) = Len(e) /\ Once(r)
               /\ \A i \in DOMAIN r : e[i].id = r[i]
<1> DEFINE m == Retrieve!Inserted
<1>1. /\ m \in Seq(Retrieve!Chunks) /\ Once(m)
      /\ \A c : c \in Retrieve!Range(m) <=> c \in Retrieve!Range(dense) \/ c \in Retrieve!Range(corpus)
  BY InsertedIs
<1>2. \A c \in Retrieve!Range(m) : Fits(c)
  BY <1>1 DEF DenseLegOK, CorpusOK
<1>3. \A c \in Retrieve!Range(m) : FusedScores[c] \in Int
  <2> TAKE c \in Retrieve!Range(m)
  <2>1. FusedScores[c] = Retrieve!Fused(c)
    BY DEF FusedScores
  <2>2. Retrieve!Fused(c) \in Nat
    BY FusedIs
  <2> QED
    BY <2>1, <2>2
<1>4. Retrieve!ByFusion = Retrieve!Listed(Retrieve!Sorted(m, FusedScores), FusedScores, "hybrid")
  BY Zenon DEF Retrieve!ByFusion, FusedScores
<1> HIDE DEF m
<1>5. LET r == Retrieve!Sorted(m, FusedScores)
          e == Retrieve!Listed(r, FusedScores, "hybrid")
      IN  /\ Listing(e) /\ Len(e) = Len(m) /\ r \in Seq(Retrieve!Chunks) /\ Len(r) = Len(m)
          /\ Once(r)
          /\ \A i \in DOMAIN r : e[i].id = r[i]
  BY <1>1, <1>2, <1>3, SortedListing
<1> QED
  BY <1>4, <1>5 DEF m

-----------------------------------------------------------------------------
(* Retrieval: the invariant.                                                *)

\* What retrieve puts together fits, best first, and lists all that a leg found
\* when only one found anything.
LEMMA RankedIs ==
    ASSUME Wanted, DenseLegOK, CorpusOK, bm25 \in BOOLEAN,
           query.strategy = "dense" => corpus = <<>>, query.strategy = "sparse" => dense = <<>>
    PROVE  /\ Listing(Retrieve!Ranked)
           /\ Retrieve!Ranked = <<>> => dense = <<>> /\ corpus = <<>>
<1> DEFINE e == Retrieve!Ranked
<1>1. \A x : x \in Seq(Retrieve!Chunks) => Len(x) \in Nat /\ (Len(x) = 0 => x = <<>>)
  OBVIOUS
<1>2. dense \in Seq(Retrieve!Chunks) /\ corpus \in Seq(Retrieve!Chunks)
  BY DEF DenseLegOK, CorpusOK
<1>3. Len(<<>>) = 0
  OBVIOUS
<1>4. CASE query.strategy = "dense" \/ (query.strategy # "sparse" /\ corpus = <<>>)
  <2>1. corpus = <<>> /\ e = Retrieve!ByDense
    BY <1>4, Zenon DEF Retrieve!Ranked
  <2>2. Listing(e) /\ Len(e) = Len(dense)
    BY <2>1, ByDenseIs
  <2> HIDE DEF e
  <2>3. e = <<>> => dense = <<>>
    BY <1>1, <1>2, <1>3, <2>2
  <2> QED
    BY <2>1, <2>2, <2>3 DEF e
<1>5. CASE query.strategy = "sparse"
  <2> DEFINE k == Retrieve!Max({query.topK, SparsePool})
             l == Retrieve!BySparse
  <2>1. dense = <<>> /\ e = Retrieve!Cut(l, k)
    BY <1>5, Zenon DEF Retrieve!Ranked
  <2>2. k \in Nat /\ k > 0
    <3>1. query.topK \in Nat /\ query.topK > 0 /\ SparsePool \in Nat
      BY WantedIs, RetrieveNumbers
    <3>2. \E x \in {query.topK, SparsePool} : \A y \in {query.topK, SparsePool} : x >= y
      BY <3>1
    <3>3. k \in {query.topK, SparsePool} /\ \A y \in {query.topK, SparsePool} : k >= y
      BY <3>2, Zenon DEF Retrieve!Max
    <3> QED
      BY <3>1, <3>3
  <2>3. Listing(l) /\ Len(l) = Len(corpus)
    BY BySparseIs
  <2> HIDE DEF k, l
  <2>4. Listing(e) /\ Len(e) = IF k <= Len(l) THEN k ELSE Len(l)
    BY <2>1, <2>2, <2>3, ListingCut
  <2> HIDE DEF e
  <2>5. e = <<>> => Len(e) = 0
    BY <1>3
  <2>6. Len(e) = 0 => Len(corpus) = 0
    BY <2>2, <2>3, <2>4
  <2> QED
    BY <1>1, <1>2, <2>1, <2>4, <2>5, <2>6 DEF e
<1>6. CASE query.strategy \notin {"dense", "sparse"} /\ corpus # <<>> /\ dense = <<>>
  <2>1. e = Retrieve!BySparse
    BY <1>6 DEF Retrieve!Ranked
  <2>2. Listing(e) /\ Len(e) = Len(corpus)
    BY <2>1, BySparseIs
  <2> HIDE DEF e
  <2>3. e = <<>> => corpus = <<>>
    BY <1>1, <1>2, <1>3, <2>2
  <2> QED
    BY <1>6, <2>2, <2>3 DEF e
<1>7. CASE query.strategy \notin {"dense", "sparse"} /\ corpus # <<>> /\ dense # <<>>
  <2>1. e = Retrieve!ByFusion
    BY <1>7 DEF Retrieve!Ranked
  <2>2. Listing(e) /\ Len(e) = Len(Retrieve!Inserted)
    BY <1>7, <2>1, ByFusionIs
  <2>3. Len(Retrieve!Inserted) >= Len(dense) /\ Retrieve!Inserted \in Seq(Retrieve!Chunks)
    BY InsertedIs
  <2> HIDE DEF e
  <2>4. e # <<>>
    BY <1>1, <1>2, <1>3, <1>7, <2>2, <2>3
  <2> QED
    BY <2>2, <2>4 DEF e
<1> QED
  BY <1>4, <1>5, <1>6, <1>7

\* The evidence, once it is ranked.
Answered ==
    /\ Listing(ev) /\ Len(ev) <= query.topK
    /\ ev = <<>> => dense = <<>> /\ corpus = <<>>
    /\ ~reranked => ev = Retrieve!Cut(Retrieve!Ranked, query.topK)

\* Each leg is what a search or a scroll gives; only the legs of the strategy
\* are filled; and the evidence is the best of them until it is reranked.
RetrieveInv ==
    /\ Wanted /\ DenseLegOK /\ CorpusOK
    /\ pc \in {"dense", "sparse", "rank", "rerank", "done"} /\ bm25 \in BOOLEAN /\ reranked \in BOOLEAN
    /\ query.strategy = "dense" => corpus = <<>>
    /\ query.strategy = "sparse" => dense = <<>>
    /\ pc = "sparse" => query.strategy # "dense"
    /\ pc \in {"dense", "sparse"} => corpus = <<>>
    /\ pc # "done" => ~reranked
    /\ pc \in {"dense", "sparse", "rank"} => ev = <<>>
    /\ pc \in {"rerank", "done"} => Answered

LEMMA InitRetrieve ==
    ASSUME Retrieve!Init
    PROVE  RetrieveInv
<1>1. /\ Wanted /\ pc = "dense" /\ dense = <<>> /\ corpus = <<>> /\ bm25 = TRUE
      /\ reranked = FALSE /\ ev = <<>>
  BY DEF Retrieve!Init, Wanted
<1>2. DenseLegOK /\ CorpusOK
  BY <1>1, EmptyLeg DEF DenseLegOK, CorpusOK
<1> QED
  BY <1>1, <1>2 DEF RetrieveInv

\* What depends on the store and the query stays with them.
LEMMA AskingKept ==
    ASSUME store' = store, query' = query, alpha' = alpha
    PROVE  /\ Wanted => Wanted'
           /\ Retrieve!Chunks' = Retrieve!Chunks /\ Evidence' = Evidence
           /\ \A c : Fits(c)' <=> Fits(c)
<1>1. Retrieve!Chunks' = Retrieve!Chunks
  BY DEF Retrieve!Chunks
<1>2. Evidence' = Evidence
  BY <1>1 DEF Evidence
<1>3. Wanted => Wanted'
  BY DEF Wanted
<1>4. ASSUME NEW c PROVE Fits(c)' <=> Fits(c)
  BY DEF Fits, Retrieve!Native, Retrieve!PrefixOk
<1> QED
  BY <1>1, <1>2, <1>3, <1>4

LEMMA LegsKept ==
    ASSUME store' = store, query' = query, alpha' = alpha
    PROVE  /\ dense' = dense /\ DenseLegOK => DenseLegOK'
           /\ corpus' = corpus /\ CorpusOK => CorpusOK'
           /\ ev' = ev /\ Listing(ev) => Listing(ev)'
  BY AskingKept DEF DenseLegOK, CorpusOK, Listing

LEMMA RankedKept ==
    ASSUME store' = store, query' = query, alpha' = alpha, dense' = dense, corpus' = corpus, bm25' = bm25
    PROVE  Retrieve!Ranked' = Retrieve!Ranked
<1>1. \A c : Retrieve!Score(c)' = Retrieve!Score(c)
  BY DEF Retrieve!Score
<1>2. Retrieve!Chunks' = Retrieve!Chunks
  BY DEF Retrieve!Chunks
<1>3. Retrieve!BySparse' = Retrieve!BySparse
  BY <1>1 DEF Retrieve!BySparse, Retrieve!Score
<1>4. Retrieve!ByDense' = Retrieve!ByDense
  BY DEF Retrieve!ByDense
<1>5. Retrieve!Inserted' = Retrieve!Inserted
  BY <1>2 DEF Retrieve!Inserted
<1>6. \A c : Retrieve!Fused(c)' = Retrieve!Fused(c)
  BY DEF Retrieve!Fused, Retrieve!DensePart, Retrieve!SparsePart, Retrieve!DenseNorm, Retrieve!SparseNorm,
         Retrieve!DenseScores, Retrieve!SparseScores, Retrieve!Score
<1>7. Retrieve!ByFusion' = Retrieve!ByFusion
  BY <1>5, <1>6 DEF Retrieve!ByFusion
<1> QED
  BY <1>3, <1>4, <1>7 DEF Retrieve!Ranked

LEMMA RetrieveStutter ==
    ASSUME RetrieveInv, UNCHANGED retrieveVars
    PROVE  RetrieveInv'
<1>1. /\ store' = store /\ query' = query /\ alpha' = alpha /\ pc' = pc /\ dense' = dense /\ corpus' = corpus
      /\ bm25' = bm25 /\ ev' = ev /\ fused' = fused /\ reranked' = reranked
  BY DEF retrieveVars
<1>2. Wanted' /\ DenseLegOK' /\ CorpusOK'
  BY <1>1, AskingKept, LegsKept DEF RetrieveInv
<1>3. Answered => Answered'
  BY <1>1, LegsKept, RankedKept DEF Answered
<1> QED
  BY <1>1, <1>2, <1>3 DEF RetrieveInv

LEMMA DenseLegStep ==
    ASSUME RetrieveInv, Retrieve!DenseLeg
    PROVE  RetrieveInv'
<1>1. /\ store' = store /\ query' = query /\ alpha' = alpha /\ corpus' = corpus
      /\ bm25' = bm25 /\ ev' = ev /\ reranked' = reranked
      /\ pc = "dense" /\ pc' = IF query.strategy = "dense" THEN "rank" ELSE "sparse"
      /\ dense' \in IF query.strategy = "sparse" THEN {<<>>} ELSE {Retrieve!Search(Retrieve!Pool), <<>>}
  BY DEF Retrieve!DenseLeg, Retrieve!asking
<1>2. Retrieve!Pool \in Nat
  <2>1. query.topK \in Nat /\ PoolMult \in Nat
    BY WantedIs, RetrieveNumbers DEF RetrieveInv
  <2> QED
    BY <2>1 DEF Retrieve!Pool
<1>3. /\ dense' \in Seq(Retrieve!Chunks) /\ Rising(dense')
      /\ \A c \in Retrieve!Range(dense') : Fits(c)
      /\ \A a \in Retrieve!Chunks, b \in Retrieve!Range(dense') : a < b /\ Fits(a) => a \in Retrieve!Range(dense')
  <2>1. CASE dense' = <<>>
    BY <2>1, EmptyLeg
  <2>2. CASE dense' = Retrieve!Search(Retrieve!Pool)
    <3>1. Wanted
      BY DEF RetrieveInv
    <3> DEFINE s == Retrieve!Search(Retrieve!Pool)
    <3>2. /\ s \in Seq(Retrieve!Chunks) /\ Rising(s)
          /\ \A c \in Retrieve!Range(s) : Fits(c)
          /\ \A a \in Retrieve!Chunks, b \in Retrieve!Range(s) : a < b /\ Fits(a) => a \in Retrieve!Range(s)
      BY <1>2, <3>1, SearchIs
    <3> HIDE DEF s
    <3> QED
      BY <2>2, <3>2 DEF s
  <2> QED
    BY <1>1, <2>1, <2>2
<1>4. DenseLegOK'
  BY <1>1, <1>3, AskingKept DEF DenseLegOK
<1>5. Wanted' /\ CorpusOK'
  BY <1>1, AskingKept, LegsKept DEF RetrieveInv
<1> QED
  BY <1>1, <1>4, <1>5 DEF RetrieveInv

LEMMA SparseLegStep ==
    ASSUME RetrieveInv, Retrieve!SparseLeg
    PROVE  RetrieveInv'
<1>1. /\ store' = store /\ query' = query /\ alpha' = alpha /\ dense' = dense
      /\ bm25' \in BOOLEAN /\ ev' = ev /\ reranked' = reranked
      /\ pc = "sparse" /\ pc' = "rank"
      /\ \E n \in 0..Len(store.scroll) : corpus' = Retrieve!Scrolled(n)
  BY DEF Retrieve!SparseLeg, Retrieve!asking
<1>2. PICK n \in 0..Len(store.scroll) : corpus' = Retrieve!Scrolled(n)
  BY <1>1
<1>3. Wanted /\ n \in Nat
  <2>1. store.scroll \in Seq(Retrieve!Chunks) /\ Wanted
    BY WantedIs DEF RetrieveInv
  <2> QED
    BY <2>1
<1>4. corpus' \in Seq(Retrieve!Chunks) /\ Once(corpus') /\ \A c \in Retrieve!Range(corpus') : Fits(c)
  BY <1>2, <1>3, ScrolledIs
<1>5. CorpusOK'
  BY <1>1, <1>4, AskingKept DEF CorpusOK
<1>6. Wanted' /\ DenseLegOK'
  BY <1>1, AskingKept, LegsKept DEF RetrieveInv
<1> QED
  BY <1>1, <1>5, <1>6 DEF RetrieveInv

LEMMA RankStep ==
    ASSUME RetrieveInv, Retrieve!Rank
    PROVE  RetrieveInv'
<1>1. /\ store' = store /\ query' = query /\ alpha' = alpha /\ dense' = dense /\ corpus' = corpus
      /\ bm25' = bm25 /\ reranked' = reranked /\ pc = "rank" /\ pc' \in {"rerank", "done"}
      /\ ev' = Retrieve!Cut(Retrieve!Ranked, query.topK)
  BY DEF Retrieve!Rank, Retrieve!asking
<1>2. Wanted' /\ DenseLegOK' /\ CorpusOK'
  BY <1>1, AskingKept, LegsKept DEF RetrieveInv
<1>3. Retrieve!Ranked' = Retrieve!Ranked
  BY <1>1, RankedKept
<1> DEFINE r == Retrieve!Ranked
           e == Retrieve!Cut(r, query.topK)
<1>4. Listing(r) /\ (r = <<>> => dense = <<>> /\ corpus = <<>>)
  BY RankedIs DEF RetrieveInv
<1>5. query.topK \in Nat /\ query.topK > 0
  BY WantedIs DEF RetrieveInv
<1>6. e = Retrieve!Cut(r, query.topK)
  OBVIOUS
<1> HIDE DEF r, e
<1>7. Listing(e) /\ Len(e) = IF query.topK <= Len(r) THEN query.topK ELSE Len(r)
  BY <1>4, <1>5, <1>6, ListingCut
<1>8. r \in Seq(Evidence)
  BY <1>4 DEF Listing
<1>9. e = <<>> => r = <<>>
  <2> SUFFICES ASSUME e = <<>> PROVE r = <<>>
    OBVIOUS
  <2>1. Len(e) = 0
    OBVIOUS
  <2>2. Len(r) = 0
    BY <1>5, <1>7, <1>8, <2>1
  <2> QED
    BY <1>8, <2>2
<1>10. Len(e) <= query.topK
  BY <1>5, <1>7, <1>8
<1>11. ev' = e
  BY <1>1 DEF e, r
<1>12. Answered'
  <2>1. Listing(ev)'
    BY <1>1, <1>7, <1>11, AskingKept DEF Listing
  <2>2. (Len(ev) <= query.topK)' /\ (ev = <<>> => dense = <<>> /\ corpus = <<>>)'
    BY <1>1, <1>4, <1>9, <1>10, <1>11
  <2>3. (ev = Retrieve!Cut(Retrieve!Ranked, query.topK))'
    BY <1>1, <1>3
  <2> QED
    BY <2>1, <2>2, <2>3 DEF Answered
<1> QED
  BY <1>1, <1>2, <1>12 DEF RetrieveInv

LEMMA RerankStep ==
    ASSUME RetrieveInv, Retrieve!Rerank
    PROVE  RetrieveInv'
<1>1. /\ store' = store /\ query' = query /\ alpha' = alpha /\ dense' = dense /\ corpus' = corpus
      /\ bm25' = bm25 /\ pc = "rerank" /\ pc' = "done"
  BY DEF Retrieve!Rerank, Retrieve!asking
<1>2. Wanted' /\ DenseLegOK' /\ CorpusOK'
  BY <1>1, AskingKept, LegsKept DEF RetrieveInv
<1>3. Answered /\ ~reranked
  BY <1>1 DEF RetrieveInv
<1>4. CASE UNCHANGED <<ev, reranked>>
  <2>1. Answered'
    BY <1>1, <1>3, <1>4, LegsKept, RankedKept DEF Answered
  <2> QED
    BY <1>1, <1>2, <1>4, <2>1 DEF RetrieveInv
<1>5. CASE \E p \in Retrieve!Bijection(DOMAIN ev, DOMAIN ev) : ev' = Retrieve!Reordered(p) /\ reranked' = TRUE
  <2>1. PICK p \in Retrieve!Bijection(DOMAIN ev, DOMAIN ev) : ev' = Retrieve!Reordered(p) /\ reranked' = TRUE
    BY <1>5
  <2> DEFINE n == Len(ev)
  <2>2. /\ ev \in Seq(Evidence) /\ n \in Nat /\ DOMAIN ev = 1..n
        /\ \A i, j \in 1..n : ev[i].id = ev[j].id => i = j
        /\ \A i \in 1..n : ev[i] \in Evidence /\ Fits(ev[i].id)
    <3>1. ev \in Seq(Evidence)
      BY <1>3 DEF Answered, Listing
    <3>2. n \in Nat /\ DOMAIN ev = 1..n /\ \A i \in 1..n : ev[i] \in Evidence
      BY <3>1
    <3> QED
      BY <1>3, <3>1, <3>2 DEF Answered, Listing
  <2>3. p \in [DOMAIN ev -> DOMAIN ev] /\ \A i, j \in DOMAIN ev : p[i] = p[j] => i = j
    BY Zenon DEF Retrieve!Bijection, Retrieve!Injection, Retrieve!IsInjective
  <2>4. p \in [1..n -> 1..n] /\ \A i, j \in 1..n : p[i] = p[j] => i = j
    BY <2>2, <2>3
  <2>5. DOMAIN p = 1..n
    BY <2>4
  <2> DEFINE e == Retrieve!Reordered(p)
  <2>6. e = [i \in 1..n |-> [ev[p[i]] EXCEPT !.score = n - i]]
    BY <2>5 DEF Retrieve!Reordered
  <2> HIDE DEF n, e
  <2>7. \A i \in 1..n : p[i] \in 1..n /\ e[i] = [ev[p[i]] EXCEPT !.score = n - i] /\ n - i \in Int
    BY <2>2, <2>4, <2>6
  <2>8. ASSUME NEW x \in Evidence, NEW s \in Int
        PROVE  LET y == [x EXCEPT !.score = s] IN y \in Evidence /\ y.id = x.id /\ y.score = s
    BY DEF Evidence
  <2>9. \A i \in 1..n : e[i] \in Evidence /\ e[i].id = ev[p[i]].id /\ e[i].score = n - i
    <3> TAKE i \in 1..n
    <3>1. ev[p[i]] \in Evidence /\ n - i \in Int /\ e[i] = [ev[p[i]] EXCEPT !.score = n - i]
      BY <2>2, <2>7
    <3> QED
      BY <2>8, <3>1
  <2>10. e \in Seq(Evidence) /\ Len(e) = n /\ DOMAIN e = 1..n
    <3>1. e \in [1..n -> Evidence]
      BY <2>6, <2>9
    <3> QED
      BY <2>2, <3>1
  <2>11. Listing(e)
    <3>1. \A i, j \in DOMAIN e : e[i].id = e[j].id => i = j
      <4> SUFFICES ASSUME NEW i \in 1..n, NEW j \in 1..n, e[i].id = e[j].id PROVE i = j
        BY <2>10
      <4>1. p[i] \in 1..n /\ p[j] \in 1..n /\ e[i].id = ev[p[i]].id /\ e[j].id = ev[p[j]].id
        BY <2>7, <2>9
      <4>2. p[i] = p[j]
        BY <2>2, <4>1
      <4> QED
        BY <2>4, <4>2
    <3>2. \A i \in DOMAIN e : Fits(e[i].id)
      BY <2>2, <2>7, <2>9, <2>10
    <3>3. \A i, j \in DOMAIN e : i < j => e[i].score >= e[j].score
      <4> TAKE i, j \in DOMAIN e
      <4> HAVE i < j
      <4>1. e[i].score = n - i /\ e[j].score = n - j /\ i \in Nat /\ j \in Nat
        BY <2>2, <2>9, <2>10
      <4> QED
        BY <2>2, <4>1
    <3> QED
      BY <2>10, <3>1, <3>2, <3>3 DEF Listing
  <2>12. ev' = e
    BY <2>1 DEF e
  <2>13. e = <<>> => ev = <<>>
    <3> SUFFICES ASSUME e = <<>> PROVE ev = <<>>
      OBVIOUS
    <3>1. n = 0
      BY <2>10
    <3> QED
      BY <2>2, <3>1 DEF n
  <2>14. Answered'
    <3>1. Listing(ev)'
      BY <1>1, <2>11, <2>12, AskingKept DEF Listing
    <3>2. (Len(ev) <= query.topK)'
      BY <1>1, <1>3, <2>10, <2>12 DEF Answered, n
    <3>3. (ev = <<>> => dense = <<>> /\ corpus = <<>>)'
      BY <1>1, <1>3, <2>12, <2>13 DEF Answered
    <3> QED
      BY <2>1, <3>1, <3>2, <3>3 DEF Answered
  <2> QED
    BY <1>1, <1>2, <2>1, <2>14 DEF RetrieveInv
<1> QED
  BY <1>4, <1>5 DEF Retrieve!Rerank

LEMMA RetrieveStep ==
    ASSUME RetrieveInv, Retrieve!Next
    PROVE  RetrieveInv'
  BY DenseLegStep, SparseLegStep, RankStep, RerankStep DEF Retrieve!Next

-----------------------------------------------------------------------------
(* Retrieval: the two legs together.                                        *)

\* What both legs rank above another is sorted before it: it is fused higher,
\* or as high and listed earlier.
LEMMA BetterIsBefore ==
    ASSUME Wanted, DenseLegOK, CorpusOK, bm25 \in BOOLEAN, dense # <<>>, corpus # <<>>,
           NEW a \in Retrieve!Range(corpus), NEW b \in Retrieve!Range(Retrieve!Inserted), Retrieve!Better(a, b)
    PROVE  LET m == Retrieve!Inserted
           IN  \E x, y \in DOMAIN m :
                  /\ m[x] = a /\ m[y] = b
                  /\ \/ FusedScores[m[x]] > FusedScores[m[y]]
                     \/ FusedScores[m[x]] = FusedScores[m[y]] /\ x < y
<1> DEFINE m == Retrieve!Inserted
           d == Len(dense)
           R == Retrieve!Range(dense)
           C == Retrieve!Range(corpus)
           D(c) == Retrieve!DenseNorm(c)
           P(c) == Retrieve!SparseNorm(c)
           F(c) == Retrieve!Fused(c)
<1>0. FusedScores = [c \in Retrieve!Range(m) |-> F(c)]
  BY DEF FusedScores
<1>1. /\ m \in Seq(Retrieve!Chunks) /\ Once(m) /\ Len(m) >= d
      /\ \A c : c \in Retrieve!Range(m) <=> c \in R \/ c \in C
      /\ \A i \in 1..d : i \in DOMAIN m /\ m[i] = dense[i]
      /\ \A i \in DOMAIN m : i > d => m[i] \notin R
  BY InsertedIs
<1>2. dense \in Seq(Retrieve!Chunks) /\ Rising(dense) /\ corpus \in Seq(Retrieve!Chunks)
  BY DEF DenseLegOK, CorpusOK
<1>3. d \in Nat /\ DOMAIN dense = 1..d
  BY <1>2
<1> HIDE DEF m, d
<1>4. \A c : c \in R <=> \E i \in 1..d : dense[i] = c
  BY <1>3, RetrieveRange
<1>5. \A c : c \in Retrieve!Range(m) <=> \E i \in DOMAIN m : m[i] = c
  BY RetrieveRange
<1>6. a \in Retrieve!Chunks /\ b \in Retrieve!Chunks /\ Fits(a)
  <2>1. a \in Retrieve!Chunks
    BY <1>2, RetrieveRange
  <2>2. b \in Retrieve!Chunks
    BY <1>1, <1>5 DEF m
  <2> QED
    BY <2>1, <2>2 DEF CorpusOK
<1>7. a < b
  <2>1. /\ a \in Int /\ b \in Int /\ store.dense[a] \in Int /\ store.dense[b] \in Int
        /\ b < a => store.dense[b] >= store.dense[a]
    BY <1>6, WantedIs
  <2>2. store.dense[a] > store.dense[b]
    BY DEF Retrieve!Better
  <2> QED
    BY <2>1, <2>2
<1>8. b \in R => a \in R
  BY <1>6, <1>7 DEF DenseLegOK
<1>9. /\ \A c : D(c) \in Nat /\ P(c) \in Nat
      /\ \A c : c \notin R => D(c) = 0
      /\ \A c : c \notin C => P(c) = 0
      /\ a \in R /\ b \in R => D(a) > D(b)
      /\ b \in C => P(a) > P(b)
  <2>1. /\ \A c : D(c) \in Nat
        /\ \A c : c \notin R => D(c) = 0
        /\ a \in R /\ b \in R /\ store.dense[a] > store.dense[b] => D(a) > D(b)
    BY DenseLegScores
  <2>2. /\ \A c : P(c) \in Nat
        /\ \A c : c \notin C => P(c) = 0
        /\ b \in C /\ Retrieve!Score(a) > Retrieve!Score(b) => P(a) > P(b)
    BY CorpusScores
  <2>3. store.dense[a] > store.dense[b] /\ (b \in C => Retrieve!Score(a) > Retrieve!Score(b))
    BY DEF Retrieve!Better
  <2> HIDE DEF D, P, R, C
  <2> QED
    BY <2>1, <2>2, <2>3
<1>10. alpha \in Nat /\ Whole \in Nat /\ alpha <= Whole /\ Whole > 0 /\ (alpha < Whole \/ a \in R)
  BY WantedIs, RetrieveNumbers DEF Retrieve!Better
<1>11. b \in R \/ b \in C
  BY <1>1 DEF m
<1>12. D(a) >= D(b) /\ P(a) >= P(b)
  <2>1. D(a) \in Nat /\ D(b) \in Nat /\ P(a) \in Nat /\ P(b) \in Nat
    BY <1>9
  <2> HIDE DEF D, P, R, C
  <2>2. D(a) >= D(b)
    BY <1>8, <1>9, <2>1
  <2>3. P(a) >= P(b)
    BY <1>9, <2>1
  <2> QED
    BY <2>2, <2>3
<1>13. /\ F(a) \in Nat /\ F(b) \in Nat /\ F(a) >= F(b)
       /\ alpha > 0 /\ D(a) > D(b) => F(a) > F(b)
       /\ alpha < Whole /\ P(a) > P(b) => F(a) > F(b)
  BY <1>12, FusedIs
<1> HIDE DEF D, P, F
<1>14. FusedScores[a] = F(a) /\ FusedScores[b] = F(b) /\ a \in Retrieve!Range(m) /\ b \in Retrieve!Range(m)
  <2>1. a \in Retrieve!Range(m) /\ b \in Retrieve!Range(m)
    BY <1>1 DEF m
  <2> QED
    BY <1>0, <2>1
<1> HIDE DEF R, C
<1>15. PICK x0 \in DOMAIN m : m[x0] = a
  BY <1>5, <1>14
<1>16. PICK y0 \in DOMAIN m : m[y0] = b
  BY <1>5, <1>14
<1>17. CASE b \in R
  <2>1. PICK x \in 1..d : dense[x] = a
    BY <1>4, <1>8, <1>17
  <2>2. PICK y \in 1..d : dense[y] = b
    BY <1>4, <1>17
  <2>3. x \in DOMAIN m /\ y \in DOMAIN m /\ m[x] = a /\ m[y] = b
    BY <1>1, <2>1, <2>2
  <2>4. x < y
    <3>1. x \in Nat /\ y \in Nat /\ a \in Int /\ b \in Int
      BY <1>6, WantedIs
    <3>2. y < x => b < a
      BY <1>2, <1>3, <2>1, <2>2 DEF Rising
    <3>3. x # y
      BY <1>7, <2>1, <2>2, <3>1
    <3> QED
      BY <1>7, <3>1, <3>2, <3>3
  <2>5. F(a) > F(b) \/ F(a) = F(b)
    BY <1>13
  <2> QED
    BY <1>14, <2>3, <2>4, <2>5 DEF m
<1>18. CASE b \notin R /\ alpha < Whole
  <2>1. F(a) > F(b)
    BY <1>9, <1>11, <1>13, <1>18
  <2> QED
    BY <1>14, <1>15, <1>16, <2>1 DEF m
<1>19. CASE b \notin R /\ a \in R
  <2>1. PICK x \in 1..d : dense[x] = a
    BY <1>4, <1>19
  <2>2. x \in DOMAIN m /\ m[x] = a
    BY <1>1, <2>1
  <2>3. y0 > d
    <3>1. y0 \in 1..d => dense[y0] = b
      BY <1>1, <1>16
    <3>2. y0 \notin 1..d
      BY <1>4, <1>19, <3>1
    <3>3. y0 \in Nat /\ y0 > 0
      BY <1>1
    <3> QED
      BY <1>3, <3>2, <3>3
  <2>4. x < y0
    BY <1>1, <1>3, <2>1, <2>3
  <2>5. F(a) > F(b) \/ F(a) = F(b)
    BY <1>13
  <2> QED
    BY <1>14, <1>16, <2>2, <2>4, <2>5 DEF m
<1> QED
  BY <1>10, <1>17, <1>18, <1>19

\* What fusion answers: the sorted dict of scores, cut to top_k.
LEMMA FusionAnswers ==
    ASSUME RetrieveInv, Retrieve!Hybrid, dense # <<>>, corpus # <<>>
    PROVE  LET t == Retrieve!Sorted(Retrieve!Inserted, FusedScores)
           IN  /\ t \in Seq(Retrieve!Chunks) /\ Once(t) /\ Len(ev) \in Nat /\ Len(ev) <= Len(t)
               /\ DOMAIN ev = 1..Len(ev)
               /\ \A i \in 1..Len(ev) : i \in DOMAIN t /\ ev[i].id = t[i]
<1> DEFINE t == Retrieve!Sorted(Retrieve!Inserted, FusedScores)
           e == Retrieve!ByFusion
<1>1. Wanted /\ DenseLegOK /\ CorpusOK /\ bm25 \in BOOLEAN
  BY DEF RetrieveInv
<1>2. ev = Retrieve!Cut(Retrieve!Ranked, query.topK)
  BY DEF RetrieveInv, Answered, Retrieve!Hybrid
<1>3. Retrieve!Ranked = e
  BY DEF Retrieve!Ranked, Retrieve!Hybrid
<1>4. /\ Listing(e) /\ t \in Seq(Retrieve!Chunks) /\ Len(t) = Len(e) /\ Once(t)
      /\ \A i \in DOMAIN t : e[i].id = t[i]
  BY <1>1, ByFusionIs
<1>5. query.topK \in Nat
  BY <1>1, WantedIs
<1> HIDE DEF t, e
<1>6. /\ Listing(ev) /\ Len(ev) = IF query.topK <= Len(e) THEN query.topK ELSE Len(e)
      /\ \A i \in DOMAIN ev : i \in DOMAIN e /\ ev[i] = e[i]
  BY <1>2, <1>3, <1>4, <1>5, ListingCut
<1>7. ev \in Seq(Evidence) /\ e \in Seq(Evidence)
  BY <1>4, <1>6 DEF Listing
<1>8. Len(ev) \in Nat /\ DOMAIN ev = 1..Len(ev) /\ DOMAIN e = 1..Len(e) /\ DOMAIN t = 1..Len(t) /\ Len(e) \in Nat
  BY <1>4, <1>7
<1>9. Len(ev) <= Len(t)
  BY <1>4, <1>5, <1>6, <1>8
<1>10. \A i \in 1..Len(ev) : i \in DOMAIN t /\ ev[i].id = t[i]
  BY <1>4, <1>6, <1>8
<1> QED
  BY <1>4, <1>8, <1>9, <1>10 DEF t

\* FusedScores gives a number to whatever is listed.
LEMMA FusedScored ==
    ASSUME Wanted, DenseLegOK, CorpusOK, bm25 \in BOOLEAN, dense # <<>>, corpus # <<>>
    PROVE  \A i \in DOMAIN Retrieve!Inserted :
              /\ FusedScores[Retrieve!Inserted[i]] = Retrieve!Fused(Retrieve!Inserted[i])
              /\ FusedScores[Retrieve!Inserted[i]] \in Int
<1> TAKE i \in DOMAIN Retrieve!Inserted
<1> DEFINE c == Retrieve!Inserted[i]
<1>1. c \in Retrieve!Range(Retrieve!Inserted)
  BY RetrieveRange
<1>2. Retrieve!Fused(c) \in Nat
  BY FusedIs
<1> HIDE DEF c
<1>3. FusedScores[c] = Retrieve!Fused(c)
  BY <1>1 DEF FusedScores
<1> QED
  BY <1>2, <1>3 DEF c

LEMMA DominanceIs ==
    ASSUME RetrieveInv
    PROVE  Retrieve!Dominance
<1> SUFFICES ASSUME Retrieve!Hybrid, dense # <<>>,
                    NEW a \in Retrieve!Range(corpus), NEW b \in Retrieve!Range(Retrieve!Ids), Retrieve!Better(a, b)
             PROVE  a \in Retrieve!Range(Retrieve!Ids) /\ Retrieve!Place(a) < Retrieve!Place(b)
  BY Zenon DEF Retrieve!Dominance
<1> DEFINE m == Retrieve!Inserted
           t == Retrieve!Sorted(m, FusedScores)
           n == Len(ev)
<1>1. Wanted /\ DenseLegOK /\ CorpusOK /\ bm25 \in BOOLEAN
  BY DEF RetrieveInv
<1>2. corpus # <<>>
  BY RetrieveRange
<1>3. /\ t \in Seq(Retrieve!Chunks) /\ Once(t) /\ n \in Nat /\ n <= Len(t) /\ DOMAIN ev = 1..n
      /\ \A i \in 1..n : i \in DOMAIN t /\ ev[i].id = t[i]
  BY <1>2, FusionAnswers
<1>4. \A i \in DOMAIN m : FusedScores[m[i]] \in Int
  BY <1>1, <1>2, FusedScored
<1>5. m \in Seq(Retrieve!Chunks)
  BY <1>1, InsertedIs
<1>6. \A c : c \in Retrieve!Range(t) <=> c \in Retrieve!Range(m)
  BY <1>4, <1>5, SortedKeeps
<1>7. \A c : c \in Retrieve!Range(Retrieve!Ids) <=> \E i \in 1..n : ev[i].id = c
  BY <1>3, RetrieveRange DEF Retrieve!Ids
<1>8. PICK k \in 1..n : ev[k].id = b
  BY <1>7
<1>9. t[k] = b /\ k \in DOMAIN t
  BY <1>3, <1>8
<1>10. b \in Retrieve!Range(m)
  <2> HIDE DEF t
  <2>1. b \in Retrieve!Range(t)
    BY <1>9, RetrieveRange
  <2> QED
    BY <1>6, <2>1
<1>11. \E x, y \in DOMAIN m : /\ m[x] = a /\ m[y] = b
                              /\ \/ FusedScores[m[x]] > FusedScores[m[y]]
                                 \/ FusedScores[m[x]] = FusedScores[m[y]] /\ x < y
  BY <1>1, <1>2, <1>10, BetterIsBefore
<1> HIDE DEF m
<1>12. PICK x \in DOMAIN m, y \in DOMAIN m :
                              /\ m[x] = a /\ m[y] = b
                              /\ \/ FusedScores[m[x]] > FusedScores[m[y]]
                                 \/ FusedScores[m[x]] = FusedScores[m[y]] /\ x < y
  BY <1>11
<1>13. Precedes(t, m[x], m[y])
  BY <1>4, <1>5, <1>12, SortedBefore
<1> HIDE DEF t
<1>14. PICK i \in DOMAIN t, j \in DOMAIN t : i < j /\ t[i] = a /\ t[j] = b
  BY <1>12, <1>13 DEF Precedes
<1>15. j = k
  BY <1>3, <1>9, <1>14 DEF Once
<1>16. i \in 1..n /\ i < k
  <2>1. i \in Nat /\ i > 0
    BY <1>3, <1>14
  <2> QED
    BY <1>3, <1>8, <1>14, <1>15, <2>1
<1>17. ev[i].id = a
  BY <1>3, <1>14, <1>16
<1>18. \A p, q \in 1..n : ev[p].id = ev[q].id => p = q
  BY <1>3 DEF Once
<1> HIDE DEF n
<1>19. Retrieve!Place(a) = i
  <2>1. (CHOOSE p \in DOMAIN ev : ev[p].id = a) = i
    BY <1>3, <1>16, <1>17, <1>18
  <2> QED
    BY <2>1, Zenon DEF Retrieve!Place
<1>20. Retrieve!Place(b) = k
  <2>1. (CHOOSE p \in DOMAIN ev : ev[p].id = b) = k
    BY <1>3, <1>8, <1>18
  <2> QED
    BY <2>1, Zenon DEF Retrieve!Place
<1>21. a \in Retrieve!Range(Retrieve!Ids)
  BY <1>7, <1>16, <1>17
<1> QED
  BY <1>16, <1>19, <1>20, <1>21

\* When the lexical leg adds nothing, what the dict lists is in order already.
LEMMA DenseOrder ==
    ASSUME Wanted, DenseLegOK, CorpusOK, bm25 \in BOOLEAN, dense # <<>>, corpus # <<>>,
           alpha = Whole \/ \A c \in Retrieve!Range(corpus) : Retrieve!Score(c) = 0
    PROVE  Retrieve!Sorted(Retrieve!Inserted, FusedScores) = Retrieve!Inserted
<1> DEFINE m == Retrieve!Inserted
           d == Len(dense)
           R == Retrieve!Range(dense)
           D(c) == Retrieve!DenseNorm(c)
<1>1. \A c : Retrieve!Fused(c) \in Nat
  BY FusedIs
<1>2. ASSUME NEW a, NEW b, D(a) >= D(b) PROVE Retrieve!Fused(a) >= Retrieve!Fused(b)
  <2>1. Retrieve!SparseNorm(a) >= Retrieve!SparseNorm(b) \/ alpha = Whole
    <3>1. CASE \A c \in Retrieve!Range(corpus) : Retrieve!Score(c) = 0
      <4>1. Retrieve!SparseNorm(a) = 0 /\ Retrieve!SparseNorm(b) = 0
        BY <3>1, CorpusScores
      <4> QED
        BY <4>1
    <3> QED
      BY <3>1
  <2> QED
    BY <1>2, <2>1, FusedIs
<1>3. /\ m \in Seq(Retrieve!Chunks)
      /\ \A i \in 1..d : i \in DOMAIN m /\ m[i] = dense[i]
      /\ \A i \in DOMAIN m : i > d => m[i] \notin R
  BY InsertedIs
<1>4. dense \in Seq(Retrieve!Chunks) /\ Rising(dense)
  BY DEF DenseLegOK
<1>5. d \in Nat /\ DOMAIN dense = 1..d /\ \A i \in 1..d : dense[i] \in Retrieve!Chunks /\ dense[i] \in R
  BY <1>4, RetrieveRange
<1>6. /\ \A c : D(c) \in Nat
      /\ \A c : c \notin R => D(c) = 0
      /\ \A a, b \in R : store.dense[a] > store.dense[b] => D(a) > D(b)
      /\ \A a, b \in R : store.dense[a] = store.dense[b] => D(a) = D(b)
  BY DenseLegScores
<1> HIDE DEF m, d, R, D
<1>7. \A i, j \in DOMAIN m : i < j => D(m[i]) >= D(m[j])
  <2> TAKE i, j \in DOMAIN m
  <2> HAVE i < j
  <2>0. i \in Nat /\ j \in Nat /\ i > 0 /\ D(m[i]) \in Nat /\ D(m[j]) \in Nat
    BY <1>3, <1>6
  <2>1. CASE j <= d
    <3>1. i \in 1..d /\ j \in 1..d
      BY <1>5, <2>0, <2>1
    <3>2. m[i] = dense[i] /\ m[j] = dense[j] /\ dense[i] \in R /\ dense[j] \in R
      BY <1>3, <1>5, <3>1
    <3>3. dense[i] < dense[j]
      BY <1>4, <1>5, <3>1 DEF Rising
    <3>4. /\ store.dense[dense[i]] >= store.dense[dense[j]]
          /\ store.dense[dense[i]] \in Int /\ store.dense[dense[j]] \in Int
      BY <1>5, <3>1, <3>3, WantedIs
    <3>5. D(dense[i]) > D(dense[j]) \/ D(dense[i]) = D(dense[j])
      BY <1>6, <3>2, <3>4
    <3> QED
      BY <2>0, <3>2, <3>5
  <2>2. CASE j > d
    <3>1. D(m[j]) = 0
      BY <1>3, <1>6, <2>2
    <3> QED
      BY <2>0, <3>1
  <2> QED
    BY <1>5, <2>0, <2>1, <2>2
<1>8. /\ \A i \in DOMAIN m : FusedScores[m[i]] \in Int
      /\ \A i \in DOMAIN m : FusedScores[m[i]] = Retrieve!Fused(m[i])
  BY FusedScored DEF m
<1>9. \A i, j \in DOMAIN m : i < j => FusedScores[m[i]] >= FusedScores[m[j]]
  BY <1>2, <1>7, <1>8
<1>10. Retrieve!Sorted(m, FusedScores) = m
  BY <1>3, <1>8, <1>9, SortedSame
<1> QED
  BY <1>10 DEF m

LEMMA DenseAloneIs ==
    ASSUME RetrieveInv
    PROVE  Retrieve!DenseAlone
<1> SUFFICES ASSUME Retrieve!Hybrid, dense # <<>>,
                    alpha = Whole \/ \A c \in Retrieve!Range(corpus) : Retrieve!Score(c) = 0
             PROVE  Retrieve!Cut(Retrieve!Ids, Len(dense)) = Retrieve!Cut(dense, Len(Retrieve!Ids))
  BY Zenon DEF Retrieve!DenseAlone
<1> DEFINE n == Len(ev)
           d == Len(dense)
           E == Retrieve!Chunks
           ids == Retrieve!Ids
<1>1. Wanted /\ DenseLegOK /\ CorpusOK /\ bm25 \in BOOLEAN
  BY DEF RetrieveInv
<1>2. dense \in Seq(E) /\ d \in Nat /\ DOMAIN dense = 1..d
  BY <1>1 DEF DenseLegOK
<1>3. Listing(ev) /\ ev = Retrieve!Cut(Retrieve!Ranked, query.topK)
  BY DEF RetrieveInv, Answered, Retrieve!Hybrid
<1>4. ev \in Seq(Evidence) /\ n \in Nat /\ DOMAIN ev = 1..n /\ \A i \in 1..n : ev[i] \in Evidence
  <2>1. ev \in Seq(Evidence)
    BY <1>3 DEF Listing
  <2> QED
    BY <2>1
<1>5. ids = [i \in 1..n |-> ev[i].id]
  BY <1>4 DEF Retrieve!Ids
<1>6. \A i \in 1..n : i <= d => ev[i].id = dense[i]
  <2>1. CASE corpus = <<>>
    <3> DEFINE e == Retrieve!ByDense
    <3>1. Retrieve!Ranked = e
      BY <2>1 DEF Retrieve!Ranked, Retrieve!Hybrid
    <3>2. Listing(e) /\ \A i \in 1..d : e[i].id = dense[i]
      BY <1>1, <1>2, ByDenseIs
    <3>3. query.topK \in Nat
      BY <1>1, WantedIs
    <3> HIDE DEF e, n, d
    <3>4. \A i \in DOMAIN ev : ev[i] = e[i]
      BY <1>3, <3>1, <3>2, <3>3, ListingCut
    <3> QED
      BY <1>2, <1>4, <3>2, <3>4
  <2>2. CASE corpus # <<>>
    <3> DEFINE m == Retrieve!Inserted
               t == Retrieve!Sorted(m, FusedScores)
    <3>1. \A i \in 1..n : ev[i].id = t[i]
      BY <2>2, FusionAnswers
    <3>2. t = m
      BY <1>1, <2>2, DenseOrder
    <3>3. \A i \in 1..d : m[i] = dense[i]
      BY <1>1, InsertedIs
    <3> HIDE DEF m, t, n, d
    <3> QED
      BY <1>2, <1>4, <3>1, <3>2, <3>3
  <2> QED
    BY <2>1, <2>2
<1> HIDE DEF n, d, E, ids
<1>7. ids \in Seq(E) /\ Len(ids) = n
  <2>1. \A i \in 1..n : ev[i].id \in E
    <3>1. \A x \in Evidence : x.id \in E
      BY DEF Evidence, E
    <3> QED
      BY <1>4, <3>1
  <2>2. ids \in [1..n -> E]
    BY <1>5, <2>1
  <2> QED
    BY <1>4, <2>2
<1> DEFINE x == Retrieve!Cut(ids, d)
           y == Retrieve!Cut(dense, n)
<1>8. x \in Seq(E) /\ Len(x) = (IF d <= n THEN d ELSE n) /\ \A i \in 1..Len(x) : x[i] = ids[i]
  BY <1>2, <1>7, RetrieveCut
<1>9. y \in Seq(E) /\ Len(y) = (IF n <= d THEN n ELSE d) /\ \A i \in 1..Len(y) : y[i] = dense[i]
  BY <1>2, <1>4, RetrieveCut DEF d
<1> HIDE DEF x, y
<1>10. Len(x) = Len(y) /\ Len(x) <= n /\ Len(x) <= d
  BY <1>2, <1>4, <1>8, <1>9
<1>11. \A i \in 1..Len(x) : x[i] = y[i]
  <2> TAKE i \in 1..Len(x)
  <2>1. i \in 1..n /\ i <= d
    BY <1>2, <1>4, <1>8, <1>10
  <2>2. x[i] = ids[i] /\ ids[i] = ev[i].id /\ y[i] = dense[i]
    BY <1>5, <1>8, <1>9, <1>10, <2>1
  <2> QED
    BY <1>6, <2>1, <2>2
<1>12. x = y
  BY <1>8, <1>9, <1>10, <1>11
<1> QED
  BY <1>7, <1>12 DEF x, y, n, d, ids

LEMMA RetrieveTyped ==
    ASSUME RetrieveInv
    PROVE  /\ Retrieve!Dominance /\ Retrieve!DenseAlone
           /\ Retrieve!TypeOK /\ Retrieve!EmptyOnlyIfNothing /\ Retrieve!ScoresDescending
<1>1. Retrieve!Dominance /\ Retrieve!DenseAlone
  BY DominanceIs, DenseAloneIs
<1>2. pc \in {"rerank", "done"} => Answered
  BY DEF RetrieveInv
<1>3. Answered => Retrieve!TypeOK
  BY DEF Answered, Listing, Fits, Retrieve!PrefixOk, Retrieve!TypeOK
<1>4. ev = <<>> => Retrieve!TypeOK
  <2>1. query.topK \in Nat
    BY WantedIs DEF RetrieveInv
  <2> QED
    BY <2>1 DEF Retrieve!TypeOK
<1>5. ev = <<>> \/ Answered
  BY <1>2 DEF RetrieveInv
<1>6. Retrieve!EmptyOnlyIfNothing /\ Retrieve!ScoresDescending
  BY <1>2 DEF Answered, Listing, Retrieve!EmptyOnlyIfNothing, Retrieve!ScoresDescending
<1> QED
  BY <1>1, <1>3, <1>4, <1>5, <1>6

-----------------------------------------------------------------------------
(* The four stages.                                                         *)

\* The stage stays what it was at the start, and only its own module moves its
\* variables.
EvidenceInv ==
    /\ stage \in {"chunk", "embed", "retrieve", "cite"}
    /\ stage = "chunk" => ChunkInv
    /\ stage = "embed" => EmbedInv
    /\ stage = "retrieve" => RetrieveInv
    /\ stage = "cite" => CiteInv

LEMMA EvidenceInit ==
    ASSUME Init
    PROVE  EvidenceInv
<1>1. CASE stage = "chunk" /\ Chunk!Init
  BY <1>1, InitChunk DEF EvidenceInv
<1>2. CASE stage = "embed" /\ Embed!Init
  BY <1>2, InitEmbed DEF EvidenceInv
<1>3. CASE stage = "retrieve" /\ Retrieve!Init
  BY <1>3, InitRetrieve DEF EvidenceInv
<1>4. CASE stage = "cite" /\ Cite!Init
  BY <1>4, InitCite DEF EvidenceInv
<1> QED
  BY <1>1, <1>2, <1>3, <1>4 DEF Init

LEMMA EvidenceStutter ==
    ASSUME EvidenceInv, UNCHANGED vars
    PROVE  EvidenceInv'
<1>1. stage' = stage /\ UNCHANGED chunkVars /\ UNCHANGED embedVars /\ UNCHANGED retrieveVars /\ UNCHANGED citeVars
  BY DEF vars
<1>2. ChunkInv => ChunkInv'
  BY <1>1, ChunkStutter
<1>3. EmbedInv => EmbedInv'
  BY <1>1, ZenonT(30) DEF embedVars, EmbedInv, Embed!TypeOK, AtHand, Agreement, ChunksKept, TruthKept, Claimed, Embed!Real
<1>4. RetrieveInv => RetrieveInv'
  BY <1>1, RetrieveStutter
<1>5. CiteInv => CiteInv'
  BY <1>1, CiteStutter
<1> QED
  BY <1>1, <1>2, <1>3, <1>4, <1>5 DEF EvidenceInv

LEMMA EvidenceStep ==
    ASSUME EvidenceInv, [Next]_vars
    PROVE  EvidenceInv'
<1>1. CASE UNCHANGED vars
  BY <1>1, EvidenceStutter
<1>2. CASE stage = "chunk" /\ stage' = stage /\ Chunk!Next
  BY <1>2, ChunkStep DEF EvidenceInv
<1>3. CASE stage = "embed" /\ stage' = stage /\ Embed!Next
  <2>1. EmbedInv
    BY <1>3 DEF EvidenceInv
  <2>2. EmbedInv'
    BY <1>3, <2>1, EmbedTypesStep, AtHandStep, AgreementStep, KeptStep DEF EmbedInv
  <2> QED
    BY <1>3, <2>2 DEF EvidenceInv
<1>4. CASE stage = "retrieve" /\ stage' = stage /\ Retrieve!Next
  BY <1>4, RetrieveStep DEF EvidenceInv
<1>5. CASE stage = "cite" /\ stage' = stage /\ Cite!Next
  BY <1>5, CiteStep DEF EvidenceInv
<1> QED
  BY <1>1, <1>2, <1>3, <1>4, <1>5 DEF Next

\* Whatever the lines, headings and syntax tree of a file and whatever the window
\* and the overlap, no line that is not blank is lost, lines that are close stay
\* together, a definition stays whole in chunks of its own name, and no chunk is
\* blank or longer than three windows (chunk_file, _window_chunks,
\* _markdown_chunks, _code_chunks).
THEOREM ChunksAreSound == Spec => []ChunksSound
<1>1. Init => EvidenceInv
  BY EvidenceInit
<1>2. EvidenceInv /\ [Next]_vars => EvidenceInv'
  BY EvidenceStep
<1>3. EvidenceInv => ChunksSound
  BY ChunkTyped, Zenon DEF EvidenceInv, ChunksSound
<1> QED
  BY <1>1, <1>2, <1>3, PTL DEF Spec

\* A collection whose dimension was reconciled with the model's refuses nothing
\* while the settings stay, a failing Ollama costs no chunk in a full run nor a
\* file's first in an incremental one, and a full run in which no call failed
\* leaves every chunk its true vector, for any files, batches, requests,
\* restarts and failures (ensure_collection, _unchanged, the embedders, _flush,
\* upsert).
THEOREM VectorsAreHealed == Spec => []VectorsHeal
<1>1. Init => EvidenceInv
  BY EvidenceInit
<1>2. EvidenceInv /\ [Next]_vars => EvidenceInv'
  BY EvidenceStep
<1>3. EvidenceInv => VectorsHeal
  BY DEF EvidenceInv, EmbedInv, VectorsHeal, Agreement, AtHand, ChunksKept, TruthKept, Claimed,
         Embed!AgreedAccepts, Embed!NoChunkLost, Embed!FullRunHeals, Embed!Real
<1> QED
  BY <1>1, <1>2, <1>3, PTL DEF Spec

\* Whatever the collection, the scores, the weight and the calls that fail, a
\* chunk that both legs rank above another is neither cut in its favour nor
\* listed after it, hybrid retrieval with nothing lexical is dense retrieval, and
\* the evidence is within top_k and the filter, each chunk once, best score
\* first, empty only when no leg found anything (retrieve, _hybrid, _rerank).
THEOREM RetrievalIsSound == Spec => []RetrievalSound
<1>1. Init => EvidenceInv
  BY EvidenceInit
<1>2. EvidenceInv /\ [Next]_vars => EvidenceInv'
  BY EvidenceStep
<1>3. EvidenceInv => RetrievalSound
  BY RetrieveTyped, Zenon DEF EvidenceInv, RetrievalSound
<1> QED
  BY <1>1, <1>2, <1>3, PTL DEF Spec

\* Whatever the answers to however many queries, the [n] of the context and the
\* [n] of the citations are the same lines, the evidence is the best hit of each
\* span, and the packed context stays within max_context_chars
\* (merge_evidence, build_citations, pack_context).
THEOREM CitationsAreSound == Spec => []CitationsSound
<1>1. Init => EvidenceInv
  BY EvidenceInit
<1>2. EvidenceInv /\ [Next]_vars => EvidenceInv'
  BY EvidenceStep
<1>3. EvidenceInv => CitationsSound
  BY CiteTyped, Zenon DEF EvidenceInv, CitationsSound
<1> QED
  BY <1>1, <1>2, <1>3, PTL DEF Spec
=============================================================================
