---------------------------- MODULE Ingest_proofs ----------------------------
(***************************************************************************)
(* Proofs about Ingest, for any number of runs, files, versions, batch     *)
(* sizes, failures, edits and restarts.                                    *)
(***************************************************************************)
EXTENDS Ingest, SequenceTheorems, FiniteSetTheorems, WellFoundedInduction, TLAPS

(* Facts about numbers, sets and sequences. *)

\* A set of naturals has a least element: the loop always has a next file.
LEMMA LeastElement ==
    ASSUME NEW S, S \subseteq Nat, S # {}
    PROVE  \E x \in S : \A y \in S : x <= y
<1> DEFINE R == OpToRel(<, Nat)
<1>1. IsWellFoundedOn(R, Nat)
  BY NatLessThanWellFounded
<1>2. PICK x \in S : \A y \in S : ~(<<y, x>> \in R)
  <2> HIDE DEF R
  <2> QED BY <1>1, WFMin
<1>3. \A y \in S : ~(y < x)
  BY <1>2 DEF OpToRel
<1> HIDE DEF R
<1> QED BY <1>3

LEMMA DivNatural ==
    ASSUME NEW a \in Nat, NEW c \in Nat \ {0}
    PROVE  a \div c \in Nat
OBVIOUS

\* Division by the same number keeps the order: the reported fraction.
LEMMA DivMonotone ==
    ASSUME NEW a \in Nat, NEW b \in Nat, NEW c \in Nat \ {0}, a <= b
    PROVE  a \div c <= b \div c
<1> DEFINE p == a \div c
           q == b \div c
<1>1. p \in Nat /\ q \in Nat
  OBVIOUS
<1>2. c * p <= a
  OBVIOUS
<1>3. b < c * (q + 1)
  OBVIOUS
<1>4. ASSUME q + 1 <= p PROVE c * (q + 1) <= c * p
  BY <1>1, <1>4
<1> QED BY <1>1, <1>2, <1>3, <1>4

\* The fraction of a loop that is at most at its end.
LEMMA FractionRange ==
    ASSUME NEW s \in Nat, NEW c \in Nat \ {0}, s <= c
    PROVE  (85 * s) \div c \in 0..85
<1>1. (85 * s) \div c <= (85 * c) \div c
  BY DivMonotone
<1>2. (85 * c) \div c = 85
  OBVIOUS
<1>3. (85 * s) \div c \in Nat
  OBVIOUS
<1> QED BY <1>1, <1>2, <1>3

\* A sequence cut in two: no element is lost.
LEMMA Cut ==
    ASSUME NEW T, NEW s \in Seq(T), NEW n \in 0..Len(s)
    PROVE  /\ SubSeq(s, 1, n) \in Seq(T)
           /\ SubSeq(s, n + 1, Len(s)) \in Seq(T)
           /\ Len(SubSeq(s, 1, n)) = n
           /\ Len(SubSeq(s, n + 1, Len(s))) = Len(s) - n
           /\ BodiesOf(s) = BodiesOf(SubSeq(s, 1, n)) \union BodiesOf(SubSeq(s, n + 1, Len(s)))
<1> DEFINE u == SubSeq(s, 1, n)
           v == SubSeq(s, n + 1, Len(s))
<1>1. u \in Seq(T) /\ Len(u) = n /\ \A i \in 1..n : u[i] = s[i]
  BY SubSeqProperties
<1>2. v \in Seq(T) /\ Len(v) = Len(s) - n /\ \A i \in 1..(Len(s) - n) : v[i] = s[n + i]
  BY SubSeqProperties
<1> HIDE DEF u, v
<1>3. BodiesOf(s) \subseteq BodiesOf(u) \union BodiesOf(v)
  <2> SUFFICES ASSUME NEW i \in 1..Len(s)
               PROVE  s[i] \in BodiesOf(u) \union BodiesOf(v)
    BY DEF BodiesOf
  <2>1. CASE i <= n
    BY <1>1, <2>1 DEF BodiesOf
  <2>2. CASE i > n
    <3>1. i - n \in 1..Len(v) /\ v[i - n] = s[i]
      BY <1>2, <2>2
    <3> QED BY <1>2, <3>1 DEF BodiesOf
  <2> QED BY <2>1, <2>2
<1>4. BodiesOf(u) \subseteq BodiesOf(s) /\ BodiesOf(v) \subseteq BodiesOf(s)
  <2>1. \A i \in 1..n : u[i] \in BodiesOf(s)
    BY <1>1 DEF BodiesOf
  <2>2. ASSUME NEW i \in 1..(Len(s) - n) PROVE v[i] \in BodiesOf(s)
    <3>1. n + i \in 1..Len(s) /\ v[i] = s[n + i]
      BY <1>2
    <3> QED BY <3>1 DEF BodiesOf
  <2> QED BY <1>1, <1>2, <2>1, <2>2 DEF BodiesOf
<1>5. BodiesOf(s) = BodiesOf(u) \union BodiesOf(v)
  BY <1>3, <1>4
<1> QED BY <1>1, <1>2, <1>5 DEF u, v

\* Appending to pending keeps what was there.
LEMMA Joined ==
    ASSUME NEW T, NEW s \in Seq(T), NEW t \in Seq(T)
    PROVE  /\ s \o t \in Seq(T)
           /\ Len(s \o t) = Len(s) + Len(t)
           /\ BodiesOf(s \o t) = BodiesOf(s) \union BodiesOf(t)
<1>1. s \o t \in Seq(T) /\ Len(s \o t) = Len(s) + Len(t)
  OBVIOUS
<1>2. BodiesOf(s \o t) \subseteq BodiesOf(s) \union BodiesOf(t)
  <2> SUFFICES ASSUME NEW i \in 1..Len(s \o t)
               PROVE  (s \o t)[i] \in BodiesOf(s) \union BodiesOf(t)
    BY <1>1 DEF BodiesOf
  <2>1. CASE i <= Len(s)
    BY <1>1, <2>1 DEF BodiesOf
  <2>2. CASE i > Len(s)
    <3>1. i - Len(s) \in 1..Len(t) /\ (s \o t)[i] = t[i - Len(s)]
      BY <1>1, <2>2
    <3> QED BY <3>1 DEF BodiesOf
  <2> QED BY <2>1, <2>2
<1>3. BodiesOf(s) \subseteq BodiesOf(s \o t)
  <2> SUFFICES ASSUME NEW i \in 1..Len(s) PROVE s[i] \in BodiesOf(s \o t)
    BY DEF BodiesOf
  <2>1. i \in 1..Len(s \o t) /\ (s \o t)[i] = s[i]
    BY <1>1
  <2> QED BY <2>1 DEF BodiesOf
<1>4. BodiesOf(t) \subseteq BodiesOf(s \o t)
  <2> SUFFICES ASSUME NEW i \in 1..Len(t) PROVE t[i] \in BodiesOf(s \o t)
    BY DEF BodiesOf
  <2>1. Len(s) + i \in 1..Len(s \o t) /\ (s \o t)[Len(s) + i] = t[i]
    BY <1>1
  <2> QED BY <2>1 DEF BodiesOf
<1> QED BY <1>1, <1>2, <1>3, <1>4

-----------------------------------------------------------------------------
(* Type correctness.  That a reported fraction stays within 0..100 needs    *)
(* what the loop's index has to do with its files.                         *)

ProgressOK(r) ==
    /\ pc[r] \in {"idle", "open", "walk", "hashes"} => seen[r] = 0
    /\ pc[r] = "idle" => reported[r] = 0
    /\ pc[r] = "open" => reported[r] = 2
    /\ pc[r] \in {"walk", "hashes"} => reported[r] = 6
    /\ pc[r] = "report" => todo[r] # {}
    /\ pc[r] \in {"hashes", "files", "report", "embed", "upsert"} =>
          seen[r] + Cardinality(todo[r]) <= total[r]
    /\ pc[r] \in {"files", "report", "embed", "upsert"} =>
          reported[r] <= 6 \/ reported[r] <= Fraction(r)

LoopInv == TypeOK /\ \A r \in Runs : ProgressOK(r)

LEMMA FilesFinite ==
    ASSUME NEW S, S \subseteq Files
    PROVE  /\ IsFiniteSet(S)
           /\ Cardinality(S) \in Nat
           /\ Cardinality(S) = 0 <=> S = {}
           /\ \A f \in S : Cardinality(S \ {f}) = Cardinality(S) - 1
<1>1. IsFiniteSet(Files)
  BY FS_Interval, ConstantsAssumption DEF Files
<1>2. IsFiniteSet(S)
  BY <1>1, FS_Subset
<1> QED BY <1>2, FS_CardinalityType, FS_EmptySet, FS_RemoveElement

\* The file the loop is at is one that is left to do.
LEMMA CurrentLeft ==
    ASSUME TypeOK, NEW r \in Runs, todo[r] # {}
    PROVE  Current(r) \in todo[r] /\ Current(r) \in Files
<1>1. todo[r] \subseteq Files /\ todo[r] \subseteq Nat
  BY ConstantsAssumption DEF TypeOK, Files
<1>2. \E f \in todo[r] : \A g \in todo[r] : f <= g
  BY <1>1, LeastElement
<1> QED BY <1>1, <1>2 DEF Current

\* The fraction reported in the loop.
LEMMA FractionType ==
    ASSUME LoopInv, NEW r \in Runs, pc[r] \in {"files", "report", "embed", "upsert"}
    PROVE  Fraction(r) \in 10..95
<1>1. seen[r] \in Nat /\ total[r] \in Nat \ {0} /\ todo[r] \subseteq Files
  BY DEF LoopInv, TypeOK
<1>2. seen[r] <= total[r]
  BY <1>1, FilesFinite DEF LoopInv, ProgressOK
<1>3. (85 * seen[r]) \div total[r] \in 0..85
  BY <1>1, <1>2, FractionRange
<1> QED BY <1>3 DEF Fraction

\* What the loop reads of a file is a sequence of bodies.
LEMMA Content ==
    ASSUME TypeOK, NEW f \in Files, Readable(f)
    PROVE  /\ tree[f] \in Seq(Bodies)
           /\ tree[f] # <<>>
           /\ Head(tree[f]) \in BodiesOf(tree[f])
           /\ BodiesOf(tree[f]) \subseteq Bodies
<1>1. tree[f] \in Seq(Bodies) /\ tree[f] # <<>>
  BY ConstantsAssumption DEF TypeOK, Readable
<1>2. 1 \in DOMAIN tree[f] /\ Head(tree[f]) = tree[f][1]
  BY <1>1
<1> QED BY <1>1, <1>2 DEF BodiesOf

\* Its chunks are as many, one of each body.
LEMMA Chunks ==
    ASSUME TypeOK, NEW f \in Files, Readable(f)
    PROVE  /\ ChunksOf(f) \in Seq(Chunk)
           /\ \A b \in BodiesOf(tree[f]) : [path |-> f, body |-> b] \in BodiesOf(ChunksOf(f))
<1>1. tree[f] \in Seq(Bodies)
  BY Content
<1>2. \A i \in DOMAIN tree[f] : [path |-> f, body |-> tree[f][i]] \in Chunk
  BY <1>1 DEF Chunk
<1>3. ChunksOf(f) \in Seq(Chunk)
  <2> DEFINE n == Len(tree[f])
  <2>1. n \in Nat /\ DOMAIN tree[f] = 1..n
    BY <1>1
  <2> HIDE DEF n
  <2>2. ChunksOf(f) \in [1..n -> Chunk]
    BY <1>2, <2>1 DEF ChunksOf
  <2> QED BY <2>1, <2>2
<1>4. \A i \in DOMAIN tree[f] : i \in DOMAIN ChunksOf(f) /\ ChunksOf(f)[i] = [path |-> f, body |-> tree[f][i]]
  BY DEF ChunksOf
<1> QED BY <1>3, <1>4 DEF BodiesOf

LEMMA LoopInit == Init => LoopInv
BY ConstantsAssumption, FilesFinite
   DEF Init, LoopInv, TypeOK, ProgressOK, Steps, NoStats, Fraction

\* What every action does to the program counter, the reports and the bounds.
LEMMA GotoType ==
    ASSUME TypeOK, NEW r \in Runs, NEW step \in Steps, Goto(r, step)
    PROVE  pc' \in [Runs -> Steps] /\ pc'[r] = step /\ \A q \in Runs : q # r => pc'[q] = pc[q]
BY DEF TypeOK, Goto

LEMMA ReportType ==
    ASSUME TypeOK, NEW r \in Runs, NEW percent \in 0..100, Report(r, percent)
    PROVE  /\ reported' \in [Runs -> 0..100] /\ reported'[r] = percent
           /\ \A q \in Runs : q # r => reported'[q] = reported[q]
BY DEF TypeOK, Report

LEMMA EnvType ==
    ASSUME TypeOK, Fails \/ UNCHANGED envVars
    PROVE  faults' \in Nat /\ edits' \in Nat /\ restarts' \in Nat
BY DEF TypeOK, Fails, envVars

LEMMA PrepareType ==
    ASSUME LoopInv, NEW r \in Runs, Prepare(r)
    PROVE  TypeOK'
<1>t. TypeOK
  BY DEF LoopInv
<1>1. CASE Start(r)
  <2>1. pc' \in [Runs -> Steps] /\ reported' \in [Runs -> 0..100]
    <3>1. Goto(r, "open") /\ Report(r, 2)
      BY <1>1 DEF Start
    <3>2. "open" \in Steps /\ 2 \in 0..100
      BY DEF Steps
    <3>3. pc' \in [Runs -> Steps]
      BY <1>t, <3>1, <3>2, GotoType
    <3>4. reported' \in [Runs -> 0..100]
      BY <1>t, <3>1, <3>2, ReportType
    <3>5. QED
      BY <3>3, <3>4
  <2>2. incremental' \in [Runs -> BOOLEAN] /\ scope' \in [Runs -> SUBSET Files]
    BY <1>t, <1>1, ConstantsAssumption DEF Start, TypeOK
  <2> QED BY <1>t, <1>1, <2>1, <2>2 DEF Start, TypeOK, qdrantVars, loopVars, batchVars, envVars
<1>2. CASE OpenRepo(r)
  <2>1. pc' \in [Runs -> Steps] /\ reported' \in [Runs -> 0..100]
    <3>1. Goto(r, "walk") /\ Report(r, 6)
      BY <1>2 DEF OpenRepo
    <3>2. "walk" \in Steps /\ 6 \in 0..100
      BY DEF Steps
    <3>3. pc' \in [Runs -> Steps]
      BY <1>t, <3>1, <3>2, GotoType
    <3>4. reported' \in [Runs -> 0..100]
      BY <1>t, <3>1, <3>2, ReportType
    <3>5. QED
      BY <3>3, <3>4
  <2> QED BY <1>t, <1>2, <2>1 DEF OpenRepo, TypeOK, qdrantVars, requestVars, loopVars, batchVars, envVars
<1>3. CASE RepoUnavailable(r)
  <2>1. faults' \in Nat /\ edits' \in Nat /\ restarts' \in Nat
    BY <1>t, <1>3 DEF RepoUnavailable, Fails, TypeOK
  <2>2. reported' \in [Runs -> 0..100] /\ clean' \in [Runs -> BOOLEAN] /\ pc' \in [Runs -> Steps]
    BY <1>t, <1>3 DEF RepoUnavailable, Report, Goto, TypeOK, Steps
  <2> QED BY <1>t, <1>3, <2>1, <2>2
       DEF RepoUnavailable, TypeOK, qdrantVars, requestVars, loopVars, batchVars
<1>4. CASE Walk(r)
  <2> DEFINE files == {f \in scope[r] : tree[f] # Gone}
  <2>1. files \subseteq Files
    BY <1>t DEF TypeOK
  <2>2. (IF files = {} THEN 1 ELSE Cardinality(files)) \in Nat \ {0}
    BY <2>1, FilesFinite
  <2> HIDE DEF files
  <2>3. todo' = [todo EXCEPT ![r] = files]
    BY <1>4 DEF Walk, files
  <2>4. total' = [total EXCEPT ![r] = IF files = {} THEN 1 ELSE Cardinality(files)]
    BY <1>4 DEF Walk, files
  <2>5. todo' \in [Runs -> SUBSET Files] /\ total' \in [Runs -> Nat \ {0}]
    BY <1>t, <2>1, <2>2, <2>3, <2>4 DEF TypeOK
  <2>6. pc' \in [Runs -> Steps]
    BY <1>t, <1>4 DEF Walk, Goto, TypeOK, Steps
  <2> QED BY <1>t, <1>4, <2>5, <2>6 DEF Walk, TypeOK, qdrantVars, requestVars, batchVars, envVars
<1>5. CASE ReadHashes(r)
  <2>0. PICK hashes \in [Files -> Bodies \union {NoHash}] : known' = [known EXCEPT ![r] = hashes]
    BY <1>t, <1>5 DEF ReadHashes, TypeOK
  <2>1. known' \in [Runs -> [Files -> Bodies \union {NoHash}]]
    BY <1>t, <2>0 DEF TypeOK
  <2>2. faults' \in Nat /\ edits' \in Nat /\ restarts' \in Nat
    BY <1>t, <1>5, EnvType DEF ReadHashes
  <2>3. pc' \in [Runs -> Steps]
    BY <1>t, <1>5, GotoType DEF ReadHashes, Steps
  <2> QED BY <1>t, <1>5, <2>1, <2>2, <2>3 DEF ReadHashes, TypeOK, qdrantVars, requestVars, batchVars
<1> QED BY <1>1, <1>2, <1>3, <1>4, <1>5 DEF Prepare

\* The loop over the files.
LEMMA NextFileType ==
    ASSUME TypeOK, NEW r \in Runs, NextFile(r)
    PROVE  /\ todo' \in [Runs -> SUBSET Files]
           /\ seen' \in [Runs -> Nat]
           /\ total' \in [Runs -> Nat \ {0}]
           /\ known' \in [Runs -> [Files -> Bodies \union {NoHash}]]
BY DEF NextFile, TypeOK

LEMMA TallyType ==
    ASSUME NEW s \in [files : Nat, skipped : Nat, chunks : Nat], NEW n \in Nat
    PROVE  /\ Skip(s) \in [files : Nat, skipped : Nat, chunks : Nat]
           /\ Tally(s, n) \in [files : Nat, skipped : Nat, chunks : Nat]
           /\ Tally(s, n).chunks = s.chunks + n
           /\ Skip(s).chunks = s.chunks
BY DEF Tally, Skip

LEMMA LoopType ==
    ASSUME LoopInv, NEW r \in Runs, Loop(r)
    PROVE  TypeOK'
<1>t. TypeOK
  BY DEF LoopInv
<1> DEFINE Stats == [files : Nat, skipped : Nat, chunks : Nat]
           skip == Skip(stats[r])
<1>0. stats[r] \in Stats /\ skip \in Stats /\ Tally(skip, 0) \in Stats
  BY <1>t, TallyType DEF TypeOK
<1>a. ASSUME pc[r] \in {"files", "report"} PROVE Fraction(r) \in 0..100
  BY <1>a, FractionType
<1>1. CASE SkipUnreadable(r)
  <2>1. stats' = [stats EXCEPT ![r] = skip]
    BY <1>1 DEF SkipUnreadable
  <2> HIDE DEF skip
  <2>2. stats' \in [Runs -> Stats]
    BY <1>t, <1>0, <2>1 DEF TypeOK
  <2> QED BY <1>t, <1>1, <2>2, NextFileType
       DEF SkipUnreadable, TypeOK, qdrantVars, requestVars, batchVars, envVars
<1>2. CASE SkipUnchanged(r)
  <2>1. stats' = [stats EXCEPT ![r] = Tally(skip, 0)]
    BY <1>2 DEF SkipUnchanged
  <2> HIDE DEF skip
  <2>2. stats' \in [Runs -> Stats]
    BY <1>t, <1>0, <2>1 DEF TypeOK
  <2>3. reported' \in [Runs -> 0..100]
    BY <1>t, <1>2, <1>a DEF SkipUnchanged, Report, TypeOK
  <2> QED BY <1>t, <1>2, <2>2, <2>3, NextFileType
       DEF SkipUnchanged, TypeOK, qdrantVars, requestVars, batchVars, envVars
<1>3. CASE IndexFile(r)
  <2> DEFINE f == Current(r)
             chunks == ChunksOf(f)
  <2>1. f \in Files /\ Readable(f)
    BY <1>t, <1>3, CurrentLeft DEF IndexFile
  <2>3. chunks \in Seq(Chunk)
    BY <1>t, <2>1, Chunks
  <2>4. /\ stats' = [stats EXCEPT ![r] = Tally(@, Len(chunks))]
        /\ pending' = [pending EXCEPT ![r] = @ \o chunks]
        /\ \E step \in Steps : pc' = [pc EXCEPT ![r] = step]
    BY <1>3 DEF IndexFile, Goto, Steps
  <2> HIDE DEF chunks
  <2>5. Tally(stats[r], Len(chunks)) \in Stats
    BY <1>0, <2>3, TallyType
  <2>6. stats' \in [Runs -> Stats]
    BY <1>t, <2>4, <2>5 DEF TypeOK
  <2>7. pending[r] \o chunks \in Seq(Chunk)
    BY <1>t, <2>3 DEF TypeOK
  <2>8. pending' \in [Runs -> Seq(Chunk)] /\ pc' \in [Runs -> Steps]
    BY <1>t, <2>4, <2>7 DEF TypeOK
  <2> QED BY <1>t, <1>3, <2>6, <2>8 DEF IndexFile, TypeOK, qdrantVars, requestVars, loopVars, envVars
<1>4. CASE ReportFile(r)
  <2>1. reported' \in [Runs -> 0..100]
    BY <1>t, <1>4, <1>a DEF ReportFile, Report, TypeOK
  <2>2. pc' \in [Runs -> Steps]
    BY <1>t, <1>4 DEF ReportFile, Goto, TypeOK, Steps
  <2> QED BY <1>t, <1>4, <2>1, <2>2, NextFileType
       DEF ReportFile, TypeOK, qdrantVars, requestVars, batchVars, envVars
<1>5. CASE EndLoop(r)
  BY <1>t, <1>5 DEF EndLoop, Goto, TypeOK, Steps, qdrantVars, requestVars, loopVars, batchVars, envVars
<1> QED BY <1>1, <1>2, <1>3, <1>4, <1>5 DEF Loop

\* _flush: what it inserts are bodies.
LEMMA ElementsOf ==
    ASSUME NEW T, NEW s \in Seq(T)
    PROVE  BodiesOf(s) \subseteq T
BY DEF BodiesOf

LEMMA InsertType ==
    ASSUME TypeOK, NEW points, points \subseteq Chunk, Insert(points)
    PROVE  held' \in [Files -> SUBSET Bodies] /\ first' \in [Files -> Bodies \union {NoHash}]
<1> DEFINE new == [f \in Files |-> {p.body : p \in {q \in points : q.path = f}}]
<1>1. \A f \in Files : new[f] \subseteq Bodies
  BY DEF Chunk
<1>2. held' = [f \in Files |-> held[f] \union new[f]] /\ first' \in [Files -> Bodies \union {NoHash}]
  BY DEF Insert
<1> HIDE DEF new
<1> QED BY <1>1, <1>2 DEF TypeOK

LEMMA FlushType ==
    ASSUME LoopInv, NEW r \in Runs, Flush(r)
    PROVE  TypeOK'
<1>t. TypeOK
  BY DEF LoopInv
<1>0. pending[r] \in Seq(Chunk) /\ vectors[r] \in Seq(Chunk)
  BY <1>t DEF TypeOK
<1>1. CASE Embed(r)
  <2>1. PICK n \in 0..Len(pending[r]) :
           /\ vectors' = [vectors EXCEPT ![r] = SubSeq(pending[r], 1, n)]
           /\ dropped' = [dropped EXCEPT ![r] = @ + (Len(pending[r]) - n)]
           /\ pc' = [pc EXCEPT ![r] = IF n = 0 THEN AfterFlush(r) ELSE "upsert"]
           /\ clean' = clean \/ clean' = [clean EXCEPT ![r] = FALSE]
           /\ UNCHANGED envVars \/ Fails
    BY <1>1 DEF Embed, Goto
  <2>2. SubSeq(pending[r], 1, n) \in Seq(Chunk) /\ Len(pending[r]) - n \in Nat
    BY <1>0, Cut
  <2>3. vectors' \in [Runs -> Seq(Chunk)]
    BY <1>t, <2>1, <2>2 DEF TypeOK
  <2>4. dropped' \in [Runs -> Nat]
    BY <1>t, <2>1, <2>2 DEF TypeOK
  <2>5. pc' \in [Runs -> Steps] /\ clean' \in [Runs -> BOOLEAN]
    BY <1>t, <2>1 DEF TypeOK, Steps, AfterFlush
  <2>6. faults' \in Nat /\ edits' \in Nat /\ restarts' \in Nat
    BY <1>t, <2>1, EnvType
  <2>7. pending' \in [Runs -> Seq(Chunk)]
    BY <1>t, <1>1 DEF Embed, TypeOK
  <2> QED BY <1>t, <1>1, <2>3, <2>4, <2>5, <2>6, <2>7
       DEF Embed, TypeOK, qdrantVars, requestVars, loopVars
<1>2. CASE Upsert(r)
  <2> DEFINE n == IF Len(vectors[r]) < UpsertBatch THEN Len(vectors[r]) ELSE UpsertBatch
             batch == SubSeq(vectors[r], 1, n)
             rest == SubSeq(vectors[r], n + 1, Len(vectors[r]))
  <2>1. n \in 0..Len(vectors[r]) /\ n \in Nat
    BY <1>0, ConstantsAssumption
  <2>2. batch \in Seq(Chunk) /\ rest \in Seq(Chunk)
    BY <1>0, <2>1, Cut
  <2>3. BodiesOf(batch) \subseteq Chunk
    BY <2>2, ElementsOf
  <2>4. /\ vectors' = [vectors EXCEPT ![r] = rest]
        /\ pc' = [pc EXCEPT ![r] = IF n = Len(vectors[r]) THEN AfterFlush(r) ELSE "upsert"]
        /\ \/ /\ Insert(BodiesOf(batch))
              /\ stored' = [stored EXCEPT ![r] = @ + n]
              /\ UNCHANGED <<dropped, clean, envVars>>
           \/ /\ Fails
              /\ dropped' = [dropped EXCEPT ![r] = @ + n]
              /\ clean' = [clean EXCEPT ![r] = FALSE]
              /\ UNCHANGED <<qdrantVars, stored>>
    BY <1>2 DEF Upsert, Goto
  <2> HIDE DEF batch, rest, n
  <2>5. vectors' \in [Runs -> Seq(Chunk)] /\ pc' \in [Runs -> Steps]
    BY <1>t, <2>2, <2>4 DEF TypeOK, Steps, AfterFlush
  <2>6. held' \in [Files -> SUBSET Bodies] /\ first' \in [Files -> Bodies \union {NoHash}]
    BY <1>t, <2>3, <2>4, InsertType DEF TypeOK, qdrantVars
  <2>7. stored' \in [Runs -> Nat] /\ dropped' \in [Runs -> Nat] /\ clean' \in [Runs -> BOOLEAN]
    <3>1. stored[r] + n \in Nat /\ dropped[r] + n \in Nat
      BY <1>t, <2>1 DEF TypeOK
    <3>2. CASE UNCHANGED <<dropped, clean>> /\ stored' = [stored EXCEPT ![r] = @ + n]
      BY <1>t, <3>1, <3>2 DEF TypeOK
    <3>3. CASE UNCHANGED stored /\ dropped' = [dropped EXCEPT ![r] = @ + n]
               /\ clean' = [clean EXCEPT ![r] = FALSE]
      BY <1>t, <3>1, <3>3 DEF TypeOK
    <3> QED BY <2>4, <3>2, <3>3
  <2>8. faults' \in Nat /\ edits' \in Nat /\ restarts' \in Nat
    BY <1>t, <2>4, EnvType
  <2> QED BY <1>t, <1>2, <2>5, <2>6, <2>7, <2>8 DEF Upsert, TypeOK, requestVars, loopVars
<1> QED BY <1>1, <1>2 DEF Flush

LEMMA EndType ==
    ASSUME LoopInv, NEW r \in Runs, End(r)
    PROVE  TypeOK'
<1>t. TypeOK
  BY DEF LoopInv
<1>1. CASE Finish(r)
  <2>1. pc' \in [Runs -> Steps] /\ reported' \in [Runs -> 0..100]
    <3>1. Goto(r, "returned") /\ Report(r, 100)
      BY <1>1 DEF Finish
    <3>2. "returned" \in Steps /\ 100 \in 0..100
      BY DEF Steps
    <3>3. pc' \in [Runs -> Steps]
      BY <1>t, <3>1, <3>2, GotoType
    <3>4. reported' \in [Runs -> 0..100]
      BY <1>t, <3>1, <3>2, ReportType
    <3>5. QED
      BY <3>3, <3>4
  <2> QED BY <1>t, <1>1, <2>1 DEF Finish, TypeOK, qdrantVars, requestVars, loopVars, batchVars, envVars
<1>2. CASE Abort(r)
  <2>1. faults' \in Nat /\ edits' \in Nat /\ restarts' \in Nat
    BY <1>t, <1>2 DEF Abort, Fails, TypeOK
  <2>2. dropped' \in [Runs -> Nat] /\ pending' \in [Runs -> Seq(Chunk)]
    BY <1>t, <1>2 DEF Abort, TypeOK
  <2>3. reported' \in [Runs -> 0..100] /\ clean' \in [Runs -> BOOLEAN] /\ pc' \in [Runs -> Steps]
    BY <1>t, <1>2 DEF Abort, Report, Goto, TypeOK, Steps
  <2> QED BY <1>t, <1>2, <2>1, <2>2, <2>3 DEF Abort, TypeOK, qdrantVars, requestVars, loopVars
<1> QED BY <1>1, <1>2 DEF End

LEMMA EnvironmentType ==
    ASSUME LoopInv, Restart \/ \E f \in Files : Edit(f)
    PROVE  TypeOK'
<1>t. TypeOK
  BY DEF LoopInv
<1>1. CASE Restart
  <2>1. pc' \in [Runs -> Steps] /\ restarts' \in Nat
    BY <1>t, <1>1 DEF Restart, TypeOK, Steps
  <2> QED BY <1>t, <1>1, <2>1 DEF Restart, TypeOK, qdrantVars, requestVars, loopVars, batchVars
<1>2. ASSUME NEW f \in Files, Edit(f) PROVE TypeOK'
  <2>1. tree' \in [Files -> Versions \union {Gone}] /\ clean' \in [Runs -> BOOLEAN] /\ edits' \in Nat
    BY <1>t, <1>2 DEF Edit, TypeOK
  <2> QED BY <1>t, <1>2, <2>1 DEF Edit, TypeOK, qdrantVars, requestVars, loopVars, batchVars
<1> QED BY <1>1, <1>2

-----------------------------------------------------------------------------
(* The loop's index and the fractions it reports. *)

\* A step of one run leaves the others where they are.
LEMMA OthersRest ==
    ASSUME TypeOK, NEW r \in Runs, Prepare(r) \/ Loop(r) \/ Flush(r) \/ End(r),
           NEW q \in Runs, q # r
    PROVE  /\ pc'[q] = pc[q] /\ incremental'[q] = incremental[q] /\ scope'[q] = scope[q]
           /\ todo'[q] = todo[q] /\ seen'[q] = seen[q] /\ total'[q] = total[q]
           /\ known'[q] = known[q] /\ pending'[q] = pending[q] /\ vectors'[q] = vectors[q]
           /\ stats'[q] = stats[q] /\ reported'[q] = reported[q]
           /\ stored'[q] = stored[q] /\ dropped'[q] = dropped[q] /\ clean'[q] = clean[q]
<1>1. CASE Prepare(r)
  <2>1. CASE Start(r) \/ OpenRepo(r) \/ RepoUnavailable(r)
    <3>1. /\ incremental'[q] = incremental[q] /\ scope'[q] = scope[q] /\ clean'[q] = clean[q]
          /\ UNCHANGED <<loopVars, batchVars, stats>>
      BY <2>1 DEF Start, OpenRepo, RepoUnavailable, TypeOK, requestVars
    <3>2. pc'[q] = pc[q] /\ reported'[q] = reported[q]
      <4>1. \/ Goto(r, "open") /\ Report(r, 2)
            \/ Goto(r, "walk") /\ Report(r, 6)
            \/ Goto(r, "returned") /\ Report(r, 100)
        BY <2>1 DEF Start, OpenRepo, RepoUnavailable
      <4>2. QED
        BY <4>1 DEF TypeOK, Goto, Report
    <3> QED BY <3>1, <3>2 DEF loopVars, batchVars
  <2>2. CASE Walk(r)
    BY <2>2 DEF Walk, Goto, TypeOK, requestVars, batchVars
  <2>3. CASE ReadHashes(r)
    BY <2>3 DEF ReadHashes, Goto, TypeOK, requestVars, batchVars
  <2> QED BY <1>1, <2>1, <2>2, <2>3 DEF Prepare
<1>2. CASE Loop(r)
  <2>1. CASE SkipUnreadable(r)
    BY <2>1 DEF SkipUnreadable, NextFile, TypeOK, requestVars, batchVars
  <2>5. CASE SkipUnchanged(r)
    BY <2>5 DEF SkipUnchanged, NextFile, Report, TypeOK, requestVars, batchVars
  <2>2. CASE IndexFile(r)
    BY <2>2 DEF IndexFile, Goto, TypeOK, requestVars, loopVars
  <2>3. CASE ReportFile(r)
    BY <2>3 DEF ReportFile, NextFile, Goto, Report, TypeOK, requestVars, batchVars
  <2>4. CASE EndLoop(r)
    BY <2>4 DEF EndLoop, Goto, TypeOK, requestVars, loopVars, batchVars
  <2> QED BY <1>2, <2>1, <2>2, <2>3, <2>4, <2>5 DEF Loop
<1>3. CASE Flush(r)
  <2>1. /\ pc'[q] = pc[q] /\ UNCHANGED <<requestVars, loopVars, stats, reported>>
        /\ pending'[q] = pending[q] /\ vectors'[q] = vectors[q]
    BY <1>3 DEF Flush, Embed, Upsert, Goto, TypeOK
  <2>2. stored'[q] = stored[q]
    BY <1>3 DEF Flush, Embed, Upsert, TypeOK
  <2>3. dropped'[q] = dropped[q]
    BY <1>3 DEF Flush, Embed, Upsert, TypeOK
  <2>4. clean'[q] = clean[q]
    BY <1>3 DEF Flush, Embed, Upsert, TypeOK
  <2> QED BY <2>1, <2>2, <2>3, <2>4 DEF requestVars, loopVars
<1>4. CASE End(r)
  <2>1. CASE Finish(r)
    BY <2>1 DEF Finish, Goto, Report, TypeOK, requestVars, loopVars, batchVars
  <2>2. CASE Abort(r)
    BY <2>2 DEF Abort, Goto, Report, TypeOK, requestVars, loopVars
  <2> QED BY <1>4, <2>1, <2>2 DEF End
<1> QED BY <1>1, <1>2, <1>3, <1>4

\* Leaving a file behind moves the index, and the fraction does not fall.
LEMMA NextFileProgress ==
    ASSUME LoopInv, NEW r \in Runs, NextFile(r), todo[r] # {}, pc[r] \in {"files", "report"}
    PROVE  /\ seen'[r] + Cardinality(todo'[r]) <= total'[r]
           /\ Fraction(r) <= Fraction(r)'
           /\ Fraction(r) \in Nat /\ Fraction(r)' \in Nat
<1>1. /\ todo[r] \subseteq Files /\ Current(r) \in todo[r]
      /\ seen[r] \in Nat /\ total[r] \in Nat \ {0}
  BY CurrentLeft DEF LoopInv, TypeOK
<1>2. /\ todo'[r] = todo[r] \ {Current(r)} /\ seen'[r] = seen[r] + 1
      /\ total'[r] = total[r]
  BY DEF NextFile, LoopInv, TypeOK
<1>3. Cardinality(todo'[r]) = Cardinality(todo[r]) - 1 /\ Cardinality(todo[r]) \in Nat
  BY <1>1, <1>2, FilesFinite
<1>4. seen[r] + Cardinality(todo[r]) <= total[r]
  BY DEF LoopInv, ProgressOK
<1>5. (85 * seen[r]) \div total[r] <= (85 * (seen[r] + 1)) \div total[r]
  BY <1>1, DivMonotone
<1>6. 85 * seen[r] \in Nat /\ 85 * (seen[r] + 1) \in Nat
  BY <1>1
<1>7. (85 * seen[r]) \div total[r] \in Nat /\ (85 * (seen[r] + 1)) \div total[r] \in Nat
  BY <1>1, <1>6, DivNatural
<1> QED BY <1>1, <1>2, <1>3, <1>4, <1>5, <1>7 DEF Fraction

\* Every step keeps ProgressOK, and no report is lower than the one before.
LEMMA PrepareProgress ==
    ASSUME LoopInv, TypeOK', NEW r \in Runs, Prepare(r)
    PROVE  ProgressOK(r)' /\ reported'[r] >= reported[r]
<1>t. TypeOK
  BY DEF LoopInv
<1>p. ProgressOK(r)
  BY DEF LoopInv
<1>1. CASE Start(r)
  BY <1>t, <1>p, <1>1 DEF Start, Goto, Report, TypeOK, ProgressOK, loopVars
<1>2. CASE OpenRepo(r)
  BY <1>t, <1>p, <1>2 DEF OpenRepo, Goto, Report, TypeOK, ProgressOK, loopVars
<1>3. CASE RepoUnavailable(r)
  BY <1>t, <1>p, <1>3 DEF RepoUnavailable, Goto, Report, TypeOK, ProgressOK, loopVars
<1>4. CASE Walk(r)
  <2> DEFINE files == {f \in scope[r] : tree[f] # Gone}
  <2>1. files \subseteq Files
    BY <1>t DEF TypeOK
  <2> HIDE DEF files
  <2>2. /\ todo'[r] = files /\ seen'[r] = seen[r] /\ reported'[r] = reported[r]
        /\ total'[r] = IF files = {} THEN 1 ELSE Cardinality(files)
        /\ pc[r] = "walk" /\ pc'[r] \in {"hashes", "files"}
    BY <1>t, <1>4 DEF Walk, Goto, TypeOK, files
  <2>3. Cardinality(files) \in Nat /\ (Cardinality(files) = 0 <=> files = {})
    BY <2>1, FilesFinite
  <2> QED BY <1>p, <2>2, <2>3 DEF ProgressOK
<1>5. CASE ReadHashes(r)
  BY <1>t, <1>p, <1>5 DEF ReadHashes, Goto, TypeOK, ProgressOK
<1> QED BY <1>1, <1>2, <1>3, <1>4, <1>5 DEF Prepare

LEMMA LoopProgress ==
    ASSUME LoopInv, TypeOK', NEW r \in Runs, Loop(r)
    PROVE  ProgressOK(r)' /\ reported'[r] >= reported[r]
<1>t. TypeOK
  BY DEF LoopInv
<1>p. ProgressOK(r)
  BY DEF LoopInv
<1>0. reported[r] \in 0..100
  BY <1>t DEF TypeOK
<1>a. ASSUME pc[r] \in {"files", "report"}
      PROVE  Fraction(r) \in 10..95 /\ reported[r] <= Fraction(r)
  BY <1>p, <1>a, <1>0, FractionType DEF ProgressOK
<1>b. ASSUME NextFile(r), todo[r] # {}, pc[r] \in {"files", "report"}, pc'[r] = "files",
             reported'[r] \in {reported[r], Fraction(r)}
      PROVE  ProgressOK(r)' /\ reported'[r] >= reported[r]
  <2>1. reported'[r] <= Fraction(r)' /\ reported'[r] >= reported[r]
    BY <1>a, <1>b, <1>0, NextFileProgress
  <2>2. seen'[r] + Cardinality(todo'[r]) <= total'[r]
    BY <1>b, NextFileProgress
  <2> QED BY <1>p, <1>b, <2>1, <2>2 DEF ProgressOK
<1>1. CASE SkipUnreadable(r)
  BY <1>1, <1>b DEF SkipUnreadable
<1>2. CASE SkipUnchanged(r)
  <2>1. reported'[r] \in {reported[r], Fraction(r)}
    BY <1>t, <1>2 DEF SkipUnchanged, Report, TypeOK
  <2> QED BY <1>2, <1>b, <2>1 DEF SkipUnchanged
<1>c. ASSUME pc[r] = "files", pc'[r] \in {"embed", "report", "finish"}, todo[r] # {} \/ pc'[r] # "report",
             UNCHANGED <<loopVars, reported>>
      PROVE  ProgressOK(r)' /\ reported'[r] >= reported[r]
  <2>1. todo'[r] = todo[r] /\ seen'[r] = seen[r] /\ total'[r] = total[r] /\ reported'[r] = reported[r]
    BY <1>c DEF loopVars
  <2>2. Fraction(r)' = Fraction(r)
    BY <2>1 DEF Fraction
  <2>3. reported'[r] >= reported[r]
    BY <1>0, <2>1
  <2> QED BY <1>p, <1>c, <2>1, <2>2, <2>3 DEF ProgressOK
<1>3. CASE IndexFile(r)
  <2>1. pc[r] = "files" /\ pc'[r] \in {"embed", "report"} /\ todo[r] # {} /\ UNCHANGED <<loopVars, reported>>
    BY <1>t, <1>3 DEF IndexFile, Goto, TypeOK
  <2> QED BY <1>c, <2>1
<1>4. CASE ReportFile(r)
  <2>1. pc[r] = "report" /\ NextFile(r) /\ todo[r] # {}
    BY <1>p, <1>4 DEF ReportFile, ProgressOK
  <2>2. pc'[r] = "files"
    BY <1>t, <1>4, GotoType DEF ReportFile, Steps
  <2>3. reported'[r] \in {reported[r], Fraction(r)}
    BY <1>t, <1>4 DEF ReportFile, Report, TypeOK
  <2> QED BY <1>b, <2>1, <2>2, <2>3
<1>5. CASE EndLoop(r)
  <2>1. pc[r] = "files" /\ pc'[r] \in {"embed", "finish"} /\ UNCHANGED <<loopVars, reported>>
    BY <1>t, <1>5 DEF EndLoop, Goto, TypeOK
  <2> QED BY <1>c, <2>1
<1> QED BY <1>1, <1>2, <1>3, <1>4, <1>5 DEF Loop

LEMMA RestProgress ==
    ASSUME LoopInv, TypeOK', NEW r \in Runs, Flush(r) \/ End(r)
    PROVE  ProgressOK(r)' /\ reported'[r] >= reported[r]
<1>t. TypeOK
  BY DEF LoopInv
<1>p. ProgressOK(r)
  BY DEF LoopInv
<1>0. reported[r] \in 0..100
  BY <1>t DEF TypeOK
<1>1. CASE Flush(r)
  <2>1. /\ UNCHANGED <<loopVars, reported>> /\ pc[r] \in {"embed", "upsert"}
        /\ pc'[r] \in {"upsert", AfterFlush(r)}
    BY <1>t, <1>1 DEF Flush, Embed, Upsert, Goto, TypeOK
  <2> QED BY <1>p, <1>0, <2>1 DEF AfterFlush, ProgressOK, Fraction, loopVars
<1>2. CASE End(r)
  <2>1. pc'[r] = "returned" /\ reported'[r] = 100
    BY <1>t, <1>2 DEF End, Finish, Abort, Goto, Report, TypeOK
  <2> QED BY <1>p, <1>0, <2>1 DEF ProgressOK
<1> QED BY <1>1, <1>2

LEMMA EnvironmentProgress ==
    ASSUME LoopInv, Restart \/ (\E f \in Files : Edit(f)), NEW r \in Runs
    PROVE  ProgressOK(r)' /\ reported'[r] = reported[r]
<1>t. TypeOK
  BY DEF LoopInv
<1>p. ProgressOK(r)
  BY DEF LoopInv
<1>1. /\ UNCHANGED <<loopVars, reported>>
      /\ pc'[r] = pc[r] \/ pc'[r] = "dead"
  BY <1>t DEF Restart, Edit, TypeOK
<1>2. Fraction(r)' = Fraction(r)
  BY <1>1 DEF loopVars, Fraction
<1> QED BY <1>p, <1>1, <1>2 DEF ProgressOK, loopVars

LEMMA LoopStep ==
    ASSUME LoopInv, Next
    PROVE  LoopInv' /\ \A r \in Runs : reported'[r] >= reported[r]
<1>0. \A r \in Runs : reported[r] \in 0..100
  BY DEF LoopInv, TypeOK
<1>1. ASSUME NEW r \in Runs, Prepare(r) \/ Loop(r) \/ Flush(r) \/ End(r)
      PROVE  LoopInv' /\ \A q \in Runs : reported'[q] >= reported[q]
  <2>1. TypeOK'
    BY <1>1, PrepareType, LoopType, FlushType, EndType
  <2>2. ProgressOK(r)' /\ reported'[r] >= reported[r]
    BY <1>1, <2>1, PrepareProgress, LoopProgress, RestProgress
  <2>3. ASSUME NEW q \in Runs, q # r
        PROVE  ProgressOK(q)' /\ reported'[q] >= reported[q]
    <3>1. /\ pc'[q] = pc[q] /\ todo'[q] = todo[q] /\ seen'[q] = seen[q]
          /\ total'[q] = total[q] /\ reported'[q] = reported[q]
      BY <1>1, <2>3, OthersRest DEF LoopInv
    <3>2. Fraction(q)' = Fraction(q)
      BY <3>1 DEF Fraction
    <3>3. ProgressOK(q)
      BY DEF LoopInv
    <3>4. ProgressOK(q)'
      BY <3>1, <3>2, <3>3 DEF ProgressOK
    <3> QED BY <1>0, <3>1, <3>4
  <2> QED BY <2>1, <2>2, <2>3 DEF LoopInv
<1>2. CASE Restart \/ \E f \in Files : Edit(f)
  BY <1>0, <1>2, EnvironmentType, EnvironmentProgress DEF LoopInv
<1> QED BY <1>1, <1>2 DEF Next

LEMMA LoopStutter == LoopInv /\ UNCHANGED vars => LoopInv'
BY DEF LoopInv, TypeOK, ProgressOK, Fraction, vars, qdrantVars, requestVars, loopVars, batchVars, envVars

\* What the loop's index, the files that are left and the reports have to do
\* with each other, in every state of every ingest.
THEOREM LoopCorrect == Spec => []LoopInv
<1>1. Init => LoopInv
  BY LoopInit
<1>2. LoopInv /\ [Next]_vars => LoopInv'
  BY LoopStep, LoopStutter
<1> QED BY <1>1, <1>2, PTL DEF Spec

\* Every variable keeps its type; in particular a reported fraction is a
\* percentage, however many files there are (ingest, report).
THEOREM TypeCorrect == Spec => []TypeOK
<1>1. LoopInv => TypeOK
  BY DEF LoopInv
<1> QED BY <1>1, LoopCorrect, PTL

\* The fractions a run reports only grow, whichever files it skips, indexes or
\* fails on: the progress of an index job rests on it (ingest, report).
THEOREM ReportsOnlyGrow == Spec => ReportsGrow
<1>1. LoopInv /\ [Next]_vars => [\A r \in Runs : reported'[r] >= reported[r]]_reported
  BY LoopStep DEF vars
<1> QED BY <1>1, LoopCorrect, PTL DEF Spec, ReportsGrow

-----------------------------------------------------------------------------
(* What an ingest leaves in the vector store: its chunks are accounted     *)
(* for, a full run covers its files, and an incremental run finds the      *)
(* first chunk of each.                                                    *)

\* The chunks a run counted, and where they may still be at each step.
BatchOK(r) ==
    /\ stats[r].chunks = Len(pending[r]) + Len(vectors[r]) + stored[r] + dropped[r]
    /\ pc[r] \in {"idle", "open", "walk", "hashes", "upsert", "finish", "returned"} => pending[r] = <<>>
    /\ pc[r] \notin {"upsert", "dead"} => vectors[r] = <<>>

\* A hash that the store reports, or that a run remembers, is of a chunk held.
HashesHeld ==
    \A f \in Files :
        /\ first[f] # NoHash => first[f] \in held[f]
        /\ \A r \in Runs : known[r][f] # NoHash => known[r][f] \in held[f]

\* What a run owes the store for a file: every chunk, or only the first.
Needed(r, f) == IF incremental[r] THEN {Head(tree[f])} ELSE BodiesOf(tree[f])
Waiting(r) == BodiesOf(pending[r]) \union BodiesOf(vectors[r])
Covered(r, f) == \A b \in Needed(r, f) : b \in held[f] \/ [path |-> f, body |-> b] \in Waiting(r)

\* A run that is clean owes nothing for the files it has left behind, nor for
\* the file whose chunks it just took.
CoverOK(r) ==
    clean[r] /\ pc[r] \in Walked =>
        /\ \A f \in scope[r] : Readable(f) => f \in todo[r] \/ Covered(r, f)
        /\ pc[r] \in {"report", "embed", "upsert"} /\ todo[r] # {} =>
              Readable(Current(r)) /\ Covered(r, Current(r))
        /\ pc[r] \in {"finish", "returned"} => todo[r] = {}

IndexInv == LoopInv /\ HashesHeld /\ \A r \in Runs : BatchOK(r) /\ CoverOK(r)

LEMMA IndexInit == Init => IndexInv
BY LoopInit
   DEF Init, IndexInv, HashesHeld, BatchOK, CoverOK, NoStats, Walked

-----------------------------------------------------------------------------
(* Chunks are accounted for. *)

\* A run whose chunks stay where they are.
LEMMA BatchRests ==
    ASSUME IndexInv, NEW r \in Runs,
           pending'[r] = pending[r], vectors'[r] = vectors[r], stored'[r] = stored[r],
           dropped'[r] = dropped[r], stats'[r].chunks = stats[r].chunks,
           \/ pc'[r] = pc[r] \/ pc'[r] = "dead"
           \/ pc[r] \notin {"upsert", "dead"} /\ pending[r] = <<>>
           \/ pc[r] \notin {"upsert", "dead"} /\ pc'[r] \in {"files", "report", "embed"}
    PROVE  BatchOK(r)'
BY DEF IndexInv, BatchOK

LEMMA BatchNumbers ==
    ASSUME IndexInv, NEW r \in Runs
    PROVE  /\ TypeOK /\ BatchOK(r)
           /\ pending[r] \in Seq(Chunk) /\ Len(pending[r]) \in Nat
           /\ vectors[r] \in Seq(Chunk) /\ Len(vectors[r]) \in Nat
           /\ stored[r] \in Nat /\ dropped[r] \in Nat
           /\ stats[r] \in [files : Nat, skipped : Nat, chunks : Nat]
           /\ Len(<<>>) = 0
<1>1. TypeOK /\ BatchOK(r)
  BY DEF IndexInv, LoopInv
<1>2. pending[r] \in Seq(Chunk) /\ vectors[r] \in Seq(Chunk)
  BY <1>1 DEF TypeOK
<1>3. /\ stored[r] \in Nat /\ dropped[r] \in Nat
      /\ stats[r] \in [files : Nat, skipped : Nat, chunks : Nat]
  BY <1>1 DEF TypeOK
<1> QED BY <1>1, <1>2, <1>3, LenProperties, EmptySeq

LEMMA PrepareBatch ==
    ASSUME IndexInv, NEW r \in Runs, Prepare(r)
    PROVE  BatchOK(r)'
<1>1. UNCHANGED <<batchVars, stats>> /\ pc[r] \in {"idle", "open", "walk", "hashes"}
  BY DEF Prepare, Start, OpenRepo, RepoUnavailable, Walk, ReadHashes
<1> QED BY <1>1, BatchRests DEF batchVars, IndexInv, BatchOK

LEMMA LoopBatch ==
    ASSUME IndexInv, NEW r \in Runs, Loop(r)
    PROVE  BatchOK(r)'
<1>0. /\ TypeOK /\ BatchOK(r)
      /\ pending[r] \in Seq(Chunk) /\ Len(pending[r]) \in Nat
      /\ vectors[r] \in Seq(Chunk) /\ Len(vectors[r]) \in Nat
      /\ stored[r] \in Nat /\ dropped[r] \in Nat
      /\ stats[r] \in [files : Nat, skipped : Nat, chunks : Nat]
  BY BatchNumbers
<1>n. Len(<<>>) = 0
  BY EmptySeq
<1>s. stats[r].chunks = Len(pending[r]) + Len(vectors[r]) + stored[r] + dropped[r]
  BY <1>0 DEF BatchOK
<1>1. CASE SkipUnreadable(r)
  <2>1. stats'[r] = Skip(stats[r]) /\ pc'[r] = pc[r] /\ UNCHANGED batchVars
    BY <1>0, <1>1 DEF SkipUnreadable, TypeOK
  <2> QED BY <1>0, <2>1, TallyType, BatchRests DEF batchVars
<1>2. CASE SkipUnchanged(r)
  <2>1. stats'[r] = Tally(Skip(stats[r]), 0) /\ pc'[r] = pc[r] /\ UNCHANGED batchVars
    BY <1>0, <1>2 DEF SkipUnchanged, TypeOK
  <2>2. /\ Skip(stats[r]) \in [files : Nat, skipped : Nat, chunks : Nat]
        /\ Skip(stats[r]).chunks = stats[r].chunks
    BY <1>0, TallyType
  <2>3. Tally(Skip(stats[r]), 0).chunks = Skip(stats[r]).chunks + 0
    BY <2>2, TallyType
  <2>4. stats'[r].chunks = stats[r].chunks
    BY <1>0, <2>1, <2>2, <2>3
  <2> QED BY <2>1, <2>4, BatchRests DEF batchVars
<1>3. CASE IndexFile(r)
  <2> DEFINE chunks == ChunksOf(Current(r))
  <2>1. Current(r) \in Files /\ Readable(Current(r))
    BY <1>0, <1>3, CurrentLeft DEF IndexFile
  <2>2. chunks \in Seq(Chunk) /\ Len(chunks) \in Nat
    BY <1>0, <2>1, Chunks
  <2>3. /\ stats'[r] = Tally(stats[r], Len(chunks)) /\ pending'[r] = pending[r] \o chunks
        /\ pc[r] = "files" /\ pc'[r] \in {"embed", "report"}
        /\ UNCHANGED <<vectors, stored, dropped>>
    BY <1>0, <1>3 DEF IndexFile, Goto, TypeOK
  <2> HIDE DEF chunks
  <2>4. stats'[r].chunks = stats[r].chunks + Len(chunks)
    BY <1>0, <2>2, <2>3, TallyType
  <2>5. pending[r] \in Seq(Chunk) /\ Len(pending'[r]) = Len(pending[r]) + Len(chunks)
    BY <1>0, <2>2, <2>3, Joined DEF TypeOK
  <2>6. stats'[r].chunks = Len(pending'[r]) + Len(vectors'[r]) + stored'[r] + dropped'[r]
    <3>1. /\ Len(vectors'[r]) = Len(vectors[r]) /\ stored'[r] = stored[r]
          /\ dropped'[r] = dropped[r]
      BY <2>3
    <3>2. PICK k \in Nat : k = Len(chunks)
      BY <2>2
    <3>3. stats'[r].chunks = stats[r].chunks + k /\ Len(pending'[r]) = Len(pending[r]) + k
      BY <2>4, <2>5, <3>2
    <3>4. PICK a \in Nat, b \in Nat, c \in Nat, d \in Nat :
             a = Len(pending[r]) /\ b = Len(vectors[r]) /\ c = stored[r] /\ d = dropped[r]
      BY <1>0
    <3>5. stats[r].chunks = a + b + c + d
      BY <1>s, <3>4
    <3>6. stats'[r].chunks = (a + b + c + d) + k
      BY <3>3, <3>5
    <3>7. (a + b + c + d) + k = (a + k) + b + c + d
      OBVIOUS
    <3>8. (a + k) + b + c + d = Len(pending'[r]) + Len(vectors'[r]) + stored'[r] + dropped'[r]
      BY <3>1, <3>3, <3>4
    <3> QED BY <3>6, <3>7, <3>8
  <2> QED BY <1>0, <2>3, <2>6 DEF BatchOK
<1>4. CASE ReportFile(r)
  <2>1. pc[r] = "report" /\ pc'[r] = "files" /\ UNCHANGED <<batchVars, stats>>
    BY <1>0, <1>4 DEF ReportFile, Goto, TypeOK
  <2> QED BY <2>1, BatchRests DEF batchVars
<1>5. CASE EndLoop(r)
  <2>1. /\ pc[r] = "files" /\ pc'[r] = IF pending[r] = <<>> THEN "finish" ELSE "embed"
        /\ UNCHANGED <<batchVars, stats>>
    BY <1>0, <1>5 DEF EndLoop, Goto, TypeOK
  <2> QED BY <2>1, BatchRests DEF batchVars
<1> QED BY <1>1, <1>2, <1>3, <1>4, <1>5 DEF Loop

\* What a flush does to the chunks of a run.
LEMMA EmbedBatchStep ==
    ASSUME IndexInv, NEW r \in Runs, Embed(r)
    PROVE  BatchOK(r)'
<1>0. /\ TypeOK /\ BatchOK(r)
      /\ pending[r] \in Seq(Chunk) /\ Len(pending[r]) \in Nat
      /\ vectors[r] \in Seq(Chunk) /\ Len(vectors[r]) \in Nat
      /\ stored[r] \in Nat /\ dropped[r] \in Nat
      /\ stats[r] \in [files : Nat, skipped : Nat, chunks : Nat]
  BY BatchNumbers
<1>n. Len(<<>>) = 0
  BY EmptySeq
<1>s. stats[r].chunks = Len(pending[r]) + Len(vectors[r]) + stored[r] + dropped[r]
  BY <1>0 DEF BatchOK
<1>1. PICK n \in 0..Len(pending[r]) :
         /\ vectors'[r] = SubSeq(pending[r], 1, n)
         /\ dropped'[r] = dropped[r] + (Len(pending[r]) - n)
         /\ pc'[r] = IF n = 0 THEN AfterFlush(r) ELSE "upsert"
  BY <1>0 DEF Embed, Goto, TypeOK
<1>2. pending'[r] = <<>> /\ stored'[r] = stored[r] /\ stats'[r] = stats[r]
  BY <1>0 DEF Embed, TypeOK
<1>3. Len(vectors'[r]) = n /\ vectors'[r] \in Seq(Chunk)
  BY <1>0, <1>1, Cut
<1>4. n = 0 => vectors'[r] = <<>>
  BY <1>3, EmptySeq
<1>5. vectors[r] = <<>> /\ stats[r].chunks = Len(pending[r]) + stored[r] + dropped[r]
  <2>1. pc[r] = "embed"
    BY DEF Embed
  <2>2. vectors[r] = <<>>
    BY <1>0, <2>1 DEF BatchOK
  <2> QED BY <1>0, <1>n, <1>s, <2>2
<1>6. stats'[r].chunks = Len(pending'[r]) + Len(vectors'[r]) + stored'[r] + dropped'[r]
  <2>1. Len(pending'[r]) = 0 /\ stored'[r] = stored[r] /\ stats'[r].chunks = stats[r].chunks
    BY <1>2, <1>n
  <2>2. Len(vectors'[r]) = n /\ n \in Nat /\ dropped'[r] = dropped[r] + (Len(pending[r]) - n)
    BY <1>0, <1>1, <1>3
  <2> QED BY <1>0, <1>5, <2>1, <2>2
<1> QED BY <1>1, <1>2, <1>4, <1>6 DEF BatchOK, AfterFlush

LEMMA UpsertBatchStep ==
    ASSUME IndexInv, NEW r \in Runs, Upsert(r)
    PROVE  BatchOK(r)'
<1> DEFINE n == IF Len(vectors[r]) < UpsertBatch THEN Len(vectors[r]) ELSE UpsertBatch
           rest == SubSeq(vectors[r], n + 1, Len(vectors[r]))
<1>0. /\ TypeOK /\ BatchOK(r)
      /\ pending[r] \in Seq(Chunk) /\ Len(pending[r]) \in Nat
      /\ vectors[r] \in Seq(Chunk) /\ Len(vectors[r]) \in Nat
      /\ stored[r] \in Nat /\ dropped[r] \in Nat
      /\ stats[r] \in [files : Nat, skipped : Nat, chunks : Nat]
  BY BatchNumbers
<1>n. Len(<<>>) = 0
  BY EmptySeq
<1>s. stats[r].chunks = Len(pending[r]) + Len(vectors[r]) + stored[r] + dropped[r]
  BY <1>0 DEF BatchOK
<1>1. n \in 0..Len(vectors[r])
  BY <1>0, ConstantsAssumption
<1>2. rest \in Seq(Chunk) /\ Len(rest) = Len(vectors[r]) - n
  BY <1>0, <1>1, Cut
<1>3. /\ vectors'[r] = rest
      /\ pc'[r] = IF n = Len(vectors[r]) THEN AfterFlush(r) ELSE "upsert"
      /\ pc[r] = "upsert" /\ UNCHANGED <<pending, stats>>
  BY <1>0 DEF Upsert, Goto, TypeOK
<1>4. \/ stored'[r] = stored[r] + n /\ dropped'[r] = dropped[r]
      \/ stored'[r] = stored[r] /\ dropped'[r] = dropped[r] + n
  BY <1>0 DEF Upsert, TypeOK
<1> HIDE DEF n, rest
<1>5. n = Len(vectors[r]) => rest = <<>>
  BY <1>1, <1>2, EmptySeq
<1>6. pending[r] = <<>> /\ stats[r].chunks = Len(vectors[r]) + stored[r] + dropped[r]
  <2>1. pending[r] = <<>>
    BY <1>0, <1>3 DEF BatchOK
  <2> QED BY <2>1, <1>0, <1>n, <1>s
<1>7. stats'[r].chunks = Len(pending'[r]) + Len(vectors'[r]) + stored'[r] + dropped'[r]
  BY <1>1, <1>2, <1>3, <1>4, <1>6, <1>0, <1>n, <1>s, SMTT(60)
<1> QED BY <1>3, <1>5, <1>6, <1>7 DEF BatchOK, AfterFlush

LEMMA EndBatch ==
    ASSUME IndexInv, NEW r \in Runs, End(r)
    PROVE  BatchOK(r)'
<1>0. /\ TypeOK /\ BatchOK(r)
      /\ pending[r] \in Seq(Chunk) /\ Len(pending[r]) \in Nat
      /\ vectors[r] \in Seq(Chunk) /\ Len(vectors[r]) \in Nat
      /\ stored[r] \in Nat /\ dropped[r] \in Nat
      /\ stats[r] \in [files : Nat, skipped : Nat, chunks : Nat]
  BY BatchNumbers
<1>n. Len(<<>>) = 0
  BY EmptySeq
<1>s. stats[r].chunks = Len(pending[r]) + Len(vectors[r]) + stored[r] + dropped[r]
  BY <1>0 DEF BatchOK
<1>1. CASE Finish(r)
  <2>1. pc[r] = "finish" /\ UNCHANGED <<batchVars, stats>>
    BY <1>1 DEF Finish
  <2> QED BY <2>1, BatchRests DEF batchVars, IndexInv, BatchOK
<1>2. CASE Abort(r)
  <2>1. /\ pc[r] \in {"open", "walk", "hashes", "files"} /\ pc'[r] = "returned"
        /\ pending'[r] = <<>> /\ dropped'[r] = dropped[r] + Len(pending[r])
        /\ UNCHANGED <<vectors, stored, stats>>
    BY <1>0, <1>2 DEF Abort, Goto, TypeOK
  <2>2. vectors[r] = <<>>
    BY <1>0, <2>1 DEF BatchOK
  <2>3. stats[r].chunks = Len(pending[r]) + stored[r] + dropped[r]
    BY <1>0, <1>n, <1>s, <2>2
  <2>4. stats'[r].chunks = Len(pending'[r]) + Len(vectors'[r]) + stored'[r] + dropped'[r]
    BY <2>1, <2>2, <2>3, <1>0, <1>n, <1>s
  <2> QED BY <2>1, <2>2, <2>4 DEF BatchOK
<1> QED BY <1>1, <1>2 DEF End

-----------------------------------------------------------------------------
(* What the store holds, and what a run remembers of it. *)

\* Points are added, never removed, and the first of a path is one of them.
LEMMA InsertKeeps ==
    ASSUME TypeOK, HashesHeld, NEW points, points \subseteq Chunk, Insert(points)
    PROVE  /\ \A f \in Files : held[f] \subseteq held'[f]
           /\ \A f \in Files : first'[f] # NoHash => first'[f] \in held'[f]
           /\ \A q \in points : q.body \in held'[q.path]
<1> DEFINE new == [f \in Files |-> {p.body : p \in {q \in points : q.path = f}}]
<1>1. /\ held' = [f \in Files |-> held[f] \union new[f]]
      /\ \A f \in Files : IF new[f] = {} THEN first'[f] = first[f]
                                         ELSE first'[f] \in (new[f] \union {first[f]}) \ {NoHash}
  BY DEF Insert
<1>2. \A q \in points : q.path \in Files /\ q.body \in new[q.path]
  BY DEF Chunk
<1> HIDE DEF new
<1>3. \A f \in Files : held'[f] = held[f] \union new[f]
  BY <1>1
<1>4. \A f \in Files : first'[f] # NoHash => first'[f] \in held'[f]
  BY <1>1, <1>3 DEF HashesHeld
<1> QED BY <1>2, <1>3, <1>4

\* The points a request to Qdrant takes from the waiting vectors.
LEMMA UpsertInserts ==
    ASSUME TypeOK, NEW r \in Runs, Upsert(r)
    PROVE  \/ UNCHANGED qdrantVars /\ clean'[r] = FALSE
           \/ \E batch \in SUBSET Chunk :
                 /\ Insert(batch)
                 /\ BodiesOf(vectors[r]) = batch \union BodiesOf(vectors'[r])
<1> DEFINE n == IF Len(vectors[r]) < UpsertBatch THEN Len(vectors[r]) ELSE UpsertBatch
           batch == SubSeq(vectors[r], 1, n)
           rest == SubSeq(vectors[r], n + 1, Len(vectors[r]))
<1>0. vectors[r] \in Seq(Chunk)
  BY DEF TypeOK
<1>1. n \in 0..Len(vectors[r])
  BY <1>0, ConstantsAssumption
<1>2. batch \in Seq(Chunk) /\ BodiesOf(vectors[r]) = BodiesOf(batch) \union BodiesOf(rest)
  BY <1>0, <1>1, Cut
<1>3. vectors'[r] = rest
  BY DEF Upsert, TypeOK
<1>4. \/ UNCHANGED qdrantVars /\ clean'[r] = FALSE
      \/ Insert(BodiesOf(batch))
  BY DEF Upsert, TypeOK
<1> HIDE DEF batch, rest
<1>5. BodiesOf(batch) \in SUBSET Chunk
  BY <1>2, ElementsOf
<1> QED BY <1>2, <1>3, <1>4, <1>5

\* Whatever happens, the store keeps what it holds.
LEMMA HeldGrows ==
    ASSUME IndexInv, Next
    PROVE  \A f \in Files : held[f] \subseteq held'[f]
<1>0. TypeOK /\ HashesHeld
  BY DEF IndexInv, LoopInv
<1>1. ASSUME NEW r \in Runs, Upsert(r)
      PROVE  \A f \in Files : held[f] \subseteq held'[f]
  BY <1>0, <1>1, UpsertInserts, InsertKeeps DEF qdrantVars
<1>2. ASSUME NEW r \in Runs, Prepare(r) \/ Loop(r) \/ Embed(r) \/ End(r)
      PROVE  held' = held
  BY <1>2 DEF Prepare, Start, OpenRepo, RepoUnavailable, Walk, ReadHashes, Loop, SkipUnreadable,
              SkipUnchanged, IndexFile, ReportFile, EndLoop, Embed, End, Finish, Abort, qdrantVars
<1>3. ASSUME Restart \/ \E f \in Files : Edit(f) PROVE held' = held
  BY <1>3 DEF Restart, Edit, qdrantVars
<1> QED BY <1>1, <1>2, <1>3 DEF Next, Flush

LEMMA HashesStep ==
    ASSUME IndexInv, Next
    PROVE  HashesHeld'
<1>0. TypeOK /\ HashesHeld
  BY DEF IndexInv, LoopInv
<1>1. ASSUME NEW r \in Runs, ReadHashes(r) PROVE HashesHeld'
  <2>1. /\ UNCHANGED qdrantVars
        /\ \A q \in Runs, f \in Files : known'[q][f] \in {known[q][f], first[f], NoHash}
    <3>1. PICK hashes :
             /\ known' = [known EXCEPT ![r] = hashes]
             /\ \A f \in Files : hashes[f] \in {first[f], NoHash}
      BY <1>1 DEF ReadHashes
    <3>2. UNCHANGED qdrantVars
      BY <1>1 DEF ReadHashes
    <3> QED BY <1>0, <3>1, <3>2 DEF TypeOK
  <2> QED BY <1>0, <2>1 DEF HashesHeld, qdrantVars
<1>2. ASSUME NEW r \in Runs, Upsert(r) PROVE HashesHeld'
  <2>1. UNCHANGED known
    BY <1>2 DEF Upsert, loopVars
  <2>2. \A f \in Files : held[f] \subseteq held'[f]
    BY HeldGrows
  <2>3. \A f \in Files : first'[f] # NoHash => first'[f] \in held'[f]
    BY <1>0, <1>2, UpsertInserts, InsertKeeps DEF qdrantVars, HashesHeld
  <2> QED BY <1>0, <2>1, <2>2, <2>3 DEF HashesHeld
<1>3. ASSUME UNCHANGED <<qdrantVars, known>> PROVE HashesHeld'
  BY <1>0, <1>3 DEF HashesHeld, qdrantVars
<1>4. ASSUME NEW r \in Runs, Prepare(r), ~ReadHashes(r) PROVE HashesHeld'
  BY <1>3, <1>4 DEF Prepare, Start, OpenRepo, RepoUnavailable, Walk, loopVars
<1>5. ASSUME NEW r \in Runs, Loop(r) PROVE HashesHeld'
  BY <1>3, <1>5 DEF Loop, SkipUnreadable, SkipUnchanged, IndexFile, ReportFile, EndLoop, NextFile, loopVars
<1>6. ASSUME NEW r \in Runs, Embed(r) \/ End(r) PROVE HashesHeld'
  BY <1>3, <1>6 DEF Embed, End, Finish, Abort, loopVars
<1>7. ASSUME Restart \/ \E f \in Files : Edit(f) PROVE HashesHeld'
  BY <1>3, <1>7 DEF Restart, Edit, loopVars
<1> QED BY <1>1, <1>2, <1>4, <1>5, <1>6, <1>7 DEF Next, Flush

-----------------------------------------------------------------------------
(* Coverage. *)

\* The chunks that are held or waiting stay so.
Carried(r) ==
    \A f \in Files, b \in Bodies :
        b \in held[f] \/ [path |-> f, body |-> b] \in Waiting(r)
            => b \in held'[f] \/ [path |-> f, body |-> b] \in Waiting(r)'

LEMMA CoveredCarried ==
    ASSUME TypeOK, NEW r \in Runs, NEW f \in Files, Readable(f), UNCHANGED tree,
           incremental'[r] = incremental[r], Carried(r), Covered(r, f)
    PROVE  Covered(r, f)' /\ Readable(f)'
<1>1. Needed(r, f) \subseteq Bodies
  BY Content DEF Needed
<1>2. Needed(r, f)' = Needed(r, f)
  BY DEF Needed, BodiesOf
<1>3. Readable(f)'
  BY DEF Readable
<1> QED BY <1>1, <1>2, <1>3 DEF Covered, Carried

\* A run that goes on with the same files covers them as before.
LEMMA CoverRests ==
    ASSUME IndexInv, NEW r \in Runs, UNCHANGED tree, Carried(r),
           incremental'[r] = incremental[r], scope'[r] = scope[r], todo'[r] = todo[r],
           clean'[r] => clean[r], pc[r] \in Walked,
           \/ pc'[r] = pc[r]
           \/ pc'[r] = "files"
           \/ pc[r] \in {"report", "embed", "upsert"} /\ pc'[r] \in {"report", "embed", "upsert"}
           \/ pc[r] \in {"files", "hashes"} /\ pc'[r] = "embed" /\ todo[r] = {}
           \/ todo[r] = {} /\ pc'[r] \in {"finish", "returned"}
    PROVE  CoverOK(r)'
<1>1. TypeOK /\ CoverOK(r)
  BY DEF IndexInv, LoopInv
<1>2. scope[r] \subseteq Files /\ Current(r)' = Current(r)
  BY <1>1 DEF TypeOK, Current
<1>3. \A f \in Files : Readable(f)' = Readable(f)
  BY DEF Readable
<1>4. ASSUME clean[r], NEW f \in scope[r], Readable(f), f \notin todo[r]
      PROVE  Covered(r, f)'
  BY <1>1, <1>2, <1>4, CoveredCarried DEF CoverOK
<1>5. ASSUME clean[r], pc[r] \in {"report", "embed", "upsert"}, todo[r] # {}
      PROVE  Readable(Current(r))' /\ Covered(r, Current(r))'
  <2>1. Readable(Current(r)) /\ Covered(r, Current(r)) /\ Current(r) \in Files
    BY <1>1, <1>5, CurrentLeft DEF CoverOK
  <2>2. PICK f \in Files : f = Current(r)
    BY <2>1
  <2>3. Covered(r, f)' /\ Readable(f)'
    BY <1>1, <2>1, <2>2, CoveredCarried
  <2>4. Current(r)' = f
    BY <1>2, <2>2
  <2> QED BY <2>3, <2>4 DEF Covered, Needed, Readable
<1> QED BY <1>1, <1>2, <1>3, <1>4, <1>5 DEF CoverOK

LEMMA CoverAway ==
    ASSUME NEW r \in Runs, clean'[r] = FALSE \/ pc'[r] \notin Walked
    PROVE  CoverOK(r)'
BY DEF CoverOK

LEMMA Carries ==
    ASSUME NEW r \in Runs, \A f \in Files : held[f] \subseteq held'[f],
           Waiting(r) \subseteq Waiting(r)'
    PROVE  Carried(r)
BY DEF Carried

LEMMA SameWaiting ==
    ASSUME NEW r \in Runs, pending'[r] = pending[r], vectors'[r] = vectors[r]
    PROVE  Waiting(r)' = Waiting(r)
BY DEF Waiting, BodiesOf

LEMMA PrepareCover ==
    ASSUME IndexInv, NEW r \in Runs, Prepare(r)
    PROVE  CoverOK(r)'
<1>0. TypeOK
  BY DEF IndexInv, LoopInv
<1>1. CASE Start(r) \/ OpenRepo(r)
  <2>1. pc'[r] \in {"open", "walk"}
    BY <1>0, <1>1 DEF Start, OpenRepo, Goto, TypeOK
  <2> QED BY <2>1, CoverAway DEF Walked
<1>2. CASE RepoUnavailable(r)
  BY <1>0, <1>2, CoverAway DEF RepoUnavailable, TypeOK
<1>3. CASE Walk(r)
  <2>1. /\ pc'[r] \in {"hashes", "files"} /\ scope'[r] = scope[r] /\ tree' = tree
        /\ todo'[r] = {f \in scope[r] : tree[f] # Gone}
    BY <1>0, <1>3 DEF Walk, Goto, TypeOK, requestVars
  <2> QED BY <2>1 DEF CoverOK, Readable
<1>4. CASE ReadHashes(r)
  <2>1. /\ pc[r] = "hashes" /\ pc'[r] = "files"
        /\ UNCHANGED <<tree, qdrantVars, requestVars, todo, batchVars, clean>>
    BY <1>0, <1>4 DEF ReadHashes, Goto, TypeOK
  <2>2. Carried(r)
    BY <2>1, Carries, SameWaiting DEF qdrantVars, batchVars
  <2> QED BY <2>1, <2>2, CoverRests DEF requestVars, Walked
<1> QED BY <1>1, <1>2, <1>3, <1>4 DEF Prepare

\* Leaving behind a file that is covered, or that is not to be indexed.
LEMMA NextFileCover ==
    ASSUME IndexInv, NEW r \in Runs, NextFile(r), todo[r] # {}, pc[r] \in {"files", "report"},
           pc'[r] = "files", UNCHANGED <<tree, qdrantVars, requestVars, batchVars, clean>>,
           Readable(Current(r)) /\ clean[r] => Covered(r, Current(r))
    PROVE  CoverOK(r)'
<1>0. TypeOK /\ CoverOK(r) /\ pc[r] \in Walked
  BY DEF IndexInv, LoopInv, Walked
<1>1. todo'[r] = todo[r] \ {Current(r)}
  BY <1>0 DEF NextFile, TypeOK
<1>2. Carried(r)
  BY Carries, SameWaiting DEF qdrantVars, batchVars
<1>3. ASSUME clean[r], NEW f \in scope[r], Readable(f), f \notin todo'[r]
      PROVE  Covered(r, f)'
  <2>1. f \in Files
    BY <1>0 DEF TypeOK
  <2>2. Covered(r, f)
    BY <1>0, <1>1, <1>3 DEF CoverOK
  <2> QED BY <1>0, <1>2, <1>3, <2>1, <2>2, CoveredCarried DEF requestVars
<1>4. \A f \in Files : Readable(f)' = Readable(f)
  BY DEF Readable
<1>5. scope'[r] \subseteq Files /\ scope'[r] = scope[r]
  BY <1>0 DEF TypeOK, requestVars
<1> QED BY <1>3, <1>4, <1>5 DEF CoverOK

LEMMA LoopCover ==
    ASSUME IndexInv, NEW r \in Runs, Loop(r)
    PROVE  CoverOK(r)'
<1>0. TypeOK /\ CoverOK(r)
  BY DEF IndexInv, LoopInv
<1>1. CASE SkipUnreadable(r)
  BY <1>0, <1>1, NextFileCover DEF SkipUnreadable
<1>2. CASE SkipUnchanged(r)
  <2>1. Current(r) \in Files /\ Readable(Current(r)) /\ Unchanged(r, Current(r))
    BY <1>0, <1>2, CurrentLeft DEF SkipUnchanged
  <2>2. PICK f \in Files : f = Current(r)
    BY <2>1
  <2>3. incremental[r] /\ known[r][f] = Head(tree[f]) /\ Head(tree[f]) \in Bodies
    BY <1>0, <2>1, <2>2, Content DEF Unchanged
  <2>4. Head(tree[f]) \in held[f]
    BY <2>3, ConstantsAssumption DEF IndexInv, HashesHeld
  <2>5. Covered(r, f)
    BY <2>3, <2>4 DEF Covered, Needed
  <2> QED BY <1>2, <2>2, <2>5, NextFileCover DEF SkipUnchanged
<1>3. CASE IndexFile(r)
  <2>1. Current(r) \in Files /\ Readable(Current(r))
    BY <1>0, <1>3, CurrentLeft DEF IndexFile
  <2>2. PICK f \in Files : f = Current(r) /\ Readable(f)
    BY <2>1
  <2>3. /\ pending'[r] = pending[r] \o ChunksOf(f) /\ pending[r] \in Seq(Chunk)
        /\ pc[r] = "files" /\ pc'[r] \in {"embed", "report"} /\ vectors'[r] = vectors[r]
        /\ UNCHANGED <<tree, qdrantVars, requestVars, loopVars, clean>>
    BY <1>0, <1>3, <2>2 DEF IndexFile, Goto, TypeOK
  <2>4. /\ ChunksOf(f) \in Seq(Chunk)
        /\ \A b \in BodiesOf(tree[f]) : [path |-> f, body |-> b] \in BodiesOf(ChunksOf(f))
    BY <1>0, <2>2, Chunks
  <2>5. BodiesOf(pending'[r]) = BodiesOf(pending[r]) \union BodiesOf(ChunksOf(f))
    BY <2>3, <2>4, Joined
  <2>6. Waiting(r)' = Waiting(r) \union BodiesOf(ChunksOf(f))
    BY <2>3, <2>5 DEF Waiting, BodiesOf
  <2>7. Carried(r)
    BY <2>3, <2>6, Carries DEF qdrantVars
  <2>8. Needed(r, f)' \subseteq BodiesOf(tree[f])
    BY <1>0, <2>2, <2>3, Content DEF Needed, requestVars
  <2>9. Covered(r, f)' /\ Readable(f)' /\ Current(r)' = f
    BY <2>2, <2>3, <2>4, <2>6, <2>8 DEF Covered, Readable, Current, loopVars
  <2>10. Covered(r, Current(r))' /\ Readable(Current(r))'
    BY <2>9 DEF Covered, Needed, Readable
  <2>11. ASSUME clean[r], NEW g \in scope[r], Readable(g), g \notin todo[r]
         PROVE  Covered(r, g)'
    BY <1>0, <2>3, <2>7, <2>11, CoveredCarried DEF CoverOK, TypeOK, requestVars, Walked
  <2>12. \A g \in Files : Readable(g)' = Readable(g)
    BY <2>3 DEF Readable
  <2>13. scope'[r] = scope[r] /\ scope[r] \subseteq Files /\ todo'[r] = todo[r] /\ clean'[r] = clean[r]
    BY <1>0, <2>3 DEF TypeOK, requestVars, loopVars
  <2> QED BY <2>3, <2>10, <2>11, <2>12, <2>13 DEF CoverOK
<1>4. CASE ReportFile(r)
  <2>0. pc[r] = "report" /\ todo[r] # {}
    BY <1>4 DEF ReportFile, IndexInv, LoopInv, ProgressOK
  <2>1. clean[r] => Covered(r, Current(r))
    BY <1>0, <2>0 DEF CoverOK, Walked
  <2>2. pc'[r] = "files"
    BY <1>0, <1>4 DEF ReportFile, Goto, TypeOK
  <2> QED BY <1>4, <2>0, <2>1, <2>2, NextFileCover DEF ReportFile
<1>5. CASE EndLoop(r)
  <2>1. /\ pc[r] = "files" /\ pc'[r] \in {"finish", "embed"} /\ todo[r] = {}
        /\ UNCHANGED <<tree, qdrantVars, requestVars, loopVars, batchVars, clean>>
    BY <1>0, <1>5 DEF EndLoop, Goto, TypeOK
  <2>2. Carried(r)
    BY <2>1, Carries, SameWaiting DEF qdrantVars, batchVars
  <2> QED BY <2>1, <2>2, CoverRests DEF requestVars, loopVars, Walked
<1> QED BY <1>1, <1>2, <1>3, <1>4, <1>5 DEF Loop

LEMMA EmbedCover ==
    ASSUME IndexInv, NEW r \in Runs, Embed(r)
    PROVE  CoverOK(r)'
<1>0. TypeOK /\ BatchOK(r) /\ pending[r] \in Seq(Chunk)
  BY BatchNumbers
<1>1. PICK n \in 0..Len(pending[r]) :
         /\ vectors'[r] = SubSeq(pending[r], 1, n)
         /\ n = Len(pending[r]) \/ clean'[r] = FALSE
         /\ clean'[r] => clean[r]
         /\ pc'[r] = "upsert" \/ pc'[r] = AfterFlush(r)
  BY <1>0 DEF Embed, Goto, TypeOK
<1>2. pc[r] = "embed" /\ UNCHANGED <<tree, qdrantVars, requestVars, loopVars>> /\ vectors[r] = <<>>
  BY <1>0 DEF Embed, BatchOK
<1>3. CASE clean'[r] = FALSE
  BY <1>3, CoverAway
<1>4. CASE n = Len(pending[r])
  <2>1. vectors'[r] = pending[r]
    BY <1>0, <1>1, <1>4, SubSeqFull
  <2>2. Waiting(r) \subseteq Waiting(r)'
    BY <1>2, <2>1 DEF Waiting, BodiesOf
  <2>3. Carried(r)
    BY <1>2, <2>2, Carries DEF qdrantVars
  <2>4. pc'[r] \in {"upsert", "report"} \/ (todo[r] = {} /\ pc'[r] = "finish")
    BY <1>1 DEF AfterFlush
  <2> QED BY <1>1, <1>2, <2>3, <2>4, CoverRests DEF requestVars, loopVars, Walked
<1> QED BY <1>1, <1>3, <1>4

LEMMA UpsertCover ==
    ASSUME IndexInv, NEW r \in Runs, Upsert(r)
    PROVE  CoverOK(r)'
<1>0. TypeOK /\ HashesHeld
  BY DEF IndexInv, LoopInv
<1>1. /\ pc[r] = "upsert" /\ (pc'[r] = "upsert" \/ pc'[r] = AfterFlush(r))
      /\ pending'[r] = pending[r] /\ (clean'[r] => clean[r])
      /\ UNCHANGED <<tree, requestVars, loopVars>>
  BY <1>0 DEF Upsert, Goto, TypeOK
<1>2. CASE clean'[r] = FALSE
  BY <1>2, CoverAway
<1>3. ASSUME NEW batch \in SUBSET Chunk, Insert(batch),
             BodiesOf(vectors[r]) = batch \union BodiesOf(vectors'[r])
      PROVE  CoverOK(r)'
  <2>1. /\ \A f \in Files : held[f] \subseteq held'[f]
        /\ \A q \in batch : q.body \in held'[q.path]
    BY <1>0, <1>3, InsertKeeps
  <2>2. ASSUME NEW f \in Files, NEW b \in Bodies, [path |-> f, body |-> b] \in Waiting(r)
        PROVE  b \in held'[f] \/ [path |-> f, body |-> b] \in Waiting(r)'
    <3>1. CASE [path |-> f, body |-> b] \in batch
      BY <2>1, <3>1
    <3>2. CASE [path |-> f, body |-> b] \in BodiesOf(pending[r]) \union BodiesOf(vectors'[r])
      BY <1>1, <3>2 DEF Waiting, BodiesOf
    <3> QED BY <1>3, <2>2, <3>1, <3>2 DEF Waiting
  <2>3. Carried(r)
    BY <2>1, <2>2 DEF Carried
  <2>4. pc'[r] \in {"upsert", "report"} \/ (todo[r] = {} /\ pc'[r] = "finish")
    BY <1>1 DEF AfterFlush
  <2> QED BY <1>1, <2>3, <2>4, CoverRests DEF requestVars, loopVars, Walked
<1> QED BY <1>0, <1>2, <1>3, UpsertInserts

LEMMA EndCover ==
    ASSUME IndexInv, NEW r \in Runs, End(r)
    PROVE  CoverOK(r)'
<1>0. TypeOK /\ CoverOK(r)
  BY DEF IndexInv, LoopInv
<1>1. CASE Finish(r)
  <2>1. /\ pc[r] = "finish" /\ pc'[r] = "returned"
        /\ UNCHANGED <<tree, qdrantVars, requestVars, loopVars, batchVars, clean>>
    BY <1>0, <1>1 DEF Finish, Goto, TypeOK
  <2>2. Carried(r)
    BY <2>1, Carries, SameWaiting DEF qdrantVars, batchVars
  <2>3. CASE ~clean[r]
    BY <1>0, <2>1, <2>3, CoverAway DEF TypeOK
  <2>4. CASE clean[r]
    <3>1. todo[r] = {}
      BY <1>0, <2>1, <2>4 DEF CoverOK, Walked
    <3> QED BY <2>1, <2>2, <3>1, CoverRests DEF requestVars, loopVars, Walked
  <2> QED BY <2>3, <2>4
<1>2. CASE Abort(r)
  BY <1>0, <1>2, CoverAway DEF Abort, TypeOK
<1> QED BY <1>1, <1>2 DEF End

\* A run that rests while another one, or the environment, steps.
LEMMA CoverOthers ==
    ASSUME IndexInv, Next, NEW r \in Runs, UNCHANGED tree, pc'[r] = pc[r],
           incremental'[r] = incremental[r], scope'[r] = scope[r], todo'[r] = todo[r],
           pending'[r] = pending[r], vectors'[r] = vectors[r], clean'[r] = clean[r]
    PROVE  CoverOK(r)'
<1>1. Carried(r)
  BY HeldGrows, SameWaiting, Carries
<1>2. CASE pc[r] \in Walked
  BY <1>1, <1>2, CoverRests
<1>3. CASE pc[r] \notin Walked
  BY <1>3, CoverAway
<1> QED BY <1>2, <1>3

-----------------------------------------------------------------------------
(* The theorems. *)

LEMMA TreeRests ==
    ASSUME NEW r \in Runs, Prepare(r) \/ Loop(r) \/ Flush(r) \/ End(r)
    PROVE  UNCHANGED tree
BY DEF Prepare, Start, OpenRepo, RepoUnavailable, Walk, ReadHashes, Loop, SkipUnreadable,
       SkipUnchanged, IndexFile, ReportFile, EndLoop, Flush, Embed, Upsert, End, Finish, Abort

LEMMA IndexStep ==
    ASSUME IndexInv, Next
    PROVE  IndexInv'
<1>0. TypeOK /\ LoopInv
  BY DEF IndexInv, LoopInv
<1>1. LoopInv' /\ HashesHeld'
  BY <1>0, LoopStep, HashesStep
<1>2. ASSUME NEW r \in Runs, Prepare(r) \/ Loop(r) \/ Flush(r) \/ End(r), NEW q \in Runs
      PROVE  BatchOK(q)' /\ CoverOK(q)'
  <2>1. CASE q = r
    <3>1. BatchOK(r)'
      BY <1>2, PrepareBatch, LoopBatch, EmbedBatchStep, UpsertBatchStep, EndBatch DEF Flush
    <3>2. CoverOK(r)'
      BY <1>2, PrepareCover, LoopCover, EmbedCover, UpsertCover, EndCover DEF Flush
    <3> QED BY <2>1, <3>1, <3>2
  <2>2. CASE q # r
    <3>1. /\ pc'[q] = pc[q] /\ incremental'[q] = incremental[q] /\ scope'[q] = scope[q]
          /\ todo'[q] = todo[q] /\ pending'[q] = pending[q] /\ vectors'[q] = vectors[q]
          /\ stats'[q] = stats[q] /\ stored'[q] = stored[q] /\ dropped'[q] = dropped[q]
          /\ clean'[q] = clean[q]
      BY <1>0, <1>2, <2>2, OthersRest
    <3>2. BatchOK(q)'
      BY <3>1, BatchRests
    <3>3. CoverOK(q)'
      BY <1>2, <3>1, CoverOthers, TreeRests
    <3> QED BY <3>2, <3>3
  <2> QED BY <2>1, <2>2
<1>3. ASSUME Restart, NEW q \in Runs
      PROVE  BatchOK(q)' /\ CoverOK(q)'
  <2>1. /\ pc'[q] = pc[q] \/ pc'[q] = "dead"
        /\ UNCHANGED <<tree, qdrantVars, requestVars, loopVars, batchVars, stats, clean>>
    BY <1>0, <1>3 DEF Restart, TypeOK
  <2>2. BatchOK(q)'
    BY <2>1, BatchRests DEF batchVars
  <2>3. CASE pc'[q] = "dead"
    <3>1. pc'[q] \notin Walked
      BY <2>3 DEF Walked
    <3> QED BY <2>2, <3>1, CoverAway
  <2>4. CASE pc'[q] = pc[q]
    <3>1. /\ incremental'[q] = incremental[q] /\ scope'[q] = scope[q] /\ todo'[q] = todo[q]
          /\ pending'[q] = pending[q] /\ vectors'[q] = vectors[q] /\ clean'[q] = clean[q]
          /\ UNCHANGED tree
      BY <2>1 DEF requestVars, loopVars, batchVars
    <3> QED BY <2>2, <2>4, <3>1, CoverOthers
  <2> QED BY <2>1, <2>2, <2>3, <2>4
<1>4. ASSUME NEW f \in Files, Edit(f), NEW q \in Runs
      PROVE  BatchOK(q)' /\ CoverOK(q)'
  <2>1. /\ UNCHANGED <<pc, batchVars, stats>>
        /\ clean'[q] = (clean[q] /\ pc[q] \notin Walked)
    BY <1>4 DEF Edit
  <2>2. BatchOK(q)'
    BY <2>1, BatchRests DEF batchVars
  <2>3. CoverOK(q)'
    BY <2>1 DEF CoverOK
  <2> QED BY <2>2, <2>3
<1> QED BY <1>1, <1>2, <1>3, <1>4 DEF IndexInv, Next

LEMMA IndexStutter == IndexInv /\ UNCHANGED vars => IndexInv'
<1> SUFFICES ASSUME IndexInv, UNCHANGED vars PROVE IndexInv'
  OBVIOUS
<1>1. LoopInv'
  BY LoopStutter DEF IndexInv
<1>2. HashesHeld'
  BY DEF IndexInv, HashesHeld, vars, qdrantVars, loopVars
<1>3. ASSUME NEW r \in Runs PROVE BatchOK(r)' /\ CoverOK(r)'
  <2>1. BatchOK(r)'
    BY BatchRests DEF vars, batchVars
  <2>a. /\ incremental'[r] = incremental[r] /\ scope'[r] = scope[r] /\ todo'[r] = todo[r]
        /\ pending'[r] = pending[r] /\ vectors'[r] = vectors[r] /\ clean'[r] = clean[r]
        /\ pc'[r] = pc[r] /\ tree' = tree /\ held' = held
    BY DEF vars, qdrantVars, requestVars, loopVars, batchVars
  <2>b. Carried(r)
    BY <2>a, SameWaiting, Carries
  <2>2. CASE pc[r] \in Walked
    BY <2>1, <2>2, <2>a, <2>b, CoverRests
  <2>3. CASE pc[r] \notin Walked
    BY <2>1, <2>3, <2>a, CoverAway
  <2> QED BY <2>1, <2>2, <2>3
<1> QED BY <1>1, <1>2, <1>3 DEF IndexInv

\* The inductive invariant: where the chunks of a run are, that remembered
\* hashes are of chunks held, and what a run still owes the store.
THEOREM IndexCorrect == Spec => []IndexInv
<1>1. Init => IndexInv
  BY IndexInit
<1>2. IndexInv /\ [Next]_vars => IndexInv'
  BY IndexStep, IndexStutter
<1> QED BY <1>1, <1>2, PTL DEF Spec

\* For any batch sizes and any failures, the chunks a run counts are waiting,
\* stored or lost, once each, and none waits when it returns (ingest, _flush).
THEOREM EveryChunkAccounted == Spec => []ChunksAccounted
<1>1. IndexInv => ChunksAccounted
  BY DEF IndexInv, BatchOK, ChunksAccounted
<1> QED BY <1>1, IndexCorrect, PTL

\* A run that returned waits for nothing and has left every file behind.
LEMMA CompleteCovers ==
    ASSUME IndexInv, NEW r \in Runs, Complete(r), NEW f \in scope[r], Readable(f)
    PROVE  \A b \in Needed(r, f) : b \in held[f]
<1>1. CoverOK(r) /\ BatchOK(r) /\ pc[r] = "returned" /\ clean[r]
  BY DEF IndexInv, Complete
<1>2. pending[r] = <<>> /\ vectors[r] = <<>>
  BY <1>1 DEF BatchOK
<1>3. Waiting(r) = {}
  BY <1>2 DEF Waiting, BodiesOf
<1>4. Covered(r, f)
  BY <1>1 DEF CoverOK, Walked
<1> QED BY <1>3, <1>4 DEF Covered

\* A full run that lost nothing leaves every chunk of its files in the store,
\* for any number of overlapping runs, whatever went wrong in the others
\* (ingest with incremental = False).
THEOREM FullRunsCover == Spec => []FullRunCovers
<1>1. IndexInv => FullRunCovers
  BY CompleteCovers DEF FullRunCovers, Needed
<1> QED BY <1>1, IndexCorrect, PTL

\* An incremental run that lost nothing finds or stores the first chunk of
\* each of its files (ingest, _unchanged).
THEOREM IncrementalRunsFindFirst == Spec => []IncrementalRunFindsFirst
<1>1. ASSUME IndexInv, NEW r \in Runs, Complete(r), NEW f \in scope[r], Readable(f)
      PROVE  Head(tree[f]) \in held[f]
  <2>1. f \in Files /\ TypeOK
    BY <1>1 DEF IndexInv, LoopInv, TypeOK
  <2>2. Head(tree[f]) \in Needed(r, f)
    BY <1>1, <2>1, Content DEF Needed
  <2> QED BY <1>1, <2>2, CompleteCovers
<1>2. IndexInv => IncrementalRunFindsFirst
  BY <1>1 DEF IncrementalRunFindsFirst
<1> QED BY <1>2, IndexCorrect, PTL

=============================================================================
