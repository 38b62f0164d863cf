------------------------- MODULE TraceStore_proofs --------------------------
(***************************************************************************)
(* What lists of traces rest on, and that scores are never taken back, for *)
(* every set of requests, every bound and whichever Redis commands fail;   *)
(* and that scores are what they claim, for every dataset, every answer    *)
(* and whatever the judge replies.                                         *)
(***************************************************************************)
EXTENDS MCTraces, FiniteSetTheorems, SequenceTheorems, WellFoundedInduction, TLAPS

\* What r has done: its id is pushed after its record is set, and once; what
\* it is about to write over its record takes nothing back.
ThreadOK(r) ==
    /\ pc[r] \in {"running", "persist", "set"} => records[r] = None
    /\ pc[r] \in {"lrem", "lpush", "trim"} => records[r] # None
    /\ pc[r] \in {"running", "persist", "set", "lrem", "lpush"} => r \notin Range(pushed)
    /\ r \in Range(pushed) => records[r] # None \/ r \in expired
    /\ pc[r] = "eval_set" => \A n \in Names : mem[r][n] = "metrics"
    /\ pc[r] = "score_set" =>
          /\ records[r] # None
          /\ \A n \in Names : mem[r][n] = "metrics" \/ mem[r][n] = records[r][n]

\* The index repeats the end of pushed, newest first.
IndexOK ==
    /\ Len(index) <= Len(pushed)
    /\ \A i \in 1..Len(index) : index[i] = pushed[Len(pushed) - i + 1]
    /\ Len(index) >= Len(pushed) \/ Len(index) >= MaxTraces

\* r was pushed before the other.
Older(r, other) ==
    \E a, b \in 1..Len(pushed) : b < a /\ pushed[a] = other /\ pushed[b] = r

Entry == [id : Requests, scores : Scores]

\* What a reader has shown is newer than what it still has to look up.
ReaderOK ==
    /\ Len(reader.out) <= Limit
    /\ \A i, j \in 1..Len(reader.out) : i < j => Older(reader.out[j].id, reader.out[i].id)
    /\ \A i, j \in 1..Len(reader.ids) : i < j => Older(reader.ids[j], reader.ids[i])
    /\ \A i \in 1..Len(reader.out), j \in 1..Len(reader.ids) : Older(reader.ids[j], reader.out[i].id)

\* TypeOK, and the sequences.
Types ==
    /\ TypeOK
    /\ index \in Seq(Requests) /\ evals \in Seq(Requests) /\ pushed \in Seq(Requests)
    /\ reader \in [at : {"idle", "get"}, want : Filters \union {None},
                   ids : Seq(Requests), out : Seq(Entry)]

TraceInv ==
    /\ Types
    /\ \A r \in Requests : ThreadOK(r)
    /\ IndexOK
    /\ IndexBounded
    /\ ReaderOK

-----------------------------------------------------------------------------
(* Sequences. *)

LEMMA RangeIs ==
    ASSUME NEW S, NEW s \in Seq(S)
    PROVE  /\ Range(s) \subseteq S
           /\ \A x : x \in Range(s) <=> \E i \in 1..Len(s) : s[i] = x
<1>1. DOMAIN s = 1..Len(s) /\ \A i \in 1..Len(s) : s[i] \in S
  BY LenProperties, ElementOfSeq
<1> QED
  BY <1>1 DEF Range

LEMMA UptoIs ==
    ASSUME NEW S, NEW s \in Seq(S), NEW n \in Nat
    PROVE  /\ Upto(n, s) \in Seq(S)
           /\ Len(Upto(n, s)) = IF Len(s) < n + 1 THEN Len(s) ELSE n + 1
           /\ \A i \in 1..Len(Upto(n, s)) : Upto(n, s)[i] = s[i]
<1> DEFINE m == IF Len(s) < n + 1 THEN Len(s) ELSE n + 1
<1>1. Len(s) \in Nat /\ m \in Nat /\ m <= Len(s) /\ Upto(n, s) = SubSeq(s, 1, m)
  BY LenProperties DEF Upto
<1>2. \A i \in 1..m : s[i] \in S
  BY <1>1, ElementOfSeq
<1> HIDE DEF m
<1>3. /\ SubSeq(s, 1, m) \in Seq(S)
      /\ Len(SubSeq(s, 1, m)) = IF 1 <= m THEN m - 1 + 1 ELSE 0
      /\ \A i \in 1..(m - 1 + 1) : SubSeq(s, 1, m)[i] = s[1 + i - 1]
  BY <1>1, <1>2, SubSeqProperties
<1>4. Len(SubSeq(s, 1, m)) = m /\ \A i \in 1..m : SubSeq(s, 1, m)[i] = s[i]
  BY <1>1, <1>3
<1> QED
  BY <1>1, <1>3, <1>4 DEF m

LEMMA PushIs ==
    ASSUME NEW S, NEW s \in Seq(S), NEW x \in S
    PROVE  /\ <<x>> \o s \in Seq(S)
           /\ Len(<<x>> \o s) = Len(s) + 1
           /\ \A i \in 1..(Len(s) + 1) : (<<x>> \o s)[i] = IF i = 1 THEN x ELSE s[i - 1]
<1>1. <<x>> \in Seq(S) /\ Len(<<x>>) = 1 /\ <<x>>[1] = x /\ Len(s) \in Nat
  BY LenProperties
<1> QED
  BY <1>1, ConcatProperties

LEMMA AppendIs ==
    ASSUME NEW S, NEW s \in Seq(S), NEW x \in S
    PROVE  /\ Append(s, x) \in Seq(S)
           /\ Len(Append(s, x)) = Len(s) + 1
           /\ \A i \in 1..(Len(s) + 1) : Append(s, x)[i] = IF i <= Len(s) THEN s[i] ELSE x
  BY AppendProperties, LenProperties

-----------------------------------------------------------------------------
(* Types. *)

LEMMA ScoresAre ==
    /\ Unscored \in Scores /\ Judged \in Scores
    /\ \A x \in Scores : x # None
    /\ \A x \in Scores : \A merged : [n \in Names |-> IF n \in merged THEN "metrics" ELSE x[n]] \in Scores
  BY NoneAssumption DEF Unscored, Judged, Scores, Names, Writers, Metrics

\* A command of a thread leaves its types alone, whether it fails or not, if
\* it goes on to a step.
LEMMA FaultTypes ==
    ASSUME Types, NEW r \in Requests, NEW next \in Steps, Fault(r, next)
    PROVE  Types'
  BY ConstantsAssumption DEF Types, TypeOK, Fault, Goto, Connection, Redis, History

LEMMA NextSteps ==
    ASSUME NEW r
    PROVE  AfterPersist(r) \in {"eval_load", "done"} /\ AfterPersist(r) \in Steps
  BY DEF AfterPersist, Steps

LEMMA SetTypes ==
    ASSUME Types, NEW r \in Requests, NEW step, NEW next \in Steps, NEW failed \in Steps,
           SetRecord(r, step, next, failed)
    PROVE  Types'
<1>1. CASE Fault(r, failed)
  BY <1>1, FaultTypes
<1>2. CASE /\ records' = [records EXCEPT ![r] = mem[r]]
           /\ Goto(r, next)
           /\ UNCHANGED <<Connection, index, evals, mem, reader, faults, History>>
  BY <1>2 DEF Types, TypeOK, Goto, Connection, History
<1> QED
  BY <1>1, <1>2 DEF SetRecord

LEMMA LoadTypes ==
    ASSUME Types, NEW r \in Requests, NEW step, NEW merged, NEW next \in Steps, NEW missing \in Steps,
           LoadRecord(r, step, merged, next, missing)
    PROVE  Types'
<1>1. CASE Fault(r, missing)
  BY <1>1, FaultTypes
<1>2. CASE ~Fault(r, missing)
  <2>1. /\ Goto(r, IF client /\ records[r] # None THEN next ELSE missing)
        /\ UNCHANGED <<Connection, Redis, reader, faults, History>>
    BY <1>2 DEF LoadRecord
  <2>2. mem' \in [Requests -> Scores]
    <3>1. CASE client /\ records[r] # None
      <4> DEFINE m == [n \in Names |-> IF n \in merged THEN "metrics" ELSE records[r][n]]
      <4>1. m \in Scores
        BY <3>1, ScoresAre, ZenonT(60) DEF Types, TypeOK
      <4>2. mem' = [mem EXCEPT ![r] = m]
        BY <1>2, <3>1 DEF LoadRecord
      <4> HIDE DEF m
      <4> QED
        BY <4>1, <4>2 DEF Types, TypeOK
    <3>2. CASE ~(client /\ records[r] # None)
      BY <1>2, <3>2 DEF LoadRecord, Types, TypeOK
    <3> QED
      BY <3>1, <3>2
  <2> QED
    BY <2>1, <2>2 DEF Types, TypeOK, Goto, Connection, Redis, History
<1> QED
  BY <1>1, <1>2

\* The index stays where it is when the id to push is removed from it: it was
\* never pushed before.
LEMMA LremKeeps ==
    ASSUME Types, IndexOK, NEW r \in Requests, ThreadOK(r), Lrem(r)
    PROVE  index' = index
<1>1. /\ index \in Seq(Requests) /\ Len(index) \in Nat
      /\ pushed \in Seq(Requests) /\ Len(pushed) \in Nat
  BY LenProperties DEF Types
<1>2. r \notin Range(pushed)
  BY DEF ThreadOK, Lrem
<1>3. r \notin Range(index)
  <2> SUFFICES ASSUME r \in Range(index) PROVE FALSE
    OBVIOUS
  <2>1. PICK i \in 1..Len(index) : index[i] = r
    BY <1>1, RangeIs
  <2>2. Len(pushed) - i + 1 \in 1..Len(pushed) /\ pushed[Len(pushed) - i + 1] = r
    BY <1>1, <2>1 DEF IndexOK
  <2> QED
    BY <1>1, <1>2, <2>2, RangeIs
<1> QED
  BY <1>3 DEF Lrem, Fault, Redis

LEMMA PushKeepsApart ==
    ASSUME Types, NEW r \in Requests, r \notin Range(pushed)
    PROVE  IsInjective(Append(pushed, r))
<1> DEFINE p == Append(pushed, r)
<1>1. /\ p \in Seq(Requests) /\ Len(p) = Len(pushed) + 1 /\ Len(pushed) \in Nat
      /\ \A i \in 1..(Len(pushed) + 1) : p[i] = IF i <= Len(pushed) THEN pushed[i] ELSE r
  <2>1. pushed \in Seq(Requests)
    BY DEF Types
  <2> QED
    BY <2>1, AppendIs, LenProperties
<1>2. \A i \in 1..Len(pushed) : pushed[i] # r
  BY RangeIs DEF Types
<1>3. DOMAIN pushed = 1..Len(pushed) /\ DOMAIN p = 1..(Len(pushed) + 1)
  BY <1>1, LenProperties DEF Types
<1>4. \A i, j \in 1..Len(pushed) : pushed[i] = pushed[j] => i = j
  BY <1>3 DEF Types, TypeOK, IsInjective
<1> HIDE DEF p
<1>5. \A i, j \in 1..(Len(pushed) + 1) : p[i] = p[j] => i = j
  BY <1>1, <1>2, <1>4
<1> QED
  BY <1>3, <1>5 DEF IsInjective, p

LEMMA RequestTypes ==
    ASSUME TraceInv, NEW r \in Requests, Request(r)
    PROVE  Types'
<1>0. Types /\ ThreadOK(r) /\ IndexOK
  BY DEF TraceInv
<1> USE <1>0
<1>a. AfterPersist(r) \in Steps
  BY NextSteps
<1>1. CASE Finish(r)
  BY <1>1, ScoresAre DEF Finish, Goto, Types, TypeOK, Steps, Connection, Redis, History
<1>2. CASE Initialise(r)
  BY <1>2 DEF Initialise, Types, TypeOK, Redis, History
<1>3. CASE Persist(r)
  BY <1>3, <1>a DEF Persist, Goto, Types, TypeOK, Steps, Connection, Redis, History
<1>4. CASE \/ SetRecord(r, "set", "lrem", AfterPersist(r))
           \/ SetRecord(r, "eval_set", "evals_push", "evals_push")
           \/ SetRecord(r, "score_set", "done", "done")
  BY <1>4, <1>a, SetTypes DEF Steps
<1>5. CASE Lrem(r)
  <2>1. index' = index
    BY <1>5, LremKeeps
  <2>2. CASE Fault(r, AfterPersist(r))
    BY <1>a, <2>2, FaultTypes
  <2>3. CASE ~Fault(r, AfterPersist(r))
    BY <1>5, <2>1, <2>3 DEF Lrem, Goto, Types, TypeOK, Steps, Connection, History
  <2> QED
    BY <2>2, <2>3
<1>6. CASE Lpush(r)
  <2>1. CASE Fault(r, AfterPersist(r))
    BY <1>a, <2>1, FaultTypes
  <2>2. CASE ~Fault(r, AfterPersist(r))
    <3>1. index' = <<r>> \o index /\ pushed' = Append(pushed, r)
      BY <1>6, <2>2 DEF Lpush
    <3>2. index' \in Seq(Requests) /\ pushed' \in Seq(Requests)
      BY <3>1, PushIs, AppendIs DEF Types
    <3>3. IsInjective(pushed')
      BY <1>6, <3>1, PushKeepsApart DEF Lpush, ThreadOK
    <3>4. Range(index') \subseteq Requests
      BY <3>2, RangeIs
    <3>5. /\ pc' \in [Requests -> Steps]
          /\ UNCHANGED <<Connection, records, evals, mem, reader, faults, expired>>
      BY <1>6, <2>2 DEF Lpush, Goto, Types, TypeOK, Steps
    <3> QED
      BY <3>2, <3>3, <3>4, <3>5 DEF Types, TypeOK, Connection
  <2> QED
    BY <2>1, <2>2
<1>7. CASE Trim(r)
  <2>1. CASE Fault(r, AfterPersist(r))
    BY <1>a, <2>1, FaultTypes
  <2>2. CASE ~Fault(r, AfterPersist(r))
    <3>1. index' = Upto(MaxTraces - 1, index)
      BY <1>7, <2>2 DEF Trim, Trimmed
    <3>2. MaxTraces - 1 \in Nat
      BY ConstantsAssumption
    <3>3. index' \in Seq(Requests)
      BY <3>1, <3>2, UptoIs DEF Types
    <3>4. Range(index') \subseteq Requests
      BY <3>3, RangeIs
    <3>5. /\ pc' \in [Requests -> Steps]
          /\ UNCHANGED <<Connection, records, evals, mem, reader, faults, History>>
      BY <1>7, <1>a, <2>2 DEF Trim, Goto, Types, TypeOK
    <3> QED
      BY <3>3, <3>4, <3>5 DEF Types, TypeOK, Connection, History
  <2> QED
    BY <2>1, <2>2
<1>8. CASE EvalLoad(r) \/ ScoreLoad(r)
  BY <1>8, LoadTypes DEF EvalLoad, ScoreLoad, Steps
<1>9. CASE EvalsPush(r)
  <2>1. CASE Fault(r, "score_load")
    BY <2>1, FaultTypes DEF Steps
  <2>2. CASE ~Fault(r, "score_load")
    <3>1. evals' \in Seq(Requests)
      <4>1. <<r>> \o evals \in Seq(Requests)
        BY PushIs DEF Types
      <4> QED
        BY <1>9, <2>2, <4>1 DEF EvalsPush, Types
    <3>2. Range(evals') \subseteq Requests
      BY <3>1, RangeIs
    <3>3. /\ pc' \in [Requests -> Steps]
          /\ UNCHANGED <<Connection, records, index, mem, reader, faults, History>>
      BY <1>9, <2>2 DEF EvalsPush, Goto, Types, TypeOK, Steps
    <3> QED
      BY <3>1, <3>2, <3>3 DEF Types, TypeOK, Connection, History
  <2> QED
    BY <2>1, <2>2
<1>10. CASE EvalsTrim(r)
  <2>1. CASE Fault(r, "score_load")
    BY <2>1, FaultTypes DEF Steps
  <2>2. CASE ~Fault(r, "score_load")
    <3>1. evals' = Upto(MaxEvals - 1, evals) /\ MaxEvals - 1 \in Nat
      BY <1>10, <2>2, ConstantsAssumption DEF EvalsTrim
    <3>2. evals' \in Seq(Requests)
      BY <3>1, UptoIs DEF Types
    <3>3. Range(evals') \subseteq Requests
      BY <3>2, RangeIs
    <3>4. /\ pc' \in [Requests -> Steps]
          /\ UNCHANGED <<Connection, records, index, mem, reader, faults, History>>
      BY <1>10, <2>2 DEF EvalsTrim, Goto, Types, TypeOK, Steps
    <3> QED
      BY <3>2, <3>3, <3>4 DEF Types, TypeOK, Connection, History
  <2> QED
    BY <2>1, <2>2
<1> QED
  BY <1>1, <1>2, <1>3, <1>4, <1>5, <1>6, <1>7, <1>8, <1>9, <1>10 DEF Request

\* What a reader holds: ids it has to look up, entries it will show.
LEMMA ReaderTypes ==
    ASSUME Types, (\E want \in Filters : ListTraces(want)) \/ Get \/ Answer \/ ListFault
    PROVE  Types'
<1>0. /\ reader.ids \in Seq(Requests) /\ reader.out \in Seq(Entry)
      /\ reader.at \in {"idle", "get"} /\ reader.want \in Filters \union {None}
      /\ reader = [at |-> reader.at, want |-> reader.want, ids |-> reader.ids, out |-> reader.out]
  BY DEF Types
<1> DEFINE Reader == [at : {"idle", "get"}, want : Filters \union {None},
                      ids : Seq(Requests), out : Seq(Entry)]
<1>1. CASE \E want \in Filters : ListTraces(want)
  <2>1. Upto(3 * Limit, index) \in Seq(Requests)
    BY UptoIs, ConstantsAssumption DEF Types
  <2>2. <<>> \in Seq(Entry)
    BY EmptySeq
  <2>3. reader' \in Reader
    BY <1>1, <2>1, <2>2 DEF ListTraces
  <2> QED
    BY <1>1, <2>3 DEF ListTraces, Types, TypeOK, Connection, Redis, History
<1>2. CASE Get
  <2> DEFINE r == Head(reader.ids)
             shown == records[r] # None /\ reader.want \in {None, Workflow(r)}
             out == IF shown THEN Append(reader.out, [id |-> r, scores |-> records[r]]) ELSE reader.out
  <2>1. r \in Requests /\ Tail(reader.ids) \in Seq(Requests)
    BY <1>0, <1>2, HeadTailProperties DEF Get
  <2>2. out \in Seq(Entry)
    <3>1. ASSUME shown PROVE [id |-> r, scores |-> records[r]] \in Entry
      BY <2>1, <3>1 DEF Types, TypeOK, Entry
    <3> QED
      BY <1>0, <3>1, AppendIs
  <2>3. reader' = [reader EXCEPT !.ids = Tail(reader.ids), !.out = out]
    BY <1>2 DEF Get
  <2> HIDE DEF r, out
  <2>4. reader' \in Reader
    BY <1>0, <2>1, <2>2, <2>3
  <2> QED
    BY <1>2, <2>4 DEF Get, Types, TypeOK, Connection, Redis, History
<1>3. CASE Answer \/ ListFault
  <2>1. <<>> \in Seq(Requests) /\ <<>> \in Seq(Entry)
    BY EmptySeq
  <2>2. reader' \in Reader
    BY <1>0, <1>3, <2>1 DEF Answer, ListFault
  <2>3. faults' \in 0..MaxFaults
    BY <1>3, ConstantsAssumption DEF Answer, ListFault, Types, TypeOK
  <2> QED
    BY <1>3, <2>2, <2>3 DEF Answer, ListFault, Types, TypeOK, Connection, Redis, History
<1> QED
  BY <1>1, <1>2, <1>3

LEMMA TypesStep ==
    ASSUME TraceInv, [Next]_vars
    PROVE  Types'
<1>0. Types
  BY DEF TraceInv
<1>1. CASE Build \/ UNCHANGED vars
  BY <1>0, <1>1 DEF Build, Types, TypeOK, vars, Redis, History
<1>3. ASSUME NEW ok \in BOOLEAN, Ping(ok) PROVE Types'
  <2>1. faults' \in 0..MaxFaults
    BY <1>0, <1>3, ConstantsAssumption DEF Ping, Types, TypeOK
  <2>2. init' \in [at : {"no", "building", "pinging", "done"}, by : Requests \union {None}]
    BY <1>3 DEF Ping
  <2> QED
    BY <1>0, <1>3, <2>1, <2>2 DEF Ping, Types, TypeOK, Redis, History
<1>2. CASE \E r \in Requests : Expire(r)
  BY <1>0, <1>2 DEF Expire, Types, TypeOK, Connection
<1> QED
  BY <1>0, <1>1, <1>2, <1>3, RequestTypes, ReaderTypes DEF Next

-----------------------------------------------------------------------------
(* What each thread has done. *)

\* A step that leaves alone what ThreadOK(k) is about.
LEMMA ThreadKept ==
    ASSUME NEW k \in Requests, ThreadOK(k),
           pc'[k] = pc[k], mem'[k] = mem[k], records'[k] = records[k],
           k \in Range(pushed)' <=> k \in Range(pushed),
           expired \subseteq expired'
    PROVE  ThreadOK(k)'
  BY DEF ThreadOK

\* A step to where nothing is asked of the record.
LEMMA ThreadPast ==
    ASSUME NEW k \in Requests, ThreadOK(k),
           pc'[k] \in {"eval_load", "evals_push", "evals_trim", "score_load", "done"},
           records'[k] = None => records[k] = None,
           pushed' = pushed, expired' = expired
    PROVE  ThreadOK(k)'
  BY DEF ThreadOK

\* A thread touches its own record and its own id.
LEMMA OthersKept ==
    ASSUME Types, NEW r \in Requests, Request(r), NEW k \in Requests, k # r
    PROVE  /\ pc'[k] = pc[k] /\ mem'[k] = mem[k] /\ records'[k] = records[k]
           /\ k \in Range(pushed)' <=> k \in Range(pushed)
           /\ expired' = expired
<1> USE DEF Goto, Fault, Connection, Redis, History, Types, TypeOK
<1>1. CASE Lpush(r) /\ pushed' = Append(pushed, r)
  <2>1. pushed \in Seq(Requests) /\ Len(pushed) \in Nat
    BY LenProperties
  <2>2. /\ pushed' \in Seq(Requests) /\ Len(pushed') = Len(pushed) + 1
        /\ \A i \in 1..(Len(pushed) + 1) : pushed'[i] = IF i <= Len(pushed) THEN pushed[i] ELSE r
    BY <1>1, <2>1, AppendIs
  <2>3. k \in Range(pushed') <=> k \in Range(pushed)
    <3>1. ASSUME k \in Range(pushed') PROVE k \in Range(pushed)
      <4>1. PICK i \in 1..(Len(pushed) + 1) : pushed'[i] = k
        BY <2>2, <3>1, RangeIs
      <4>2. i \in 1..Len(pushed) /\ pushed[i] = k
        BY <2>1, <2>2, <4>1
      <4> QED
        BY <2>1, <4>2, RangeIs
    <3>2. ASSUME k \in Range(pushed) PROVE k \in Range(pushed')
      <4>1. PICK i \in 1..Len(pushed) : pushed[i] = k
        BY <2>1, <3>2, RangeIs
      <4>2. i \in 1..Len(pushed') /\ pushed'[i] = k
        BY <2>1, <2>2, <4>1
      <4> QED
        BY <2>2, <4>2, RangeIs
    <3> QED
      BY <3>1, <3>2
  <2> QED
    BY <1>1, <2>3 DEF Lpush
<1>2. CASE Lpush(r) /\ pushed' # Append(pushed, r)
  BY <1>2 DEF Lpush
<1>3. CASE Finish(r) \/ Initialise(r) \/ Persist(r)
  BY <1>3 DEF Finish, Initialise, Persist
<1>4. CASE \/ SetRecord(r, "set", "lrem", AfterPersist(r))
           \/ SetRecord(r, "eval_set", "evals_push", "evals_push")
           \/ SetRecord(r, "score_set", "done", "done")
  BY <1>4 DEF SetRecord
<1>5. CASE EvalLoad(r) \/ ScoreLoad(r)
  BY <1>5 DEF EvalLoad, ScoreLoad, LoadRecord
<1>6. CASE Lrem(r) \/ Trim(r) \/ EvalsPush(r) \/ EvalsTrim(r)
  BY <1>6 DEF Lrem, Trim, EvalsPush, EvalsTrim
<1> QED
  BY <1>1, <1>2, <1>3, <1>4, <1>5, <1>6 DEF Request

\* Its own steps.
LEMMA OwnStep ==
    ASSUME Types, NEW r \in Requests, ThreadOK(r), Request(r)
    PROVE  ThreadOK(r)'
<1> DEFINE Past == {"eval_load", "evals_push", "evals_trim", "score_load", "done"}
<1>0. /\ pc \in [Requests -> Steps] /\ records \in [Requests -> Scores \union {None}]
      /\ mem \in [Requests -> Scores] /\ mem[r] # None
  BY ScoresAre DEF Types, TypeOK
<1>a. AfterPersist(r) \in Past
  BY NextSteps
<1>f. ASSUME NEW next \in Past, Fault(r, next) PROVE ThreadOK(r)'
  <2>1. pc'[r] \in Past /\ UNCHANGED <<records, pushed, expired>>
    BY <1>0, <1>f DEF Fault, Goto, Redis, History
  <2> QED
    BY <2>1, ThreadPast
<1>1. CASE Finish(r) \/ Initialise(r)
  BY <1>0, <1>1 DEF Finish, Initialise, Goto, Redis, History, ThreadOK
<1>2. CASE Persist(r)
  <2>1. pc[r] = "persist" /\ pc'[r] \in Past \union {"set"} /\ UNCHANGED <<records, pushed, expired, mem>>
    BY <1>0, <1>2, <1>a DEF Persist, Goto, Redis, History
  <2>2. CASE pc'[r] = "set"
    BY <2>1, <2>2 DEF ThreadOK
  <2>3. CASE pc'[r] \in Past
    BY <2>1, <2>3, ThreadPast
  <2> QED
    BY <2>1, <2>2, <2>3
<1>3. CASE SetRecord(r, "set", "lrem", AfterPersist(r))
  <2>1. CASE Fault(r, AfterPersist(r))
    BY <1>a, <1>f, <2>1
  <2>2. CASE ~Fault(r, AfterPersist(r))
    <3>1. /\ pc[r] = "set" /\ pc'[r] = "lrem" /\ records'[r] # None
          /\ UNCHANGED <<pushed, expired, mem>>
      BY <1>0, <1>3, <2>2 DEF SetRecord, Goto, History
    <3> QED
      BY <3>1 DEF ThreadOK
  <2> QED
    BY <2>1, <2>2
<1>4. CASE \/ SetRecord(r, "eval_set", "evals_push", "evals_push")
           \/ SetRecord(r, "score_set", "done", "done")
  <2>1. pc'[r] \in Past
    BY <1>0, <1>4 DEF SetRecord, Fault, Goto
  <2>2. UNCHANGED <<pushed, expired>> /\ (records'[r] = None => records[r] = None)
    BY <1>0, <1>4 DEF SetRecord, Fault, Redis, History
  <2> QED
    BY <2>1, <2>2, ThreadPast
<1>5. CASE Lrem(r)
  <2>1. CASE Fault(r, AfterPersist(r))
    BY <1>a, <1>f, <2>1
  <2>2. CASE ~Fault(r, AfterPersist(r))
    <3>1. pc[r] = "lrem" /\ pc'[r] = "lpush" /\ UNCHANGED <<records, pushed, expired, mem>>
      BY <1>0, <1>5, <2>2 DEF Lrem, Goto, History
    <3> QED
      BY <3>1 DEF ThreadOK
  <2> QED
    BY <2>1, <2>2
<1>6. CASE Lpush(r)
  <2>1. CASE Fault(r, AfterPersist(r))
    BY <1>a, <1>f, <2>1
  <2>2. CASE ~Fault(r, AfterPersist(r))
    <3>1. pc[r] = "lpush" /\ pc'[r] = "trim" /\ UNCHANGED <<records, expired, mem>>
      BY <1>0, <1>6, <2>2 DEF Lpush, Goto
    <3> QED
      BY <3>1 DEF ThreadOK
  <2> QED
    BY <2>1, <2>2
<1>7. CASE Trim(r)
  <2>1. pc'[r] \in Past /\ UNCHANGED <<records, pushed, expired>>
    BY <1>0, <1>7, <1>a DEF Trim, Fault, Goto, Redis, History
  <2> QED
    BY <2>1, ThreadPast
<1>8. CASE EvalsPush(r) \/ EvalsTrim(r)
  <2>1. pc'[r] \in Past /\ UNCHANGED <<records, pushed, expired>>
    BY <1>0, <1>8 DEF EvalsPush, EvalsTrim, Fault, Goto, Redis, History
  <2> QED
    BY <2>1, ThreadPast
<1>9. ASSUME NEW step, NEW merged, NEW next, NEW missing \in Past, next \in {"eval_set", "score_set"},
             next = "eval_set" => merged = Names,
             LoadRecord(r, step, merged, next, missing)
      PROVE  ThreadOK(r)'
  <2>1. CASE Fault(r, missing)
    BY <1>f, <2>1
  <2>2. CASE ~Fault(r, missing)
    <3>1. /\ Goto(r, IF client /\ records[r] # None THEN next ELSE missing)
          /\ UNCHANGED <<records, pushed, expired>>
      BY <1>9, <2>2 DEF LoadRecord, Redis, History
    <3>2. CASE client /\ records[r] # None
      <4> DEFINE m == [n \in Names |-> IF n \in merged THEN "metrics" ELSE records[r][n]]
      <4>1. pc'[r] = next
        BY <1>0, <3>1, <3>2 DEF Goto
      <4>2. mem' = [mem EXCEPT ![r] = m]
        BY <1>9, <2>2, <3>2 DEF LoadRecord
      <4>3. mem'[r] = m
        <5> HIDE DEF m
        <5> QED
          BY <1>0, <4>2
      <4>4. \A n \in Names : mem'[r][n] = "metrics" \/ mem'[r][n] = records[r][n]
        BY <4>3
      <4>5. next = "eval_set" => \A n \in Names : mem'[r][n] = "metrics"
        BY <1>9, <4>3
      <4> HIDE DEF m
      <4> QED
        BY <1>9, <3>1, <3>2, <4>1, <4>4, <4>5 DEF ThreadOK
    <3>3. CASE ~(client /\ records[r] # None)
      <4>1. pc'[r] \in Past
        BY <1>0, <1>9, <3>1, <3>3 DEF Goto
      <4> QED
        BY <3>1, <4>1, ThreadPast
    <3> QED
      BY <3>2, <3>3
  <2> QED
    BY <2>1, <2>2
<1>10. CASE EvalLoad(r) \/ ScoreLoad(r)
  <2>1. "eval_set" # "score_set" /\ "evals_push" \in Past /\ "done" \in Past
    OBVIOUS
  <2> QED
    BY <1>9, <1>10, <2>1 DEF EvalLoad, ScoreLoad
<1> QED
  BY <1>1, <1>2, <1>3, <1>4, <1>5, <1>6, <1>7, <1>8, <1>10 DEF Request

LEMMA ThreadsStep ==
    ASSUME TraceInv, [Next]_vars, NEW k \in Requests
    PROVE  ThreadOK(k)'
<1>0. Types /\ ThreadOK(k)
  BY DEF TraceInv
<1>1. CASE \E r \in Requests : Request(r)
  <2>1. PICK r \in Requests : Request(r)
    BY <1>1
  <2>2. CASE k = r
    BY <1>0, <2>1, <2>2, OwnStep
  <2>3. CASE k # r
    BY <1>0, <2>1, <2>3, OthersKept, ThreadKept
  <2> QED
    BY <2>2, <2>3
<1>2. CASE \E r \in Requests : Expire(r)
  BY <1>0, <1>2 DEF Expire, ThreadOK, Types, TypeOK
<1>3. CASE ~\E r \in Requests : Request(r) \/ Expire(r)
  <2>1. UNCHANGED <<pc, mem, records, pushed, expired>>
    BY <1>3 DEF Next, vars, Build, Ping, ListTraces, Get, Answer, ListFault, Redis, History
  <2> QED
    BY <1>0, <2>1, ThreadKept
<1> QED
  BY <1>1, <1>2, <1>3

-----------------------------------------------------------------------------
(* The index. *)

Trimming == {r \in Requests : pc[r] = "trim"}

LEMMA TrimmingFinite ==
    /\ IsFiniteSet(Trimming) /\ Cardinality(Trimming) \in Nat
    /\ IsFiniteSet(Trimming') /\ Cardinality(Trimming') \in Nat
<1>1. Trimming \subseteq Requests /\ Trimming' \subseteq Requests
  BY DEF Trimming
<1> QED
  BY <1>1, FS_Subset, FS_CardinalityType, ConstantsAssumption

\* A step that moves no thread to the trim or away from it, or only to it.
LEMMA BoundKept ==
    ASSUME Types, Types', IndexBounded,
           Len(index') <= Len(index), faults <= faults',
           \A k \in Requests : pc[k] = "trim" => pc'[k] = "trim"
    PROVE  IndexBounded'
<1>1. Trimming \subseteq Trimming'
  BY DEF Trimming
<1>2. Cardinality(Trimming) <= Cardinality(Trimming')
  BY <1>1, TrimmingFinite, FS_Subset
<1>3. /\ Len(index) \in Nat /\ Len(index') \in Nat /\ faults \in Nat /\ faults' \in Nat
      /\ MaxTraces \in Nat
  BY ConstantsAssumption, LenProperties DEF Types, TypeOK
<1>4. Len(index) <= MaxTraces + faults + Cardinality(Trimming)
  BY DEF IndexBounded, Trimming
<1>5. Len(index') <= MaxTraces + faults' + Cardinality(Trimming')
  BY <1>2, <1>3, <1>4, TrimmingFinite
<1> QED
  BY <1>5 DEF IndexBounded, Trimming

LEMMA LpushStep ==
    ASSUME TraceInv, Types', NEW r \in Requests, Lpush(r), ~Fault(r, AfterPersist(r))
    PROVE  IndexOK' /\ IndexBounded'
<1>0. /\ Types /\ IndexOK /\ IndexBounded
      /\ index \in Seq(Requests) /\ Len(index) \in Nat
      /\ pushed \in Seq(Requests) /\ Len(pushed) \in Nat
      /\ faults \in Nat /\ MaxTraces \in Nat
  BY ConstantsAssumption, LenProperties DEF TraceInv, Types, TypeOK
<1>1. /\ index' = <<r>> \o index /\ pushed' = Append(pushed, r) /\ faults' = faults
      /\ pc[r] = "lpush" /\ pc' = [pc EXCEPT ![r] = "trim"]
  BY DEF Lpush, Goto
<1>2. /\ Len(index') = Len(index) + 1
      /\ \A i \in 1..(Len(index) + 1) : index'[i] = IF i = 1 THEN r ELSE index[i - 1]
      /\ Len(pushed') = Len(pushed) + 1
      /\ \A i \in 1..(Len(pushed) + 1) : pushed'[i] = IF i <= Len(pushed) THEN pushed[i] ELSE r
  BY <1>0, <1>1, PushIs, AppendIs
<1>3. IndexOK'
  <2>1. \A i \in 1..Len(index') : index'[i] = pushed'[Len(pushed') - i + 1]
    <3> SUFFICES ASSUME NEW i \in 1..(Len(index) + 1)
                 PROVE  index'[i] = pushed'[Len(pushed) + 1 - i + 1]
      BY <1>2
    <3>1. CASE i = 1
      BY <1>0, <1>2, <3>1
    <3>2. CASE i # 1
      <4>1. i - 1 \in 1..Len(index) /\ index'[i] = index[i - 1]
        BY <1>0, <1>2, <3>2
      <4>2. index[i - 1] = pushed[Len(pushed) - (i - 1) + 1]
        BY <1>0, <4>1 DEF IndexOK
      <4>3. Len(pushed) + 1 - i + 1 \in 1..Len(pushed)
        BY <1>0, <4>1 DEF IndexOK
      <4> QED
        BY <1>0, <1>2, <4>1, <4>2, <4>3
    <3> QED
      BY <3>1, <3>2
  <2>2. Len(index) <= Len(pushed) /\ (Len(index) >= Len(pushed) \/ Len(index) >= MaxTraces)
    BY <1>0 DEF IndexOK
  <2>3. Len(index') <= Len(pushed') /\ (Len(index') >= Len(pushed') \/ Len(index') >= MaxTraces)
    BY <1>0, <1>2, <2>2
  <2> QED
    BY <2>1, <2>3 DEF IndexOK
<1>4. IndexBounded'
  <2>1. r \notin Trimming /\ Trimming' = Trimming \union {r}
    BY <1>0, <1>1 DEF Trimming, Types, TypeOK
  <2>2. Cardinality(Trimming') = Cardinality(Trimming) + 1
    BY <2>1, TrimmingFinite, FS_AddElement
  <2>3. Len(index) <= MaxTraces + faults + Cardinality(Trimming)
    BY <1>0 DEF IndexBounded, Trimming
  <2>4. Len(index') <= MaxTraces + faults' + Cardinality(Trimming')
    BY <1>0, <1>1, <1>2, <2>2, <2>3, TrimmingFinite, SMTT(30)
  <2> QED
    BY <2>4 DEF IndexBounded, Trimming
<1> QED
  BY <1>3, <1>4

LEMMA TrimStep ==
    ASSUME TraceInv, Types', NEW r \in Requests, Trim(r)
    PROVE  IndexOK' /\ IndexBounded'
<1>0. /\ Types /\ IndexOK /\ IndexBounded
      /\ index \in Seq(Requests) /\ Len(index) \in Nat /\ Len(pushed) \in Nat
      /\ faults \in Nat /\ faults' \in Nat /\ MaxTraces \in Nat \ {0} /\ MaxTraces - 1 \in Nat
  BY ConstantsAssumption, LenProperties, SMTT(30) DEF TraceInv, Types, TypeOK
<1>1. CASE Fault(r, AfterPersist(r))
  <2>1. /\ pc[r] = "trim" /\ pc' = [pc EXCEPT ![r] = AfterPersist(r)] /\ AfterPersist(r) # "trim"
        /\ faults' = faults + 1 /\ index' = index /\ pushed' = pushed
    BY <1>1, NextSteps DEF Trim, Fault, Goto, Redis, History
  <2>2. r \in Trimming /\ Trimming' = Trimming \ {r}
    BY <1>0, <2>1 DEF Trimming, Types, TypeOK
  <2>3. Cardinality(Trimming') = Cardinality(Trimming) - 1
    BY <2>2, TrimmingFinite, FS_RemoveElement
  <2>4. Len(index) <= MaxTraces + faults + Cardinality(Trimming)
    BY <1>0 DEF IndexBounded, Trimming
  <2>5. Len(index') <= MaxTraces + faults' + Cardinality(Trimming')
    BY <1>0, <2>1, <2>3, <2>4, TrimmingFinite
  <2> QED
    BY <1>0, <2>1, <2>5 DEF IndexOK, IndexBounded, Trimming
<1>2. CASE ~Fault(r, AfterPersist(r))
  <2>1. index' = Upto(MaxTraces - 1, index) /\ pushed' = pushed
    BY <1>2 DEF Trim, Trimmed, History
  <2>2. /\ Len(index') = IF Len(index) < MaxTraces THEN Len(index) ELSE MaxTraces
        /\ \A i \in 1..Len(index') : index'[i] = index[i]
    BY <1>0, <2>1, UptoIs
  <2>3. Len(index') <= MaxTraces + faults' + Cardinality(Trimming')
    BY <1>0, <2>2, TrimmingFinite
  <2>4. /\ Len(index) <= Len(pushed)
        /\ \A i \in 1..Len(index) : index[i] = pushed[Len(pushed) - i + 1]
        /\ Len(index) >= Len(pushed) \/ Len(index) >= MaxTraces
    BY <1>0 DEF IndexOK
  <2>5. Len(index') <= Len(pushed) /\ (Len(index') >= Len(pushed) \/ Len(index') >= MaxTraces)
    BY <1>0, <2>2, <2>4
  <2>6. ASSUME NEW i \in 1..Len(index') PROVE index'[i] = pushed[Len(pushed) - i + 1]
    BY <1>0, <2>2, <2>4, <2>6
  <2>7. IndexOK'
    BY <2>1, <2>5, <2>6 DEF IndexOK
  <2> QED
    BY <2>3, <2>7 DEF IndexBounded, Trimming
<1> QED
  BY <1>1, <1>2

\* Every other step leaves the index and the history alone.
LEMMA IndexStep ==
    ASSUME TraceInv, [Next]_vars
    PROVE  IndexOK' /\ IndexBounded'
<1>0. Types /\ Types' /\ IndexOK /\ IndexBounded /\ faults \in Nat
  BY TypesStep, ConstantsAssumption DEF TraceInv, Types, TypeOK
<1>q. ASSUME index' = index, pushed' = pushed, faults <= faults',
             \A k \in Requests : pc[k] = "trim" => pc'[k] = "trim"
      PROVE  IndexOK' /\ IndexBounded'
  <2>1. Len(index) \in Nat
    BY <1>0, LenProperties DEF Types
  <2>2. Len(index') <= Len(index)
    BY <1>q, <2>1
  <2>3. IndexBounded'
    BY <1>0, <1>q, <2>2, BoundKept
  <2> QED
    BY <1>0, <1>q, <2>3 DEF IndexOK
<1>1. ASSUME NEW r \in Requests, Request(r) PROVE IndexOK' /\ IndexBounded'
  <2>1. CASE Trim(r)
    BY <2>1, <1>0, TrimStep
  <2>2. CASE Lpush(r) /\ ~Fault(r, AfterPersist(r))
    BY <2>2, <1>0, LpushStep
  <2>3. CASE Lrem(r)
    <3>1. index' = index
      BY <1>0, <2>3, LremKeeps DEF TraceInv
    <3>2. pushed' = pushed /\ faults <= faults' /\ \A k \in Requests : pc[k] = "trim" => pc'[k] = "trim"
      BY <1>0, <2>3 DEF Lrem, Fault, Goto, History, Types, TypeOK
    <3> QED
      BY <1>q, <3>1, <3>2
  <2>4. CASE Lpush(r) /\ Fault(r, AfterPersist(r))
    BY <1>0, <1>q, <2>4 DEF Lpush, Fault, Goto, Redis, History, Types, TypeOK
  <2>5. CASE Finish(r) \/ Initialise(r) \/ Persist(r)
    BY <1>0, <1>q, <2>5 DEF Finish, Initialise, Persist, Goto, Redis, History, Types, TypeOK
  <2>6. CASE \/ SetRecord(r, "set", "lrem", AfterPersist(r))
             \/ SetRecord(r, "eval_set", "evals_push", "evals_push")
             \/ SetRecord(r, "score_set", "done", "done")
    BY <1>0, <1>q, <2>6 DEF SetRecord, Fault, Goto, Redis, History, Types, TypeOK
  <2>7. CASE EvalLoad(r) \/ ScoreLoad(r)
    BY <1>0, <1>q, <2>7 DEF EvalLoad, ScoreLoad, LoadRecord, Fault, Goto, Redis, History, Types, TypeOK
  <2>8. CASE EvalsPush(r) \/ EvalsTrim(r)
    BY <1>0, <1>q, <2>8 DEF EvalsPush, EvalsTrim, Fault, Goto, Redis, History, Types, TypeOK
  <2> QED
    BY <1>1, <2>1, <2>2, <2>3, <2>4, <2>5, <2>6, <2>7, <2>8 DEF Request
<1>2. CASE ~\E r \in Requests : Request(r)
  BY <1>0, <1>q, <1>2 DEF Next, vars, Expire, Build, Ping, ListTraces, Get, Answer, ListFault, Redis, History
<1> QED
  BY <1>1, <1>2

-----------------------------------------------------------------------------
(* The reader. *)

\* Ids are only added to pushed, and after the others.
LEMMA OlderStays ==
    ASSUME TraceInv, [Next]_vars, NEW x, NEW y, Older(x, y)
    PROVE  Older(x, y)'
<1>1. pushed \in Seq(Requests) /\ Len(pushed) \in Nat
  BY LenProperties DEF TraceInv, Types
<1>2. CASE pushed' = pushed
  BY <1>2 DEF Older
<1>3. ASSUME NEW r \in Requests, pushed' = Append(pushed, r) PROVE Older(x, y)'
  <2>1. /\ Len(pushed') = Len(pushed) + 1
        /\ \A i \in 1..(Len(pushed) + 1) : pushed'[i] = IF i <= Len(pushed) THEN pushed[i] ELSE r
    BY <1>1, <1>3, AppendIs
  <2>2. PICK a, b \in 1..Len(pushed) : b < a /\ pushed[a] = y /\ pushed[b] = x
    BY DEF Older
  <2>3. a \in 1..Len(pushed') /\ b \in 1..Len(pushed') /\ pushed'[a] = y /\ pushed'[b] = x
    BY <1>1, <2>1, <2>2
  <2> QED
    BY <2>2, <2>3 DEF Older
<1>4. pushed' = pushed \/ \E r \in Requests : pushed' = Append(pushed, r)
  BY DEF Next, vars, Request, Finish, Initialise, Persist, SetRecord, Lrem, Lpush, Trim, EvalLoad,
         ScoreLoad, LoadRecord, EvalsPush, EvalsTrim, Expire, Build, Ping, ListTraces, Get, Answer,
         ListFault, Fault, History
<1> QED
  BY <1>2, <1>3, <1>4

LEMMA ListTracesStep ==
    ASSUME TraceInv, NEW want \in Filters, ListTraces(want)
    PROVE  ReaderOK'
<1>1. /\ index \in Seq(Requests) /\ Len(index) \in Nat /\ Len(pushed) \in Nat
      /\ Limit \in Nat /\ 3 * Limit \in Nat /\ IndexOK
  BY ConstantsAssumption, LenProperties DEF TraceInv, Types
<1>2. /\ reader'.ids = Upto(3 * Limit, index) /\ reader'.out = <<>> /\ pushed' = pushed
  BY DEF ListTraces, History
<1>3. /\ Len(reader'.ids) \in Nat /\ Len(reader'.ids) <= Len(index)
      /\ \A i \in 1..Len(reader'.ids) : reader'.ids[i] = index[i]
  BY <1>1, <1>2, UptoIs, LenProperties
<1>4. Len(reader'.out) = 0
  BY <1>2, EmptySeq
<1>5. ASSUME NEW i \in 1..Len(reader'.ids), NEW j \in 1..Len(reader'.ids), i < j
      PROVE  Older(reader.ids[j], reader.ids[i])'
  <2> DEFINE a == Len(pushed) - i + 1
             b == Len(pushed) - j + 1
  <2>1. a \in 1..Len(pushed) /\ b \in 1..Len(pushed) /\ b < a
    <3>1. Len(index) <= Len(pushed)
      BY <1>1 DEF IndexOK
    <3> QED
      BY <1>1, <1>3, <1>5, <3>1
  <2>2. pushed[a] = reader'.ids[i] /\ pushed[b] = reader'.ids[j]
    <3>1. \A k \in 1..Len(index) : index[k] = pushed[Len(pushed) - k + 1]
      BY <1>1 DEF IndexOK
    <3>2. i \in 1..Len(index) /\ j \in 1..Len(index)
      BY <1>1, <1>3
    <3> QED
      BY <1>3, <3>1, <3>2
  <2> QED
    BY <1>2, <2>1, <2>2 DEF Older
<1> QED
  BY <1>1, <1>4, <1>5 DEF ReaderOK

LEMMA GetStep ==
    ASSUME TraceInv, Get
    PROVE  ReaderOK'
<1> DEFINE r == Head(reader.ids)
           shown == records[r] # None /\ reader.want \in {None, Workflow(r)}
           entry == [id |-> r, scores |-> records[r]]
<1>0. /\ Types /\ ReaderOK /\ Limit \in Nat
      /\ reader.ids \in Seq(Requests) /\ reader.out \in Seq(Entry) /\ reader.ids # <<>>
      /\ Len(reader.ids) \in Nat /\ Len(reader.out) \in Nat /\ Len(reader.out) < Limit
  <2>1. /\ Types /\ ReaderOK /\ Limit \in Nat /\ reader.ids # <<>> /\ ~Full(reader.out)
        /\ reader.ids \in Seq(Requests) /\ reader.out \in Seq(Entry)
    BY ConstantsAssumption DEF TraceInv, Types, Get
  <2>2. Len(reader.ids) \in Nat /\ Len(reader.out) \in Nat
    BY <2>1, LenProperties
  <2> QED
    BY <2>1, <2>2 DEF Full
<1>1. /\ Len(reader.ids) >= 1 /\ r = reader.ids[1] /\ r \in Requests
      /\ Len(Tail(reader.ids)) = Len(reader.ids) - 1
      /\ \A i \in 1..(Len(reader.ids) - 1) : Tail(reader.ids)[i] = reader.ids[i + 1]
  <2>1. Len(reader.ids) >= 1
    BY <1>0, EmptySeq
  <2> QED
    BY <1>0, <2>1, HeadTailProperties
<1>2. /\ reader'.ids = Tail(reader.ids) /\ pushed' = pushed
      /\ reader'.out = IF shown THEN Append(reader.out, entry) ELSE reader.out
  BY DEF Get, Types, TraceInv, History
<1>3. /\ Len(reader.out) <= Len(reader'.out) /\ Len(reader'.out) \in Nat
      /\ Len(reader'.out) <= Len(reader.out) + 1
      /\ \A i \in 1..Len(reader.out) : reader'.out[i] = reader.out[i]
      /\ Len(reader'.out) > Len(reader.out) => reader'.out[Len(reader.out) + 1].id = reader.ids[1]
  <2>1. CASE shown
    <3>1. entry \in Entry /\ entry.id = r
      BY <1>0, <1>1, <2>1 DEF Types, TypeOK, Entry
    <3> HIDE DEF entry, r
    <3>2. /\ Len(reader'.out) = Len(reader.out) + 1
          /\ \A i \in 1..(Len(reader.out) + 1) :
                reader'.out[i] = IF i <= Len(reader.out) THEN reader.out[i] ELSE entry
      BY <1>0, <1>2, <2>1, <3>1, AppendIs
    <3> QED
      BY <1>0, <1>1, <3>1, <3>2, SMTT(30)
  <2>2. CASE ~shown
    BY <1>0, <1>2, <2>2
  <2> QED
    BY <2>1, <2>2
<1> HIDE DEF r, shown, entry
<1>4. /\ Len(reader'.ids) = Len(reader.ids) - 1
      /\ \A i \in 1..Len(reader'.ids) : reader'.ids[i] = reader.ids[i + 1] /\ i + 1 \in 1..Len(reader.ids)
  BY <1>0, <1>1, <1>2
<1>5. \A x, y : Older(x, y)' <=> Older(x, y)
  BY <1>2 DEF Older
<1>6. /\ \A i, j \in 1..Len(reader.out) : i < j => Older(reader.out[j].id, reader.out[i].id)
      /\ \A i, j \in 1..Len(reader.ids) : i < j => Older(reader.ids[j], reader.ids[i])
      /\ \A i \in 1..Len(reader.out), j \in 1..Len(reader.ids) : Older(reader.ids[j], reader.out[i].id)
  BY <1>0 DEF ReaderOK
<1>7. ASSUME NEW i \in 1..Len(reader'.out), NEW j \in 1..Len(reader'.out), i < j
      PROVE  Older(reader'.out[j].id, reader'.out[i].id)
  <2>1. i \in 1..Len(reader.out) /\ reader'.out[i] = reader.out[i]
    BY <1>0, <1>3, <1>7
  <2>2. CASE j \in 1..Len(reader.out)
    BY <1>3, <1>6, <1>7, <2>1, <2>2
  <2>3. CASE j \notin 1..Len(reader.out)
    <3>1. j = Len(reader.out) + 1 /\ reader'.out[j].id = reader.ids[1] /\ 1 \in 1..Len(reader.ids)
      BY <1>0, <1>1, <1>3, <2>3, SMTT(30)
    <3> QED
      BY <1>6, <2>1, <3>1
  <2> QED
    BY <2>2, <2>3
<1>8. ASSUME NEW i \in 1..Len(reader'.ids), NEW j \in 1..Len(reader'.ids), i < j
      PROVE  Older(reader'.ids[j], reader'.ids[i])
  BY <1>0, <1>4, <1>6, <1>8
<1>9. ASSUME NEW i \in 1..Len(reader'.out), NEW j \in 1..Len(reader'.ids)
      PROVE  Older(reader'.ids[j], reader'.out[i].id)
  <2>1. CASE i \in 1..Len(reader.out)
    BY <1>3, <1>4, <1>6, <2>1
  <2>2. CASE i \notin 1..Len(reader.out)
    <3>1. i = Len(reader.out) + 1 /\ reader'.out[i].id = reader.ids[1] /\ 1 \in 1..Len(reader.ids)
      BY <1>0, <1>1, <1>3, <2>2
    <3>2. 1 < j + 1
      BY <1>0, <1>4
    <3> QED
      BY <1>4, <1>6, <3>1, <3>2
  <2> QED
    BY <2>1, <2>2
<1>10. Len(reader'.out) <= Limit
  BY <1>0, <1>3
<1>11. (\A i, j \in 1..Len(reader.out) : i < j => Older(reader.out[j].id, reader.out[i].id))'
  BY <1>2, <1>7 DEF Older
<1>12. (\A i, j \in 1..Len(reader.ids) : i < j => Older(reader.ids[j], reader.ids[i]))'
  BY <1>2, <1>8 DEF Older
<1>13. (\A i \in 1..Len(reader.out), j \in 1..Len(reader.ids) : Older(reader.ids[j], reader.out[i].id))'
  BY <1>2, <1>9 DEF Older
<1> QED
  BY <1>10, <1>11, <1>12, <1>13 DEF ReaderOK

LEMMA ReaderStep ==
    ASSUME TraceInv, [Next]_vars
    PROVE  ReaderOK'
<1>0. /\ ReaderOK /\ Limit \in Nat
      /\ reader = [at |-> reader.at, want |-> reader.want, ids |-> reader.ids, out |-> reader.out]
  BY ConstantsAssumption DEF TraceInv, Types
<1>1. CASE \E want \in Filters : ListTraces(want)
  BY <1>1, ListTracesStep
<1>2. CASE Get
  BY <1>2, GetStep
<1>3. CASE Answer \/ ListFault
  <2>1. Len(<<>>) = 0
    BY EmptySeq
  <2>2. /\ reader'.ids = <<>> /\ reader'.out \in {reader.out, <<>>} /\ pushed' = pushed
    BY <1>0, <1>3 DEF Answer, ListFault, History
  <2>3. Len(reader'.out) <= Limit
    BY <1>0, <2>1, <2>2 DEF ReaderOK
  <2>4. Len(reader'.ids) = 0
    BY <2>1, <2>2
  <2>5. \A x, y : Older(x, y) => Older(x, y)'
    BY <2>2 DEF Older
  <2>6. ASSUME NEW i \in 1..Len(reader'.out), NEW j \in 1..Len(reader'.out), i < j
        PROVE  Older(reader'.out[j].id, reader'.out[i].id)
    <3>1. CASE reader'.out = reader.out
      BY <1>0, <2>6, <3>1 DEF ReaderOK
    <3>2. CASE reader'.out = <<>>
      BY <2>1, <2>6, <3>2
    <3> QED
      BY <2>2, <3>1, <3>2
  <2>7. (\A i, j \in 1..Len(reader.out) : i < j => Older(reader.out[j].id, reader.out[i].id))'
    BY <2>2, <2>6 DEF Older
  <2>8. 1..Len(reader'.ids) = {}
    BY <2>4
  <2> QED
    BY <2>3, <2>7, <2>8 DEF ReaderOK
<1>4. CASE reader' = reader
  <2>1. \A x, y : Older(x, y) => Older(x, y)'
    BY OlderStays
  <2> QED
    BY <1>0, <1>4, <2>1 DEF ReaderOK
<1>5. CASE \E r \in Requests : Request(r) \/ Expire(r)
  <2>1. reader' = reader
    BY <1>5 DEF Request, Finish, Initialise, Persist, SetRecord, Lrem, Lpush, Trim, EvalLoad,
                ScoreLoad, LoadRecord, EvalsPush, EvalsTrim, Expire, Fault
  <2> QED
    BY <1>4, <2>1
<1>6. CASE Build \/ (\E ok \in BOOLEAN : Ping(ok)) \/ UNCHANGED vars
  BY <1>4, <1>6 DEF Build, Ping, vars
<1> QED
  BY <1>1, <1>2, <1>3, <1>5, <1>6 DEF Next

-----------------------------------------------------------------------------
(* The theorems. *)

LEMMA InitTrace ==
    ASSUME Init
    PROVE  TraceInv
<1>1. /\ <<>> \in Seq(Requests) /\ <<>> \in Seq(Entry) /\ Len(<<>>) = 0
      /\ Range(<<>>) = {} /\ IsInjective(<<>>)
  BY EmptySeq, LenProperties DEF Range, IsInjective
<1>2. Types
  <2>1. pc \in [Requests -> Steps] /\ mem \in [Requests -> Scores]
        /\ records \in [Requests -> Scores \union {None}] /\ faults \in 0..MaxFaults
    BY ConstantsAssumption, ScoresAre DEF Init, Steps
  <2> QED
    BY <1>1, <2>1 DEF Init, Types, TypeOK
<1>3. \A r \in Requests : ThreadOK(r)
  BY <1>1 DEF Init, ThreadOK
<1>4. IndexOK /\ ReaderOK
  BY <1>1, ConstantsAssumption DEF Init, IndexOK, ReaderOK
<1>5. IndexBounded
  <2>1. Cardinality(Trimming) \in Nat
    BY TrimmingFinite
  <2>2. Len(index) = 0 /\ faults = 0 /\ MaxTraces \in Nat
    BY <1>1, ConstantsAssumption DEF Init
  <2> QED
    BY <2>1, <2>2 DEF IndexBounded, Trimming
<1> QED
  BY <1>2, <1>3, <1>4, <1>5 DEF TraceInv

\* At every moment of every thread: the types; each request's record, id and
\* step agree; the index repeats the end of what was pushed; what a reader
\* has shown is newer than what it will (telemetry._persist, list_traces).
THEOREM TraceCorrect == Spec => []TraceInv
<1>1. Init => TraceInv
  BY InitTrace
<1>2. TraceInv /\ [Next]_vars => TraceInv'
  <2> SUFFICES ASSUME TraceInv, [Next]_vars PROVE TraceInv'
    OBVIOUS
  <2>1. Types' /\ IndexOK' /\ IndexBounded' /\ ReaderOK'
    BY TypesStep, IndexStep, ReaderStep
  <2>2. (\A r \in Requests : ThreadOK(r))'
    BY ThreadsStep
  <2> QED
    BY <2>1, <2>2 DEF TraceInv
<1> QED
  BY <1>1, <1>2, PTL DEF Spec

\* An id in the index is an id that was pushed.
LEMMA IndexedWasPushed ==
    ASSUME Types, IndexOK
    PROVE  Range(index) \subseteq Range(pushed)
<1>1. /\ index \in Seq(Requests) /\ Len(index) \in Nat
      /\ pushed \in Seq(Requests) /\ Len(pushed) \in Nat
  BY LenProperties DEF Types
<1> SUFFICES ASSUME NEW r \in Range(index) PROVE r \in Range(pushed)
  OBVIOUS
<1>2. PICK i \in 1..Len(index) : index[i] = r
  BY <1>1, RangeIs
<1>3. Len(pushed) - i + 1 \in 1..Len(pushed) /\ pushed[Len(pushed) - i + 1] = r
  BY <1>1, <1>2 DEF IndexOK
<1> QED
  BY <1>1, <1>3, RangeIs

LEMMA NewestFirst ==
    ASSUME Types, IndexOK
    PROVE  IndexIsNewest
<1> DEFINE rev == [i \in 1..Len(pushed) |-> pushed[(Len(pushed) - i) + 1]]
           n == Len(index)
<1>1. /\ index \in Seq(Requests) /\ n \in Nat /\ index \in [1..n -> Requests]
      /\ pushed \in Seq(Requests) /\ Len(pushed) \in Nat
      /\ n <= Len(pushed) /\ MaxTraces \in Nat
  BY LenProperties, ConstantsAssumption DEF Types, IndexOK
<1>2. \A i \in 1..Len(pushed) : pushed[(Len(pushed) - i) + 1] \in Requests
  BY <1>1, ElementOfSeq
<1>3. rev \in Seq(Requests) /\ Len(rev) = Len(pushed)
  BY <1>1, <1>2, LenProperties
<1>4. \A i \in 1..n : rev[i] = index[i]
  BY <1>1 DEF IndexOK
<1>5. rev = Reverse(pushed)
  BY DEF Reverse
<1> HIDE DEF rev, n
<1>6. SubSeq(index, 1, n) = SubSeq(rev, 1, n)
  <2>1. \A i \in 1..n : index[i] \in Requests /\ rev[i] \in Requests
    BY <1>1, <1>4
  <2>2. /\ SubSeq(index, 1, n) \in Seq(Requests) /\ SubSeq(rev, 1, n) \in Seq(Requests)
        /\ Len(SubSeq(index, 1, n)) = n /\ Len(SubSeq(rev, 1, n)) = n
        /\ \A i \in 1..n : SubSeq(index, 1, n)[i] = index[i] /\ SubSeq(rev, 1, n)[i] = rev[i]
    <3>1. n = 0 \/ 1 <= n
      BY <1>1
    <3> QED
      BY <1>1, <1>3, <2>1, <3>1, SubSeqProperties
  <2>3. SubSeq(index, 1, n) \in [1..n -> Requests] /\ SubSeq(rev, 1, n) \in [1..n -> Requests]
    BY <2>2, LenProperties
  <2> QED
    BY <1>4, <2>2, <2>3
<1>7. IsPrefix(index, Reverse(pushed))
  BY <1>1, <1>3, <1>5, <1>6 DEF IsPrefix, n
<1>8. Len(index) >= (IF Len(pushed) < MaxTraces THEN Len(pushed) ELSE MaxTraces)
  BY <1>1 DEF IndexOK, n
<1> QED
  BY <1>7, <1>8 DEF IndexIsNewest

LEMMA ListsSound ==
    ASSUME Types, ReaderOK
    PROVE  ListingSound
<1>1. DOMAIN reader.out = 1..Len(reader.out) /\ DOMAIN pushed = 1..Len(pushed)
  BY LenProperties DEF Types
<1> DEFINE ids == [i \in DOMAIN reader.out |-> reader.out[i].id]
<1>2. ASSUME NEW i \in DOMAIN ids, NEW j \in DOMAIN ids, i < j
      PROVE  \E a, b \in DOMAIN pushed : b < a /\ pushed[a] = ids[i] /\ pushed[b] = ids[j]
  <2>1. Older(reader.out[j].id, reader.out[i].id)
    BY <1>1, <1>2 DEF ReaderOK
  <2> QED
    BY <1>1, <1>2, <2>1 DEF Older
<1> QED
  BY <1>2 DEF ListingSound, ReaderOK

\* All that a list of traces rests on holds of every interleaving of threads
\* and readers, whichever commands fail: an id in the index has its record,
\* the index is the newest ids, newest first, bounded up to what is still to
\* be trimmed, and a list shows each trace once, newest first, and no more
\* than were asked for (telemetry._persist, list_traces).
THEOREM ListsAreSound == Spec => []IndexSound
<1>1. TraceInv => IndexSound
  <2> SUFFICES ASSUME TraceInv PROVE IndexSound
    OBVIOUS
  <2>1. Types /\ TypeOK /\ IndexOK /\ IndexBounded /\ ReaderOK
    BY DEF TraceInv, Types
  <2>2. IndexedHasRecord
    BY <2>1, IndexedWasPushed DEF IndexedHasRecord, TraceInv, ThreadOK, TypeOK
  <2> QED
    BY <2>1, <2>2, NewestFirst, ListsSound DEF IndexSound
<1> QED
  BY <1>1, TraceCorrect, PTL

\* Only the owner of a record writes it, and only to add to its scores.
LEMMA RecordGrows ==
    ASSUME TraceInv, [Next]_vars, NEW k \in Requests, records[k] # None, records'[k] # None,
           NEW n \in Names
    PROVE  records'[k][n] = "metrics" \/ records'[k][n] = records[k][n]
<1>0. Types /\ ThreadOK(k)
  BY DEF TraceInv
<1>1. ASSUME NEW r \in Requests, Request(r), k # r
      PROVE  records'[k] = records[k]
  BY <1>0, <1>1, OthersKept
<1>2. CASE Request(k)
  <2>1. records'[k] = records[k] \/ (records'[k] = mem[k] /\ pc[k] \in {"eval_set", "score_set"})
    <3>1. CASE \E next, failed : SetRecord(k, "set", next, failed)
      BY <1>0, <3>1 DEF SetRecord, Fault, Redis, ThreadOK
    <3>2. CASE \/ SetRecord(k, "eval_set", "evals_push", "evals_push")
               \/ SetRecord(k, "score_set", "done", "done")
      BY <1>0, <3>2 DEF SetRecord, Fault, Redis, Types, TypeOK
    <3>3. CASE ~(\/ SetRecord(k, "set", "lrem", AfterPersist(k))
                 \/ SetRecord(k, "eval_set", "evals_push", "evals_push")
                 \/ SetRecord(k, "score_set", "done", "done"))
      BY <1>2, <3>3 DEF Request, Finish, Initialise, Persist, Lrem, Lpush, Trim, EvalLoad, ScoreLoad,
                        LoadRecord, EvalsPush, EvalsTrim, Fault, Redis
    <3> QED
      BY <3>1, <3>2, <3>3
  <2> QED
    BY <1>0, <2>1 DEF ThreadOK
<1>3. ASSUME NEW r \in Requests, Expire(r)
      PROVE  records'[k] = records[k]
  BY <1>0, <1>3 DEF Expire, Types, TypeOK
<1>4. CASE ~\E r \in Requests : Request(r) \/ Expire(r)
  BY <1>4 DEF Next, vars, Build, Ping, ListTraces, Get, Answer, ListFault, Redis
<1> QED
  BY <1>1, <1>2, <1>3, <1>4

\* No interleaving of the three writers of a record takes a score back
\* (telemetry._persist, online._push_to_trace, chat._push_scores).
THEOREM ScoresAreKept == Spec => ScoresOnlyGrow
<1>1. TraceInv /\ [Next]_vars =>
        [\A r \in Requests : records[r] # None /\ records'[r] # None =>
            \A n \in Names : \/ records'[r][n] = "metrics"
                             \/ records'[r][n] = records[r][n]]_records
  BY RecordGrows
<1> QED
  BY <1>1, TraceCorrect, PTL DEF Spec, ScoresOnlyGrow

-----------------------------------------------------------------------------
(* Sums, of any number of terms.                                          *)

\* SumFunction is the same in every instance.
LEMMA OneSum ==
    ASSUME NEW f
    PROVE  Dataset!SumFunction(f) = SumFunction(f)
  BY Zenon DEF Dataset!SumFunction, Dataset!SumFunctionOnSet, Dataset!FoldFunctionOnSet, Dataset!MapThenFoldSet,
     SumFunction, SumFunctionOnSet, FoldFunctionOnSet, MapThenFoldSet

\* Induction over a set of numbers.
LEMMA Counting ==
    ASSUME NEW S, 0 \in S, \A n \in Nat : n \in S => n + 1 \in S
    PROVE  \A n \in Nat : n \in S
<1> DEFINE out == {n \in Nat : n \notin S}
<1> SUFFICES ASSUME out # {} PROVE FALSE
  OBVIOUS
<1>1. PICK m \in out : \A k \in out : ~(<<k, m>> \in OpToRel(<, Nat))
  <2>1. out \subseteq Nat
    OBVIOUS
  <2> HIDE DEF out
  <2>2. \E m \in out : \A k \in out : ~(<<k, m>> \in OpToRel(<, Nat))
    BY <2>1, NatLessThanWellFounded, WFMin, Zenon
  <2> QED
    BY <2>2
<1>2. m \in Nat \ {0} /\ m \notin S
  OBVIOUS
<1>3. m - 1 \in Nat /\ m - 1 + 1 = m
  BY <1>2
<1>4. m - 1 \in out
  BY <1>2, <1>3
<1>5. <<m - 1, m>> \in OpToRel(<, Nat)
  BY <1>2, <1>3 DEF OpToRel
<1> QED
  BY <1>1, <1>4, <1>5

\* Any member of a set, taken out, leaves one less.
Member(s) == CHOOSE x \in s : TRUE

LEMMA OneLess ==
    ASSUME NEW D, IsFiniteSet(D), NEW s \in SUBSET D, s # {}
    PROVE  /\ Member(s) \in s /\ s \ {Member(s)} \in SUBSET D
           /\ Cardinality(s) \in Nat /\ Cardinality(s \ {Member(s)}) = Cardinality(s) - 1
<1>1. Member(s) \in s
  BY DEF Member
<1>2. IsFiniteSet(s)
  BY FS_Subset
<1>3. Cardinality(s) \in Nat /\ Cardinality(s \ {Member(s)}) = Cardinality(s) - 1
  BY <1>1, <1>2, FS_RemoveElement, FS_CardinalityType
<1> QED
  BY <1>1, <1>3

\* A sum over a set is its first term and the sum of the rest.
SumStep(f, g, s) == IF s = {} THEN 0 ELSE f[Member(s)] + g[s \ {Member(s)}]

LEMMA SumIs ==
    ASSUME NEW f
    PROVE  SumFunction(f) = (CHOOSE g : g = [s \in SUBSET DOMAIN f |-> SumStep(f, g, s)])[DOMAIN f]
  BY Zenon DEF SumFunction, SumFunctionOnSet, FoldFunctionOnSet, MapThenFoldSet, SumStep, Member

\* Such a function of the subsets exists.
LEMMA SumsExist ==
    ASSUME NEW f, IsFiniteSet(DOMAIN f)
    PROVE  \E g : g = [s \in SUBSET DOMAIN f |-> SumStep(f, g, s)]
<1> DEFINE D == DOMAIN f
           Right(g, s) == g[s] = SumStep(f, g, s)
           upTo == {n \in Nat : \E g : \A s \in SUBSET D : Cardinality(s) <= n => Right(g, s)}
<1>1. \A s \in SUBSET D : Cardinality(s) \in Nat /\ (Cardinality(s) = 0 <=> s = {})
  BY FS_Subset, FS_CardinalityType, FS_EmptySet
<1>2. 0 \in upTo
  <2> DEFINE g == [s \in SUBSET D |-> 0]
  <2>1. \A s \in SUBSET D : Cardinality(s) <= 0 => Right(g, s)
    BY <1>1 DEF SumStep
  <2> QED
    BY <2>1
<1>3. ASSUME NEW n \in Nat, n \in upTo PROVE n + 1 \in upTo
  <2>1. PICK g : \A s \in SUBSET D : Cardinality(s) <= n => Right(g, s)
    BY <1>3
  <2> DEFINE h == [s \in SUBSET D |-> IF Cardinality(s) <= n THEN g[s] ELSE SumStep(f, g, s)]
  <2>2. ASSUME NEW s \in SUBSET D, Cardinality(s) <= n + 1 PROVE Right(h, s)
    <3>1. h[s] = SumStep(f, g, s)
      BY <2>1
    <3>2. CASE s = {}
      BY <3>1, <3>2 DEF SumStep
    <3>3. CASE s # {}
      <4>1. /\ s \ {Member(s)} \in SUBSET D
            /\ Cardinality(s \ {Member(s)}) <= n
        BY <3>3, <2>2, <1>1, OneLess
      <4>2. h[s \ {Member(s)}] = g[s \ {Member(s)}]
        BY <4>1
      <4> QED
        BY <3>1, <4>2 DEF SumStep
    <3> QED
      BY <3>2, <3>3
  <2> HIDE DEF h
  <2>3. \E k : \A s \in SUBSET D : Cardinality(s) <= n + 1 => Right(k, s)
    <3> HIDE DEF Right
    <3> QED
      BY <2>2
  <2> QED
    BY <2>3
<1>4. Cardinality(D) \in upTo
  <2>1. Cardinality(D) \in Nat
    BY FS_CardinalityType
  <2> HIDE DEF upTo
  <2> QED
    BY <1>2, <1>3, <2>1, Counting
<1>5. PICK g : \A s \in SUBSET D : Cardinality(s) <= Cardinality(D) => Right(g, s)
  BY <1>4
<1>6. \A s \in SUBSET D : Cardinality(s) <= Cardinality(D)
  BY FS_Subset
<1> DEFINE h == [s \in SUBSET D |-> g[s]]
<1>7. ASSUME NEW s \in SUBSET D PROVE h[s] = SumStep(f, h, s)
  <2>1. h[s] = SumStep(f, g, s)
    BY <1>5, <1>6
  <2>2. s # {} => h[s \ {Member(s)}] = g[s \ {Member(s)}]
    OBVIOUS
  <2> QED
    BY <2>1, <2>2 DEF SumStep
<1>8. h = [s \in SUBSET D |-> SumStep(f, h, s)]
  BY <1>7
<1> HIDE DEF h
<1> QED
  BY <1>8

\* A sum of integers is an integer; of numbers of which those in P are at least
\* t, it is at least t for each of them.
LEMMA SumAtLeast ==
    ASSUME NEW f, IsFiniteSet(DOMAIN f), \A x \in DOMAIN f : f[x] \in Int,
           NEW P \in SUBSET DOMAIN f, NEW t \in Int
    PROVE  /\ SumFunction(f) \in Int
           /\ (\A x \in DOMAIN f : f[x] >= 0 /\ (x \in P => f[x] >= t))
                 => SumFunction(f) >= Cardinality(P) * t
<1> DEFINE D == DOMAIN f
           high == \A x \in D : f[x] >= 0 /\ (x \in P => f[x] >= t)
<1>1. PICK g : /\ g = [s \in SUBSET D |-> SumStep(f, g, s)]
               /\ SumFunction(f) = g[D]
  <2> DEFINE Sums(g) == g = [s \in SUBSET D |-> SumStep(f, g, s)]
  <2>1. \E g : Sums(g)
    BY SumsExist
  <2>2. SumFunction(f) = (CHOOSE g : Sums(g))[D]
    BY SumIs
  <2> HIDE DEF Sums
  <2>3. \E g : Sums(g) /\ SumFunction(f) = g[D]
    BY <2>1, <2>2
  <2> QED
    BY <2>3 DEF Sums
<1> DEFINE good(s) == g[s] \in Int /\ (high => g[s] >= Cardinality(s \cap P) * t)
           upTo == {n \in Nat : \A s \in SUBSET D : Cardinality(s) <= n => good(s)}
<1>2. \A s \in SUBSET D : /\ Cardinality(s) \in Nat /\ (Cardinality(s) = 0 <=> s = {})
                          /\ Cardinality(s \cap P) \in Nat
  <2> TAKE s \in SUBSET D
  <2>1. IsFiniteSet(s) /\ IsFiniteSet(s \cap P)
    BY FS_Subset
  <2> QED
    BY <2>1, FS_CardinalityType, FS_EmptySet
<1>3. good({})
  <2>1. g[{}] = 0
    BY <1>1 DEF SumStep
  <2>2. Cardinality({} \cap P) = 0
    BY FS_EmptySet
  <2> QED
    BY <2>1, <2>2
<1>4. 0 \in upTo
  <2>1. ASSUME NEW s \in SUBSET D, Cardinality(s) <= 0 PROVE s = {}
    <3>1. Cardinality(s) \in Nat /\ (Cardinality(s) = 0 <=> s = {})
      BY <1>2
    <3> QED
      BY <2>1, <3>1
  <2> HIDE DEF good
  <2>2. \A s \in SUBSET D : Cardinality(s) <= 0 => good(s)
    BY <1>3, <2>1
  <2> QED
    BY <2>2
<1>5. ASSUME NEW n \in Nat, n \in upTo PROVE n + 1 \in upTo
  <2> SUFFICES ASSUME NEW s \in SUBSET D, Cardinality(s) <= n + 1 PROVE good(s)
    OBVIOUS
  <2>1. CASE s = {}
    BY <1>3, <2>1
  <2>2. CASE s # {}
    <3> DEFINE x == Member(s)
               rest == s \ {x}
    <3>1. x \in s /\ rest \in SUBSET D /\ Cardinality(rest) <= n
      BY <1>2, <2>2, OneLess
    <3>2. good(rest)
      BY <1>5, <3>1
    <3>3. g[s] = f[x] + g[rest]
      BY <1>1, <2>2 DEF SumStep
    <3>4. Cardinality(s \cap P) = IF x \in P THEN Cardinality(rest \cap P) + 1 ELSE Cardinality(rest \cap P)
      <4>1. IsFiniteSet(rest \cap P)
        BY <3>1, FS_Subset
      <4>2. CASE x \in P
        <5>1. s \cap P = (rest \cap P) \cup {x} /\ x \notin rest \cap P
          BY <3>1, <4>2
        <5> HIDE DEF x, rest
        <5>2. Cardinality((rest \cap P) \cup {x}) = Cardinality(rest \cap P) + 1
          BY <4>1, <5>1, FS_AddElement
        <5> QED
          BY <4>2, <5>1, <5>2
      <4>3. CASE x \notin P
        <5>1. s \cap P = rest \cap P
          BY <4>3
        <5> HIDE DEF x, rest
        <5> QED
          BY <4>3, <5>1
      <4> QED
        BY <4>2, <4>3
    <3>5. f[x] \in Int /\ x \in D
      BY <3>1
    <3> DEFINE c == Cardinality(rest \cap P)
               sum == g[rest]
    <3>6. c \in Nat /\ sum \in Int /\ (high => sum >= c * t) /\ (high => f[x] >= 0 /\ (x \in P => f[x] >= t))
      BY <1>2, <3>1, <3>2, <3>5
    <3>7. g[s] = f[x] + sum /\ Cardinality(s \cap P) = IF x \in P THEN c + 1 ELSE c
      BY <3>3, <3>4
    <3>8. (c + 1) * t = c * t + t /\ c * t \in Int
      BY <3>6
    <3> HIDE DEF c, sum, x, rest, high
    <3> QED
      BY <3>5, <3>6, <3>7, <3>8
  <2> QED
    BY <2>1, <2>2
<1>6. Cardinality(D) \in upTo
  <2>1. Cardinality(D) \in Nat
    BY FS_CardinalityType
  <2> HIDE DEF upTo
  <2> QED
    BY <1>4, <1>5, <2>1, Counting
<1>7. good(D)
  <2>1. Cardinality(D) <= Cardinality(D) /\ D \in SUBSET D
    BY <1>6
  <2> HIDE DEF good
  <2> QED
    BY <1>6, <2>1
<1>8. D \cap P = P
  OBVIOUS
<1> QED
  BY <1>1, <1>7, <1>8

-----------------------------------------------------------------------------
(* The run of a dataset.                                                   *)

\* A score of the metric m: within 0 and 1, flagged by the threshold.
ScoreOK(s, m) ==
    /\ s.metric = m /\ s.score \in Dataset!Grades
    /\ s.passed \in BOOLEAN /\ (s.passed => s.score >= Dataset!Threshold[m])

ScoresOK(scores) ==
    DOMAIN scores = 1..5 /\ \A k \in 1..5 : ScoreOK(scores[k], Dataset!Metric[k])

\* An answer that is empty, that has nothing to rest on or of which a tool failed.
Broken(resp) ==
    \/ resp.answer = {}
    \/ resp.citations = <<>> /\ resp.evidence = <<>>
    \/ FALSE \in Dataset!Range(resp.tools)

\* The n-th row, and what it was scored from.
RowOK(n, row, from) ==
    /\ row.example = Examples[n].id
    /\ ScoresOK(row.scores)
    /\ from # Pending /\ Broken(from.resp) => ~Dataset!Passes(row.scores)

DatasetInv ==
    /\ response \in DatasetResponses \union {Pending}
    /\ Dataset!IsList(results) /\ Dataset!IsList(asked)
    /\ Len(results) = Len(asked) /\ Len(asked) <= Len(Examples)
    /\ \A n \in 1..Len(results) : RowOK(n, results[n], asked[n])
    /\ Dataset!RateBacked

EvalsInv ==
    /\ scene \in {"store", "dataset", "online"}
    /\ scene = "dataset" => DatasetInv
    /\ scene = "online" => Online!OverviewAgrees

-----------------------------------------------------------------------------
(* The operators of Evals.                                                 *)

LEMMA OneOfEach ==
    ASSUME NEW S
    PROVE  /\ Dataset!Cardinality(S) = Cardinality(S)
           /\ Dataset!IsFiniteSet(S) <=> IsFiniteSet(S)
<1>1. Dataset!Cardinality(S) = Cardinality(S)
  BY Zenon DEF Dataset!Cardinality, Cardinality, Dataset!IsFiniteSet, IsFiniteSet
<1>2. Dataset!IsFiniteSet(S) <=> IsFiniteSet(S)
  BY Zenon DEF Dataset!IsFiniteSet, IsFiniteSet
<1> QED
  BY <1>1, <1>2

LEMMA CountIsNat ==
    ASSUME NEW S, IsFiniteSet(S), NEW T \in SUBSET S
    PROVE  /\ Dataset!Cardinality(T) \in Nat /\ Cardinality(T) \in Nat
           /\ Dataset!Cardinality(T) <= Dataset!Cardinality(S)
           /\ Dataset!Cardinality(T) = 0 <=> T = {}
           /\ T # S => Dataset!Cardinality(T) < Dataset!Cardinality(S)
<1>1. IsFiniteSet(T)
  BY FS_Subset
<1>2. /\ Cardinality(T) \in Nat /\ (Cardinality(T) = 0 <=> T = {})
      /\ Cardinality(S) \in Nat
  BY <1>1, FS_CardinalityType, FS_EmptySet
<1>3. Cardinality(T) <= Cardinality(S) /\ (T # S => Cardinality(T) < Cardinality(S))
  BY <1>2, FS_Subset
<1> QED
  BY <1>2, <1>3, OneOfEach

LEMMA LeastOfTwo ==
    ASSUME NEW a \in Int, NEW b \in Int
    PROVE  /\ Dataset!Min({a, b}) = IF a <= b THEN a ELSE b
           /\ Dataset!Max({a, b}) = IF a >= b THEN a ELSE b
<1>1. Dataset!Min({a, b}) = IF a <= b THEN a ELSE b
  <2> DEFINE m == IF a <= b THEN a ELSE b
  <2>1. m \in {a, b} /\ \A y \in {a, b} : m <= y
    OBVIOUS
  <2>2. \A x \in {a, b} : (\A y \in {a, b} : x <= y) => x = m
    OBVIOUS
  <2> QED
    BY <2>1, <2>2 DEF Dataset!Min
<1>2. Dataset!Max({a, b}) = IF a >= b THEN a ELSE b
  <2> DEFINE m == IF a >= b THEN a ELSE b
  <2>1. m \in {a, b} /\ \A y \in {a, b} : m >= y
    OBVIOUS
  <2>2. \A x \in {a, b} : (\A y \in {a, b} : x >= y) => x = m
    OBVIOUS
  <2> QED
    BY <2>1, <2>2 DEF Dataset!Max
<1> QED
  BY <1>1, <1>2

\* A made score is within 0 and 1, and the better the more points.
Within(x) == IF x <= 0 THEN 0 ELSE IF x >= Dataset!One THEN Dataset!One ELSE x
Sixths(x) == (x + 3) \div 6
Rounded(points) == 6 * Sixths(Within(points))

LEMMA WithinIs ==
    ASSUME NEW low \in Int, NEW high \in Int, low <= high, NEW x \in Int
    PROVE  Dataset!Max({low, Dataset!Min({high, x})}) =
              IF x <= low THEN low ELSE IF x >= high THEN high ELSE x
<1> DEFINE least == Dataset!Min({high, x})
<1>1. least = IF high <= x THEN high ELSE x
  BY LeastOfTwo
<1>2. least \in Int
  BY <1>1
<1> HIDE DEF least
<1>3. Dataset!Max({low, least}) = IF low >= least THEN low ELSE least
  BY <1>2, LeastOfTwo
<1>4. Dataset!Max({low, least}) = IF x <= low THEN low ELSE IF x >= high THEN high ELSE x
  BY <1>1, <1>2, <1>3
<1> QED
  BY <1>4 DEF least

LEMMA MakeIs ==
    ASSUME NEW m, NEW points \in Int
    PROVE  Dataset!Make(m, points) = Dataset!Score(m, Rounded(points))
<1>1. 0 \in Int /\ Dataset!One \in Int /\ 0 <= Dataset!One
  BY SMT DEF Dataset!One
<1>2. Dataset!Max({0, Dataset!Min({Dataset!One, points})}) = Within(points)
  BY <1>1, WithinIs DEF Within
<1> QED
  BY <1>2, Zenon DEF Dataset!Make, Rounded, Sixths

LEMMA SixthsAre ==
    ASSUME NEW x \in Int
    PROVE  Sixths(x) \in Int /\ 6 * Sixths(x) <= x + 3 /\ x + 3 < 6 * Sixths(x) + 6
  BY SMT DEF Sixths

LEMMA OneIs ==
    /\ Dataset!One \in Int /\ 0 < Dataset!One
    /\ \E k \in Int : Dataset!One = 6 * k
<1>1. Dataset!One \in Int /\ 0 < Dataset!One
  BY SMT DEF Dataset!One
<1>2. 10000 \in Int /\ Dataset!One = 6 * 10000
  BY SMT DEF Dataset!One
<1> QED
  BY <1>1, <1>2, SMT

LEMMA RoundedIs ==
    ASSUME NEW p \in Int
    PROVE  /\ Rounded(p) \in Dataset!Grades
           /\ p <= 0 => Rounded(p) = 0
           /\ \A c \in Nat \ {0} : p + 3 < 6 * c => Rounded(p) < 6 * c
<1> DEFINE a == Within(p)
           s == Sixths(a)
           one == Dataset!One
<1>1. a \in Int /\ 0 <= a /\ a <= one /\ (p <= 0 => a = 0) /\ (p >= 0 => a <= p) /\ one \in Int
  BY OneIs, SMT DEF Within
<1>2. s \in Int /\ 6 * s <= a + 3 /\ a + 3 < 6 * s + 6
  <2> HIDE DEF a
  <2> QED
    BY <1>1, SixthsAre
<1>3. Rounded(p) = 6 * s
  BY DEF Rounded
<1>4. PICK k \in Int : one = 6 * k
  BY OneIs
<1> HIDE DEF a, s, one
<1>5. 6 * s \in Int /\ 0 <= 6 * s /\ 6 * s <= one /\ (a = 0 => 6 * s = 0)
  BY <1>1, <1>2, <1>4, SMT
<1>6. ASSUME NEW c \in Nat \ {0}, p + 3 < 6 * c PROVE 6 * s < 6 * c
  BY <1>1, <1>2, <1>6, SMT
<1>7. 6 * s \in 0..one
  BY <1>1, <1>5, SMT
<1>8. Rounded(p) \in Dataset!Grades
  BY <1>3, <1>7 DEF one, Dataset!Grades
<1> QED
  BY <1>1, <1>3, <1>5, <1>6, <1>8

LEMMA RoundedGrows ==
    ASSUME NEW p \in Int, NEW q \in Int, p <= q
    PROVE  Rounded(p) <= Rounded(q)
<1> DEFINE a == Within(p)
           b == Within(q)
           sa == Sixths(a)
           sb == Sixths(b)
<1>1. a \in Int /\ b \in Int /\ a <= b
  BY OneIs, SMT DEF Within
<1>2. /\ sa \in Int /\ 6 * sa <= a + 3 /\ a + 3 < 6 * sa + 6
      /\ sb \in Int /\ 6 * sb <= b + 3 /\ b + 3 < 6 * sb + 6
  <2> HIDE DEF a, b
  <2> QED
    BY <1>1, SixthsAre
<1>3. Rounded(p) = 6 * sa /\ Rounded(q) = 6 * sb
  BY DEF Rounded
<1> HIDE DEF a, b, sa, sb
<1>4. 6 * sa <= 6 * sb
  BY <1>1, <1>2, SMT
<1> QED
  BY <1>3, <1>4

\* Of fewer than a hundred, one less than all is under the mark.
LEMMA ShareIs ==
    ASSUME NEW part \in Nat, NEW whole \in Nat
    PROVE  /\ Dataset!Share(part, whole) \in Nat
           /\ part < whole /\ whole < 100 => Dataset!Share(part, whole) + 3 < 6 * 9900
<1> DEFINE one == Dataset!One
           share == (one * part) \div whole
<1>1. CASE whole = 0
  BY <1>1 DEF Dataset!Share
<1>2. CASE whole # 0
  <2>1. Dataset!Share(part, whole) = share
    BY <1>2 DEF Dataset!Share
  <2>2. one * part \in Nat
    BY OneIs, SMT
  <2>3. share \in Int /\ share >= 0 /\ share * whole <= one * part
    <3> DEFINE all == one * part
    <3> HIDE DEF all
    <3>1. all \div whole \in Int /\ all \div whole >= 0 /\ (all \div whole) * whole <= all
      BY <1>2, <2>2, SMTT(30) DEF all
    <3> QED
      BY <3>1 DEF all
  <2>4. ASSUME part < whole, whole < 100, share + 3 >= 6 * 9900 PROVE FALSE
    <3>1. one * part <= 60000 * whole - 60000
      BY <2>4, SMT DEF Dataset!One
    <3> HIDE DEF share, one
    <3>2. (share + 3) * whole >= (6 * 9900) * whole
      BY <2>3, <2>4, SMT
    <3>3. (share + 3) * whole = share * whole + 3 * whole
      BY <2>3, SMT
    <3>4. share * whole \in Int /\ one * part \in Int
      BY <2>2, <2>3, SMT
    <3> QED
      BY <2>3, <2>4, <3>1, <3>2, <3>3, <3>4, SMT
  <2> HIDE DEF share
  <2> QED
    BY <2>1, <2>3, <2>4
<1> QED
  BY <1>1, <1>2

LEMMA ShareIsNat ==
    ASSUME NEW part \in Nat, NEW whole \in Nat
    PROVE  Dataset!Share(part, whole) \in Nat
  BY ShareIs

LEMMA MetricIs ==
    /\ DOMAIN Dataset!Metric = 1..5
    /\ Dataset!Metric[1] = "grounding" /\ Dataset!Metric[2] = "relevance"
    /\ Dataset!Metric[3] = "completeness" /\ Dataset!Metric[4] = "tool_success"
    /\ Dataset!Metric[5] = "retrieval_quality"
    /\ Dataset!Range(Dataset!Metric) =
          {"grounding", "relevance", "completeness", "tool_success", "retrieval_quality"}
  BY DEF Dataset!Metric, Dataset!Range

LEMMA ThresholdIs ==
    /\ \A k \in 1..5 : Dataset!Threshold[Dataset!Metric[k]] \in Int
    /\ Dataset!Threshold["grounding"] > 0
    /\ Dataset!Threshold["tool_success"] = 6 * 9900
<1>1. \A m \in Dataset!Range(Dataset!Metric) :
         Dataset!Threshold[m] = CASE m = "grounding"    -> 27000
                                  [] m = "completeness" -> 45000
                                  [] m = "tool_success" -> 59400
                                  [] OTHER              -> 24000
  BY SMT DEF Dataset!Threshold
<1>2. /\ Dataset!Threshold["grounding"] = 27000 /\ Dataset!Threshold["relevance"] = 24000
      /\ Dataset!Threshold["completeness"] = 45000 /\ Dataset!Threshold["tool_success"] = 59400
      /\ Dataset!Threshold["retrieval_quality"] = 24000
  BY <1>1, MetricIs, SMT
<1> QED
  BY <1>2, MetricIs, SMT

LEMMA ScoreIs ==
    ASSUME NEW m, NEW p \in Int, Dataset!Threshold[m] \in Int
    PROVE  /\ Dataset!Score(m, p).metric = m /\ Dataset!Score(m, p).score = p
           /\ Dataset!Score(m, p).passed \in BOOLEAN
           /\ Dataset!Score(m, p).passed <=> p >= Dataset!Threshold[m]
<1> DEFINE q == p >= Dataset!Threshold[m]
           s == Dataset!Score(m, p)
<1>1. q \in BOOLEAN
  BY SMT
<1>2. s = [metric |-> m, score |-> p, passed |-> q]
  BY Zenon DEF Dataset!Score
<1> HIDE DEF q, s
<1>3. s.metric = m /\ s.score = p /\ s.passed = q
  BY <1>2
<1>4. s.passed \in BOOLEAN /\ (s.passed <=> q)
  BY <1>1, <1>3
<1> QED
  BY <1>3, <1>4 DEF q, s

LEMMA GradeOK ==
    ASSUME NEW m, Dataset!Threshold[m] \in Int, NEW g \in Dataset!Grades
    PROVE  ScoreOK(Dataset!Score(m, g), m)
<1>1. g \in Int
  BY OneIs, SMT DEF Dataset!Grades
<1> QED
  BY <1>1, ScoreIs DEF ScoreOK

LEMMA RoundedOK ==
    ASSUME NEW m, Dataset!Threshold[m] \in Int, NEW points \in Int
    PROVE  ScoreOK(Dataset!Score(m, Rounded(points)), m)
  BY RoundedIs, GradeOK

-----------------------------------------------------------------------------
(* The points of the heuristics are integers.                              *)

LEMMA ListIs ==
    ASSUME NEW s, Dataset!IsList(s)
    PROVE  /\ Len(s) \in Nat /\ DOMAIN s = 1..Len(s) /\ IsFiniteSet(DOMAIN s)
           /\ s = <<>> <=> Len(s) = 0
           /\ Dataset!Range(s) = {s[n] : n \in 1..Len(s)}
<1>1. PICK S : s \in Seq(S)
  BY DEF Dataset!IsList
<1>2. Len(s) \in Nat /\ DOMAIN s = 1..Len(s)
  BY <1>1, LenProperties
<1>3. s = <<>> <=> Len(s) = 0
  BY <1>1, EmptySeq
<1>4. IsFiniteSet(1..Len(s))
  BY <1>2, FS_Interval
<1> QED
  BY <1>2, <1>3, <1>4 DEF Dataset!Range

LEMMA ResponseIs ==
    ASSUME NEW resp \in DatasetResponses
    PROVE  /\ DOMAIN resp = {"answer", "length", "mentions", "markers", "citations", "evidence",
                             "next_actions", "tools"}
           /\ IsFiniteSet(resp.answer) /\ IsFiniteSet(resp.mentions)
           /\ resp.length \in Nat
           /\ Dataset!IsList(resp.citations) /\ Dataset!IsList(resp.evidence) /\ Dataset!IsList(resp.tools)
           /\ \A n \in DOMAIN resp.evidence : resp.evidence[n].score \in Int
           /\ \A n \in DOMAIN resp.tools : resp.tools[n] \in BOOLEAN
           /\ Len(resp.tools) < 100
<1>1. /\ DOMAIN resp = {"answer", "length", "mentions", "markers", "citations", "evidence",
                        "next_actions", "tools"}
      /\ Dataset!IsFiniteSet(resp.answer) /\ Dataset!IsFiniteSet(resp.mentions)
      /\ {resp.length, resp.next_actions} \subseteq Nat
      /\ Dataset!IsList(resp.citations) /\ Dataset!IsList(resp.evidence) /\ Dataset!IsList(resp.tools)
      /\ \A e \in Dataset!Range(resp.evidence) : e.score \in Int
      /\ Dataset!Range(resp.tools) \subseteq BOOLEAN
      /\ Len(resp.tools) < 100
  BY Assumptions DEF Dataset!ConstantsAssumption
<1>2. IsFiniteSet(resp.answer) /\ IsFiniteSet(resp.mentions) /\ resp.length \in Nat
  BY <1>1, OneOfEach
<1>3. /\ \A n \in DOMAIN resp.evidence : resp.evidence[n].score \in Int
      /\ \A n \in DOMAIN resp.tools : resp.tools[n] \in BOOLEAN
  BY <1>1 DEF Dataset!Range
<1> QED
  BY <1>1, <1>2, <1>3

LEMMA ExampleIs ==
    ASSUME NEW n \in 1..Len(Examples)
    PROVE  /\ IsFiniteSet(Examples[n].question) /\ IsFiniteSet(Examples[n].keywords)
           /\ IsFiniteSet(Examples[n].files)
<1>1. Dataset!IsList(Examples)
  BY Assumptions DEF Dataset!ConstantsAssumption
<1>2. Examples[n] \in Dataset!Range(Examples)
  BY <1>1, ListIs
<1>3. /\ Dataset!IsFiniteSet(Examples[n].question) /\ Dataset!IsFiniteSet(Examples[n].keywords)
      /\ Dataset!IsFiniteSet(Examples[n].files)
  BY <1>2, Assumptions DEF Dataset!ConstantsAssumption
<1> QED
  BY <1>3, OneOfEach

LEMMA OverlapIs ==
    ASSUME NEW claim, IsFiniteSet(claim), NEW support
    PROVE  Dataset!Overlap(claim, support) \in Nat
<1>1. Dataset!Cardinality(claim \cap support) \in Nat /\ Dataset!Cardinality(claim) \in Nat
  BY CountIsNat
<1> QED
  BY <1>1, ShareIsNat DEF Dataset!Overlap

Rested(resp) ==
    Dataset!Overlap(Dataset!Terms(resp.answer), Dataset!Support(resp))
    + (3 * Dataset!Share(Dataset!Cardinality(Dataset!Marked(resp)), Len(resp.citations))) \div 20

GroundingPoints(resp) ==
    IF resp.answer = {} \/ Dataset!Support(resp) = {} THEN 0
    ELSE Rested(resp) - Dataset!Penalty(resp)

LEMMA RestedIs ==
    ASSUME NEW resp, IsFiniteSet(resp.answer), Dataset!IsList(resp.citations)
    PROVE  /\ Rested(resp) \in Int
           /\ Dataset!Overlap(Dataset!Terms(resp.answer), Dataset!Support(resp)) \in Nat
           /\ Dataset!Share(Dataset!Cardinality(Dataset!Marked(resp)), Len(resp.citations)) \in Nat
<1> DEFINE overlap == Dataset!Overlap(Dataset!Terms(resp.answer), Dataset!Support(resp))
           share == Dataset!Share(Dataset!Cardinality(Dataset!Marked(resp)), Len(resp.citations))
<1>1. overlap \in Nat
  BY FS_Subset, OverlapIs DEF Dataset!Terms
<1>2. share \in Nat
  <2>1. Dataset!Marked(resp) \in SUBSET DOMAIN resp.citations
    BY DEF Dataset!Marked
  <2>2. IsFiniteSet(DOMAIN resp.citations) /\ Len(resp.citations) \in Nat
    BY ListIs
  <2>3. Dataset!Cardinality(Dataset!Marked(resp)) \in Nat
    BY <2>1, <2>2, CountIsNat
  <2> QED
    BY <2>2, <2>3, ShareIsNat
<1>3. Rested(resp) \in Int
  <2>1. Rested(resp) = overlap + (3 * share) \div 20
    BY Zenon DEF Rested
  <2> HIDE DEF overlap, share
  <2> QED
    BY <1>1, <1>2, <2>1, SMT
<1> QED
  BY <1>1, <1>2, <1>3

LEMMA PenaltyIs ==
    ASSUME NEW resp, IsFiniteSet(resp.mentions)
    PROVE  LET n == Dataset!Cardinality(Dataset!Uncited(resp))
           IN  /\ n \in Nat
               /\ Dataset!Penalty(resp) = IF 24000 <= 6000 * n THEN 24000 ELSE 6000 * n
<1> DEFINE n == Dataset!Cardinality(Dataset!Uncited(resp))
<1>1. n \in Nat
  BY CountIsNat DEF Dataset!Uncited
<1> HIDE DEF n
<1>2. 6000 * n \in Int /\ 24000 \in Int
  BY <1>1, SMT
<1>3. Dataset!Penalty(resp) = IF 24000 <= 6000 * n THEN 24000 ELSE 6000 * n
  BY <1>2, LeastOfTwo DEF Dataset!Penalty, n
<1> QED
  BY <1>1, <1>3 DEF n

LEMMA GroundingIs ==
    ASSUME NEW resp, IsFiniteSet(resp.answer), IsFiniteSet(resp.mentions), Dataset!IsList(resp.citations)
    PROVE  /\ GroundingPoints(resp) \in Int
           /\ Dataset!Grounding(resp) = Dataset!Score("grounding", Rounded(GroundingPoints(resp)))
<1>1. Rested(resp) \in Int /\ Dataset!Penalty(resp) \in Int
  <2>1. Dataset!Penalty(resp) \in Int
    BY PenaltyIs
  <2> QED
    BY <2>1, RestedIs
<1>2. GroundingPoints(resp) \in Int
  BY <1>1, SMT DEF GroundingPoints
<1>3. Dataset!Grounding(resp) = Dataset!Make("grounding", GroundingPoints(resp))
  <2> DEFINE overlap == Dataset!Overlap(Dataset!Terms(resp.answer), Dataset!Support(resp))
             share == Dataset!Share(Dataset!Cardinality(Dataset!Marked(resp)), Len(resp.citations))
             penalty == Dataset!Penalty(resp)
             none == resp.answer = {} \/ Dataset!Support(resp) = {}
  <2>1. GroundingPoints(resp) = IF none THEN 0 ELSE overlap + (3 * share) \div 20 - penalty
    <3>1. GroundingPoints(resp) = IF none THEN 0 ELSE (overlap + (3 * share) \div 20) - penalty
      BY Zenon DEF GroundingPoints, Rested
    <3>2. overlap \in Nat /\ share \in Nat /\ penalty \in Int
      BY <1>1, RestedIs
    <3> HIDE DEF overlap, share, penalty, none
    <3> QED
      BY <3>1, <3>2, SMT
  <2> QED
    BY <2>1, Zenon DEF Dataset!Grounding
<1> QED
  BY <1>2, <1>3, MakeIs, Zenon

LEMMA NamingCosts ==
    ASSUME NEW resp \in DatasetResponses, NEW f
    PROVE  Dataset!Grounding([resp EXCEPT !.mentions = @ \union {f}]).score <= Dataset!Grounding(resp).score
<1> DEFINE more == [resp EXCEPT !.mentions = @ \union {f}]
<1>1. /\ IsFiniteSet(resp.answer) /\ IsFiniteSet(resp.mentions) /\ Dataset!IsList(resp.citations)
      /\ more.mentions = resp.mentions \union {f}
      /\ more.answer = resp.answer /\ more.citations = resp.citations
      /\ more.evidence = resp.evidence /\ more.markers = resp.markers
  BY ResponseIs
<1>2. IsFiniteSet(more.mentions)
  BY <1>1, FS_AddElement
<1> HIDE DEF more
<1>3. Dataset!Items(more) = Dataset!Items(resp)
  BY <1>1, Zenon DEF Dataset!Items
<1>4. Dataset!Support(more) = Dataset!Support(resp) /\ Dataset!Marked(more) = Dataset!Marked(resp)
  BY <1>1, <1>3, Zenon DEF Dataset!Support, Dataset!Marked
<1>5. Dataset!Uncited(resp) \in SUBSET Dataset!Uncited(more) /\ IsFiniteSet(Dataset!Uncited(more))
  BY <1>1, <1>2, <1>3, FS_Subset DEF Dataset!Uncited
<1>6. Dataset!Cardinality(Dataset!Uncited(resp)) <= Dataset!Cardinality(Dataset!Uncited(more))
  BY <1>5, CountIsNat
<1>7. /\ Dataset!Penalty(resp) <= Dataset!Penalty(more)
      /\ Dataset!Penalty(resp) \in Int /\ Dataset!Penalty(more) \in Int
  <2> DEFINE n == Dataset!Cardinality(Dataset!Uncited(resp))
             m == Dataset!Cardinality(Dataset!Uncited(more))
  <2>1. n \in Nat /\ Dataset!Penalty(resp) = IF 24000 <= 6000 * n THEN 24000 ELSE 6000 * n
    BY <1>1, PenaltyIs
  <2>2. m \in Nat /\ Dataset!Penalty(more) = IF 24000 <= 6000 * m THEN 24000 ELSE 6000 * m
    BY <1>2, PenaltyIs
  <2> HIDE DEF n, m
  <2>3. n <= m
    BY <1>6 DEF n, m
  <2> QED
    BY <2>1, <2>2, <2>3, SMT
<1> DEFINE p == GroundingPoints(more)
           q == GroundingPoints(resp)
<1>8. /\ p \in Int /\ Dataset!Grounding(more) = Dataset!Score("grounding", Rounded(p))
      /\ q \in Int /\ Dataset!Grounding(resp) = Dataset!Score("grounding", Rounded(q))
  BY <1>1, <1>2, GroundingIs
<1>9. p <= q
  <2> DEFINE rest == Rested(resp)
             none == resp.answer = {} \/ Dataset!Support(resp) = {}
  <2>1. Rested(more) = rest
    BY <1>1, <1>4, Zenon DEF Rested
  <2>2. /\ p = IF none THEN 0 ELSE rest - Dataset!Penalty(more)
        /\ q = IF none THEN 0 ELSE rest - Dataset!Penalty(resp)
    BY <1>1, <1>4, <2>1 DEF GroundingPoints
  <2>3. rest \in Int
    BY <1>1, RestedIs
  <2> HIDE DEF p, q, rest, none
  <2> QED
    BY <1>7, <2>2, <2>3, SMT
<1>10. Rounded(p) <= Rounded(q)
  BY <1>8, <1>9, RoundedGrows
<1>11. Dataset!Grounding(more).score = Rounded(p) /\ Dataset!Grounding(resp).score = Rounded(q)
  BY <1>8 DEF Dataset!Score
<1> QED
  BY <1>10, <1>11 DEF more

LEMMA RelevanceIs ==
    ASSUME NEW ex, IsFiniteSet(ex.question), IsFiniteSet(ex.keywords), NEW resp \in DatasetResponses
    PROVE  \E points \in Int : Dataset!Relevance(ex, resp) = Dataset!Score("relevance", Rounded(points))
<1> DEFINE words == Dataset!Terms(ex.question)
           overlap == Dataset!Overlap(words, Dataset!Terms(resp.answer))
           coverage == Dataset!Coverage(ex.keywords, Dataset!Terms(resp.answer))
           rest == IF words = {} THEN Dataset!One \div 2 ELSE overlap
           core == IF ex.keywords = {} THEN rest ELSE (rest + coverage) \div 2
           sanity == Dataset!LengthSanity(resp.length)
           points == IF resp.answer = {} THEN 0 ELSE (core * sanity) \div 20
<1>1. overlap \in Int
  <2>1. IsFiniteSet(words)
    BY FS_Subset DEF Dataset!Terms
  <2> HIDE DEF words
  <2> QED
    BY <2>1, OverlapIs
<1>2. coverage \in Int
  <2>1. /\ Dataset!Cardinality({k \in ex.keywords : Dataset!KeywordPresent(k, Dataset!Terms(resp.answer))}) \in Nat
        /\ Dataset!Cardinality(ex.keywords) \in Nat
    BY CountIsNat
  <2> QED
    BY <2>1, ShareIsNat DEF Dataset!Coverage
<1>3. sanity \in Int
  <2> DEFINE n == resp.length
             low == (6 * (1200 - n)) \div 600
  <2>1. n \in Nat
    BY ResponseIs
  <2> HIDE DEF n
  <2>2. low \in Int /\ 0 \in Int
    BY <2>1, SMT
  <2> HIDE DEF low
  <2>3. Dataset!Max({0, low}) \in Int
    BY <2>2, LeastOfTwo
  <2>4. sanity \in {6, 14 + (6 * (n - 5)) \div 15, 20, 14 + Dataset!Max({0, low})}
    BY <2>1, SMT DEF Dataset!LengthSanity, n, low
  <2>5. (6 * (n - 5)) \div 15 \in Int
    BY <2>1, SMT
  <2> QED
    BY <2>3, <2>4, <2>5, SMT
<1>4. core \in Int
  <2> HIDE DEF overlap, coverage, words
  <2>1. rest \in Int
    BY <1>1, OneIs, SMT
  <2> HIDE DEF rest
  <2> QED
    BY <1>2, <2>1, SMT
<1>5. points \in Int
  <2> HIDE DEF core, sanity
  <2> QED
    BY <1>3, <1>4, SMT
<1>6. Dataset!Relevance(ex, resp) = Dataset!Make("relevance", points)
  BY Zenon DEF Dataset!Relevance
<1> HIDE DEF points
<1> QED
  BY <1>5, <1>6, MakeIs

LEMMA CompletenessIs ==
    ASSUME NEW resp
    PROVE  \E points \in Int : Dataset!Completeness(resp) = Dataset!Score("completeness", Rounded(points))
<1> DEFINE parts == {"answer", "citation", "next_action", "confidence"}
           had == {c \in parts : /\ c = "answer"      => resp.answer # {}
                                 /\ c = "citation"    => resp.citations # <<>>
                                 /\ c = "next_action" => resp.next_actions > 0}
           points == (Dataset!One \div 4) * Dataset!Cardinality(had)
<1>1. IsFiniteSet(parts)
  <2>1. parts = ((({} \union {"answer"}) \union {"citation"}) \union {"next_action"}) \union {"confidence"}
    OBVIOUS
  <2> HIDE DEF parts
  <2> QED
    BY <2>1, FS_EmptySet, FS_AddElement
<1>2. Dataset!Cardinality(had) \in Nat
  BY <1>1, CountIsNat
<1>3. points \in Int
  <2> HIDE DEF had
  <2> QED
    BY <1>2, OneIs, SMT
<1>4. Dataset!Completeness(resp) = Dataset!Make("completeness", points)
  BY Zenon DEF Dataset!Completeness
<1> HIDE DEF points
<1> QED
  BY <1>3, <1>4, MakeIs

\* A tool that failed leaves the share of the others under its threshold.
LEMMA ToolSuccessIs ==
    ASSUME NEW resp \in DatasetResponses
    PROVE  /\ \E points \in Int : Dataset!ToolSuccess(resp) = Dataset!Score("tool_success", Rounded(points))
           /\ FALSE \in Dataset!Range(resp.tools) => ~Dataset!ToolSuccess(resp).passed
<1> DEFINE all == DOMAIN resp.tools
           good == {n \in all : resp.tools[n]}
           share == Dataset!Share(Dataset!Cardinality(good), Len(resp.tools))
           points == IF resp.tools = <<>> THEN Dataset!One ELSE share
<1>1. /\ Dataset!IsList(resp.tools) /\ Len(resp.tools) \in Nat /\ Len(resp.tools) < 100
      /\ IsFiniteSet(all) /\ all = 1..Len(resp.tools)
      /\ resp.tools = <<>> <=> Len(resp.tools) = 0
      /\ Dataset!Range(resp.tools) = {resp.tools[n] : n \in 1..Len(resp.tools)}
  BY ResponseIs, ListIs
<1>2. Dataset!Cardinality(good) \in Nat
  BY <1>1, CountIsNat
<1>3. Dataset!Cardinality(all) = Len(resp.tools)
  BY <1>1, OneOfEach, FS_Interval, SMT
<1>4. share \in Nat
  BY <1>1, <1>2, ShareIsNat
<1>5. ASSUME FALSE \in Dataset!Range(resp.tools)
      PROVE  points = share /\ share + 3 < 6 * 9900
  <2>1. PICK n \in 1..Len(resp.tools) : ~resp.tools[n]
    BY <1>1, <1>5
  <2>2. resp.tools # <<>>
    BY <1>1, <2>1
  <2>3. good \in SUBSET all /\ good # all
    BY <1>1, <2>1
  <2> HIDE DEF good, all
  <2>4. Dataset!Cardinality(good) < Dataset!Cardinality(all)
    BY <1>1, <2>3, CountIsNat
  <2> DEFINE part == Dataset!Cardinality(good)
             whole == Len(resp.tools)
  <2>5. part \in Nat /\ whole \in Nat /\ part < whole /\ whole < 100
    BY <1>1, <1>2, <1>3, <2>4
  <2> HIDE DEF part, whole
  <2>6. Dataset!Share(part, whole) + 3 < 6 * 9900
    BY <2>5, ShareIs
  <2> QED
    BY <2>2, <2>6 DEF part, whole
<1>6. points \in Int
  BY <1>4, OneIs
<1>7. Dataset!ToolSuccess(resp) = Dataset!Make("tool_success", points)
  BY Zenon DEF Dataset!ToolSuccess
<1>8. Dataset!Make("tool_success", points) = Dataset!Score("tool_success", Rounded(points))
  BY <1>6, MakeIs
<1>9. ASSUME FALSE \in Dataset!Range(resp.tools)
      PROVE  ~Dataset!ToolSuccess(resp).passed
  <2>1. points + 3 < 6 * 9900
    BY <1>5, <1>9
  <2> HIDE DEF points, share
  <2> DEFINE c == 9900
             score == Rounded(points)
  <2>2. c \in Nat \ {0} /\ points + 3 < 6 * c
    BY <2>1
  <2> HIDE DEF c
  <2>3. score < 6 * c /\ score \in Int
    BY <1>6, <2>2, RoundedIs, OneIs DEF Dataset!Grades
  <2>4. Dataset!Threshold["tool_success"] = 6 * c /\ Dataset!Threshold["tool_success"] \in Int
    BY ThresholdIs DEF c
  <2>5. Dataset!ToolSuccess(resp).passed <=> score >= Dataset!Threshold["tool_success"]
    BY <1>7, <1>8, <2>3, <2>4, ScoreIs DEF score
  <2> HIDE DEF score
  <2> QED
    BY <2>2, <2>3, <2>4, <2>5
<1> HIDE DEF points, share
<1> QED
  BY <1>6, <1>7, <1>8, <1>9

LEMMA HealthIs ==
    ASSUME NEW resp \in DatasetResponses, resp.evidence # <<>>
    PROVE  Dataset!Health(resp) \in Int
<1> DEFINE ev == resp.evidence
           f == [n \in DOMAIN ev |-> ev[n].score]
           total == Dataset!Total(ev)
           mean == Dataset!Min({Dataset!One, (2 * total) \div Len(ev)})
           files == {e.file : e \in Dataset!Range(ev)}
           breadth == Dataset!Min({Dataset!One, Dataset!Share(Dataset!Cardinality(files), 3)})
<1>1. /\ Len(ev) \in Nat /\ Len(ev) # 0 /\ IsFiniteSet(DOMAIN ev)
      /\ \A n \in DOMAIN ev : ev[n].score \in Int
  BY ResponseIs, ListIs
<1>2. total \in Int
  <2>1. DOMAIN f = DOMAIN ev /\ \A n \in DOMAIN f : f[n] \in Int
    BY <1>1
  <2>2. total = SumFunction(f)
    BY OneSum, Zenon DEF Dataset!Total
  <2>3. {} \in SUBSET DOMAIN f /\ 0 \in Int
    OBVIOUS
  <2> HIDE DEF f
  <2>4. SumFunction(f) \in Int
    BY <1>1, <2>1, <2>3, SumAtLeast
  <2> QED
    BY <2>2, <2>4
<1>3. mean \in Int
  <2> DEFINE q == (2 * total) \div Len(ev)
             n == Len(ev)
  <2> HIDE DEF total, n
  <2>1. (2 * total) \div n \in Int
    BY <1>1, <1>2, SMT DEF n
  <2>2. q \in Int
    BY <2>1 DEF n
  <2> HIDE DEF q
  <2> QED
    BY <2>2, OneIs, LeastOfTwo DEF q
<1>4. breadth \in Int
  <2> DEFINE q == Dataset!Share(Dataset!Cardinality(files), 3)
  <2>1. IsFiniteSet(files)
    <3> DEFINE g == [n \in DOMAIN ev |-> ev[n].file]
    <3>1. g \in Surjection(DOMAIN ev, files)
      BY DEF Dataset!Range, Surjection
    <3> HIDE DEF files, g
    <3> QED
      BY <1>1, <3>1, FS_Surjection
  <2>2. Dataset!Cardinality(files) \in Nat /\ 3 \in Nat
    BY <2>1, CountIsNat
  <2>3. q \in Int
    BY <2>2, ShareIsNat
  <2> HIDE DEF q
  <2> QED
    BY <2>3, OneIs, LeastOfTwo DEF q
<1>5. Dataset!Health(resp) = (7 * (IF total > 0 THEN mean ELSE 0) + 3 * breadth) \div 10
  BY Zenon DEF Dataset!Health
<1> HIDE DEF total, mean, breadth
<1> QED
  BY <1>2, <1>3, <1>4, <1>5, SMT

LEMMA RetrievalQualityIs ==
    ASSUME NEW ex, IsFiniteSet(ex.files), NEW resp \in DatasetResponses
    PROVE  \E points \in Int :
              Dataset!RetrievalQuality(ex, resp) = Dataset!Score("retrieval_quality", Rounded(points))
<1> DEFINE health == Dataset!Health(resp)
           labelled == Dataset!Labelled(ex, resp)
           points == IF resp.evidence = <<>> THEN 0
                     ELSE IF ex.files = {} THEN health
                     ELSE (health + labelled) \div 2
<1>1. resp.evidence # <<>> => health \in Int
  BY HealthIs
<1>2. labelled \in Int
  <2>1. /\ Dataset!Cardinality({f \in ex.files : \E i \in Dataset!Items(resp) : i.file.base = f.base}) \in Nat
        /\ Dataset!Cardinality(ex.files) \in Nat
    BY CountIsNat
  <2> QED
    BY <2>1, ShareIsNat DEF Dataset!Labelled
<1>3. points \in Int
  <2> HIDE DEF health, labelled
  <2> QED
    BY <1>1, <1>2, SMT
<1>4. Dataset!RetrievalQuality(ex, resp) = Dataset!Make("retrieval_quality", points)
  BY Zenon DEF Dataset!RetrievalQuality
<1> HIDE DEF points
<1> QED
  BY <1>3, <1>4, MakeIs

-----------------------------------------------------------------------------
(* The scores of an answer.                                                *)

LEMMA HeuristicsOK ==
    ASSUME NEW ex, IsFiniteSet(ex.question), IsFiniteSet(ex.keywords), IsFiniteSet(ex.files),
           NEW resp \in DatasetResponses
    PROVE  LET scores == Dataset!AllMetrics(ex, resp)
           IN  /\ ScoresOK(scores)
               /\ resp.answer = {} \/ (resp.citations = <<>> /\ resp.evidence = <<>>) => ~scores[1].passed
               /\ FALSE \in Dataset!Range(resp.tools) => ~scores[4].passed
<1> DEFINE scores == Dataset!AllMetrics(ex, resp)
<1>1. /\ DOMAIN scores = 1..5
      /\ scores[1] = Dataset!Grounding(resp) /\ scores[2] = Dataset!Relevance(ex, resp)
      /\ scores[3] = Dataset!Completeness(resp) /\ scores[4] = Dataset!ToolSuccess(resp)
      /\ scores[5] = Dataset!RetrievalQuality(ex, resp)
  BY DEF Dataset!AllMetrics
<1>2. \A k \in 1..5 : Dataset!Threshold[Dataset!Metric[k]] \in Int
  BY ThresholdIs
<1>3. Dataset!Threshold["grounding"] \in Int /\ Dataset!Threshold["relevance"] \in Int
      /\ Dataset!Threshold["completeness"] \in Int /\ Dataset!Threshold["tool_success"] \in Int
      /\ Dataset!Threshold["retrieval_quality"] \in Int
  BY <1>2, MetricIs
<1>4. ScoreOK(Dataset!Grounding(resp), "grounding")
  <2>1. IsFiniteSet(resp.answer) /\ IsFiniteSet(resp.mentions) /\ Dataset!IsList(resp.citations)
    BY ResponseIs
  <2> QED
    BY <1>3, <2>1, GroundingIs, RoundedOK, Zenon
<1>5. ScoreOK(Dataset!Relevance(ex, resp), "relevance")
  BY <1>3, RelevanceIs, RoundedOK, Zenon
<1>6. ScoreOK(Dataset!Completeness(resp), "completeness")
  BY <1>3, CompletenessIs, RoundedOK, Zenon
<1>7. ScoreOK(Dataset!ToolSuccess(resp), "tool_success")
  BY <1>3, ToolSuccessIs, RoundedOK, Zenon
<1>8. ScoreOK(Dataset!RetrievalQuality(ex, resp), "retrieval_quality")
  BY <1>3, RetrievalQualityIs, RoundedOK, Zenon
<1>9. ScoresOK(scores)
  <2> HIDE DEF scores
  <2>1. ASSUME NEW k \in 1..5 PROVE ScoreOK(scores[k], Dataset!Metric[k])
    <3>1. k = 1 \/ k = 2 \/ k = 3 \/ k = 4 \/ k = 5
      BY SMT
    <3> QED
      BY <1>1, <1>4, <1>5, <1>6, <1>7, <1>8, <3>1, MetricIs, Zenon
  <2> QED
    BY <1>1, <2>1 DEF ScoresOK
<1>10. ASSUME resp.answer = {} \/ (resp.citations = <<>> /\ resp.evidence = <<>>)
       PROVE  ~Dataset!Grounding(resp).passed
  <2>1. ASSUME resp.citations = <<>>, resp.evidence = <<>> PROVE Dataset!Support(resp) = {}
    <3>1. Dataset!Range(resp.citations) = {} /\ Dataset!Range(resp.evidence) = {}
      <4>1. Len(resp.citations) = 0 /\ Len(resp.evidence) = 0
        BY <2>1, ResponseIs, ListIs
      <4> QED
        BY <4>1, ResponseIs, ListIs
    <3> QED
      BY <3>1, Zenon DEF Dataset!Support, Dataset!Items
  <2>2. resp.answer = {} \/ Dataset!Support(resp) = {}
    BY <1>10, <2>1
  <2>3. Dataset!Grounding(resp) = Dataset!Make("grounding", 0)
    BY <2>2, Zenon DEF Dataset!Grounding
  <2>4. 0 \in Int /\ 0 <= 0
    OBVIOUS
  <2>5. Dataset!Grounding(resp) = Dataset!Score("grounding", Rounded(0)) /\ Rounded(0) = 0
    BY <2>3, <2>4, MakeIs, RoundedIs, Zenon
  <2>6. Dataset!Grounding(resp).passed <=> 0 >= Dataset!Threshold["grounding"]
    BY <1>3, <2>4, <2>5, ScoreIs
  <2> QED
    BY <1>3, <2>6, ThresholdIs
<1>11. FALSE \in Dataset!Range(resp.tools) => ~Dataset!ToolSuccess(resp).passed
  BY ToolSuccessIs
<1> HIDE DEF scores
<1>12. resp.answer = {} \/ (resp.citations = <<>> /\ resp.evidence = <<>>) => ~scores[1].passed
  BY <1>1, <1>10
<1>13. FALSE \in Dataset!Range(resp.tools) => ~scores[4].passed
  BY <1>1, <1>11
<1> QED
  BY <1>9, <1>12, <1>13 DEF scores

LEMMA JudgedIs ==
    ASSUME NEW resp, NEW reply \in Replies, ~Dataset!JudgeRaises(resp, reply)
    PROVE  \A j \in Dataset!Range(Dataset!Judged(resp, reply)) :
              /\ Dataset!Judgeable(resp)
              /\ j.metric \in {"grounding", "relevance"} /\ ScoreOK(j, j.metric)
<1>1. CASE ~Dataset!Judgeable(resp) \/ reply = NoObject
  <2>1. Dataset!Judged(resp, reply) = <<>>
    BY <1>1, Zenon DEF Dataset!Judged
  <2>2. Dataset!Range(<<>>) = {}
    BY DEF Dataset!Range
  <2> QED
    BY <2>1, <2>2, Zenon
<1>2. CASE Dataset!Judgeable(resp) /\ reply # NoObject
  <2>1. reply.grounding \in Int \union {NoNumber} /\ reply.relevance \in Int \union {NoNumber}
    BY <1>2, Assumptions, Zenon DEF Dataset!ConstantsAssumption, Dataset!JudgeRaises
  <2>2. ASSUME NEW g \in Int \union {NoNumber} PROVE Dataset!Clamped(g) \in Dataset!Grades
    <3>1. CASE g = NoNumber
      <4>1. Dataset!Clamped(g) = 0
        BY <3>1, Zenon DEF Dataset!Clamped
      <4> QED
        BY <4>1, OneIs, SMT DEF Dataset!Grades
    <3>2. CASE g # NoNumber
      <4>1. g \in Int
        BY <2>2, <3>2
      <4>2. 0 \in Int /\ Dataset!One \in Int /\ 0 <= Dataset!One
        BY OneIs, SMT
      <4>3. Dataset!Max({0, Dataset!Min({Dataset!One, g})}) = Within(g)
        BY <4>1, <4>2, WithinIs DEF Within
      <4>4. Dataset!Clamped(g) = Within(g)
        BY <3>2, <4>3, Zenon DEF Dataset!Clamped
      <4>5. Within(g) \in Int /\ 0 <= Within(g) /\ Within(g) <= Dataset!One
        BY <4>1, <4>2, SMT DEF Within
      <4> QED
        BY <4>2, <4>4, <4>5, SMT DEF Dataset!Grades
    <3> QED
      BY <3>1, <3>2
  <2> DEFINE a == Dataset!Score("grounding", Dataset!Clamped(reply.grounding))
             b == Dataset!Score("relevance", Dataset!Clamped(reply.relevance))
  <2>3. Dataset!Threshold["grounding"] \in Int /\ Dataset!Threshold["relevance"] \in Int
    BY ThresholdIs, MetricIs
  <2>4. ScoreOK(a, "grounding") /\ ScoreOK(b, "relevance")
    BY <2>1, <2>2, <2>3, GradeOK, Zenon
  <2>5. Dataset!Judged(resp, reply) = <<a, b>>
    BY <1>2, Zenon DEF Dataset!Judged
  <2> HIDE DEF a, b
  <2>6. Dataset!Range(<<a, b>>) = {a, b}
    BY DEF Dataset!Range
  <2>7. a.metric = "grounding" /\ b.metric = "relevance"
    BY <2>4 DEF ScoreOK
  <2> QED
    BY <1>2, <2>4, <2>5, <2>6, <2>7
<1> QED
  BY <1>1, <1>2

LEMMA ReplacedIs ==
    ASSUME NEW base, NEW judged
    PROVE  LET r == Dataset!Replaced(base, judged)
               J == Dataset!Range(judged)
           IN  /\ DOMAIN r = DOMAIN base
               /\ \A k \in DOMAIN base :
                     \/ r[k] = base[k] /\ \A j \in J : j.metric # base[k].metric
                     \/ r[k] \in J /\ r[k].metric = base[k].metric
<1> DEFINE r == Dataset!Replaced(base, judged)
           J == Dataset!Range(judged)
<1>1. DOMAIN r = DOMAIN base
  BY Zenon DEF Dataset!Replaced
<1>2. ASSUME NEW k \in DOMAIN base
      PROVE  \/ r[k] = base[k] /\ \A j \in J : j.metric # base[k].metric
             \/ r[k] \in J /\ r[k].metric = base[k].metric
  <2>1. r[k] = IF \E j \in J : j.metric = base[k].metric
               THEN CHOOSE j \in J : j.metric = base[k].metric
               ELSE base[k]
    BY Zenon DEF Dataset!Replaced
  <2> HIDE DEF r, J
  <2> QED
    BY <2>1
<1> QED
  BY <1>1, <1>2

LEMMA ScoreWithJudgeOK ==
    ASSUME NEW ex, IsFiniteSet(ex.question), IsFiniteSet(ex.keywords), IsFiniteSet(ex.files),
           NEW resp \in DatasetResponses, NEW reply \in Replies, ~Dataset!JudgeRaises(resp, reply)
    PROVE  LET scores == Dataset!ScoreWithJudge(ex, resp, reply)
           IN  ScoresOK(scores) /\ (Broken(resp) => ~Dataset!Passes(scores))
<1> DEFINE base == Dataset!AllMetrics(ex, resp)
           judged == Dataset!Judged(resp, reply)
           J == Dataset!Range(judged)
           scores == Dataset!ScoreWithJudge(ex, resp, reply)
<1>1. /\ ScoresOK(base)
      /\ resp.answer = {} \/ (resp.citations = <<>> /\ resp.evidence = <<>>) => ~base[1].passed
      /\ FALSE \in Dataset!Range(resp.tools) => ~base[4].passed
  BY HeuristicsOK
<1>2. \A j \in J : /\ Dataset!Judgeable(resp)
                   /\ j.metric \in {"grounding", "relevance"} /\ ScoreOK(j, j.metric)
  BY JudgedIs
<1>3. scores = Dataset!Replaced(base, judged)
  BY Zenon DEF Dataset!ScoreWithJudge
<1>4. /\ DOMAIN scores = DOMAIN base
      /\ \A k \in DOMAIN base :
            \/ scores[k] = base[k] /\ \A j \in J : j.metric # base[k].metric
            \/ scores[k] \in J /\ scores[k].metric = base[k].metric
  <2> HIDE DEF base, judged, scores
  <2> QED
    BY <1>3, ReplacedIs
<1> HIDE DEF base, judged, J, scores
<1>5. DOMAIN base = 1..5 /\ \A k \in 1..5 : base[k].metric = Dataset!Metric[k] /\ ScoreOK(base[k], Dataset!Metric[k])
  BY <1>1 DEF ScoresOK, ScoreOK
<1>6. \A k \in 1..5 : ScoreOK(scores[k], Dataset!Metric[k])
  BY <1>2, <1>4, <1>5
<1>7. ScoresOK(scores)
  BY <1>4, <1>5, <1>6 DEF ScoresOK
<1>8. ASSUME Broken(resp) PROVE \E k \in 1..5 : ~scores[k].passed
  <2>1. CASE resp.answer = {} \/ (resp.citations = <<>> /\ resp.evidence = <<>>)
    <3>1. ~Dataset!Judgeable(resp)
      BY <2>1 DEF Dataset!Judgeable
    <3>2. scores[1] = base[1]
      BY <1>2, <1>4, <1>5, <3>1
    <3> QED
      BY <1>1, <2>1, <3>2
  <2>2. CASE FALSE \in Dataset!Range(resp.tools)
    <3>1. base[4].metric = "tool_success"
      BY <1>5, MetricIs
    <3>2. scores[4] = base[4]
      BY <1>2, <1>4, <1>5, <3>1
    <3> QED
      BY <1>1, <2>2, <3>2
  <2> QED
    BY <1>8, <2>1, <2>2 DEF Broken
<1>9. Broken(resp) => ~Dataset!Passes(scores)
  BY <1>4, <1>5, <1>8 DEF Dataset!Passes, Dataset!Range
<1> QED
  BY <1>7, <1>9 DEF scores

-----------------------------------------------------------------------------
(* The steps of the run of a dataset.                                      *)

LEMMA LongerList ==
    ASSUME NEW s, Dataset!IsList(s), NEW x
    PROVE  LET t == Append(s, x)
           IN  /\ Dataset!IsList(t) /\ Len(t) = Len(s) + 1
               /\ \A n \in 1..Len(s) : t[n] = s[n]
               /\ t[Len(s) + 1] = x
<1> DEFINE t == Append(s, x)
           R == Dataset!Range(s) \union {x}
<1>1. s \in Seq(R) /\ x \in R
  <2>1. s \in Seq(Dataset!Range(s))
    BY DEF Dataset!IsList
  <2>2. Dataset!Range(s) \subseteq R
    OBVIOUS
  <2> HIDE DEF R
  <2>3. Len(s) \in Nat /\ s \in [1..Len(s) -> R]
    BY <2>1, <2>2, LenProperties
  <2>4. s \in Seq(R)
    BY <2>3, SeqDef
  <2> QED
    BY <2>4 DEF R
<1> HIDE DEF R
<1>2. /\ t \in Seq(R) /\ Len(t) = Len(s) + 1
      /\ \A i \in 1..(Len(s) + 1) : t[i] = IF i <= Len(s) THEN s[i] ELSE x
  BY <1>1, AppendIs
<1>3. Len(s) \in Nat /\ Len(t) \in Nat /\ DOMAIN t = 1..Len(t) /\ t \in [1..Len(t) -> R]
  BY <1>1, <1>2, LenProperties
<1> HIDE DEF t
<1>4. t \in [1..Len(t) -> Dataset!Range(t)]
  BY <1>3 DEF Dataset!Range
<1>5. Dataset!IsList(t)
  BY <1>3, <1>4, SeqDef DEF Dataset!IsList
<1>6. /\ \A n \in 1..Len(s) : t[n] = s[n]
      /\ t[Len(s) + 1] = x
  BY <1>2, <1>3
<1> QED
  BY <1>2, <1>5, <1>6 DEF t

LEMMA NewRow ==
    ASSUME DatasetInv, summary = Dataset!Unset, Len(results) < Len(Examples),
           NEW row, NEW from, RowOK(Len(results) + 1, row, from),
           results' = Append(results, row), asked' = Append(asked, from),
           response' \in DatasetResponses \union {Pending}, summary' = summary
    PROVE  DatasetInv'
<1>1. /\ Dataset!IsList(results) /\ Dataset!IsList(asked)
      /\ Len(results) = Len(asked) /\ \A n \in 1..Len(results) : RowOK(n, results[n], asked[n])
  BY DEF DatasetInv
<1>2. /\ Dataset!IsList(results') /\ Len(results') = Len(results) + 1
      /\ \A n \in 1..Len(results) : results'[n] = results[n]
      /\ results'[Len(results) + 1] = row
  BY <1>1, LongerList
<1>3. /\ Dataset!IsList(asked') /\ Len(asked') = Len(asked) + 1
      /\ \A n \in 1..Len(asked) : asked'[n] = asked[n]
      /\ asked'[Len(asked) + 1] = from
  BY <1>1, LongerList
<1>4. Len(results) \in Nat /\ Len(Examples) \in Nat
  BY <1>1, ListIs, Assumptions DEF Dataset!ConstantsAssumption
<1>5. ASSUME NEW n \in 1..Len(results') PROVE RowOK(n, results'[n], asked'[n])
  <2>1. n \in 1..Len(results) \/ n = Len(results) + 1
    BY <1>2, <1>4
  <2> QED
    BY <1>1, <1>2, <1>3, <2>1, Zenon
<1>6. Dataset!RateBacked'
  BY DEF Dataset!RateBacked, Dataset!Unset
<1>7. (\A n \in 1..Len(results) : RowOK(n, results[n], asked[n]))'
  BY <1>5 DEF RowOK
<1> QED
  BY <1>1, <1>2, <1>3, <1>4, <1>6, <1>7 DEF DatasetInv, Dataset!IsList

LEMMA FailedRowOK ==
    ASSUME NEW n \in 1..Len(Examples)
    PROVE  RowOK(n, Dataset!FailedRow(Examples[n]), Pending)
<1> DEFINE scores == Dataset!FailedRow(Examples[n]).scores
<1>1. /\ Dataset!FailedRow(Examples[n]).example = Examples[n].id
      /\ scores = [k \in 1..5 |-> [metric |-> Dataset!Metric[k], score |-> 0, passed |-> FALSE]]
  BY DEF Dataset!FailedRow, Dataset!Row
<1>2. 0 \in Dataset!Grades
  BY OneIs DEF Dataset!Grades
<1> HIDE DEF scores
<1>3. DOMAIN scores = 1..5 /\ \A k \in 1..5 : ScoreOK(scores[k], Dataset!Metric[k])
  BY <1>1, <1>2 DEF ScoreOK
<1> QED
  BY <1>1, <1>3 DEF RowOK, ScoresOK, scores

LEMMA AggregateStep ==
    ASSUME DatasetInv, Dataset!Aggregate
    PROVE  DatasetInv'
<1>1. /\ Len(results) = Len(Examples) /\ Dataset!IsList(results)
      /\ \A n \in 1..Len(results) : RowOK(n, results[n], asked[n])
  BY DEF DatasetInv, Dataset!Aggregate
<1>2. DOMAIN results = 1..Len(results) /\ IsFiniteSet(DOMAIN results)
  BY <1>1, ListIs
<1> DEFINE P == {n \in DOMAIN results : Dataset!PassedRow(results[n])}
           f(k) == [n \in DOMAIN results |-> results[n].scores[k].score]
<1>3. /\ summary'.n = Len(results) /\ summary'.passed = Dataset!Cardinality(P)
      /\ \A k \in 1..5 : summary'.sums[k] = Dataset!SumFunction(f(k))
  BY DEF Dataset!Aggregate
<1>4. ASSUME NEW k \in 1..5
      PROVE  summary'.sums[k] >= summary'.passed * Dataset!Threshold[Dataset!Metric[k]]
  <2> DEFINE g == f(k)
             t == Dataset!Threshold[Dataset!Metric[k]]
  <2>1. t \in Int
    BY ThresholdIs
  <2>2. ASSUME NEW n \in DOMAIN results
        PROVE  /\ g[n] \in Int /\ g[n] >= 0
               /\ n \in P => g[n] >= t
    <3>1. g[n] = results[n].scores[k].score
      OBVIOUS
    <3>2. /\ DOMAIN results[n].scores = 1..5
          /\ ScoreOK(results[n].scores[k], Dataset!Metric[k])
      BY <1>1, <1>2 DEF RowOK, ScoresOK
    <3>3. g[n] \in Int /\ g[n] >= 0
      BY <3>1, <3>2, OneIs DEF ScoreOK, Dataset!Grades
    <3>4. n \in P => results[n].scores[k].passed
      BY <3>2 DEF Dataset!PassedRow, Dataset!Passes, Dataset!Range
    <3> HIDE DEF P, g, t
    <3> QED
      BY <3>1, <3>2, <3>3, <3>4 DEF ScoreOK, t
  <2>3. DOMAIN g = DOMAIN results /\ P \in SUBSET DOMAIN g
    OBVIOUS
  <2> HIDE DEF P, g, t
  <2>4. SumFunction(g) >= Cardinality(P) * t
    BY <1>2, <2>1, <2>2, <2>3, SumAtLeast
  <2>5. summary'.sums[k] = SumFunction(g) /\ summary'.passed = Cardinality(P)
    BY <1>3, OneSum, OneOfEach DEF g
  <2> QED
    BY <2>4, <2>5 DEF t
<1>5. Dataset!RateBacked'
  BY <1>1, <1>3, <1>4 DEF Dataset!RateBacked
<1>6. UNCHANGED <<response, results, asked>>
  BY DEF Dataset!Aggregate
<1> QED
  BY <1>5, <1>6 DEF DatasetInv, Dataset!IsList, RowOK

LEMMA DatasetStep ==
    ASSUME DatasetInv, Dataset!Next
    PROVE  DatasetInv'
<1>1. CASE Dataset!Answer
  BY <1>1 DEF Dataset!Answer, DatasetInv, Dataset!RateBacked, Dataset!IsList, RowOK
<1>2. CASE Dataset!Aggregate
  BY <1>2, AggregateStep
<1> DEFINE n == Len(results) + 1
<1>3. ASSUME Dataset!Running PROVE n \in 1..Len(Examples) /\ Dataset!Current = Examples[n]
  <2>1. Len(results) \in Nat /\ Len(Examples) \in Nat
    BY ListIs, Assumptions DEF DatasetInv, Dataset!ConstantsAssumption
  <2> QED
    BY <1>3, <2>1 DEF Dataset!Running, Dataset!Current
<1>4. ASSUME Dataset!Running, Dataset!Fail, summary' = summary, response' \in DatasetResponses \union {Pending}
      PROVE  DatasetInv'
  <2>1. RowOK(n, Dataset!FailedRow(Examples[n]), Pending)
    BY <1>3, <1>4, FailedRowOK
  <2> QED
    BY <1>3, <1>4, <2>1, NewRow DEF Dataset!Fail, Dataset!Running
<1>5. CASE Dataset!ChatRaises
  BY <1>4, <1>5 DEF Dataset!ChatRaises, DatasetInv
<1>6. ASSUME NEW reply \in Replies, Dataset!Evaluate(reply) PROVE DatasetInv'
  <2>1. /\ Dataset!Running /\ response # Pending /\ response' = Pending /\ summary' = summary
        /\ response \in DatasetResponses
    BY <1>6 DEF Dataset!Evaluate, DatasetInv
  <2>2. CASE Dataset!ScoreRaises(reply)
    BY <1>4, <1>6, <2>1, <2>2 DEF Dataset!Evaluate
  <2>3. CASE ~Dataset!ScoreRaises(reply)
    <3> DEFINE ex == Examples[n]
               scores == Dataset!ScoreWithJudge(ex, response, reply)
               row == Dataset!Row(ex, scores)
               from == [resp |-> response, reply |-> reply]
    <3>1. results' = Append(results, row) /\ asked' = Append(asked, from)
      BY <1>3, <1>6, <2>1, <2>3, Zenon DEF Dataset!Evaluate
    <3>2. ScoresOK(scores) /\ (Broken(response) => ~Dataset!Passes(scores))
      <4>1. ~Dataset!JudgeRaises(response, reply)
        BY <2>3 DEF Dataset!ScoreRaises
      <4>2. IsFiniteSet(ex.question) /\ IsFiniteSet(ex.keywords) /\ IsFiniteSet(ex.files)
        BY <1>3, <2>1, ExampleIs
      <4> QED
        BY <2>1, <4>1, <4>2, ScoreWithJudgeOK
    <3>3. row.example = ex.id /\ row.scores = scores /\ from.resp = response
      BY DEF Dataset!Row
    <3> HIDE DEF row, from, scores
    <3>4. RowOK(n, row, from)
      BY <3>2, <3>3 DEF RowOK
    <3> QED
      BY <2>1, <3>1, <3>4, NewRow DEF Dataset!Running
  <2> QED
    BY <2>2, <2>3
<1> QED
  BY <1>1, <1>2, <1>5, <1>6 DEF Dataset!Next

-----------------------------------------------------------------------------
(* A chat turn, scored online.                                             *)

LEMMA OnlineScores ==
    ASSUME NEW ex, NEW resp, NEW reply
    PROVE  LET scores == Online!ScoreWithJudge(ex, resp, reply)
           IN  /\ DOMAIN scores = 1..5 /\ scores = [k \in 1..5 |-> scores[k]]
               /\ \A k \in 1..5 : \E g : scores[k] = Online!Score(Online!Metric[k], g)
<1> DEFINE base == Online!AllMetrics(ex, resp)
           judged == Online!Judged(resp, reply)
           J == Online!Range(judged)
           scores == Online!ScoreWithJudge(ex, resp, reply)
<1>1. \A m, points : \E g : Online!Make(m, points) = Online!Score(m, g)
  BY Zenon DEF Online!Make
<1>2. /\ \E g : Online!Grounding(resp) = Online!Score("grounding", g)
      /\ \E g : Online!Relevance(ex, resp) = Online!Score("relevance", g)
      /\ \E g : Online!Completeness(resp) = Online!Score("completeness", g)
      /\ \E g : Online!ToolSuccess(resp) = Online!Score("tool_success", g)
      /\ \E g : Online!RetrievalQuality(ex, resp) = Online!Score("retrieval_quality", g)
  BY <1>1, Zenon DEF Online!Grounding, Online!Relevance, Online!Completeness, Online!ToolSuccess,
     Online!RetrievalQuality
<1>3. /\ DOMAIN base = 1..5
      /\ base[1] = Online!Grounding(resp) /\ base[2] = Online!Relevance(ex, resp)
      /\ base[3] = Online!Completeness(resp) /\ base[4] = Online!ToolSuccess(resp)
      /\ base[5] = Online!RetrievalQuality(ex, resp)
  BY DEF Online!AllMetrics
<1>4. /\ Online!Metric[1] = "grounding" /\ Online!Metric[2] = "relevance"
      /\ Online!Metric[3] = "completeness" /\ Online!Metric[4] = "tool_success"
      /\ Online!Metric[5] = "retrieval_quality"
  BY DEF Online!Metric
<1>5. ASSUME NEW k \in 1..5 PROVE \E g : base[k] = Online!Score(Online!Metric[k], g)
  <2>1. k = 1 \/ k = 2 \/ k = 3 \/ k = 4 \/ k = 5
    BY SMT
  <2> HIDE DEF base
  <2> QED
    BY <1>2, <1>3, <1>4, <2>1, Zenon
<1>6. \A j \in J : \E m, g : j = Online!Score(m, g)
  <2>1. CASE judged = <<>>
    BY <2>1 DEF Online!Range
  <2>2. CASE judged # <<>>
    <3> DEFINE a == Online!Score("grounding", Online!Clamped(reply.grounding))
               b == Online!Score("relevance", Online!Clamped(reply.relevance))
    <3>1. judged = <<a, b>>
      BY <2>2, Zenon DEF Online!Judged
    <3> HIDE DEF a, b, judged
    <3>2. J = {a, b}
      BY <3>1 DEF Online!Range
    <3> HIDE DEF J
    <3> QED
      BY <3>2, Zenon DEF a, b
  <2> QED
    BY <2>1, <2>2
<1>7. \A m, g : Online!Score(m, g).metric = m
  BY DEF Online!Score
<1>8. /\ DOMAIN scores = DOMAIN base /\ scores = [k \in DOMAIN base |-> scores[k]]
      /\ \A k \in DOMAIN base :
            \/ scores[k] = base[k]
            \/ scores[k] \in J /\ scores[k].metric = base[k].metric
  <2>1. scores = [k \in DOMAIN base |->
                     IF \E j \in J : j.metric = base[k].metric
                     THEN CHOOSE j \in J : j.metric = base[k].metric
                     ELSE base[k]]
    BY Zenon DEF Online!ScoreWithJudge, Online!Replaced
  <2> HIDE DEF scores, base, J, judged
  <2> QED
    BY <2>1
<1> HIDE DEF scores, base, J, judged
<1>9. ASSUME NEW k \in 1..5 PROVE \E g : scores[k] = Online!Score(Online!Metric[k], g)
  <2>1. CASE scores[k] = base[k]
    BY <1>5, <2>1
  <2>2. CASE scores[k] \in J /\ scores[k].metric = base[k].metric
    <3>1. PICK m, g : scores[k] = Online!Score(m, g)
      BY <1>6, <2>2
    <3>2. base[k].metric = Online!Metric[k]
      BY <1>5, <1>7
    <3>3. m = Online!Metric[k]
      BY <1>7, <2>2, <3>1, <3>2
    <3> QED
      BY <3>1, <3>3
  <2> QED
    BY <1>3, <1>8, <2>1, <2>2
<1> QED
  BY <1>3, <1>8, <1>9 DEF scores

\* What is stored beside the scores is no metric, and the flag is not the score.
LEMMA ChatTurnStep ==
    ASSUME NEW ex, NEW resp, NEW reply, Online!ChatTurn(ex, resp, reply)
    PROVE  Online!OverviewAgrees'
<1> DEFINE scores == Online!ScoreWithJudge(ex, resp, reply)
           last == [metric |-> "overall", score |-> Online!Total(scores) \div 5, passed |-> TRUE]
           stored == Online!Stored(scores)
           shown == Online!TraceToEval(stored)
<1>1. /\ DOMAIN scores = 1..5 /\ scores = [k \in 1..5 |-> scores[k]]
      /\ \A k \in 1..5 : \E g : scores[k] = Online!Score(Online!Metric[k], g)
  BY OnlineScores
<1>2. live'.scores = scores /\ live'.shown = shown
  BY DEF Online!ChatTurn
<1>3. stored = Append(scores, last) /\ last.metric = "overall"
  BY DEF Online!Stored
<1>4. shown = [n \in {n \in DOMAIN stored : Online!IsMetric(stored[n])} |->
                  [stored[n] EXCEPT !.passed = stored[n].score >= 36000]]
  BY SMT DEF Online!TraceToEval
<1> HIDE DEF scores, last
<1>5. DOMAIN stored = 1..6 /\ stored[6] = last /\ \A n \in 1..5 : stored[n] = scores[n]
  <2> DEFINE R == {scores[n] : n \in 1..5} \union {last}
  <2>1. scores \in [1..5 -> R] /\ last \in R /\ 5 \in Nat
    BY <1>1
  <2> HIDE DEF R
  <2>2. scores \in Seq(R)
    BY <2>1, SeqDef
  <2>3. Len(scores) = 5
    BY <1>1, <2>2, LenProperties
  <2>4. /\ stored \in Seq(R) /\ Len(stored) = Len(scores) + 1
        /\ \A i \in 1..(Len(scores) + 1) : stored[i] = IF i <= Len(scores) THEN scores[i] ELSE last
    BY <1>3, <2>1, <2>2, AppendIs
  <2> HIDE DEF stored
  <2>5. DOMAIN stored = 1..6
    BY <2>3, <2>4, LenProperties
  <2> QED
    BY <2>3, <2>4, <2>5
<1> HIDE DEF stored
<1>6. \A n \in 1..6 : Online!IsMetric(stored[n]) <=> n \in 1..5
  <2>1. Online!Range(Online!Metric) = {Online!Metric[k] : k \in 1..5}
    BY DEF Online!Range, Online!Metric
  <2>2. \A k \in 1..5 : Online!Metric[k] # "overall"
    BY DEF Online!Metric
  <2>3. \A n \in 1..5 : stored[n].metric = Online!Metric[n]
    BY <1>1, <1>5 DEF Online!Score
  <2>4. Online!Range(Online!Metric) = {Online!Metric[k] : k \in 1..5} /\ stored[6].metric = "overall"
    BY <1>3, <1>5, <2>1
  <2> QED
    BY <2>2, <2>3, <2>4, <1>5 DEF Online!IsMetric
<1>7. {n \in DOMAIN stored : Online!IsMetric(stored[n])} = 1..5
  BY <1>5, <1>6
<1>8. DOMAIN shown = 1..5 /\ \A n \in 1..5 : shown[n].score = scores[n].score
  <2> DEFINE flag(n) == stored[n].score >= 36000
  <2>1. shown = [n \in 1..5 |-> [stored[n] EXCEPT !.passed = flag(n)]]
    BY <1>4, <1>7, SMT
  <2> HIDE DEF shown, flag
  <2>2. ASSUME NEW n \in 1..5 PROVE shown[n].score = scores[n].score
    <3>1. PICK g : stored[n] = Online!Score(Online!Metric[n], g)
      BY <1>1, <1>5
    <3>2. shown[n] = [Online!Score(Online!Metric[n], g) EXCEPT !.passed = flag(n)]
      BY <2>1, <3>1
    <3>3. shown[n].score = g
      BY <3>2 DEF Online!Score
    <3>4. scores[n].score = g
      BY <1>5, <3>1 DEF Online!Score
    <3> QED
      BY <3>3, <3>4
  <2> QED
    BY <2>1, <2>2
<1> HIDE DEF shown
<1>9. [n \in DOMAIN shown |-> shown[n].score] = [n \in DOMAIN scores |-> scores[n].score]
  BY <1>1, <1>8
<1>10. Online!Total(shown) = Online!Total(scores)
  BY <1>9, Zenon DEF Online!Total
<1> QED
  BY <1>2, <1>10 DEF Online!OverviewAgrees

-----------------------------------------------------------------------------
(* The theorems.                                                           *)

LEMMA EvalsInvHolds == TracesSpec => []EvalsInv
<1>1. TracesInit => EvalsInv
  <2> SUFFICES ASSUME TracesInit PROVE EvalsInv
    OBVIOUS
  <2>1. CASE scene = "store"
    BY <2>1 DEF EvalsInv
  <2>2. CASE scene = "dataset" /\ Dataset!Init
    <3>1. /\ response = Pending /\ results = <<>> /\ asked = <<>> /\ summary = Dataset!Unset
      BY <2>2 DEF Dataset!Init
    <3>2. Dataset!IsList(<<>>) /\ Len(<<>>) = 0
      BY EmptySeq DEF Dataset!IsList
    <3>3. Len(Examples) \in Nat
      BY ListIs, Assumptions DEF Dataset!ConstantsAssumption
    <3>4. DatasetInv
      BY <3>1, <3>2, <3>3 DEF DatasetInv, Dataset!RateBacked
    <3> QED
      BY <2>2, <3>4 DEF EvalsInv
  <2>3. CASE scene = "online" /\ Online!Init
    BY <2>3 DEF EvalsInv, Online!Init, Online!OverviewAgrees, Online!Unset
  <2> QED
    BY <2>1, <2>2, <2>3 DEF TracesInit
<1>2. EvalsInv /\ [TracesNext]_allVars => EvalsInv'
  <2> SUFFICES ASSUME EvalsInv, [TracesNext]_allVars PROVE EvalsInv'
    OBVIOUS
  <2>1. CASE evalVars' = evalVars /\ scene' = scene
    BY <2>1 DEF EvalsInv, DatasetInv, evalVars, Dataset!RateBacked, Dataset!IsList, RowOK,
       Online!OverviewAgrees
  <2>2. CASE scene' = scene /\ scene = "dataset" /\ Dataset!Next
    BY <2>2, DatasetStep DEF EvalsInv
  <2>3. CASE scene' = scene /\ scene = "online" /\ Online!Next
    <3>1. CASE \E q \in Questions, resp \in ChatResponses, reply \in Replies : Online!ChatTurn(q, resp, reply)
      <4>1. Online!OverviewAgrees'
        BY <3>1, ChatTurnStep
      <4> QED
        BY <2>3, <4>1 DEF EvalsInv
    <3>2. CASE live' = live
      BY <2>3, <3>2 DEF EvalsInv, Online!OverviewAgrees
    <3> QED
      BY <2>3, <3>1, <3>2 DEF Online!Next, Online!Answer, Online!ChatRaises, Online!Aggregate, Online!Evaluate
  <2> QED
    BY <2>1, <2>2, <2>3 DEF TracesNext, allVars
<1> QED
  BY <1>1, <1>2, PTL DEF TracesSpec

\* However an example fails, every example of a dataset has its row, in order
\* and with the five metrics in order; however many rows pass, the averages
\* back the rate; and GET /evals computes from the trace of a chat turn the
\* overall that the evaluation computed.
THEOREM RowsAreRight == TracesSpec => []RowsRight
<1>1. EvalsInv => RowsRight
  <2> SUFFICES ASSUME EvalsInv PROVE RowsRight
    OBVIOUS
  <2>1. ASSUME DatasetInv PROVE Dataset!RowsInOrder
    <3>1. Len(results) = Len(asked) /\ DOMAIN results = 1..Len(results)
      BY <2>1, ListIs DEF DatasetInv
    <3>2. ASSUME NEW n \in DOMAIN results
          PROVE  /\ results[n].example = Examples[n].id
                 /\ [k \in DOMAIN results[n].scores |-> results[n].scores[k].metric] = Dataset!Metric
      <4> DEFINE scores == results[n].scores
      <4>1. /\ results[n].example = Examples[n].id
            /\ DOMAIN scores = 1..5 /\ \A k \in 1..5 : scores[k].metric = Dataset!Metric[k]
        BY <2>1, <3>1 DEF DatasetInv, RowOK, ScoresOK, ScoreOK
      <4> HIDE DEF scores
      <4>2. Dataset!Metric = [k \in 1..5 |-> Dataset!Metric[k]]
        BY DEF Dataset!Metric
      <4>3. [k \in DOMAIN scores |-> scores[k].metric] = [k \in 1..5 |-> Dataset!Metric[k]]
        BY <4>1
      <4> QED
        BY <4>1, <4>2, <4>3 DEF scores
    <3> QED
      BY <3>1, <3>2 DEF Dataset!RowsInOrder
  <2> QED
    BY <2>1 DEF EvalsInv, DatasetInv, RowsRight
<1> QED
  BY <1>1, EvalsInvHolds, PTL

\* However generous the judge, every score of a row is within 0 and 1; a row
\* whose answer is empty, rests on nothing or had a tool fail does not pass;
\* and naming one more file never raises the grounding of an answer.
THEOREM GradesAreBacked == TracesSpec => []GradesBacked
<1>1. EvalsInv => GradesBacked
  <2> SUFFICES ASSUME DatasetInv
               PROVE  /\ Dataset!TypeOK /\ Dataset!BrokenFails
                      /\ Dataset!FailureVisible /\ Dataset!NamingNeverHelps
    BY DEF EvalsInv, GradesBacked
  <2>1. /\ DOMAIN results = 1..Len(results)
        /\ \A n \in DOMAIN results : RowOK(n, results[n], asked[n])
    BY ListIs DEF DatasetInv
  <2>2. Dataset!TypeOK
    <3>1. ASSUME NEW n \in DOMAIN results, NEW s \in Dataset!Range(results[n].scores)
          PROVE  s.metric \in Dataset!Range(Dataset!Metric) /\ s.score \in Dataset!Grades /\ s.passed \in BOOLEAN
      <4>1. ScoresOK(results[n].scores)
        BY <2>1 DEF RowOK
      <4>2. PICK k \in 1..5 : s = results[n].scores[k]
        BY <3>1, <4>1 DEF ScoresOK, Dataset!Range
      <4>3. ScoreOK(s, Dataset!Metric[k])
        BY <4>1, <4>2 DEF ScoresOK
      <4>4. Dataset!Metric[k] \in Dataset!Range(Dataset!Metric)
        BY MetricIs DEF Dataset!Range
      <4> QED
        BY <4>3, <4>4 DEF ScoreOK
    <3> QED
      BY <3>1 DEF DatasetInv, Dataset!TypeOK
  <2>3. Dataset!BrokenFails
    BY <2>1 DEF RowOK, Broken, Dataset!BrokenFails
  <2>4. Dataset!FailureVisible
    BY <2>1 DEF RowOK, Broken, Dataset!FailureVisible
  <2>5. Dataset!NamingNeverHelps
    BY NamingCosts DEF DatasetInv, Dataset!NamingNeverHelps
  <2> QED
    BY <2>2, <2>3, <2>4, <2>5
<1> QED
  BY <1>1, EvalsInvHolds, PTL
=============================================================================
