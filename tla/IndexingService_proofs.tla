----------------------- MODULE IndexingService_proofs -----------------------
(***************************************************************************)
(* Proofs about IndexingService, for every set of jobs and clients and     *)
(* every bound.                                                            *)
(***************************************************************************)
EXTENDS IndexingService, TLAPS

-----------------------------------------------------------------------------
(* Type correctness. *)

LEMMA RowTypes ==
    /\ NewRepo \in RepoRow
    /\ NoRow \in JobRow
    /\ NoPoll \in Reading
    /\ NoView \in Answer
    /\ NoPoll.at = "idle"
BY ConstantsAssumption
   DEF NewRepo, NoRow, NoPoll, NoView, RepoRow, JobRow, RepoStatus, Reading, Answer

\* Assigning a field of a row, or of a reading, leaves a row or a reading.
LEMMA RowFields ==
    ASSUME NEW row \in JobRow
    PROVE  /\ \A s \in JobStatus : [row EXCEPT !.status = s] \in JobRow
           /\ \A p \in 0..MaxProgress : [row EXCEPT !.progress = p] \in JobRow
           /\ \A t \in Nat : [row EXCEPT !.updated = t] \in JobRow
BY DEF JobRow

LEMMA ReadingRow ==
    ASSUME NEW q \in Reading, NEW a \in {"pointer", "key", "store"}, NEW row \in JobRow
    PROVE  /\ [q EXCEPT !.at = a, !.row = row] \in Reading
           /\ [q EXCEPT !.at = a, !.row = row].at = a
BY DEF Reading

LEMMA ReadingAt ==
    ASSUME NEW q \in Reading, NEW a \in {"pointer", "key", "store"}
    PROVE  /\ [q EXCEPT !.at = a] \in Reading
           /\ [q EXCEPT !.at = a].at = a
BY DEF Reading

\* SaveJob keeps the types when the row it is given is a row.
LEMMA SaveJobType ==
    ASSUME TypeOK, NEW j \in Jobs, NEW row \in JobRow,
           NEW next \in {"flip", "ingest", "done"}, SaveJob(j, row, next)
    PROVE  /\ draft' \in [Jobs -> JobRow]
           /\ jobs' = jobs
           /\ clock' \in Nat
           /\ pc' \in [Jobs -> Steps]
           /\ resume' \in [Jobs -> {"flip", "ingest", "done"}]
<1>1. clock \in Nat /\ clock + 1 \in Nat
  BY DEF TypeOK
<1>2. [row EXCEPT !.updated = clock + 1] \in JobRow
  BY <1>1 DEF JobRow
<1>3. QED
  BY <1>1, <1>2 DEF SaveJob, Goto, TypeOK, Steps, SaveSteps

LEMMA TypeInit == Init => TypeOK
BY RowTypes, ConstantsAssumption
   DEF Init, TypeOK, Steps

\* A status poll only touches what it has read so far and the answer.
LEMMA GetStatusType ==
    ASSUME TypeOK, NEW c \in Clients, GetStatus(c)
    PROVE  TypeOK'
<1>0. poll[c] \in Reading
  BY DEF TypeOK
<1>1. CASE PollRepository(c)
  <2> DEFINE a == IF RedisUp THEN "pointer" ELSE "store"
             r == [poll[c] EXCEPT !.at = a, !.repo = repo.status]
  <2>1. poll' = [poll EXCEPT ![c] = r]
    BY <1>1 DEF PollRepository
  <2>2. repo.status \in RepoStatus
    BY DEF TypeOK, RepoRow
  <2>3. a \in {"pointer", "key", "store"}
    OBVIOUS
  <2>3a. a # "key"
    OBVIOUS
  <2> HIDE DEF a
  <2>4. r \in Reading /\ r.at = a
    <3> DEFINE q == poll[c]
               status == repo.status
               next == [q EXCEPT !.at = a, !.repo = status]
    <3>1. q \in Reading /\ status \in RepoStatus
      BY <1>0, <2>2
    <3> HIDE DEF q, status
    <3>2. next \in Reading /\ next.at = a
      BY <2>3, <3>1 DEF Reading
    <3>3. QED
      BY <3>2 DEF q, status
  <2> HIDE DEF r
  <2>5. /\ poll' \in [Clients -> Reading]
        /\ \A d \in Clients : poll'[d].at = "key" => poll'[d].ptr \in Jobs
    BY <2>1, <2>3a, <2>4 DEF TypeOK
  <2>6. QED
    BY <1>1, <2>5 DEF TypeOK, PollRepository, storeVars, redisVars, threadVars, envVars
<1>2. CASE PollPointer(c)
  <2> DEFINE a == IF redisPtr = NoJob THEN "store" ELSE "key"
             r == [at |-> a, repo |-> poll[c].repo, ptr |-> redisPtr, row |-> NoRow]
  <2>1. poll' = [poll EXCEPT ![c] = r]
    BY <1>2 DEF PollPointer
  <2>2. redisPtr \in Jobs \union {NoJob} /\ a \in {"pointer", "key", "store"}
    BY DEF TypeOK
  <2>3. r \in Reading /\ (r.at = "key" => r.ptr \in Jobs)
    BY <1>0, <2>2, RowTypes DEF Reading
  <2> HIDE DEF r
  <2>4. QED
    BY <1>2, <2>1, <2>3 DEF TypeOK, PollPointer, storeVars, redisVars, threadVars, envVars
<1>3. CASE PollJobKey(c)
  <2> DEFINE r == [poll[c] EXCEPT !.at = "store", !.row = redisJob[poll[c].ptr]]
  <2>1. poll' = [poll EXCEPT ![c] = r]
    BY <1>3 DEF PollJobKey
  <2>2. redisJob[poll[c].ptr] \in JobRow
    BY <1>3 DEF TypeOK, PollJobKey
  <2>3. r \in Reading /\ r.at = "store"
    BY <1>0, <2>2, ReadingRow
  <2> HIDE DEF r
  <2>4. QED
    BY <1>3, <2>1, <2>3 DEF TypeOK, PollJobKey, storeVars, redisVars, threadVars, envVars
<1>4. CASE PollRedisFails(c)
  <2> DEFINE r == [poll[c] EXCEPT !.at = "store"]
  <2>1. poll' = [poll EXCEPT ![c] = r]
    BY <1>4 DEF PollRedisFails
  <2>2. r \in Reading /\ r.at = "store"
    BY <1>0, ReadingAt
  <2> HIDE DEF r
  <2>3. QED
    BY <1>4, <2>1, <2>2 DEF TypeOK, PollRedisFails, RedisFails, storeVars, redisVars, threadVars
<1>5. CASE PollStore(c)
  <2>1. PICK latest \in Jobs \union {NoJob} :
          view' = [view EXCEPT ![c] =
              IF PreferRedis(poll[c].row, latest)
                THEN [repo |-> poll[c].repo, job |-> poll[c].ptr, row |-> poll[c].row]
                ELSE [repo |-> poll[c].repo, job |-> latest, row |-> StoreRow(latest)]]
    BY <1>5 DEF PollStore
  <2>2. StoreRow(latest) \in JobRow
    BY RowTypes DEF StoreRow, TypeOK
  <2>3. /\ [repo |-> poll[c].repo, job |-> poll[c].ptr, row |-> poll[c].row] \in Answer
        /\ [repo |-> poll[c].repo, job |-> latest, row |-> StoreRow(latest)] \in Answer
    BY <1>0, <2>2 DEF Reading, Answer
  <2>4. view' \in [Clients -> Answer]
    <3>1. view \in [Clients -> Answer]
      BY DEF TypeOK
    <3>2. \A v \in Answer : [view EXCEPT ![c] = v] \in [Clients -> Answer]
      BY <3>1
    <3>3. QED
      BY <2>1, <2>3, <3>2
  <2>5. QED
    BY <1>5, <2>4, RowTypes DEF TypeOK, PollStore, storeVars, redisVars, threadVars, envVars
<1>6. QED
  BY <1>1, <1>2, <1>3, <1>4, <1>5 DEF GetStatus

LEMMA TypeStep == TypeOK /\ [Next]_vars => TypeOK'
<1> SUFFICES ASSUME TypeOK, [Next]_vars
             PROVE  TypeOK'
  OBVIOUS
<1> USE RowTypes, ConstantsAssumption
<1>1. ASSUME NEW j \in Jobs, BeginIndex(j) PROVE TypeOK'
  BY <1>1 DEF TypeOK, BeginIndex, Goto, Steps, StartSteps, storeVars, redisVars, clientVars, envVars
<1>2. ASSUME NEW j \in Jobs, CreateJob(j) PROVE TypeOK'
  <2>1. [status |-> "pending", progress |-> 0, created |-> clock + 1, updated |-> clock + 1] \in JobRow
    BY DEF JobRow, JobStatus, TypeOK
  <2>2. QED
    BY <1>2, <2>1, SaveJobType DEF CreateJob, TypeOK, redisVars, clientVars, envVars
<1>3. ASSUME NEW j \in Jobs, FlipRepo(j) PROVE TypeOK'
  <2>1. [copy[j] EXCEPT !.status = "indexing", !.error = FALSE] \in RepoRow
    <3>1. copy[j] \in RepoRow
      BY DEF TypeOK
    <3>2. QED
      BY <3>1 DEF RepoRow, RepoStatus
  <2>2. QED
    BY <1>3, <2>1 DEF FlipRepo, TypeOK, Goto, Steps, WorkerSteps, redisVars, clientVars, envVars
<1>4. ASSUME NEW j \in Jobs, MirrorJobKey(j) PROVE TypeOK'
  BY <1>4 DEF TypeOK, MirrorJobKey, Goto, Steps, SaveSteps, MirrorSteps, storeVars, clientVars, envVars
<1>5. ASSUME NEW j \in Jobs, MirrorRepoKey(j) PROVE TypeOK'
  BY <1>5 DEF TypeOK, MirrorRepoKey, Goto, Steps, StartSteps, WorkerSteps, storeVars, clientVars, envVars
<1>6. ASSUME NEW j \in Jobs, SkipMirror(j) PROVE TypeOK'
  BY <1>6 DEF TypeOK, SkipMirror, RedisFails, Goto, Steps, StartSteps, WorkerSteps,
              storeVars, redisVars, clientVars
<1>7. ASSUME NEW j \in Jobs, StartWorker(j) PROVE TypeOK'
  <2>1. [jobs[j] EXCEPT !.status = "running"] \in JobRow
    BY DEF TypeOK, JobRow, JobStatus
  <2>2. QED
    BY <1>7, <2>1, SaveJobType DEF StartWorker, TypeOK, redisVars, clientVars, envVars
<1>8. ASSUME NEW j \in Jobs, OnProgress(j) PROVE TypeOK'
  <2>1. PICK p \in 1..MaxProgress :
            SaveJob(j, [jobs[j] EXCEPT !.status = "running", !.progress = p], "ingest")
    BY <1>8 DEF OnProgress
  <2>2. [jobs[j] EXCEPT !.status = "running", !.progress = p] \in JobRow
    <3> DEFINE row == [jobs[j] EXCEPT !.status = "running"]
    <3>1. row \in JobRow
      BY RowFields DEF TypeOK, JobStatus
    <3> HIDE DEF row
    <3>2. [row EXCEPT !.progress = p] \in JobRow
      BY <3>1, RowFields
    <3>3. QED
      BY <3>2 DEF row
  <2>3. QED
    BY <1>8, <2>1, <2>2, SaveJobType DEF OnProgress, TypeOK, redisVars, clientVars, envVars
<1>9. ASSUME NEW j \in Jobs, IngestReturns(j) PROVE TypeOK'
  BY <1>9 DEF TypeOK, IngestReturns, Goto, Steps, WorkerSteps, storeVars, redisVars, clientVars, envVars
<1>10. ASSUME NEW j \in Jobs, FetchRepo(j) PROVE TypeOK'
  BY <1>10 DEF TypeOK, FetchRepo, Goto, Steps, WorkerSteps, storeVars, redisVars, clientVars, envVars
<1>11. ASSUME NEW j \in Jobs, CommitIndexed(j) PROVE TypeOK'
  <2>1. [copy[j] EXCEPT !.status = "indexed", !.stats = j, !.error = FALSE] \in RepoRow
    <3>1. copy[j] \in RepoRow
      BY DEF TypeOK
    <3>2. QED
      BY <3>1 DEF RepoRow, RepoStatus
  <2>2. QED
    BY <1>11, <2>1 DEF CommitIndexed, TypeOK, Goto, Steps, WorkerSteps, redisVars, clientVars, envVars
<1>12. ASSUME NEW j \in Jobs, CommitError(j) PROVE TypeOK'
  <2>1. [copy[j] EXCEPT !.status = "error", !.error = TRUE] \in RepoRow
    <3>1. copy[j] \in RepoRow
      BY DEF TypeOK
    <3>2. QED
      BY <3>1 DEF RepoRow, RepoStatus
  <2>2. QED
    BY <1>12, <2>1 DEF CommitError, TypeOK, Goto, Steps, WorkerSteps, redisVars, clientVars, envVars
<1>13. ASSUME NEW j \in Jobs, FinishJob(j) PROVE TypeOK'
  <2>1. [jobs[j] EXCEPT !.status = "succeeded", !.progress = MaxProgress] \in JobRow
    <3> DEFINE row == [jobs[j] EXCEPT !.status = "succeeded"]
    <3>1. row \in JobRow
      BY RowFields DEF TypeOK, JobStatus
    <3> HIDE DEF row
    <3>2. [row EXCEPT !.progress = MaxProgress] \in JobRow
      BY <3>1, RowFields
    <3>3. QED
      BY <3>2 DEF row
  <2>2. QED
    BY <1>13, <2>1, SaveJobType DEF FinishJob, TypeOK, redisVars, clientVars, envVars
<1>14. ASSUME NEW j \in Jobs, FailJob(j) PROVE TypeOK'
  <2>1. [jobs[j] EXCEPT !.status = "failed"] \in JobRow
    BY DEF TypeOK, JobRow, JobStatus
  <2>2. QED
    BY <1>14, <2>1, SaveJobType DEF FailJob, TypeOK, redisVars, clientVars, envVars
<1>15. ASSUME NEW j \in Jobs, StoreRaises(j) PROVE TypeOK'
  <2>1. {"failfetch", "ingest", "dead"} \subseteq Steps /\ AfterLostWrite(j) \in {"failfetch", "ingest", "dead"}
    BY DEF Steps, WorkerSteps, AfterLostWrite
  <2>2. pc' \in [Jobs -> Steps]
    BY <1>15, <2>1 DEF TypeOK, StoreRaises, Goto
  <2>3. draft' \in [Jobs -> JobRow] /\ copy' \in [Jobs -> RepoRow] /\ faults' \in Nat
    BY <1>15 DEF TypeOK, StoreRaises
  <2>4. QED
    BY <1>15, <2>2, <2>3 DEF TypeOK, StoreRaises, storeVars, redisVars, clientVars
<1>16. ASSUME FinishClone PROVE TypeOK'
  <2>1. \A ok \in BOOLEAN : [NewRepo EXCEPT !.error = ~ok] \in RepoRow
    BY DEF NewRepo, RepoRow, RepoStatus
  <2>2. QED
    BY <1>16, <2>1 DEF TypeOK, FinishClone, redisVars, threadVars, clientVars
<1>17. ASSUME NEW c \in Clients, GetStatus(c) PROVE TypeOK'
  BY <1>17, GetStatusType
<1>18. ASSUME RedisForgets PROVE TypeOK'
  BY <1>18 DEF TypeOK, RedisForgets, RedisFails, storeVars, threadVars, clientVars
<1>19. ASSUME Restart PROVE TypeOK'
  BY <1>19 DEF TypeOK, Restart, Steps, storeVars, redisVars
<1>20. ASSUME NEW j \in Jobs, WriteJob(j) PROVE TypeOK'
  <2>1. {"setjob", "flip", "ingest", "done"} \subseteq Steps
    BY DEF Steps, StartSteps, SaveSteps, MirrorSteps, WorkerSteps
  <2>2. pc' \in [Jobs -> Steps]
    BY <1>20, <2>1 DEF TypeOK, WriteJob, Goto
  <2>3. jobs' \in [Jobs -> JobRow] /\ draft' \in [Jobs -> JobRow]
    BY <1>20 DEF TypeOK, WriteJob
  <2>4. QED
    BY <1>20, <2>2, <2>3 DEF TypeOK, WriteJob, redisVars, clientVars, envVars
<1>21. ASSUME UNCHANGED vars PROVE TypeOK'
  BY <1>21 DEF TypeOK, vars, storeVars, redisVars, threadVars, clientVars, envVars
<1>22. QED
  BY <1>1, <1>2, <1>3, <1>4, <1>5, <1>6, <1>7, <1>8, <1>9, <1>10, <1>11, <1>12,
     <1>13, <1>14, <1>15, <1>16, <1>17, <1>18, <1>19, <1>20, <1>21
     DEF Next, Request, Save, Worker

\* Every variable keeps its type, for any number of jobs, clients and faults.
THEOREM TypeCorrect == Spec => []TypeOK
BY TypeInit, TypeStep, PTL DEF Spec

-----------------------------------------------------------------------------
(* The inductive invariant SafetyInv, and what follows from it:            *)
(* SettledRepo, RedisBehindStore, the refinement of JobLifecycle; and      *)
(* ViewInv on top of it, for ViewNeverRegresses.                           *)

\* What create_job and update_job do before their lock: j's thread holds an
\* object with status s, progress p and creation stamp t, to be written, and
\* then goes on with next.
Drafted(j, s, p, t, next) ==
    /\ clock' = clock + 1
    /\ draft'[j].status = s
    /\ draft'[j].progress = p
    /\ draft'[j].created = t
    /\ draft'[j].updated = clock + 1
    /\ pc'[j] = "write"
    /\ resume'[j] = next
    /\ \A k \in Jobs \ {j} : draft'[k] = draft[k] /\ pc'[k] = pc[k] /\ resume'[k] = resume[k]

\* What every action that stamps a job leaves alone.
OnlyDrafts == UNCHANGED <<jobs, repo, published, redisJob, redisPtr, source, poll, view>>

DraftStep(j, s, p, t, next) ==
    /\ Drafted(j, s, p, t, next)
    /\ OnlyDrafts
    /\ \/ pc[j] = "loaded" /\ s = "pending" /\ p = 0 /\ t = clock + 1 /\ next = "flip"
       \/ /\ t = jobs[j].created
          /\ \/ pc[j] = "launched" /\ s = "running" /\ p = jobs[j].progress /\ next = "ingest"
             \/ pc[j] = "ingest" /\ s = "running" /\ p > jobs[j].progress /\ next = "ingest"
             \/ pc[j] = "finish" /\ s = "succeeded" /\ p = MaxProgress /\ next = "done"
             \/ pc[j] = "failfinish" /\ s = "failed" /\ p = jobs[j].progress /\ next = "done"

LEMMA SaveJobEffect ==
    ASSUME TypeOK, NEW j \in Jobs, NEW row \in JobRow, NEW next, SaveJob(j, row, next)
    PROVE  Drafted(j, row.status, row.progress, row.created, next)
<1>1. draft' = [draft EXCEPT ![j] = [row EXCEPT !.updated = clock + 1]]
  BY DEF SaveJob
<1>2. draft'[j] = [row EXCEPT !.updated = clock + 1] /\ \A k \in Jobs \ {j} : draft'[k] = draft[k]
  BY <1>1 DEF TypeOK
<1>3. /\ draft'[j].status = row.status
      /\ draft'[j].progress = row.progress
      /\ draft'[j].created = row.created
      /\ draft'[j].updated = clock + 1
  BY <1>2 DEF JobRow
<1>4. QED
  BY <1>2, <1>3 DEF Drafted, SaveJob, Goto, TypeOK

LEMMA CreateJobEffect ==
    ASSUME TypeOK, NEW j \in Jobs, CreateJob(j)
    PROVE  DraftStep(j, "pending", 0, clock + 1, "flip")
<1> DEFINE row == [status |-> "pending", progress |-> 0, created |-> clock + 1, updated |-> clock + 1]
<1>1. row \in JobRow
  BY ConstantsAssumption DEF JobRow, JobStatus, TypeOK
<1>2. row.status = "pending" /\ row.progress = 0 /\ row.created = clock + 1
  OBVIOUS
<1>3. SaveJob(j, row, "flip")
  BY DEF CreateJob
<1> HIDE DEF row
<1>4. Drafted(j, row.status, row.progress, row.created, "flip")
  BY <1>1, <1>3, SaveJobEffect
<1>5. QED
  BY <1>2, <1>3, <1>4 DEF CreateJob, SaveJob, DraftStep, OnlyDrafts, redisVars, clientVars, envVars

\* A row with another status is a row, and otherwise the same.
LEMMA RestatedRow ==
    ASSUME NEW r \in JobRow, NEW s \in JobStatus
    PROVE  LET row == [r EXCEPT !.status = s]
           IN row \in JobRow /\ row.status = s /\ row.progress = r.progress /\ row.created = r.created
  BY DEF JobRow

LEMMA StartWorkerEffect ==
    ASSUME TypeOK, NEW j \in Jobs, StartWorker(j)
    PROVE  DraftStep(j, "running", jobs[j].progress, jobs[j].created, "ingest")
<1> DEFINE row == [jobs[j] EXCEPT !.status = "running"]
<1>0. jobs[j] \in JobRow
  BY DEF TypeOK
<1>1. /\ row \in JobRow /\ row.status = "running"
      /\ row.progress = jobs[j].progress /\ row.created = jobs[j].created
  BY <1>0, RestatedRow DEF JobStatus
<1>2. SaveJob(j, row, "ingest")
  BY DEF StartWorker
<1> HIDE DEF row
<1>3. Drafted(j, row.status, row.progress, row.created, "ingest")
  BY <1>1, <1>2, SaveJobEffect
<1>4. QED
  BY <1>1, <1>2, <1>3 DEF StartWorker, SaveJob, DraftStep, OnlyDrafts, redisVars, clientVars, envVars

LEMMA OnProgressEffect ==
    ASSUME TypeOK, NEW j \in Jobs, OnProgress(j)
    PROVE  \E p \in 1..MaxProgress : DraftStep(j, "running", p, jobs[j].created, "ingest")
<1>1. PICK p \in 1..MaxProgress :
          /\ p > jobs[j].progress
          /\ SaveJob(j, [jobs[j] EXCEPT !.status = "running", !.progress = p], "ingest")
  BY DEF OnProgress
<1> DEFINE row == [jobs[j] EXCEPT !.status = "running"]
           next == [row EXCEPT !.progress = p]
<1>0. jobs[j] \in JobRow
  BY DEF TypeOK
<1>2. row \in JobRow /\ row.status = "running" /\ row.created = jobs[j].created
  BY <1>0, RestatedRow DEF JobStatus
<1> HIDE DEF row
<1>3. next \in JobRow /\ next.status = "running" /\ next.progress = p /\ next.created = row.created
  BY <1>2, ConstantsAssumption DEF JobRow
<1>4. SaveJob(j, next, "ingest")
  BY <1>1 DEF row
<1> HIDE DEF next
<1>5. Drafted(j, next.status, next.progress, next.created, "ingest")
  BY <1>3, <1>4, SaveJobEffect
<1>6. DraftStep(j, "running", p, jobs[j].created, "ingest")
  BY <1>1, <1>2, <1>3, <1>4, <1>5
     DEF OnProgress, SaveJob, DraftStep, OnlyDrafts, redisVars, clientVars, envVars
<1>7. QED
  BY <1>6

LEMMA FinishJobEffect ==
    ASSUME TypeOK, NEW j \in Jobs, FinishJob(j)
    PROVE  DraftStep(j, "succeeded", MaxProgress, jobs[j].created, "done")
<1> DEFINE row == [jobs[j] EXCEPT !.status = "succeeded"]
           next == [row EXCEPT !.progress = MaxProgress]
<1>0. jobs[j] \in JobRow
  BY DEF TypeOK
<1>1. row \in JobRow /\ row.status = "succeeded" /\ row.created = jobs[j].created
  BY <1>0, RestatedRow DEF JobStatus
<1> HIDE DEF row
<1>2. /\ next \in JobRow /\ next.status = "succeeded"
      /\ next.progress = MaxProgress /\ next.created = row.created
  BY <1>1, ConstantsAssumption DEF JobRow
<1>3. SaveJob(j, next, "done")
  BY DEF FinishJob, row
<1> HIDE DEF next
<1>4. Drafted(j, next.status, next.progress, next.created, "done")
  BY <1>2, <1>3, SaveJobEffect
<1>5. QED
  BY <1>1, <1>2, <1>3, <1>4
     DEF FinishJob, SaveJob, DraftStep, OnlyDrafts, redisVars, clientVars, envVars

LEMMA FailJobEffect ==
    ASSUME TypeOK, NEW j \in Jobs, FailJob(j)
    PROVE  DraftStep(j, "failed", jobs[j].progress, jobs[j].created, "done")
<1> DEFINE row == [jobs[j] EXCEPT !.status = "failed"]
<1>0. jobs[j] \in JobRow
  BY DEF TypeOK
<1>1. /\ row \in JobRow /\ row.status = "failed"
      /\ row.progress = jobs[j].progress /\ row.created = jobs[j].created
  BY <1>0, RestatedRow DEF JobStatus
<1>2. SaveJob(j, row, "done")
  BY DEF FailJob
<1> HIDE DEF row
<1>3. Drafted(j, row.status, row.progress, row.created, "done")
  BY <1>1, <1>2, SaveJobEffect
<1>4. QED
  BY <1>1, <1>2, <1>3 DEF FailJob, SaveJob, DraftStep, OnlyDrafts, redisVars, clientVars, envVars

Stamps(j) == CreateJob(j) \/ StartWorker(j) \/ OnProgress(j) \/ FinishJob(j) \/ FailJob(j)

\* The five actions that stamp a job are draft steps.
LEMMA StampsAreDraftSteps ==
    ASSUME TypeOK, NEW j \in Jobs, Stamps(j)
    PROVE  \E s, t, next : \E p \in 0..MaxProgress : DraftStep(j, s, p, t, next)
<1>1. jobs[j].progress \in 0..MaxProgress
  BY DEF TypeOK, JobRow
<1>2. 0 \in 0..MaxProgress /\ MaxProgress \in 0..MaxProgress /\ 1..MaxProgress \subseteq 0..MaxProgress
  BY ConstantsAssumption
<1>3. CASE CreateJob(j)
  BY <1>2, <1>3, CreateJobEffect
<1>4. CASE StartWorker(j)
  BY <1>1, <1>4, StartWorkerEffect
<1>5. CASE OnProgress(j)
  BY <1>2, <1>5, OnProgressEffect
<1>6. CASE FinishJob(j)
  BY <1>2, <1>6, FinishJobEffect
<1>7. CASE FailJob(j)
  BY <1>1, <1>7, FailJobEffect
<1>8. QED
  BY <1>3, <1>4, <1>5, <1>6, <1>7 DEF Stamps

-----------------------------------------------------------------------------
(* A step that stamps a job keeps the invariant.                             *)

LEMMA StampNumbers ==
    ASSUME TypeOK, NEW j \in Jobs
    PROVE  /\ clock \in Nat
           /\ jobs[j].created \in Nat /\ jobs[j].updated \in Nat /\ jobs[j].progress \in 0..MaxProgress
           /\ draft[j].created \in Nat /\ draft[j].updated \in Nat /\ draft[j].progress \in 0..MaxProgress
BY DEF TypeOK, JobRow

LEMMA DraftStepThreads ==
    ASSUME SafetyInv, NEW j \in Jobs, NEW s, NEW p \in 0..MaxProgress, NEW t, NEW next,
           DraftStep(j, s, p, t, next)
    PROVE  ThreadInv'
<1>1. ThreadOK(j) /\ PublishOK(j) /\ StampsOK /\ TypeOK /\ UNCHANGED <<jobs, published>>
  BY DEF SafetyInv, ThreadInv, DraftStep, OnlyDrafts
<1>2. ThreadOK(j)' /\ PublishOK(j)'
  BY <1>1 DEF DraftStep, Drafted, ThreadOK, PublishOK, WorkerSteps, SaveSteps, MirrorSteps, Active
<1>3. /\ clock \in Nat /\ jobs[j].created \in Nat /\ jobs[j].updated \in Nat
      /\ jobs[j].progress \in 0..MaxProgress
  BY <1>1, StampNumbers
<1>4. /\ jobs[j].created <= jobs[j].updated /\ jobs[j].updated <= clock
      /\ jobs[j].status = "absent" => jobs[j].progress = 0
      /\ jobs[j].status # "absent" => 0 < jobs[j].created
  BY <1>1 DEF StampsOK, NoRow
<1>5. DraftOK(j)'
  <2>1. pc[j] = "loaded" <=> jobs[j].status = "absent"
    BY <1>1 DEF DraftStep, ThreadOK, WorkerSteps
  <2>2. jobs[j].status # "running" => p = jobs[j].progress
    <3>1. jobs[j].status # "running" => pc[j] \in {"loaded", "launched"}
      BY <1>1 DEF DraftStep, ThreadOK, WorkerSteps
    <3>2. QED
      BY <1>4, <2>1, <3>1 DEF DraftStep
  <2>3. /\ 0 < t /\ t <= clock + 1 /\ jobs[j].updated < clock + 1 /\ jobs[j].progress <= p
        /\ jobs[j].status # "absent" => t = jobs[j].created
    BY <1>3, <1>4, <2>1 DEF DraftStep
  <2>4. s = "succeeded" => p = MaxProgress /\ j \in published
    BY <1>1 DEF DraftStep, PublishOK
  <2>5. /\ draft'[j].status = s /\ draft'[j].progress = p
        /\ draft'[j].created = t /\ draft'[j].updated = clock + 1
        /\ pc'[j] = "write" /\ resume'[j] = next /\ clock' = clock + 1
    BY DEF DraftStep, Drafted
  <2>6. /\ next = "flip" => s = "pending"
        /\ next = "ingest" => s = "running"
        /\ next = "done" => s \in Terminal
        /\ s = "failed" => p = jobs[j].progress
    BY DEF DraftStep, Terminal
  <2>7. QED
    BY <1>1, <1>3, <2>2, <2>3, <2>4, <2>5, <2>6 DEF DraftOK
<1>6. ASSUME NEW k \in Jobs \ {j} PROVE ThreadOK(k)' /\ DraftOK(k)' /\ PublishOK(k)'
  <2>1. draft'[k] = draft[k] /\ pc'[k] = pc[k] /\ resume'[k] = resume[k] /\ clock' = clock + 1
    BY <1>6 DEF DraftStep, Drafted
  <2>2. ThreadOK(k) /\ DraftOK(k) /\ PublishOK(k)
    BY DEF SafetyInv, ThreadInv
  <2>3. ThreadOK(k)' /\ PublishOK(k)'
    BY <1>1, <2>1, <2>2 DEF ThreadOK, PublishOK
  <2>4. draft[k].updated \in Nat /\ clock \in Nat
    BY <1>1, StampNumbers
  <2>5. DraftOK(k)'
    BY <1>1, <2>1, <2>2, <2>4 DEF DraftOK
  <2>6. QED
    BY <2>3, <2>5
<1>7. QED
  BY <1>2, <1>5, <1>6 DEF ThreadInv

LEMMA DraftStepRow ==
    ASSUME SafetyInv, NEW j \in Jobs, NEW s, NEW p, NEW t, NEW next, DraftStep(j, s, p, t, next)
    PROVE  RowOK'
<1>1. UNCHANGED <<repo, source, jobs>>
  BY DEF DraftStep, OnlyDrafts
<1>2. pc'[j] = "write" /\ resume'[j] = next
  BY DEF DraftStep, Drafted
<1>3. \A k \in Jobs \ {j} : pc'[k] = pc[k] /\ resume'[k] = resume[k]
  BY DEF DraftStep, Drafted
<1>4. ASSUME NEW k \in Jobs, Uncommitted(k) PROVE Uncommitted(k)'
  <2>1. CASE k = j
    BY <1>1, <1>2, <1>4, <2>1 DEF Uncommitted, DraftStep
  <2>2. CASE k # j
    BY <1>1, <1>3, <1>4, <2>2 DEF Uncommitted
  <2>3. QED
    BY <2>1, <2>2
<1>5. ASSUME NEW k \in Jobs, Unflipped(k) PROVE Unflipped(k)'
  <2>1. CASE k = j
    BY <1>1, <1>2, <1>5, <2>1 DEF Unflipped, DraftStep, SaveSteps, MirrorSteps
  <2>2. CASE k # j
    BY <1>1, <1>3, <1>5, <2>2 DEF Unflipped
  <2>3. QED
    BY <2>1, <2>2
<1>6. QED
  BY <1>1, <1>4, <1>5 DEF RowOK, SafetyInv

\* Neither the jobs table nor the mirrored rows change, and the clock does not
\* go back.
LEMMA CopiesKept ==
    ASSUME SafetyInv, jobs' = jobs, clock' = clock \/ clock' = clock + 1, redisJob' = redisJob
    PROVE  StampsOK' /\ RedisBehindStore'
<1>1. \A k \in Jobs : jobs[k].updated \in Nat /\ clock \in Nat
  BY StampNumbers DEF SafetyInv
<1>2. StampsOK'
  BY <1>1 DEF SafetyInv, StampsOK
<1>3. RedisBehindStore'
  BY DEF SafetyInv, RedisBehindStore, NoLaterThan
<1>4. QED
  BY <1>2, <1>3

-----------------------------------------------------------------------------
(* A step that writes a stamped job keeps the invariant.                     *)

LEMMA WriteJobEffect ==
    ASSUME SafetyInv, NEW j \in Jobs, WriteJob(j)
    PROVE  /\ pc[j] = "write" /\ ThreadOK(j) /\ DraftOK(j) /\ PublishOK(j)
           /\ jobs'[j] = draft[j] /\ draft'[j] = NoRow
           /\ pc'[j] \in {"setjob", resume[j]} /\ resume[j] \in {"flip", "ingest", "done"}
           /\ \A k \in Jobs \ {j} : jobs'[k] = jobs[k] /\ draft'[k] = draft[k] /\ pc'[k] = pc[k]
           /\ UNCHANGED <<repo, clock, published, resume, redisJob, source, poll, view>>
<1>1. TypeOK /\ ThreadOK(j) /\ DraftOK(j) /\ PublishOK(j)
  BY DEF SafetyInv, ThreadInv
<1>2. QED
  BY <1>1 DEF WriteJob, Goto, TypeOK, redisVars, clientVars, envVars

LEMMA WriteJobThreads ==
    ASSUME SafetyInv, NEW j \in Jobs, WriteJob(j)
    PROVE  ThreadInv'
<1>1. ThreadOK(j)' /\ DraftOK(j)' /\ PublishOK(j)'
  BY WriteJobEffect DEF ThreadOK, DraftOK, PublishOK, WorkerSteps, SaveSteps, MirrorSteps
<1>2. ASSUME NEW k \in Jobs \ {j} PROVE ThreadOK(k)' /\ DraftOK(k)' /\ PublishOK(k)'
  <2>1. /\ jobs'[k] = jobs[k] /\ draft'[k] = draft[k] /\ pc'[k] = pc[k]
        /\ UNCHANGED <<clock, published, resume>>
    BY WriteJobEffect
  <2>2. ThreadOK(k) /\ DraftOK(k) /\ PublishOK(k)
    BY DEF SafetyInv, ThreadInv
  <2>3. QED
    BY <2>1, <2>2 DEF ThreadOK, DraftOK, PublishOK
<1>3. QED
  BY <1>1, <1>2 DEF ThreadInv

LEMMA WriteJobRow ==
    ASSUME SafetyInv, NEW j \in Jobs, WriteJob(j)
    PROVE  RowOK'
<1>1. UNCHANGED <<repo, source>>
  BY WriteJobEffect
<1>2. ASSUME NEW k \in Jobs, Uncommitted(k) PROVE Uncommitted(k)'
  <2>1. CASE k = j
    <3>1. resume[j] \in {"flip", "ingest"} /\ draft[j].status \in {"pending", "running"}
      BY <1>2, <2>1, WriteJobEffect DEF Uncommitted, DraftOK
    <3>2. pc'[j] \in {"setjob", "flip", "ingest"} /\ jobs'[j] = draft[j]
      BY <3>1, WriteJobEffect
    <3>3. QED
      BY <2>1, <3>1, <3>2 DEF Uncommitted, Active
  <2>2. CASE k # j
    BY <1>2, <2>2, WriteJobEffect DEF Uncommitted
  <2>3. QED
    BY <2>1, <2>2
<1>3. ASSUME NEW k \in Jobs, Unflipped(k) PROVE Unflipped(k)'
  <2>1. CASE k = j
    <3>1. resume[j] = "flip" /\ draft[j].status = "pending"
      BY <1>3, <2>1, WriteJobEffect DEF Unflipped, DraftOK, SaveSteps
    <3>2. pc'[j] \in {"setjob", "flip"} /\ jobs'[j] = draft[j] /\ resume' = resume
      BY <3>1, WriteJobEffect
    <3>3. QED
      BY <2>1, <3>1, <3>2 DEF Unflipped, SaveSteps, MirrorSteps
  <2>2. CASE k # j
    BY <1>3, <2>2, WriteJobEffect DEF Unflipped
  <2>3. QED
    BY <2>1, <2>2
<1>4. QED
  BY <1>1, <1>2, <1>3 DEF RowOK, SafetyInv

\* The row that is written is a later one of the same job: nothing that was no
\* later than the old row is later than it.
LEMMA WriteJobAdvances ==
    ASSUME SafetyInv, NEW j \in Jobs, WriteJob(j)
    PROVE  /\ jobs[j].status \notin Terminal /\ jobs'[j].status # "absent"
           /\ jobs[j].updated < jobs'[j].updated
           /\ jobs[j].progress <= jobs'[j].progress
           /\ StatusRank[jobs[j].status] <= StatusRank[jobs'[j].status]
<1>1. pc[j] = "write" /\ ThreadOK(j) /\ DraftOK(j) /\ jobs'[j] = draft[j]
      /\ resume[j] \in {"flip", "ingest", "done"}
  BY WriteJobEffect
<1>2. jobs[j].updated < draft[j].updated /\ jobs[j].progress <= draft[j].progress
  BY <1>1 DEF DraftOK
<1>3. \/ jobs[j].status = "absent" /\ draft[j].status = "pending"
      \/ jobs[j].status \in {"pending", "running"} /\ draft[j].status = "running"
      \/ jobs[j].status = "running" /\ draft[j].status \in Terminal
  BY <1>1 DEF ThreadOK, DraftOK, Active
<1>4. /\ jobs[j].status \notin Terminal /\ draft[j].status # "absent"
      /\ StatusRank[jobs[j].status] <= StatusRank[draft[j].status]
  BY <1>3 DEF Terminal, StatusRank
<1>5. QED
  BY <1>1, <1>2, <1>4

\* A row no later than one that has not ended is no later than its successor.
LEMMA NoLaterThanNext ==
    ASSUME NEW row \in JobRow, NEW old \in JobRow, NEW new \in JobRow,
           NoLaterThan(row, old), row.status # "absent",
           old.status \notin Terminal, old.updated <= new.updated,
           old.progress <= new.progress, StatusRank[old.status] <= StatusRank[new.status]
    PROVE  NoLaterThan(row, new)
<1>1. /\ row.updated \in Nat /\ old.updated \in Nat /\ new.updated \in Nat
      /\ row.progress \in Nat /\ old.progress \in Nat /\ new.progress \in Nat
  BY ConstantsAssumption DEF JobRow
<1>2. /\ row.updated <= old.updated /\ row.progress <= old.progress
      /\ StatusRank[row.status] <= StatusRank[old.status]
      /\ row.status \notin Terminal
  BY DEF NoLaterThan
<1>3. /\ row.status \in JobStatus \union {"absent"}
      /\ old.status \in JobStatus \union {"absent"}
      /\ new.status \in JobStatus \union {"absent"}
  BY DEF JobRow
<1>4. \A st \in JobStatus \union {"absent"} : StatusRank[st] \in Nat
  BY DEF JobStatus, StatusRank
<1>5. StatusRank[row.status] \in Nat /\ StatusRank[old.status] \in Nat /\ StatusRank[new.status] \in Nat
  BY <1>3, <1>4
<1>6. row.updated <= new.updated /\ row.progress <= new.progress
  BY <1>1, <1>2
<1>7. StatusRank[row.status] <= StatusRank[new.status]
  BY <1>2, <1>5
<1>8. QED
  BY <1>2, <1>6, <1>7 DEF NoLaterThan

LEMMA WriteJobCopies ==
    ASSUME SafetyInv, NEW j \in Jobs, WriteJob(j)
    PROVE  StampsOK' /\ RedisBehindStore'
<1>1. /\ jobs'[j] = draft[j] /\ UNCHANGED <<clock, redisJob>>
      /\ \A k \in Jobs \ {j} : jobs'[k] = jobs[k]
  BY WriteJobEffect
<1>2. TypeOK /\ StampsOK /\ RedisBehindStore
  BY DEF SafetyInv
<1>3. StampsOK'
  <2>1. /\ draft[j].created <= draft[j].updated /\ draft[j].updated <= clock
        /\ draft[j].status # "absent" /\ 0 < draft[j].created
    BY <1>1, WriteJobEffect, WriteJobAdvances DEF DraftOK
  <2>2. QED
    BY <1>1, <1>2, <2>1 DEF StampsOK
<1>4. ASSUME NEW k \in Jobs, redisJob[k].status # "absent" PROVE NoLaterThan(redisJob[k], jobs'[k])
  <2>1. NoLaterThan(redisJob[k], jobs[k])
    BY <1>2, <1>4 DEF RedisBehindStore
  <2>2. redisJob[k] \in JobRow /\ jobs[k] \in JobRow /\ draft[k] \in JobRow
    BY <1>2 DEF TypeOK
  <2>3. CASE k = j
    <3>1. jobs[j].updated <= draft[j].updated
      BY <1>1, <2>2, <2>3, WriteJobAdvances DEF JobRow
    <3>2. QED
      BY <1>1, <1>4, <2>1, <2>2, <2>3, <3>1, WriteJobAdvances, NoLaterThanNext
  <2>4. CASE k # j
    BY <1>1, <2>1, <2>4
  <2>5. QED
    BY <2>3, <2>4
<1>5. QED
  BY <1>1, <1>3, <1>4 DEF RedisBehindStore

-----------------------------------------------------------------------------
(* The other steps.                                                          *)

\* A thread moves on within start_index, the mirroring or the worker's run
\* and writes no row; an object it had stamped is gone.
Moved(j, step) ==
    /\ pc' = [pc EXCEPT ![j] = step]
    /\ draft'[j] = draft[j] \/ draft'[j] = NoRow
    /\ pc[j] = "write" => draft'[j] = NoRow
    /\ \A k \in Jobs \ {j} : draft'[k] = draft[k]
    /\ UNCHANGED <<repo, jobs, clock, published, resume, source>>

LEMMA MovedSafe ==
    ASSUME SafetyInv, NEW j \in Jobs, NEW step, Moved(j, step),
           \/ pc[j] = "idle" /\ step = "loaded"
           \/ pc[j] = "setjob" /\ step = "setptr"
           \/ pc[j] \in MirrorSteps /\ step = resume[j]
           \/ pc[j] = "ingest" /\ step \in {"fetch", "failfetch"}
           \/ pc[j] = "fetch" /\ step = "commit"
           \/ pc[j] \in {"fetch", "commit", "finish"} /\ step = "failfetch"
           \/ pc[j] = "failfetch" /\ step = "failcommit"
           \/ pc[j] = "write" /\ step = AfterLostWrite(j)
           \/ step = "dead"
    PROVE  ThreadInv' /\ RowOK'
<1>1. pc \in [Jobs -> Steps] /\ resume[j] \in {"flip", "ingest", "done"}
  BY DEF SafetyInv, TypeOK
<1>2. pc'[j] = step /\ \A k \in Jobs \ {j} : pc'[k] = pc[k]
  BY <1>1 DEF Moved
<1>3. UNCHANGED <<repo, jobs, clock, published, resume, source>>
  BY DEF Moved
<1>4. ThreadOK(j) /\ DraftOK(j) /\ PublishOK(j)
  BY DEF SafetyInv, ThreadInv
<1>5. pc[j] = "write" /\ step = AfterLostWrite(j) =>
        \/ step = "ingest" /\ resume[j] = "ingest" /\ jobs[j].status = "running"
        \/ step = "failfetch" /\ resume[j] = "done"
        \/ step = "dead"
  BY <1>1, <1>4 DEF AfterLostWrite, DraftOK, Terminal
<1>6. ThreadOK(j)' /\ PublishOK(j)'
  BY <1>1, <1>2, <1>3, <1>4, <1>5 DEF ThreadOK, PublishOK, WorkerSteps, SaveSteps, MirrorSteps
<1>7. DraftOK(j)'
  <2>1. step # "write"
    BY <1>1, <1>5
  <2>2. draft'[j] = NoRow
    BY <1>4 DEF Moved, DraftOK
  <2>3. QED
    BY <1>2, <2>1, <2>2 DEF DraftOK
<1>8. ThreadInv'
  <2>1. ASSUME NEW k \in Jobs \ {j} PROVE ThreadOK(k)' /\ DraftOK(k)' /\ PublishOK(k)'
    <3>1. ThreadOK(k) /\ DraftOK(k) /\ PublishOK(k) /\ draft'[k] = draft[k]
      BY DEF SafetyInv, ThreadInv, Moved
    <3>2. QED
      BY <1>2, <1>3, <3>1 DEF ThreadOK, DraftOK, PublishOK
  <2>2. QED
    BY <1>6, <1>7, <2>1 DEF ThreadInv
<1>9. ASSUME NEW k \in Jobs, Uncommitted(k) PROVE Uncommitted(k)'
  <2>1. step \notin {"finish", "failfinish", "write"}
    BY <1>1, <1>5
  <2>2. QED
    BY <1>2, <1>3, <1>9, <2>1 DEF Uncommitted
<1>10. ASSUME NEW k \in Jobs, Unflipped(k) PROVE Unflipped(k)'
  BY <1>2, <1>3, <1>5, <1>10 DEF Unflipped, SaveSteps, MirrorSteps
<1>11. QED
  BY <1>3, <1>8, <1>9, <1>10 DEF RowOK, SafetyInv

\* FlipRepo, CommitIndexed and CommitError write the repository row.
LEMMA FlipSafe ==
    ASSUME SafetyInv, NEW j \in Jobs, FlipRepo(j)
    PROVE  ThreadInv' /\ RowOK' /\ StampsOK' /\ RedisBehindStore'
<1>1. /\ pc[j] = "flip" /\ pc'[j] = "launched" /\ \A k \in Jobs \ {j} : pc'[k] = pc[k]
      /\ UNCHANGED <<jobs, clock, published, resume, draft, redisJob>>
  BY DEF FlipRepo, Goto, SafetyInv, TypeOK, redisVars
<1>2. \A k \in Jobs : ThreadOK(k) /\ DraftOK(k) /\ PublishOK(k)
  BY DEF SafetyInv, ThreadInv
<1>3. jobs[j].status = "pending"
  BY <1>1, <1>2 DEF ThreadOK
<1>4. repo'.status = "indexing"
  BY DEF FlipRepo, SafetyInv, TypeOK, RepoRow
<1>5. ThreadInv'
  <2>1. ThreadOK(j)' /\ DraftOK(j)' /\ PublishOK(j)'
    BY <1>1, <1>2 DEF ThreadOK, DraftOK, PublishOK, SaveSteps, MirrorSteps, WorkerSteps
  <2>2. \A k \in Jobs \ {j} : ThreadOK(k)' /\ DraftOK(k)' /\ PublishOK(k)'
    BY <1>1, <1>2 DEF ThreadOK, DraftOK, PublishOK
  <2>3. QED
    BY <2>1, <2>2 DEF ThreadInv
<1>6. RowOK'
  BY <1>1, <1>3, <1>4 DEF RowOK, Uncommitted, Active
<1>7. QED
  BY <1>1, <1>5, <1>6, CopiesKept

LEMMA CommitSafe ==
    ASSUME SafetyInv, NEW j \in Jobs, CommitIndexed(j) \/ CommitError(j)
    PROVE  ThreadInv' /\ RowOK' /\ StampsOK' /\ RedisBehindStore'
<1>1. /\ \/ pc[j] = "commit" /\ pc'[j] = "finish" /\ published' = published \union {j}
         \/ pc[j] = "failcommit" /\ pc'[j] = "failfinish" /\ published' = published
      /\ \A k \in Jobs \ {j} : pc'[k] = pc[k]
      /\ UNCHANGED <<jobs, clock, resume, draft, redisJob>>
  BY DEF CommitIndexed, CommitError, Goto, SafetyInv, TypeOK, redisVars
<1>2. \A k \in Jobs : ThreadOK(k) /\ DraftOK(k) /\ PublishOK(k)
  BY DEF SafetyInv, ThreadInv
<1>3. repo'.status \in {"indexed", "error"}
  <2>1. copy[j] \in RepoRow
    BY DEF SafetyInv, TypeOK
  <2>2. QED
    BY <2>1 DEF CommitIndexed, CommitError, RepoRow
<1>4. ThreadOK(j)' /\ DraftOK(j)' /\ PublishOK(j)'
  BY <1>1, <1>2 DEF ThreadOK, DraftOK, PublishOK, SaveSteps, MirrorSteps, WorkerSteps
<1>5. ASSUME NEW k \in Jobs \ {j} PROVE ThreadOK(k)' /\ DraftOK(k)' /\ PublishOK(k)'
  <2>1. /\ pc'[k] = pc[k] /\ UNCHANGED <<resume, jobs, draft, clock>>
        /\ (k \in published' <=> k \in published)
    BY <1>1
  <2>2. QED
    BY <1>2, <2>1 DEF ThreadOK, DraftOK, PublishOK
<1>6. ThreadInv'
  BY <1>4, <1>5 DEF ThreadInv
<1>7. RowOK'
  BY <1>3 DEF RowOK
<1>8. QED
  BY <1>1, <1>6, <1>7, CopiesKept

\* Steps of the clone, of the clients and of Redis leave the jobs and their
\* threads alone.
LEMMA ThreadsKept ==
    ASSUME SafetyInv, UNCHANGED <<pc, resume, draft, jobs, clock, published>>,
           \/ UNCHANGED <<repo, source>>
           \/ repo'.status = "registered" /\ source' = "ended"
    PROVE  ThreadInv' /\ RowOK'
<1>1. ThreadInv'
  BY DEF SafetyInv, ThreadInv, ThreadOK, DraftOK, PublishOK
<1>2. RowOK'
  BY DEF SafetyInv, RowOK, Uncommitted, Unflipped
<1>3. QED
  BY <1>1, <1>2

-----------------------------------------------------------------------------
(* SafetyInv is inductive.                                                   *)

LEMMA SafetyInit == Init => SafetyInv
<1> SUFFICES ASSUME Init PROVE SafetyInv
  OBVIOUS
<1>1. TypeOK
  BY TypeInit
<1>2. ThreadInv
  BY DEF Init, ThreadInv, ThreadOK, DraftOK, PublishOK, NoRow, WorkerSteps, SaveSteps, MirrorSteps
<1>3. RowOK
  BY DEF Init, RowOK, Unflipped, NewRepo, NoRow, SaveSteps, MirrorSteps
<1>4. StampsOK /\ RedisBehindStore
  BY DEF Init, StampsOK, RedisBehindStore, NoRow
<1>5. QED
  BY <1>1, <1>2, <1>3, <1>4 DEF SafetyInv

Rest == ThreadInv /\ RowOK /\ StampsOK /\ RedisBehindStore

LEMMA SafetyStep == SafetyInv /\ [Next]_vars => SafetyInv'
<1> SUFFICES ASSUME SafetyInv, [Next]_vars
             PROVE  SafetyInv'
  OBVIOUS
<1>1. TypeOK' /\ TypeOK
  BY TypeStep DEF SafetyInv
<1>2. ASSUME NEW j \in Jobs, Stamps(j) PROVE Rest'
  <2>1. PICK s, t, next : \E p \in 0..MaxProgress : DraftStep(j, s, p, t, next)
    BY <1>1, <1>2, StampsAreDraftSteps
  <2>2. PICK p \in 0..MaxProgress : DraftStep(j, s, p, t, next)
    BY <2>1
  <2>3. jobs' = jobs /\ redisJob' = redisJob /\ clock' = clock + 1
    BY <2>2 DEF DraftStep, Drafted, OnlyDrafts
  <2>4. QED
    BY <2>2, <2>3, DraftStepThreads, DraftStepRow, CopiesKept DEF Rest
<1>3. ASSUME NEW j \in Jobs, BeginIndex(j) \/ FetchRepo(j) PROVE Rest'
  <2>1. /\ UNCHANGED <<clock, redisJob, jobs>>
        /\ \/ pc[j] = "idle" /\ Moved(j, "loaded")
           \/ pc[j] = "fetch" /\ Moved(j, "commit")
           \/ pc[j] = "failfetch" /\ Moved(j, "failcommit")
    BY <1>3 DEF BeginIndex, FetchRepo, Moved, Goto, storeVars, redisVars, envVars
  <2>2. QED
    BY <2>1, MovedSafe, CopiesKept DEF Rest
<1>4. ASSUME NEW j \in Jobs, MirrorJobKey(j) PROVE Rest'
  <2>1. Moved(j, "setptr") /\ pc[j] = "setjob"
    BY <1>4 DEF MirrorJobKey, Moved, Goto, storeVars, envVars
  <2>2. UNCHANGED <<clock, jobs>> /\ redisJob' = [redisJob EXCEPT ![j] = jobs[j]]
    BY <1>4 DEF MirrorJobKey, storeVars
  <2>3. StampsOK'
    BY <2>2 DEF SafetyInv, StampsOK
  <2>4. RedisBehindStore'
    <3>1. jobs[j] \in JobRow
      BY DEF SafetyInv, TypeOK
    <3>2. jobs[j].status # "absent" => NoLaterThan(jobs[j], jobs[j])
      BY <3>1 DEF NoLaterThan, JobRow, JobStatus, StatusRank
    <3>3. QED
      BY <2>2, <3>2 DEF SafetyInv, TypeOK, RedisBehindStore
  <2>5. QED
    BY <2>1, <2>3, <2>4, MovedSafe DEF Rest
<1>5. ASSUME NEW j \in Jobs, MirrorRepoKey(j) \/ SkipMirror(j) PROVE Rest'
  <2>1. Moved(j, resume[j]) /\ pc[j] \in MirrorSteps /\ UNCHANGED <<clock, redisJob, jobs>>
    BY <1>5 DEF MirrorRepoKey, SkipMirror, Moved, Goto, MirrorSteps, storeVars, redisVars, envVars
  <2>2. QED
    BY <2>1, MovedSafe, CopiesKept DEF Rest
<1>6. ASSUME NEW j \in Jobs, IngestReturns(j) PROVE Rest'
  <2>1. /\ UNCHANGED <<clock, redisJob, jobs>> /\ pc[j] = "ingest"
        /\ Moved(j, "fetch") \/ Moved(j, "failfetch")
    BY <1>6 DEF IngestReturns, Moved, Goto, storeVars, redisVars, envVars
  <2>2. QED
    BY <2>1, MovedSafe, CopiesKept DEF Rest
<1>7. ASSUME NEW j \in Jobs, FlipRepo(j) PROVE Rest'
  BY <1>7, FlipSafe DEF Rest
<1>8. ASSUME NEW j \in Jobs, CommitIndexed(j) \/ CommitError(j) PROVE Rest'
  BY <1>8, CommitSafe DEF Rest
<1>9. ASSUME NEW j \in Jobs, WriteJob(j) PROVE Rest'
  BY <1>9, WriteJobThreads, WriteJobRow, WriteJobCopies DEF Rest
<1>10. ASSUME NEW j \in Jobs, StoreRaises(j) PROVE Rest'
  <2>1. /\ UNCHANGED <<repo, clock, redisJob, jobs, published, resume, source>>
        /\ draft'[j] = NoRow /\ \A k \in Jobs \ {j} : draft'[k] = draft[k]
    BY <1>1, <1>10 DEF StoreRaises, TypeOK, storeVars, redisVars
  <2>2. \/ pc[j] \in {"fetch", "commit", "finish"} /\ Moved(j, "failfetch")
        \/ pc[j] = "write" /\ Moved(j, AfterLostWrite(j))
        \/ Moved(j, "dead")
    BY <1>10, <2>1 DEF StoreRaises, Moved, Goto
  <2>3. QED
    BY <2>1, <2>2, MovedSafe, CopiesKept DEF Rest
<1>11. ASSUME FinishClone PROVE Rest'
  <2>1. /\ UNCHANGED <<clock, redisJob, jobs, pc, resume, draft, published>>
        /\ source' = "ended"
        /\ repo'.status = "registered"
    BY <1>11 DEF FinishClone, NewRepo, redisVars, threadVars
  <2>2. QED
    BY <2>1, ThreadsKept, CopiesKept DEF Rest
<1>12. ASSUME NEW c \in Clients, GetStatus(c) PROVE Rest'
  <2>1. UNCHANGED <<clock, redisJob, jobs, pc, resume, draft, published, repo, source>>
    BY <1>12 DEF GetStatus, PollRepository, PollPointer, PollJobKey, PollRedisFails, PollStore,
                 storeVars, redisVars, threadVars, envVars
  <2>2. QED
    BY <2>1, ThreadsKept, CopiesKept DEF Rest
<1>13. ASSUME RedisForgets PROVE Rest'
  <2>1. UNCHANGED <<clock, jobs, pc, resume, draft, published, repo, source>>
    BY <1>13 DEF RedisForgets, storeVars, threadVars
  <2>2. StampsOK'
    BY <2>1 DEF SafetyInv, StampsOK
  <2>3. \A k \in Jobs : redisJob'[k] = redisJob[k] \/ redisJob'[k] = NoRow
    BY <1>13 DEF RedisForgets, SafetyInv, TypeOK
  <2>4. RedisBehindStore'
    BY <2>1, <2>3 DEF SafetyInv, RedisBehindStore, NoRow
  <2>5. QED
    BY <2>1, <2>2, <2>4, ThreadsKept DEF Rest
<1>14. ASSUME Restart PROVE Rest'
  <2>1. /\ UNCHANGED <<clock, redisJob, jobs, resume, published, repo>>
        /\ source' = "local" <=> source = "local"
        /\ \A k \in Jobs : /\ pc'[k] = IF pc[k] \in {"idle", "done"} THEN pc[k] ELSE "dead"
                           /\ draft'[k] = NoRow
    BY <1>14 DEF Restart, storeVars, redisVars
  <2>2. ThreadInv'
    BY <2>1 DEF SafetyInv, ThreadInv, ThreadOK, DraftOK, PublishOK, SaveSteps, MirrorSteps, WorkerSteps
  <2>3. RowOK'
    <3>1. \A k \in Jobs : Uncommitted(k) => Uncommitted(k)'
      BY <2>1 DEF Uncommitted
    <3>2. \A k \in Jobs : Unflipped(k) => Unflipped(k)'
      BY <2>1 DEF Unflipped, SaveSteps, MirrorSteps
    <3>3. QED
      BY <2>1, <3>1, <3>2 DEF SafetyInv, RowOK
  <2>4. QED
    BY <2>1, <2>2, <2>3, CopiesKept DEF Rest
<1>15. ASSUME UNCHANGED vars PROVE Rest'
  BY <1>15, ThreadsKept, CopiesKept DEF Rest, vars, storeVars, redisVars, threadVars, envVars
<1>16. Rest'
  BY <1>2, <1>3, <1>4, <1>5, <1>6, <1>7, <1>8, <1>9, <1>10, <1>11, <1>12, <1>13, <1>14, <1>15
     DEF Next, Request, Save, Worker, Stamps
<1>17. QED
  BY <1>1, <1>16 DEF SafetyInv, Rest

THEOREM SafetyCorrect == Spec => []SafetyInv
BY SafetyInit, SafetyStep, PTL DEF Spec

-----------------------------------------------------------------------------
(* What the invariant gives.                                                 *)

\* When all jobs have ended, the row of a local repository is settled,
\* whatever the number of overlapping jobs, store errors and restarts.
THEOREM RepoSettles == Spec => []SettledRepo
<1>1. SafetyInv => SettledRepo
  <2> SUFFICES ASSUME SafetyInv, source = "local", Created # {},
                      \A j \in Created : jobs[j].status \in Terminal
               PROVE  repo.status \in Settled
    BY DEF SettledRepo
  <2>1. PICK j \in Jobs : jobs[j].status \in Terminal
    BY DEF Created
  <2>2. repo.status # "registered"
    BY <2>1 DEF SafetyInv, RowOK, Unflipped, Terminal
  <2>3. repo.status # "indexing"
    BY DEF SafetyInv, RowOK, Uncommitted, Active, Terminal, Created
  <2>4. repo.status \in RepoStatus
    BY DEF SafetyInv, TypeOK, RepoRow
  <2>5. QED
    BY <2>2, <2>3, <2>4 DEF RepoStatus, Settled
<1>2. QED
  BY <1>1, SafetyCorrect, PTL

\* The mirror never runs ahead of the store.
THEOREM RedisFollowsStore == Spec => []RedisBehindStore
<1>1. SafetyInv => RedisBehindStore
  BY DEF SafetyInv
<1>2. QED
  BY <1>1, SafetyCorrect, PTL

-----------------------------------------------------------------------------
(* The service implements JobLifecycle.                                      *)

\* The two mapped functions, at this state and at the next.
StateMap == [j \in Jobs |-> jobs[j].status]
ProgressMap == [j \in Jobs |-> jobs[j].progress]

LEMMA InitMaps == Init => Lifecycle!Init
BY DEF Init, Lifecycle!Init, NoRow

\* A job enters the abstract life, and moves on in it, when its row is written.
LEMMA WriteMaps ==
    ASSUME SafetyInv, NEW j \in Jobs, WriteJob(j)
    PROVE  \/ Lifecycle!Create(j) \/ Lifecycle!Start(j) \/ Lifecycle!Report(j)
           \/ Lifecycle!Succeed(j) \/ Lifecycle!Fail(j)
<1>1. /\ pc[j] = "write" /\ ThreadOK(j) /\ DraftOK(j) /\ PublishOK(j)
      /\ resume[j] \in {"flip", "ingest", "done"} /\ published' = published
  BY WriteJobEffect
<1>2. /\ StateMap' = [StateMap EXCEPT ![j] = draft[j].status]
      /\ ProgressMap' = [ProgressMap EXCEPT ![j] = draft[j].progress]
  BY WriteJobEffect DEF StateMap, ProgressMap
<1>3. draft[j].progress \in 0..MaxProgress /\ jobs[j].progress \in 0..MaxProgress
  BY StampNumbers DEF SafetyInv
<1>4. draft[j].progress = jobs[j].progress => ProgressMap' = ProgressMap
  BY <1>2 DEF ProgressMap
<1>5. CASE resume[j] = "flip"
  <2>1. jobs[j].status = "absent" /\ draft[j].status = "pending"
    BY <1>1, <1>5 DEF ThreadOK, DraftOK
  <2>2. draft[j].progress = jobs[j].progress
    BY <1>1, <1>5, <2>1 DEF DraftOK, SafetyInv, StampsOK, NoRow
  <2>3. QED
    BY <1>1, <1>2, <1>4, <2>1, <2>2 DEF Lifecycle!Create, StateMap, ProgressMap
<1>6. CASE resume[j] = "ingest" /\ jobs[j].status = "pending"
  <2>1. draft[j].status = "running" /\ draft[j].progress = jobs[j].progress
    BY <1>1, <1>6 DEF DraftOK
  <2>2. QED
    BY <1>1, <1>2, <1>4, <1>6, <2>1 DEF Lifecycle!Start, StateMap, ProgressMap
<1>7. CASE resume[j] = "ingest" /\ jobs[j].status = "running"
  <2>1. draft[j].status = "running" /\ j \notin published /\ jobs[j].progress <= draft[j].progress
    BY <1>1, <1>7 DEF DraftOK, PublishOK, SaveSteps
  <2>2. StateMap' = StateMap
    BY <1>2, <1>7, <2>1 DEF StateMap
  <2>3. QED
    BY <1>1, <1>2, <1>3, <1>7, <2>1, <2>2 DEF Lifecycle!Report, StateMap, ProgressMap
<1>8. CASE resume[j] = "done" /\ draft[j].status = "succeeded"
  <2>1. jobs[j].status = "running" /\ j \in published /\ draft[j].progress = MaxProgress
    BY <1>1, <1>8 DEF ThreadOK, DraftOK
  <2>2. QED
    BY <1>1, <1>2, <1>8, <2>1 DEF Lifecycle!Succeed, StateMap, ProgressMap
<1>9. CASE resume[j] = "done" /\ draft[j].status = "failed"
  <2>1. jobs[j].status = "running" /\ draft[j].progress = jobs[j].progress
    BY <1>1, <1>9 DEF ThreadOK, DraftOK
  <2>2. QED
    BY <1>1, <1>2, <1>4, <1>9, <2>1 DEF Lifecycle!Fail, StateMap, ProgressMap
<1>10. QED
  BY <1>1, <1>5, <1>6, <1>7, <1>8, <1>9 DEF ThreadOK, DraftOK, Active, Terminal

LEMMA StepMaps ==
    ASSUME SafetyInv, [Next]_vars
    PROVE  \/ \E j \in Jobs :
                \/ Lifecycle!Create(j) \/ Lifecycle!Start(j) \/ Lifecycle!Report(j)
                \/ Lifecycle!Publish(j) \/ Lifecycle!Succeed(j) \/ Lifecycle!Fail(j)
           \/ UNCHANGED <<StateMap, ProgressMap, published>>
<1> DEFINE Mapped == \/ \E j \in Jobs :
                          \/ Lifecycle!Create(j) \/ Lifecycle!Start(j) \/ Lifecycle!Report(j)
                          \/ Lifecycle!Publish(j) \/ Lifecycle!Succeed(j) \/ Lifecycle!Fail(j)
                     \/ UNCHANGED <<StateMap, ProgressMap, published>>
<1>1. TypeOK /\ \A j \in Jobs : ThreadOK(j) /\ PublishOK(j)
  BY DEF SafetyInv, ThreadInv
<1>2. ASSUME NEW j \in Jobs, WriteJob(j) PROVE Mapped
  BY <1>2, WriteMaps
<1>3. ASSUME NEW j \in Jobs, CommitIndexed(j) PROVE Lifecycle!Publish(j)
  <2>1. pc[j] = "commit" /\ jobs' = jobs /\ published' = published \union {j}
    BY <1>3 DEF CommitIndexed
  <2>2. jobs[j].status = "running"
    BY <1>1, <2>1 DEF ThreadOK, WorkerSteps
  <2>3. QED
    BY <2>1, <2>2 DEF Lifecycle!Publish
<1>4. ASSUME UNCHANGED <<jobs, published>> PROVE UNCHANGED <<StateMap, ProgressMap, published>>
  BY <1>4 DEF StateMap, ProgressMap
<1>5. ASSUME NEW j \in Jobs, Stamps(j) PROVE UNCHANGED <<jobs, published>>
  <2>1. PICK s, t, next : \E p \in 0..MaxProgress : DraftStep(j, s, p, t, next)
    BY <1>1, <1>5, StampsAreDraftSteps
  <2>2. QED
    BY <2>1 DEF DraftStep, OnlyDrafts
<1>6. ASSUME NEW j \in Jobs,
             \/ BeginIndex(j) \/ FlipRepo(j) \/ MirrorJobKey(j) \/ MirrorRepoKey(j) \/ SkipMirror(j)
             \/ IngestReturns(j) \/ FetchRepo(j) \/ CommitError(j) \/ StoreRaises(j)
      PROVE  UNCHANGED <<jobs, published>>
  BY <1>6 DEF BeginIndex, FlipRepo, MirrorJobKey, MirrorRepoKey, SkipMirror,
              IngestReturns, FetchRepo, CommitError, StoreRaises, storeVars
<1>7. ASSUME \/ FinishClone \/ (\E c \in Clients : GetStatus(c)) \/ RedisForgets \/ Restart
             \/ UNCHANGED vars
      PROVE  UNCHANGED <<jobs, published>>
  BY <1>7 DEF FinishClone, GetStatus, PollRepository, PollPointer, PollJobKey, PollRedisFails,
              PollStore, RedisForgets, Restart, vars, storeVars
<1>8. ASSUME NEW j \in Jobs, Request(j) \/ Save(j) \/ Worker(j) \/ StoreRaises(j)
      PROVE  Mapped
  BY <1>2, <1>3, <1>4, <1>5, <1>6, <1>8 DEF Request, Save, Worker, Stamps
<1>9. QED
  BY <1>4, <1>7, <1>8 DEF Next

\* Whatever Redis, the other threads, failing store calls and restarts do, the
\* job rows of the store change only as JobLifecycle allows.
THEOREM JobsLiveTheirLifecycle == Spec => ImplementsLifecycle
<1>1. SafetyInv /\ [Next]_vars => [Lifecycle!Next]_(Lifecycle!vars)
  BY StepMaps DEF Lifecycle!Next, Lifecycle!vars, StateMap, ProgressMap
<1>2. QED
  BY InitMaps, <1>1, SafetyCorrect, PTL DEF Spec, ImplementsLifecycle, Lifecycle!Spec

-----------------------------------------------------------------------------
(* A client does not see a job go back.                                      *)

\* A row of a job is a copy of it exactly when it is there and kept somewhere.
LEMMA CopiesOf ==
    ASSUME NEW j, NEW row
    PROVE  row \in Copies(j) <=>
             /\ row.status # "absent"
             /\ \/ row = jobs[j]
                \/ row = redisJob[j]
                \/ \E c \in Clients : poll[c].ptr = j /\ row = poll[c].row
                \/ \E c \in Clients : view[c].job = j /\ row = view[c].row
BY DEF Copies, Present

LEMMA CopiesAreRows ==
    ASSUME TypeOK, NEW j \in Jobs, NEW row \in Copies(j)
    PROVE  row \in JobRow /\ row.status \in JobStatus /\ row.updated \in Nat
<1>1. row \in JobRow
  BY CopiesOf DEF TypeOK, Reading, Answer
<1>2. row.status # "absent"
  BY CopiesOf
<1>3. QED
  BY <1>1, <1>2 DEF JobRow

LEMMA NoLaterThanSelf ==
    ASSUME NEW row \in JobRow
    PROVE  NoLaterThan(row, row)
<1>1. row.updated \in Nat /\ row.progress \in Nat /\ row.status \in JobStatus \union {"absent"}
  BY ConstantsAssumption DEF JobRow
<1>2. StatusRank[row.status] \in Nat
  BY <1>1 DEF JobStatus, StatusRank
<1>3. QED
  BY <1>1, <1>2 DEF NoLaterThan

-----------------------------------------------------------------------------
(* Creation stamps.                                                          *)

\* No job is created later than now.
LEMMA CreationBound ==
    ASSUME SafetyInv, NEW j \in Jobs
    PROVE  CreationStamp(j) \in Nat /\ CreationStamp(j) <= clock
<1>1. TypeOK /\ StampsOK /\ DraftOK(j)
  BY DEF SafetyInv, ThreadInv
<1>2. /\ clock \in Nat /\ jobs[j].created \in Nat /\ jobs[j].updated \in Nat
      /\ draft[j].created \in Nat /\ draft[j].updated \in Nat
  BY <1>1, StampNumbers
<1>3. jobs[j].created <= clock
  BY <1>1, <1>2 DEF StampsOK
<1>4. draft[j].created <= clock
  BY <1>1, <1>2 DEF DraftOK, NoRow
<1>5. QED
  BY <1>2, <1>3, <1>4 DEF CreationStamp

\* Creation stamps stay apart when they are kept or given up ...
LEMMA CreationKept ==
    ASSUME CreationOK, \A k \in Jobs : CreationStamp(k)' = CreationStamp(k) \/ CreationStamp(k)' = 0
    PROVE  CreationOK'
BY DEF CreationOK

\* ... and when one job gets the stamp of the clock.
LEMMA DraftStepCreation ==
    ASSUME SafetyInv, CreationOK, NEW j \in Jobs, NEW s, NEW p, NEW t, NEW next,
           DraftStep(j, s, p, t, next)
    PROVE  CreationOK'
<1>1. ThreadOK(j) /\ jobs' = jobs
  BY DEF SafetyInv, ThreadInv, DraftStep, OnlyDrafts
<1>2. \A k \in Jobs \ {j} : CreationStamp(k)' = CreationStamp(k)
  BY <1>1 DEF DraftStep, Drafted, CreationStamp
<1>3. CASE pc[j] = "loaded"
  <2>1. CreationStamp(j)' = clock + 1
    BY <1>1, <1>3 DEF DraftStep, Drafted, CreationStamp, ThreadOK
  <2>2. \A k \in Jobs : CreationStamp(k) \in Nat /\ CreationStamp(k) < clock + 1
    BY CreationBound, StampNumbers DEF SafetyInv
  <2>3. QED
    BY <1>2, <2>1, <2>2 DEF CreationOK
<1>4. CASE pc[j] # "loaded"
  <2>1. jobs[j].status # "absent"
    BY <1>1, <1>4 DEF DraftStep, ThreadOK, WorkerSteps
  <2>2. CreationStamp(j)' = CreationStamp(j)
    BY <1>1, <2>1 DEF CreationStamp
  <2>3. QED
    BY <1>2, <2>2, CreationKept
<1>5. QED
  BY <1>3, <1>4

\* The row that is inserted brings its draft's creation stamp, and no update
\* changes it.
LEMMA WriteJobCreation ==
    ASSUME SafetyInv, CreationOK, NEW j \in Jobs, WriteJob(j)
    PROVE  CreationOK'
<1>1. \A k \in Jobs \ {j} : CreationStamp(k)' = CreationStamp(k)
  BY WriteJobEffect DEF CreationStamp
<1>2. CreationStamp(j)' = CreationStamp(j)
  BY WriteJobEffect, WriteJobAdvances DEF CreationStamp, DraftOK
<1>3. QED
  BY <1>1, <1>2, CreationKept

-----------------------------------------------------------------------------
(* Steps that write a job.                                                   *)

LEMMA WriteJobInOrder ==
    ASSUME SafetyInv, CopiesInOrder, NEW j \in Jobs, WriteJob(j)
    PROVE  CopiesInOrder'
<1>1. /\ jobs'[j] = draft[j] /\ \A k \in Jobs \ {j} : jobs'[k] = jobs[k]
      /\ UNCHANGED <<redisJob, poll, view>>
  BY WriteJobEffect
<1>2. TypeOK /\ jobs[j] \in JobRow /\ jobs'[j] \in JobRow
  BY <1>1 DEF SafetyInv, TypeOK
<1>3. \A k \in Jobs : Copies(k)' \subseteq Copies(k) \union {jobs'[k]}
  BY <1>1, CopiesOf DEF Copies, Present
<1>4. \A k \in Jobs \ {j} : Copies(k)' = Copies(k) /\ jobs'[k] = jobs[k]
  BY <1>1 DEF Copies, Present
<1>5. ASSUME NEW row \in Copies(j)
      PROVE  row \in JobRow /\ NoLaterThan(row, jobs'[j]) /\ row.updated < jobs'[j].updated
  <2>1. row \in JobRow /\ row.status # "absent"
    BY <1>2, <1>5, CopiesAreRows, CopiesOf
  <2>2. NoLaterThan(row, jobs[j])
    BY <1>5 DEF CopiesInOrder
  <2>3. jobs[j].updated \in Nat /\ jobs'[j].updated \in Nat /\ row.updated \in Nat
    BY <1>2, <2>1 DEF JobRow
  <2>4. jobs[j].updated <= jobs'[j].updated
    BY <2>3, WriteJobAdvances
  <2>5. NoLaterThan(row, jobs'[j])
    BY <1>2, <2>1, <2>2, <2>4, WriteJobAdvances, NoLaterThanNext
  <2>6. row.updated < jobs'[j].updated
    BY <2>2, <2>3, WriteJobAdvances DEF NoLaterThan
  <2>7. QED
    BY <2>1, <2>5, <2>6
<1>6. ASSUME NEW row \in Copies(j)', NEW other \in Copies(j)'
      PROVE  /\ NoLaterThan(row, jobs'[j])
             /\ row.updated <= other.updated => NoLaterThan(row, other)
  <2>1. NoLaterThan(jobs'[j], jobs'[j])
    BY <1>2, NoLaterThanSelf
  <2>2. NoLaterThan(row, jobs'[j])
    BY <1>3, <1>5, <2>1
  <2>3. CASE other = jobs'[j]
    BY <2>2, <2>3
  <2>4. CASE other \in Copies(j) /\ row \in Copies(j)
    BY <2>2, <2>4 DEF CopiesInOrder
  <2>5. CASE other \in Copies(j) /\ row = jobs'[j]
    <3>1. other.updated < row.updated /\ other.updated \in Nat /\ row.updated \in Nat
      BY <1>2, <1>5, <2>5 DEF JobRow
    <3>2. ~(row.updated <= other.updated)
      BY <3>1
    <3>3. QED
      BY <2>2, <3>2
  <2>6. QED
    BY <1>3, <2>2, <2>3, <2>4, <2>5
<1>7. ASSUME NEW k \in Jobs \ {j}, NEW row \in Copies(k)', NEW other \in Copies(k)'
      PROVE  /\ NoLaterThan(row, jobs'[k])
             /\ row.updated <= other.updated => NoLaterThan(row, other)
  BY <1>4, <1>7 DEF CopiesInOrder
<1>8. QED
  BY <1>6, <1>7 DEF CopiesInOrder, NoLaterThan

LEMMA WriteJobView ==
    ASSUME SafetyInv, ViewInv, NEW j \in Jobs, WriteJob(j)
    PROVE  ViewInv'
<1>1. CopiesInOrder' /\ CreationOK'
  BY WriteJobInOrder, WriteJobCreation DEF ViewInv
<1>2. Created \subseteq Created'
  BY WriteJobEffect, WriteJobAdvances DEF Created
<1>3. \A c \in Clients : ReadOK(c)'
  BY <1>2, WriteJobEffect DEF ViewInv, ReadOK
<1>4. QED
  BY <1>1, <1>3 DEF ViewInv

-----------------------------------------------------------------------------
(* The other steps.                                                          *)

\* A step that writes no job and stamps none: rows are only copied or dropped.
LEMMA ViewKept ==
    ASSUME ViewInv, UNCHANGED jobs,
           \A k \in Jobs : Copies(k)' \subseteq Copies(k),
           \A k \in Jobs : draft'[k] = draft[k] \/ draft'[k] = NoRow,
           \A c \in Clients : ReadOK(c)'
    PROVE  ViewInv'
<1>1. CopiesInOrder'
  BY DEF ViewInv, CopiesInOrder, NoLaterThan
<1>2. \A k \in Jobs : CreationStamp(k)' = CreationStamp(k) \/ CreationStamp(k)' = 0
  BY DEF CreationStamp, NoRow
<1>3. CreationOK'
  BY <1>2, CreationKept DEF ViewInv
<1>4. QED
  BY <1>1, <1>3 DEF ViewInv

\* It may make Redis forget a job, or end what a client has read.
LEMMA NothingNew ==
    ASSUME ViewInv, UNCHANGED <<jobs, view>>,
           \A k \in Jobs : draft'[k] = draft[k] \/ draft'[k] = NoRow,
           \A k \in Jobs : redisJob'[k] = redisJob[k] \/ redisJob'[k].status = "absent",
           \A c \in Clients : \/ poll'[c].row.status = "absent"
                              \/ poll'[c].row = poll[c].row /\ poll'[c].ptr = poll[c].ptr
    PROVE  ViewInv'
<1>1. Created' = Created
  BY DEF Created
<1>2. \A k \in Jobs : Copies(k)' \subseteq Copies(k)
  BY CopiesOf DEF Copies, Present
<1>3. \A c \in Clients : ReadOK(c)'
  BY <1>1 DEF ViewInv, ReadOK
<1>4. QED
  BY <1>2, <1>3, ViewKept

\* Redis gets the row of the store.
LEMMA MirrorView ==
    ASSUME SafetyInv, ViewInv, NEW j \in Jobs, MirrorJobKey(j)
    PROVE  ViewInv'
<1>1. UNCHANGED <<jobs, draft, poll, view>> /\ redisJob' = [redisJob EXCEPT ![j] = jobs[j]]
  BY DEF MirrorJobKey, storeVars, clientVars
<1>2. redisJob'[j] = jobs[j] /\ \A k \in Jobs \ {j} : redisJob'[k] = redisJob[k]
  BY <1>1 DEF SafetyInv, TypeOK
<1>3. \A k \in Jobs : Copies(k)' \subseteq Copies(k)
  BY <1>1, <1>2, CopiesOf DEF Copies, Present
<1>4. \A c \in Clients : ReadOK(c)'
  BY <1>1 DEF ViewInv, ReadOK, Created
<1>5. QED
  BY <1>1, <1>3, <1>4, ViewKept

\* What a client reads from Redis is a copy of a job in the table.
LEMMA PollJobKeyView ==
    ASSUME SafetyInv, ViewInv, NEW c \in Clients, PollJobKey(c)
    PROVE  ViewInv'
<1> DEFINE ptr == poll[c].ptr
           row == redisJob[ptr]
<1>1. UNCHANGED <<jobs, draft, redisJob, view>>
  BY DEF PollJobKey, storeVars, redisVars, threadVars
<1>2. TypeOK /\ ptr \in Jobs /\ row \in JobRow
  BY DEF SafetyInv, TypeOK, PollJobKey
<1>3. poll'[c].row = row /\ poll'[c].ptr = ptr /\ \A d \in Clients \ {c} : poll'[d] = poll[d]
  <2>1. poll' = [poll EXCEPT ![c] = [poll[c] EXCEPT !.at = "store", !.row = row]]
    BY DEF PollJobKey
  <2>2. poll'[c] = [poll[c] EXCEPT !.at = "store", !.row = row] /\ \A d \in Clients \ {c} : poll'[d] = poll[d]
    BY <1>2, <2>1 DEF TypeOK
  <2>3. poll[c] \in Reading
    BY <1>2 DEF TypeOK
  <2>4. [poll[c] EXCEPT !.at = "store", !.row = row].row = row
    BY <2>3 DEF Reading
  <2>5. [poll[c] EXCEPT !.at = "store", !.row = row].ptr = ptr
    BY <2>3 DEF Reading
  <2>6. QED
    BY <2>2, <2>4, <2>5
<1>4. Created' = Created
  BY <1>1 DEF Created
<1>5. \A k \in Jobs : Copies(k)' \subseteq Copies(k)
  BY <1>1, <1>3, CopiesOf DEF Copies, Present
<1>6. row.status # "absent" => ptr \in Created
  <2> SUFFICES ASSUME row.status # "absent" PROVE ptr \in Created
    OBVIOUS
  <2>1. NoLaterThan(row, jobs[ptr])
    BY <1>2 DEF SafetyInv, RedisBehindStore
  <2>2. StatusRank[row.status] <= StatusRank[jobs[ptr].status] /\ row.status \in JobStatus
    BY <1>2, <2>1 DEF NoLaterThan, JobRow
  <2>3. jobs[ptr].status # "absent"
    BY <2>2 DEF StatusRank, JobStatus
  <2>4. QED
    BY <1>2, <2>3 DEF Created
<1>7. \A d \in Clients : ReadOK(d)'
  BY <1>1, <1>3, <1>4, <1>6 DEF ViewInv, ReadOK
<1>8. QED
  BY <1>1, <1>5, <1>7, ViewKept

\* The answer is the copy read from Redis, if it is no earlier than the row of
\* the latest job, else that row.
Answered(c, latest) ==
    \/ /\ poll[c].row.status # "absent"
       /\ poll[c].ptr \in Created
       /\ latest \in Created
       /\ poll[c].row.updated >= jobs[latest].updated
       /\ view'[c].job = poll[c].ptr
       /\ view'[c].row = poll[c].row
    \/ latest = NoJob /\ view'[c].job = NoJob
    \/ latest \in Created /\ view'[c].job = latest /\ view'[c].row = jobs[latest]

LEMMA PollStoreAnswers ==
    ASSUME SafetyInv, ViewInv, NEW c \in Clients, PollStore(c)
    PROVE  /\ \E latest \in Jobs \union {NoJob} : IsLatestJob(latest) /\ Answered(c, latest)
           /\ \A d \in Clients \ {c} : view'[d] = view[d] /\ poll'[d] = poll[d]
           /\ poll'[c].row.status = "absent"
           /\ UNCHANGED <<jobs, draft, redisJob>>
<1>1. TypeOK
  BY DEF SafetyInv
<1>2. PICK latest \in Jobs \union {NoJob} :
          /\ IsLatestJob(latest)
          /\ view' = [view EXCEPT ![c] =
                IF PreferRedis(poll[c].row, latest)
                  THEN [repo |-> poll[c].repo, job |-> poll[c].ptr, row |-> poll[c].row]
                  ELSE [repo |-> poll[c].repo, job |-> latest, row |-> StoreRow(latest)]]
  BY DEF PollStore
<1>3. poll' = [poll EXCEPT ![c] = NoPoll] /\ UNCHANGED <<jobs, draft, redisJob>>
  BY DEF PollStore, storeVars, redisVars, threadVars
<1>4. \A d \in Clients \ {c} : view'[d] = view[d] /\ poll'[d] = poll[d]
  BY <1>1, <1>2, <1>3 DEF TypeOK
<1>5. poll'[c].row.status = "absent"
  BY <1>1, <1>3 DEF TypeOK, NoPoll, NoRow
<1>6. CASE PreferRedis(poll[c].row, latest)
  <2>1. view'[c] = [repo |-> poll[c].repo, job |-> poll[c].ptr, row |-> poll[c].row]
    BY <1>1, <1>2, <1>6 DEF TypeOK
  <2>2. poll[c].row.status # "absent" /\ (latest # NoJob => poll[c].row.updated >= jobs[latest].updated)
    BY <1>6 DEF PreferRedis
  <2>3. poll[c].ptr \in Created
    BY <2>2 DEF ViewInv, ReadOK
  <2>4. latest \in Created /\ latest # NoJob
    BY <1>2, <2>3, ConstantsAssumption DEF IsLatestJob, Created
  <2>5. Answered(c, latest)
    BY <2>1, <2>2, <2>3, <2>4 DEF Answered
  <2>6. QED
    BY <1>2, <1>3, <1>4, <1>5, <2>5
<1>7. CASE ~PreferRedis(poll[c].row, latest)
  <2>1. view'[c] = [repo |-> poll[c].repo, job |-> latest, row |-> StoreRow(latest)]
    BY <1>1, <1>2, <1>7 DEF TypeOK
  <2>2. latest = NoJob \/ (latest \in Created /\ StoreRow(latest) = jobs[latest])
    <3>1. latest = NoJob \/ latest \in Created
      BY <1>2 DEF IsLatestJob
    <3>2. latest # NoJob => StoreRow(latest) = jobs[latest]
      BY DEF StoreRow
    <3>3. NoJob \notin Created
      BY ConstantsAssumption DEF Created
    <3>4. QED
      BY <3>1, <3>2, <3>3
  <2>3. Answered(c, latest)
    BY <2>1, <2>2 DEF Answered
  <2>4. QED
    BY <1>2, <1>3, <1>4, <1>5, <2>3
<1>8. QED
  BY <1>6, <1>7

\* The heart of the matter: what a client is shown of a job it was shown
\* before is the same copy or a later one.  If the answer comes from the store
\* no copy is later.  If it comes from Redis its stamp is past that of the
\* latest job's row, so past that job's creation, and so past the stamp of
\* what the client has.
LEMMA AnswersMoveForward ==
    ASSUME SafetyInv, ViewInv, NEW c \in Clients,
           NEW latest \in Jobs \union {NoJob}, IsLatestJob(latest), Answered(c, latest),
           view[c].job # NoJob, view'[c].job = view[c].job,
           NotPassed(view[c].job, view[c].row.updated)
    PROVE  NoLaterThan(view[c].row, view'[c].row)
<1> DEFINE j == view[c].job
           shown == view[c].row
<1>1. TypeOK /\ StampsOK /\ ReadOK(c) /\ CopiesInOrder /\ CreationOK
  BY DEF SafetyInv, ViewInv
<1>2. j \in Jobs /\ j \in Created
  BY <1>1 DEF ReadOK, Created
<1>3. shown \in Copies(j)
  BY <1>1, CopiesOf DEF ReadOK
<1>4. NoLaterThan(shown, jobs[j])
  BY <1>1, <1>2, <1>3 DEF CopiesInOrder
<1>5. CASE latest \in Created /\ view'[c].job = latest /\ view'[c].row = jobs[latest]
  BY <1>4, <1>5
<1>6. CASE /\ poll[c].row.status # "absent" /\ poll[c].ptr \in Created /\ latest \in Created
           /\ poll[c].row.updated >= jobs[latest].updated
           /\ view'[c].job = poll[c].ptr /\ view'[c].row = poll[c].row
  <2>1. poll[c].row \in Copies(j)
    BY <1>6, CopiesOf
  <2>2. shown \in JobRow /\ poll[c].row \in JobRow /\ jobs[j] \in JobRow /\ jobs[latest] \in JobRow
    BY <1>1, <1>2, <1>3, <1>6, <2>1, CopiesAreRows DEF TypeOK, Created
  <2>3. shown.updated <= poll[c].row.updated
    <3>1. /\ shown.updated \in Nat /\ poll[c].row.updated \in Nat
          /\ jobs[j].updated \in Nat /\ jobs[latest].updated \in Nat
          /\ jobs[j].created \in Nat /\ jobs[latest].created \in Nat
      BY <2>2 DEF JobRow
    <3>2. CASE latest = j
      <4>1. shown.updated <= jobs[j].updated
        BY <1>4 DEF NoLaterThan
      <4>2. poll[c].row.updated >= jobs[j].updated
        BY <1>6, <3>2
      <4>3. QED
        BY <3>1, <4>1, <4>2
    <3>3. CASE latest # j
      <4>1. latest \in Jobs /\ 0 < jobs[latest].created
        BY <1>1, <1>6 DEF StampsOK, Created
      <4>2. CreationStamp(latest) = jobs[latest].created /\ CreationStamp(j) = jobs[j].created
        BY <1>2, <1>6 DEF CreationStamp, Created
      <4>3. jobs[j].created <= jobs[latest].created /\ jobs[j].created # jobs[latest].created
        BY <1>1, <1>2, <1>6, <3>1, <3>3, <4>1, <4>2, ConstantsAssumption
           DEF IsLatestJob, CreationOK
      <4>4. jobs[latest].created > shown.updated
        BY <1>6, <3>1, <4>3 DEF NotPassed
      <4>5. jobs[latest].created <= jobs[latest].updated
        BY <1>1, <4>1 DEF StampsOK
      <4>6. QED
        BY <1>6, <3>1, <4>4, <4>5
    <3>4. QED
      BY <3>2, <3>3
  <2>4. QED
    BY <1>1, <1>2, <1>3, <1>6, <2>1, <2>3 DEF CopiesInOrder
<1>7. QED
  BY <1>5, <1>6 DEF Answered

LEMMA PollStoreView ==
    ASSUME SafetyInv, ViewInv, NEW c \in Clients, PollStore(c)
    PROVE  ViewInv'
<1>1. PICK latest \in Jobs \union {NoJob} : IsLatestJob(latest) /\ Answered(c, latest)
  BY PollStoreAnswers
<1>2. /\ \A d \in Clients \ {c} : view'[d] = view[d] /\ poll'[d] = poll[d]
      /\ poll'[c].row.status = "absent"
      /\ UNCHANGED <<jobs, draft, redisJob>>
  BY PollStoreAnswers
<1>3. Created' = Created
  BY <1>2 DEF Created
<1>4. ASSUME NEW k \in Jobs PROVE Copies(k)' \subseteq Copies(k)
  <2>1. ASSUME NEW row, row.status # "absent", view'[c].job = k, row = view'[c].row
        PROVE  row \in Copies(k)
    BY <1>1, <2>1, ConstantsAssumption, CopiesOf DEF Answered
  <2>2. \A row \in Copies(k)' : row.status # "absent" /\
             \/ row = jobs[k] \/ row = redisJob[k]
             \/ \E d \in Clients : poll'[d].ptr = k /\ row = poll'[d].row
             \/ \E d \in Clients : view'[d].job = k /\ row = view'[d].row
    BY <1>2 DEF Copies, Present
  <2>3. QED
    BY <1>2, <2>1, <2>2, CopiesOf
<1>5. ReadOK(c)'
  BY <1>1, <1>2, <1>3 DEF ReadOK, Answered, Created
<1>6. \A d \in Clients \ {c} : ReadOK(d)'
  BY <1>2, <1>3 DEF ViewInv, ReadOK
<1>7. QED
  BY <1>2, <1>4, <1>5, <1>6, ViewKept

-----------------------------------------------------------------------------
(* ViewInv is inductive, given SafetyInv.                                    *)

LEMMA ViewInit == Init => ViewInv
<1> SUFFICES ASSUME Init PROVE ViewInv
  OBVIOUS
<1>1. \A j \in Jobs : Copies(j) = {}
  <2> SUFFICES ASSUME NEW j \in Jobs, NEW row \in Copies(j) PROVE FALSE
    OBVIOUS
  <2>1. /\ jobs[j] = NoRow /\ redisJob[j] = NoRow
        /\ \A c \in Clients : poll[c].row = NoRow /\ view[c].row = NoRow
    BY DEF Init, NoPoll, NoView
  <2>2. row = NoRow /\ row.status # "absent"
    BY <2>1, CopiesOf
  <2>3. QED
    BY <2>2 DEF NoRow
<1>2. CreationOK
  BY DEF Init, CreationOK, CreationStamp, NoRow
<1>3. QED
  BY <1>1, <1>2 DEF Init, ViewInv, CopiesInOrder, ReadOK, NoRow, NoPoll, NoView

LEMMA ViewStep == SafetyInv /\ ViewInv /\ [Next]_vars => ViewInv'
<1> SUFFICES ASSUME SafetyInv, ViewInv, [Next]_vars
             PROVE  ViewInv'
  OBVIOUS
<1>1. TypeOK
  BY DEF SafetyInv
<1>2. ASSUME NEW j \in Jobs, Stamps(j) PROVE ViewInv'
  <2>1. PICK s, t, next : \E p \in 0..MaxProgress : DraftStep(j, s, p, t, next)
    BY <1>1, <1>2, StampsAreDraftSteps
  <2>2. PICK p \in 0..MaxProgress : DraftStep(j, s, p, t, next)
    BY <2>1
  <2>3. CreationOK'
    BY <2>2, DraftStepCreation DEF ViewInv
  <2>4. UNCHANGED <<jobs, redisJob, poll, view>>
    BY <2>2 DEF DraftStep, OnlyDrafts
  <2>5. CopiesInOrder'
    BY <2>4 DEF ViewInv, CopiesInOrder, Copies, Present, NoLaterThan
  <2>6. \A c \in Clients : ReadOK(c)'
    BY <2>4 DEF ViewInv, ReadOK, Created
  <2>7. QED
    BY <2>3, <2>5, <2>6 DEF ViewInv
<1>3. ASSUME NEW j \in Jobs, WriteJob(j) \/ MirrorJobKey(j) PROVE ViewInv'
  BY <1>3, WriteJobView, MirrorView
<1>4. ASSUME UNCHANGED <<jobs, redisJob, poll, view>>,
             \A k \in Jobs : draft'[k] = draft[k] \/ draft'[k] = NoRow
      PROVE  ViewInv'
  BY <1>4, NothingNew
<1>5. ASSUME NEW j \in Jobs,
             \/ BeginIndex(j) \/ FlipRepo(j) \/ MirrorRepoKey(j) \/ SkipMirror(j) \/ IngestReturns(j)
             \/ FetchRepo(j) \/ CommitIndexed(j) \/ CommitError(j)
      PROVE  UNCHANGED <<jobs, redisJob, poll, view, draft>>
  BY <1>5 DEF BeginIndex, FlipRepo, MirrorRepoKey, SkipMirror, IngestReturns, FetchRepo, CommitIndexed,
              CommitError, storeVars, redisVars, clientVars
<1>6. ASSUME NEW j \in Jobs, StoreRaises(j) PROVE ViewInv'
  <2>1. UNCHANGED <<jobs, redisJob, poll, view>> /\ draft' = [draft EXCEPT ![j] = NoRow]
    BY <1>6 DEF StoreRaises, storeVars, redisVars, clientVars
  <2>2. \A k \in Jobs : draft'[k] = draft[k] \/ draft'[k] = NoRow
    BY <1>1, <2>1 DEF TypeOK
  <2>3. QED
    BY <1>4, <2>1, <2>2
<1>7. ASSUME FinishClone \/ UNCHANGED vars PROVE UNCHANGED <<jobs, redisJob, poll, view, draft>>
  BY <1>7 DEF FinishClone, vars, storeVars, redisVars, threadVars, clientVars
<1>8. ASSUME RedisForgets PROVE ViewInv'
  <2>1. UNCHANGED <<jobs, draft, poll, view>>
    BY <1>8 DEF RedisForgets, storeVars, threadVars, clientVars
  <2>2. \A k \in Jobs : redisJob'[k] = redisJob[k] \/ redisJob'[k].status = "absent"
    BY <1>1, <1>8 DEF RedisForgets, TypeOK, NoRow
  <2>3. QED
    BY <2>1, <2>2, NothingNew
<1>9. ASSUME Restart PROVE ViewInv'
  <2>1. /\ UNCHANGED <<jobs, redisJob, view>> /\ \A c \in Clients : poll'[c].row.status = "absent"
        /\ \A k \in Jobs : draft'[k] = NoRow
    BY <1>9 DEF Restart, storeVars, redisVars, NoPoll, NoRow
  <2>2. QED
    BY <2>1, NothingNew
<1>10. ASSUME NEW c \in Clients, PollRepository(c) \/ PollPointer(c) \/ PollRedisFails(c)
       PROVE  ViewInv'
  <2>1. UNCHANGED <<jobs, draft, redisJob, view>>
    BY <1>10 DEF PollRepository, PollPointer, PollRedisFails, storeVars, redisVars, threadVars
  <2>2. \A d \in Clients \ {c} : poll'[d] = poll[d]
    BY <1>1, <1>10 DEF PollRepository, PollPointer, PollRedisFails, TypeOK
  <2>3. poll[c] \in Reading
    BY <1>1 DEF TypeOK
  <2>4. \/ poll'[c].row.status = "absent"
        \/ poll'[c].row = poll[c].row /\ poll'[c].ptr = poll[c].ptr
    <3>1. CASE PollRepository(c)
      <4> DEFINE a == IF RedisUp THEN "pointer" ELSE "store"
                 mid == [poll[c] EXCEPT !.at = a]
      <4>1. mid \in [at : {"idle", "pointer", "key", "store"}, repo : RepoStatus,
                     ptr : Jobs \union {NoJob}, row : JobRow]
            /\ mid.row = poll[c].row /\ mid.ptr = poll[c].ptr
        BY <2>3 DEF Reading
      <4>2. poll'[c] = [mid EXCEPT !.repo = repo.status]
        BY <1>1, <3>1 DEF PollRepository, TypeOK
      <4> HIDE DEF mid
      <4>3. QED
        BY <4>1, <4>2
    <3>2. CASE PollPointer(c)
      BY <1>1, <3>2 DEF PollPointer, TypeOK, NoRow
    <3>3. CASE PollRedisFails(c)
      <4>1. poll'[c] = [poll[c] EXCEPT !.at = "store"]
        BY <1>1, <3>3 DEF PollRedisFails, TypeOK
      <4>2. QED
        BY <2>3, <4>1 DEF Reading
    <3>4. QED
      BY <1>10, <3>1, <3>2, <3>3
  <2>5. QED
    BY <2>1, <2>2, <2>4, NothingNew
<1>11. ASSUME NEW c \in Clients, GetStatus(c) PROVE ViewInv'
  BY <1>10, <1>11, PollJobKeyView, PollStoreView DEF GetStatus
<1>12. ASSUME NEW j \in Jobs, Request(j) \/ Save(j) \/ Worker(j) \/ StoreRaises(j) PROVE ViewInv'
  BY <1>2, <1>3, <1>4, <1>5, <1>6, <1>12 DEF Request, Save, Worker, Stamps
<1>13. QED
  BY <1>4, <1>7, <1>8, <1>9, <1>11, <1>12 DEF Next

\* The rows of a job that are kept anywhere - in the table, in Redis, in a
\* request that is reading it, with a client - are a chain that ends in the
\* table's, however the stamps and writes of overlapping jobs interleave.
THEOREM CopiesCorrect == Spec => []CopiesInOrder
<1>1. Spec => []ViewInv
  BY ViewInit, ViewStep, SafetyCorrect, PTL DEF Spec
<1>2. ViewInv => CopiesInOrder
  BY DEF ViewInv
<1>3. QED
  BY <1>1, <1>2, PTL

\* A client that polls does not see a job go back, for any number of clients
\* and of overlapping jobs, whatever Redis forgets or fails to store, as long
\* as no newer job was stamped before the row the client has.
THEOREM ViewsMoveForward == Spec => ViewNeverRegresses
<1> DEFINE Forward == \A c \in Clients :
              (/\ view[c].job # NoJob
               /\ view'[c].job = view[c].job
               /\ NotPassed(view[c].job, view[c].row.updated))
                  => NoLaterThan(view[c].row, view'[c].row)
<1>1. ASSUME SafetyInv, ViewInv, [Next]_vars PROVE [Forward]_view
  <2>1. ASSUME NEW c \in Clients, PollStore(c) PROVE Forward
    <3> SUFFICES ASSUME NEW d \in Clients, view[d].job # NoJob, view'[d].job = view[d].job,
                        NotPassed(view[d].job, view[d].row.updated)
                 PROVE  NoLaterThan(view[d].row, view'[d].row)
      OBVIOUS
    <3>1. CASE d = c
      <4>1. PICK latest \in Jobs \union {NoJob} : IsLatestJob(latest) /\ Answered(c, latest)
        BY <1>1, <2>1, PollStoreAnswers
      <4>2. QED
        BY <1>1, <3>1, <4>1, AnswersMoveForward
    <3>2. CASE d # c
      <4>1. view'[d].row = view[d].row
        BY <1>1, <2>1, <3>2, PollStoreAnswers
      <4>2. view[d].row \in JobRow
        BY <1>1 DEF SafetyInv, TypeOK, Answer
      <4>3. QED
        BY <4>1, <4>2, NoLaterThanSelf
    <3>3. QED
      BY <3>1, <3>2
  <2>2. ASSUME ~\E c \in Clients : PollStore(c) PROVE UNCHANGED view
    BY <1>1, <2>2 DEF Next, Request, Save, Worker, GetStatus, BeginIndex, CreateJob, FlipRepo,
       WriteJob, MirrorJobKey, MirrorRepoKey, SkipMirror, StartWorker, OnProgress, IngestReturns,
       FetchRepo, CommitIndexed, CommitError, FinishJob, FailJob, StoreRaises, FinishClone,
       PollRepository, PollPointer, PollJobKey, PollRedisFails, RedisForgets, Restart, vars, clientVars
  <2>3. QED
    BY <2>1, <2>2
<1>2. Spec => []ViewInv
  BY ViewInit, ViewStep, SafetyCorrect, PTL DEF Spec
<1>3. QED
  BY <1>1, <1>2, SafetyCorrect, PTL DEF Spec, ViewNeverRegresses
=============================================================================
