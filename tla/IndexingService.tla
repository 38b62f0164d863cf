--------------------------- MODULE IndexingService --------------------------
(***************************************************************************)
(* Indexing one repository: the HTTP threads that start an index           *)
(* (start_index), the daemon thread each of them launches (_run), the two  *)
(* SQLite tables they write (MetadataStore), the Redis mirror of the job,  *)
(* the git clone of POST /repositories/connect that may still be running,  *)
(* and a client that polls GET /repositories/{id}/status.                  *)
(*                                                                         *)
(* MetadataStore locks each call, not a read followed by a write: every    *)
(* store call, and every Redis SET or GET, is one step here.  create_job   *)
(* and update_job take their stamp before they take the lock, so a job is  *)
(* stamped in one step and written in another, and the stamps and writes   *)
(* of other threads may come between.  A job row is read and written by    *)
(* its own thread only, so the get_job that comes just before an           *)
(* update_job is part of the stamping step; the repository row is shared,  *)
(* so reading it and writing it back are two.                              *)
(***************************************************************************)
EXTENDS Naturals

CONSTANTS
    Jobs,         \* jobs that requests may create; j also names j's thread
    NoJob,        \* no job: an empty pointer, a row that was never indexed
    MaxProgress,  \* the progress value that stands for the fraction 1.0
    Sources,      \* how the repository was connected: within {"local", "git"}
    Clients,      \* browsers and scripts that poll the status
    IngestRaises, \* whether the given ingestor may raise (it should not)
    RedisUp,      \* whether _connect_redis got a client (else no mirror)
    MaxFaults,    \* bound on store calls that raise
    MaxRedisFaults, \* bound on SETs and GETs that fail and keys that vanish
    MaxRestarts   \* bound on restarts of the API process

ASSUME ConstantsAssumption ==
    /\ NoJob \notin Jobs
    /\ MaxProgress \in Nat \ {0}
    /\ Sources \subseteq {"local", "git"}
    /\ IngestRaises \in BOOLEAN
    /\ RedisUp \in BOOLEAN
    /\ MaxFaults \in Nat
    /\ MaxRedisFaults \in Nat
    /\ MaxRestarts \in Nat

VARIABLES
    repo,         \* the repositories row
    jobs,         \* the jobs table
    redisJob,     \* tracepilot:job:{id} keys
    redisPtr,     \* the tracepilot:repo:{id}:job key
    clock,        \* last utcnow() used as a stamp
    pc,           \* next step of each request/worker thread
    resume,       \* where a thread goes on once it has saved and mirrored its job
    draft,        \* the IndexJob a thread has stamped and not yet written
    copy,         \* the Repository object a thread holds between calls
    published,    \* history: jobs whose INDEXED row was committed
    source,       \* "local", or the git clone: "cloning", then "ended"
    poll,         \* each client's status request: what it has read so far
    view,         \* each client's last GET /status answer
    faults,       \* store calls that raised so far
    redisFaults,  \* Redis failures so far
    restarts      \* restarts so far

storeVars == <<repo, jobs, clock, published>>
redisVars == <<redisJob, redisPtr>>
threadVars == <<pc, resume, draft, copy>>
clientVars == <<poll, view>>
envVars == <<source, faults, redisFaults, restarts>>
vars == <<storeVars, redisVars, threadVars, clientVars, envVars>>

-----------------------------------------------------------------------------
(* Rows and records.  A job's stats are named by the job that computed them. *)

RepoStatus == {"registered", "indexing", "indexed", "error"}
JobStatus == {"pending", "running", "succeeded", "failed"}
Terminal == {"succeeded", "failed"}
Active == {"pending", "running"}

RepoRow == [status : RepoStatus, error : BOOLEAN, stats : Jobs \union {NoJob}]
JobRow == [status : JobStatus \union {"absent"}, progress : 0..MaxProgress,
           created : Nat, updated : Nat]
Reading == [at : {"idle", "pointer", "key", "store"}, repo : RepoStatus,
            ptr : Jobs \union {NoJob}, row : JobRow]
Answer == [repo : RepoStatus, job : Jobs \union {NoJob}, row : JobRow]

NewRepo == [status |-> "registered", error |-> FALSE, stats |-> NoJob]
NoRow == [status |-> "absent", progress |-> 0, created |-> 0, updated |-> 0]
NoPoll == [at |-> "idle", repo |-> "registered", ptr |-> NoJob, row |-> NoRow]
NoView == [repo |-> "registered", job |-> NoJob, row |-> NoRow]

StartSteps == {"loaded", "flip"}
MirrorSteps == {"setjob", "setptr"}
SaveSteps == {"write"} \union MirrorSteps
WorkerSteps == {"launched", "ingest", "fetch", "commit", "finish",
                "failfetch", "failcommit", "failfinish"}
Steps == {"idle", "done", "dead"} \union StartSteps \union SaveSteps \union WorkerSteps

Created == {j \in Jobs : jobs[j].status # "absent"}

\* MetadataStore.latest_job: a job created last, or None when there is none.
IsLatestJob(j) ==
    \/ Created = {} /\ j = NoJob
    \/ j \in Created /\ \A k \in Created : jobs[k].created <= jobs[j].created

-----------------------------------------------------------------------------
Init ==
    /\ \E s \in Sources : source = IF s = "git" THEN "cloning" ELSE "local"
    /\ repo = NewRepo
    /\ jobs = [j \in Jobs |-> NoRow]
    /\ redisJob = [j \in Jobs |-> NoRow]
    /\ redisPtr = NoJob
    /\ clock = 0
    /\ pc = [j \in Jobs |-> "idle"]
    /\ resume = [j \in Jobs |-> "done"]
    /\ draft = [j \in Jobs |-> NoRow]
    /\ copy = [j \in Jobs |-> NewRepo]
    /\ published = {}
    /\ poll = [c \in Clients |-> NoPoll]
    /\ view = [c \in Clients |-> NoView]
    /\ faults = 0
    /\ redisFaults = 0
    /\ restarts = 0

Goto(j, step) == pc' = [pc EXCEPT ![j] = step]

\* create_job and update_job up to their lock: the object, stamped.  WriteJob
\* puts it in the table; the mirror follows, then the step named next.
SaveJob(j, row, next) ==
    /\ clock' = clock + 1
    /\ draft' = [draft EXCEPT ![j] = [row EXCEPT !.updated = clock + 1]]
    /\ Goto(j, "write")
    /\ resume' = [resume EXCEPT ![j] = next]
    /\ UNCHANGED jobs

-----------------------------------------------------------------------------
(* Faulty variants of the definitions below, each what one slip in the code  *)
(* would make of it; Next uses none of them.  They show that the properties  *)
(* can fail.                                                                 *)

\* on_progress without the clamp to [0, 1].
OnProgressUnclamped(j) ==
    /\ pc[j] = "ingest"
    /\ SaveJob(j, [jobs[j] EXCEPT !.progress = MaxProgress + 1], "ingest")
    /\ UNCHANGED <<repo, published, redisVars, copy, clientVars, envVars>>

\* _mirror_job with a stamp of its own.
MirrorJobKeyRestamped(j) ==
    /\ pc[j] = "setjob"
    /\ redisJob' = [redisJob EXCEPT ![j] = [jobs[j] EXCEPT !.updated = clock + 1]]
    /\ Goto(j, "setptr")
    /\ UNCHANGED <<storeVars, redisPtr, resume, draft, copy, clientVars, envVars>>

\* ingest returned: mark the job done before the repository is committed.
IngestReturnsJobFirst(j) ==
    /\ pc[j] = "ingest"
    /\ Goto(j, "finish")
    /\ UNCHANGED <<storeVars, redisVars, resume, draft, copy, clientVars, envVars>>

\* _finalize_failure that forgets update_repository ...
CommitErrorForgotten(j) ==
    /\ pc[j] = "failcommit"
    /\ copy' = [copy EXCEPT ![j] = NewRepo]
    /\ Goto(j, "failfinish")
    /\ UNCHANGED <<storeVars, redisVars, resume, draft, clientVars, envVars>>

\* ... or that forgets the job.
CommitErrorAndStop(j) ==
    /\ pc[j] = "failcommit"
    /\ repo' = [copy[j] EXCEPT !.status = "error", !.error = TRUE]
    /\ copy' = [copy EXCEPT ![j] = NewRepo]
    /\ Goto(j, "done")
    /\ UNCHANGED <<jobs, clock, published, redisVars, resume, draft, clientVars, envVars>>

\* _latest_job that takes the Redis copy whenever there is one.
PreferRedisAlways(row, latest) == row.status # "absent"

-----------------------------------------------------------------------------
(* POST /repositories/{id}/index: start_index. *)

\* get_repository: the object the request keeps until it writes it back.
BeginIndex(j) ==
    /\ pc[j] = "idle"
    /\ copy' = [copy EXCEPT ![j] = repo]
    /\ Goto(j, "loaded")
    /\ UNCHANGED <<storeVars, redisVars, resume, draft, clientVars, envVars>>

\* create_job: the object, its created_at and updated_at read from the clock
\* one right after the other, which is one stamp here.
CreateJob(j) ==
    /\ pc[j] = "loaded"
    /\ SaveJob(j, [status |-> "pending", progress |-> 0,
                   created |-> clock + 1, updated |-> clock + 1], "flip")
    /\ UNCHANGED <<repo, published, redisVars, copy, clientVars, envVars>>

\* update_repository with the object read by BeginIndex, every column of it.
FlipRepo(j) ==
    /\ pc[j] = "flip"
    /\ repo' = [copy[j] EXCEPT !.status = "indexing", !.error = FALSE]
    /\ copy' = [copy EXCEPT ![j] = NewRepo]
    /\ Goto(j, "launched")
    /\ UNCHANGED <<jobs, clock, published, redisVars, resume, draft, clientVars, envVars>>

\* Under the lock: INSERT or UPDATE of the stamped object, and the commit.
\* _mirror_job returns at once without a client.
WriteJob(j) ==
    /\ pc[j] = "write"
    /\ jobs' = [jobs EXCEPT ![j] = draft[j]]
    /\ draft' = [draft EXCEPT ![j] = NoRow]
    /\ Goto(j, IF RedisUp THEN "setjob" ELSE resume[j])
    /\ UNCHANGED <<repo, clock, published, redisVars, resume, copy, clientVars, envVars>>

-----------------------------------------------------------------------------
(* _mirror_job: two SETs; an error in either ends the mirroring, quietly. *)

RedisFails ==
    /\ redisFaults < MaxRedisFaults
    /\ redisFaults' = redisFaults + 1

MirrorJobKey(j) ==
    /\ pc[j] = "setjob"
    /\ redisJob' = [redisJob EXCEPT ![j] = jobs[j]]
    /\ Goto(j, "setptr")
    /\ UNCHANGED <<storeVars, redisPtr, resume, draft, copy, clientVars, envVars>>

MirrorRepoKey(j) ==
    /\ pc[j] = "setptr"
    /\ redisPtr' = j
    /\ Goto(j, resume[j])
    /\ UNCHANGED <<storeVars, redisJob, resume, draft, copy, clientVars, envVars>>

SkipMirror(j) ==
    /\ pc[j] \in MirrorSteps
    /\ RedisFails
    /\ Goto(j, resume[j])
    /\ UNCHANGED <<storeVars, redisVars, resume, draft, copy, clientVars, source, faults, restarts>>

-----------------------------------------------------------------------------
(* The daemon thread: _run. *)

StartWorker(j) ==
    /\ pc[j] = "launched"
    /\ SaveJob(j, [jobs[j] EXCEPT !.status = "running"], "ingest")
    /\ UNCHANGED <<repo, published, redisVars, copy, clientVars, envVars>>

\* on_progress.  The fractions ingest reports only grow, up to 1.0; reports
\* that leave the fraction as it is only change the message.
OnProgress(j) ==
    /\ pc[j] = "ingest"
    /\ \E p \in 1..MaxProgress :
          /\ p > jobs[j].progress
          /\ SaveJob(j, [jobs[j] EXCEPT !.status = "running", !.progress = p], "ingest")
    /\ UNCHANGED <<repo, published, redisVars, copy, clientVars, envVars>>

\* ingest returns stats, or whatever ingestor the service was given raises.
IngestReturns(j) ==
    /\ pc[j] = "ingest"
    /\ \/ Goto(j, "fetch")
       \/ IngestRaises /\ Goto(j, "failfetch")
    /\ UNCHANGED <<storeVars, redisVars, resume, draft, copy, clientVars, envVars>>

\* get_repository at the head of _finalize_success and of _finalize_failure.
FetchRepo(j) ==
    /\ pc[j] \in {"fetch", "failfetch"}
    /\ copy' = [copy EXCEPT ![j] = repo]
    /\ Goto(j, IF pc[j] = "fetch" THEN "commit" ELSE "failcommit")
    /\ UNCHANGED <<storeVars, redisVars, resume, draft, clientVars, envVars>>

CommitIndexed(j) ==
    /\ pc[j] = "commit"
    /\ repo' = [copy[j] EXCEPT !.status = "indexed", !.stats = j, !.error = FALSE]
    /\ published' = published \union {j}
    /\ copy' = [copy EXCEPT ![j] = NewRepo]
    /\ Goto(j, "finish")
    /\ UNCHANGED <<jobs, clock, redisVars, resume, draft, clientVars, envVars>>

CommitError(j) ==
    /\ pc[j] = "failcommit"
    /\ repo' = [copy[j] EXCEPT !.status = "error", !.error = TRUE]
    /\ copy' = [copy EXCEPT ![j] = NewRepo]
    /\ Goto(j, "failfinish")
    /\ UNCHANGED <<jobs, clock, published, redisVars, resume, draft, clientVars, envVars>>

FinishJob(j) ==
    /\ pc[j] = "finish"
    /\ SaveJob(j, [jobs[j] EXCEPT !.status = "succeeded", !.progress = MaxProgress], "done")
    /\ UNCHANGED <<repo, published, redisVars, copy, clientVars, envVars>>

FailJob(j) ==
    /\ pc[j] = "failfinish"
    /\ SaveJob(j, [jobs[j] EXCEPT !.status = "failed"], "done")
    /\ UNCHANGED <<repo, published, redisVars, copy, clientVars, envVars>>

\* Where a write that raises leaves its thread.  report() in the ingestor
\* swallows what on_progress raises; the row that marks success is written
\* inside the worker's try, which goes on with the failure path; anywhere
\* else the thread ends.
AfterLostWrite(j) ==
    IF draft[j].status = "running" /\ jobs[j].status = "running" THEN "ingest"
    ELSE IF draft[j].status = "succeeded" THEN "failfetch"
    ELSE "dead"

\* A store call raises: a read, or a write that then changes nothing.
StoreRaises(j) ==
    /\ faults < MaxFaults
    /\ faults' = faults + 1
    /\ \/ /\ pc[j] \in {"fetch", "commit", "finish"}
          /\ Goto(j, "failfetch")
       \/ /\ pc[j] \in {"flip", "launched", "failfetch", "failcommit", "failfinish"}
          /\ Goto(j, "dead")
       \/ /\ pc[j] = "write"
          /\ Goto(j, AfterLostWrite(j))
    /\ draft' = [draft EXCEPT ![j] = NoRow]
    /\ copy' = [copy EXCEPT ![j] = NewRepo]
    /\ UNCHANGED <<storeVars, redisVars, resume, clientVars, source, redisFaults, restarts>>

-----------------------------------------------------------------------------
(* POST /repositories/connect with a git_url: the row exists, and is listed, *)
(* while the clone runs; then the object created with it is written back.    *)

FinishClone ==
    /\ source = "cloning"
    /\ source' = "ended"
    /\ \E ok \in BOOLEAN : repo' = [NewRepo EXCEPT !.error = ~ok]
    /\ UNCHANGED <<jobs, clock, published, redisVars, threadVars, clientVars, faults, redisFaults, restarts>>

-----------------------------------------------------------------------------
(* GET /repositories/{id}/status: get_status, four reads in this order. *)

PollRepository(c) ==
    /\ poll[c].at = "idle"
    /\ poll' = [poll EXCEPT ![c].at = IF RedisUp THEN "pointer" ELSE "store",
                            ![c].repo = repo.status]
    /\ UNCHANGED <<storeVars, redisVars, threadVars, view, envVars>>

PollPointer(c) ==
    /\ poll[c].at = "pointer"
    /\ poll' = [poll EXCEPT ![c] =
          [at |-> IF redisPtr = NoJob THEN "store" ELSE "key",
           repo |-> poll[c].repo, ptr |-> redisPtr, row |-> NoRow]]
    /\ UNCHANGED <<storeVars, redisVars, threadVars, view, envVars>>

PollJobKey(c) ==
    /\ poll[c].at = "key"
    /\ poll' = [poll EXCEPT ![c].at = "store", ![c].row = redisJob[poll[c].ptr]]
    /\ UNCHANGED <<storeVars, redisVars, threadVars, view, envVars>>

\* A GET that fails reads as no Redis copy.
PollRedisFails(c) ==
    /\ poll[c].at \in {"pointer", "key"}
    /\ RedisFails
    /\ poll' = [poll EXCEPT ![c].at = "store"]
    /\ UNCHANGED <<storeVars, redisVars, threadVars, view, source, faults, restarts>>

\* _latest_job: the Redis copy unless the store's latest job was updated later.
PreferRedis(row, latest) ==
    /\ row.status # "absent"
    /\ latest # NoJob => row.updated >= jobs[latest].updated

StoreRow(j) == IF j = NoJob THEN NoRow ELSE jobs[j]

PollStore(c) ==
    /\ poll[c].at = "store"
    /\ \E latest \in Jobs \union {NoJob} :
          /\ IsLatestJob(latest)
          /\ view' = [view EXCEPT ![c] =
                IF PreferRedis(poll[c].row, latest)
                  THEN [repo |-> poll[c].repo, job |-> poll[c].ptr, row |-> poll[c].row]
                  ELSE [repo |-> poll[c].repo, job |-> latest, row |-> StoreRow(latest)]]
    /\ poll' = [poll EXCEPT ![c] = NoPoll]
    /\ UNCHANGED <<storeVars, redisVars, threadVars, envVars>>

-----------------------------------------------------------------------------
(* The environment. *)

\* The one-day TTL of a key runs out, or Redis evicts it.
RedisForgets ==
    /\ RedisFails
    /\ \/ /\ redisPtr' = NoJob
          /\ UNCHANGED redisJob
       \/ /\ \E j \in Jobs : redisJob' = [redisJob EXCEPT ![j] = NoRow]
          /\ UNCHANGED redisPtr
    /\ UNCHANGED <<storeVars, threadVars, clientVars, source, faults, restarts>>

\* The API process stops and starts again: the daemon threads, the requests
\* and a clone in progress are gone; SQLite and Redis are what they were, and
\* lifespan() repairs nothing.
Restart ==
    /\ restarts < MaxRestarts
    /\ restarts' = restarts + 1
    /\ pc' = [j \in Jobs |-> IF pc[j] \in {"idle", "done"} THEN pc[j] ELSE "dead"]
    /\ draft' = [j \in Jobs |-> NoRow]
    /\ copy' = [j \in Jobs |-> NewRepo]
    /\ source' = IF source = "cloning" THEN "ended" ELSE source
    /\ poll' = [c \in Clients |-> NoPoll]
    /\ UNCHANGED <<storeVars, redisVars, resume, view, faults, redisFaults>>

-----------------------------------------------------------------------------
Request(j) == BeginIndex(j) \/ CreateJob(j) \/ FlipRepo(j)
Save(j) == WriteJob(j) \/ MirrorJobKey(j) \/ MirrorRepoKey(j) \/ SkipMirror(j)
Worker(j) ==
    \/ StartWorker(j) \/ OnProgress(j) \/ IngestReturns(j) \/ FetchRepo(j)
    \/ CommitIndexed(j) \/ CommitError(j) \/ FinishJob(j) \/ FailJob(j)
GetStatus(c) ==
    \/ PollRepository(c) \/ PollPointer(c) \/ PollJobKey(c)
    \/ PollRedisFails(c) \/ PollStore(c)

Next ==
    \/ \E j \in Jobs : Request(j) \/ Save(j) \/ Worker(j) \/ StoreRaises(j)
    \/ FinishClone
    \/ \E c \in Clients : GetStatus(c)
    \/ RedisForgets
    \/ Restart

Spec == Init /\ [][Next]_vars

\* The threads are run by the operating system and ingest ends (its file list
\* is finite and each embedding call returns or raises); requests and polls
\* come from clients and need not come.
ThreadStep(j) == CreateJob(j) \/ FlipRepo(j) \/ Save(j) \/ Worker(j)
Fairness == \A j \in Jobs : WF_vars(ThreadStep(j))
FairSpec == Spec /\ Fairness

-----------------------------------------------------------------------------
(* Properties. *)

TypeOK ==
    /\ repo \in RepoRow
    /\ jobs \in [Jobs -> JobRow]
    /\ redisJob \in [Jobs -> JobRow]
    /\ redisPtr \in Jobs \union {NoJob}
    /\ clock \in Nat
    /\ pc \in [Jobs -> Steps]
    /\ resume \in [Jobs -> {"flip", "ingest", "done"}]
    /\ draft \in [Jobs -> JobRow]
    /\ copy \in [Jobs -> RepoRow]
    /\ published \in SUBSET Jobs
    /\ source \in {"local", "cloning", "ended"}
    /\ poll \in [Clients -> Reading]
    /\ \A c \in Clients : poll[c].at = "key" => poll[c].ptr \in Jobs
    /\ view \in [Clients -> Answer]
    /\ faults \in Nat
    /\ redisFaults \in Nat
    /\ restarts \in Nat

Settled == {"indexed", "error"}

\* When every job there is has ended, the repository row is indexed or error:
\* each thread flips the row before it commits it, so the last write of the
\* row is a commit, however the threads interleave and wherever they die.
\* (start_index and the two _finalize_ methods; a row whose git clone may
\* still overwrite it is the subject of EndedJobsSettleRepo.)
SettledRepo ==
    (/\ source = "local"
     /\ Created # {}
     /\ \A j \in Created : jobs[j].status \in Terminal)
        => repo.status \in Settled

\* The Redis copy of a job is the row of the store or an earlier one, never a
\* later one: "the SQLite store remains the source of truth" (_save_job).
StatusRank == [absent |-> 0, pending |-> 1, running |-> 2, succeeded |-> 3, failed |-> 3]

NoLaterThan(r1, r2) ==
    /\ r1.updated <= r2.updated
    /\ r1.progress <= r2.progress
    /\ StatusRank[r1.status] <= StatusRank[r2.status]
    /\ r1.status \in Terminal => r1 = r2

RedisBehindStore ==
    \A j \in Jobs : redisJob[j].status # "absent" => NoLaterThan(redisJob[j], jobs[j])

\* Every job created after j was created after j's row had stamp t: should one
\* of them be the latest, no copy of j at t or before is preferred to it.
NotPassed(j, t) ==
    \A k \in Created : jobs[k].created > jobs[j].created => jobs[k].created > t

\* A client that polls does not see a job go back: as long as the answers name
\* the same job, its status, progress and stamp only move forward, whatever
\* Redis forgets or fails to store (_latest_job picks the later copy).  The
\* premise is that no newer job was stamped before the row the client has.
\* Without it the code does not promise this: a job stamped at 2 may be
\* inserted after a client saw an older job's row of 5 in the store, and then
\* that job's Redis copy of 3, later than 2, is what the next poll prefers.
ViewNeverRegresses ==
    [][\A c \in Clients :
          (/\ view[c].job # NoJob
           /\ view'[c].job = view[c].job
           /\ NotPassed(view[c].job, view[c].row.updated))
              => NoLaterThan(view[c].row, view'[c].row)]_view

\* The jobs of the store live the life JobLifecycle promises, whatever Redis,
\* the other threads, failing store calls and restarts do: an ended job never
\* runs again, and succeeds only once the indexed row is committed.
Lifecycle == INSTANCE JobLifecycle WITH
    state <- [j \in Jobs |-> jobs[j].status],
    progress <- [j \in Jobs |-> jobs[j].progress]
ImplementsLifecycle == Lifecycle!Spec

\* Without restarts and store errors every job that was created ends.
Undisturbed == faults = 0 /\ restarts = 0
JobsEnd ==
    []Undisturbed => \A j \in Jobs : (jobs[j].status \in Active) ~> (jobs[j].status \in Terminal)

\* ... and the repository never stays "indexing" (the status on which the web
\* client disables its Index button).
RepoLeavesIndexing ==
    []Undisturbed => ((repo.status = "indexing") ~> (repo.status \in Settled))

-----------------------------------------------------------------------------
(* Why the safety properties hold: the inductive invariant.                 *)

\* What the step a thread is about to take says of its job.
ThreadOK(j) ==
    /\ pc[j] \in {"idle", "loaded"} => jobs[j].status = "absent"
    /\ pc[j] \in {"flip", "launched"} => jobs[j].status = "pending"
    /\ pc[j] \in WorkerSteps \ {"launched"} => jobs[j].status = "running"
    /\ pc[j] = "done" => jobs[j].status \in Terminal
    /\ pc[j] \in MirrorSteps /\ resume[j] = "flip" => jobs[j].status = "pending"
    /\ pc[j] \in MirrorSteps /\ resume[j] = "ingest" => jobs[j].status = "running"
    /\ pc[j] \in MirrorSteps /\ resume[j] = "done" => jobs[j].status \in Terminal
    /\ pc[j] = "write" /\ resume[j] = "flip" => jobs[j].status = "absent"
    /\ pc[j] = "write" /\ resume[j] = "ingest" => jobs[j].status \in Active
    /\ pc[j] = "write" /\ resume[j] = "done" => jobs[j].status = "running"

\* A stamped object is what its thread may write next: the row it follows, one
\* step of the lifecycle on; no other thread has an object of the job.
DraftOK(j) ==
    /\ pc[j] # "write" => draft[j] = NoRow
    /\ pc[j] = "write" =>
         /\ 0 < draft[j].created
         /\ draft[j].created <= draft[j].updated
         /\ draft[j].updated <= clock
         /\ jobs[j].updated < draft[j].updated
         /\ jobs[j].progress <= draft[j].progress
         /\ jobs[j].status # "absent" => draft[j].created = jobs[j].created
         /\ resume[j] = "flip" => draft[j].status = "pending"
         /\ resume[j] = "ingest" => draft[j].status = "running"
         /\ resume[j] = "done" => draft[j].status \in Terminal
         /\ jobs[j].status # "running" => draft[j].progress = jobs[j].progress
         /\ draft[j].status = "failed" => draft[j].progress = jobs[j].progress
         /\ draft[j].status = "succeeded" =>
              draft[j].progress = MaxProgress /\ j \in published

\* A thread that can still report progress has not published; one that is
\* about to mark its job done has.
PublishOK(j) ==
    /\ pc[j] = "ingest" => j \notin published
    /\ pc[j] \in {"idle", "loaded", "flip", "launched"} => j \notin published
    /\ pc[j] \in SaveSteps /\ resume[j] \in {"flip", "ingest"} => j \notin published
    /\ pc[j] = "finish" => j \in published

\* A job that has neither committed the row nor ended ...
Uncommitted(j) ==
    /\ jobs[j].status \in Active
    /\ pc[j] \notin {"finish", "failfinish"}
    /\ pc[j] = "write" => resume[j] # "done"

\* ... and one whose request has not flipped it yet.
Unflipped(j) ==
    /\ pc[j] \in {"idle", "loaded", "flip", "dead"} \union SaveSteps
    /\ pc[j] \in SaveSteps => resume[j] = "flip"
    /\ jobs[j].status \in {"absent", "pending"}

\* A row that says "indexing" was flipped by a job that has yet to commit it;
\* until the first flip no worker has begun.
RowOK ==
    /\ repo.status = "indexing" => \E j \in Jobs : Uncommitted(j)
    /\ repo.status = "registered" /\ source = "local" => \A j \in Jobs : Unflipped(j)

\* Stamps come from the clock, and a job is created before it is updated; one
\* that was never created has an empty row.
StampsOK ==
    \A j \in Jobs :
        /\ jobs[j].created <= jobs[j].updated
        /\ jobs[j].updated <= clock
        /\ jobs[j].status = "absent" => jobs[j] = NoRow
        /\ jobs[j].status # "absent" => 0 < jobs[j].created

ThreadInv == \A j \in Jobs : ThreadOK(j) /\ DraftOK(j) /\ PublishOK(j)

SafetyInv ==
    /\ TypeOK
    /\ ThreadInv
    /\ RowOK
    /\ StampsOK
    /\ RedisBehindStore

-----------------------------------------------------------------------------
(* Why a client does not see a job go back: the rows of one job, wherever    *)
(* they are kept, form a chain, and a copy of an older job is preferred to   *)
(* the row of a newer one only when its stamp is past the newer's creation.  *)

Present(rows) == {row \in rows : row.status # "absent"}

Copies(j) == Present(
    {jobs[j], redisJob[j]}
        \union {poll[c].row : c \in {d \in Clients : poll[d].ptr = j}}
        \union {view[c].row : c \in {d \in Clients : view[d].job = j}})

\* Of two copies of a job the one with the earlier stamp is the earlier one,
\* and none is later than the store's.
CopiesInOrder ==
    \A j \in Jobs : \A row \in Copies(j) :
        /\ NoLaterThan(row, jobs[j])
        /\ \A other \in Copies(j) : row.updated <= other.updated => NoLaterThan(row, other)

\* When a job was created, be it in the table or still to be inserted (0 if it
\* is neither): no two jobs at one stamp.
CreationStamp(j) == IF jobs[j].status # "absent" THEN jobs[j].created ELSE draft[j].created

CreationOK ==
    \A j, k \in Jobs :
        CreationStamp(j) # 0 /\ CreationStamp(j) = CreationStamp(k) => j = k

\* What a client has read or been shown of a job is of a job in the table.
ReadOK(c) ==
    /\ poll[c].row.status # "absent" => poll[c].ptr \in Created
    /\ view[c].job # NoJob => view[c].job \in Created /\ view[c].row.status # "absent"

ViewInv ==
    /\ CopiesInOrder
    /\ CreationOK
    /\ \A c \in Clients : ReadOK(c)

-----------------------------------------------------------------------------
(* What the comments of the service say, where the code does not do it. *)

\* indexing_service.py:119-120, the commit order of _finalize_success is there
\* "so a client that observes a terminal job always sees a terminal repo too".
ObservedTerminalTogether ==
    \A c \in Clients : view[c].row.status \in Terminal => view[c].repo \in Settled

\* indexing_service.py:85, get_status returns "the repository and its latest
\* job": the answer names the job created last when the store is read.
AnswersLatestJob ==
    [][\A c \in Clients : view'[c] # view[c] => IsLatestJob(view'[c].job)]_view

\* indexing_service.py:7-8, on completion the repository has "refreshed stats":
\* once a job has succeeded the row holds the stats of some completed index.
CompletedStatsKept ==
    (\E j \in Jobs : jobs[j].status = "succeeded") => repo.stats # NoJob

\* indexing_service.py:7-8, "on completion the repository becomes indexed (or
\* error)", for a repository connected from a git URL as well.
EndedJobsSettleRepo ==
    (Created # {} /\ \A j \in Created : jobs[j].status \in Terminal)
        => repo.status \in Settled
=============================================================================
