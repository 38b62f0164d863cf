---------------------------- MODULE StatusServer ----------------------------
(***************************************************************************)
(* What the web client sees of the indexing service: one repository, the   *)
(* jobs started for it, by this page or by others, and the job whose save  *)
(* was mirrored last, which is the one a status answers.  The threads      *)
(* inside, their failures and the races of their saves are the subject of  *)
(* IndexingService; here the two halves of a commit are the finest steps.  *)
(***************************************************************************)
EXTENDS Naturals, Sequences

CONSTANTS
    MaxRuns      \* bound: the jobs that are ever started

RunsAssumption == MaxRuns \in Nat

VARIABLES
    row,         \* the status of the repositories row
    jobs,        \* the status of each job, in the order they were created
    latest       \* the job the pointer names, 0 for none

serverVars == <<row, jobs, latest>>

RepoStatus == {"registered", "indexing", "indexed", "error"}
JobStatus == {"pending", "running", "indexed", "broken", "succeeded", "failed"}

ShownStatus == {"none", "pending", "running", "succeeded", "failed"}
Ended == {"succeeded", "failed"}

ServerTypeOK ==
    /\ row \in RepoStatus
    /\ jobs \in Seq(JobStatus)
    /\ latest \in 0 .. Len(jobs)

ServerInit ==
    /\ row = "registered"
    /\ jobs = <<>>
    /\ latest = 0

None == [n |-> 0, status |-> "none"]

\* A faulty variant of Shown: a job that has committed the row shows so.
ShownRaw(n) == IF n = 0 THEN None ELSE [n |-> n, status |-> jobs[n]]

\* The job a status answers: its number and its status as clients see it.
\* A job that has committed the row only still says running.
Shown(n) ==
    IF n = 0 THEN None
    ELSE [n |-> n, status |-> IF jobs[n] \in {"indexed", "broken"} THEN "running" ELSE jobs[n]]

-----------------------------------------------------------------------------
StartIndex ==
    /\ Len(jobs) < MaxRuns
    /\ jobs' = Append(jobs, "pending")
    /\ latest' = Len(jobs')
    /\ row' = "indexing"

\* A save of a job mirrors it and points the repository at it.
SaveJob(n, status) ==
    /\ jobs' = [jobs EXCEPT ![n] = status]
    /\ latest' = n

Run(n) ==
    /\ jobs[n] = "pending"
    /\ SaveJob(n, "running")
    /\ UNCHANGED row

\* ingest returned, or raised: the row is committed before the job.
CommitRow(n) ==
    /\ jobs[n] = "running"
    /\ \/ row' = "indexed" /\ jobs' = [jobs EXCEPT ![n] = "indexed"]
       \/ row' = "error" /\ jobs' = [jobs EXCEPT ![n] = "broken"]
    /\ UNCHANGED latest

CommitJob(n) ==
    /\ \/ jobs[n] = "indexed" /\ SaveJob(n, "succeeded")
       \/ jobs[n] = "broken" /\ SaveJob(n, "failed")
    /\ UNCHANGED row

Work == \E n \in DOMAIN jobs : Run(n) \/ CommitRow(n) \/ CommitJob(n)
=============================================================================
