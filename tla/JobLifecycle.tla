---------------------------- MODULE JobLifecycle ----------------------------
(***************************************************************************)
(* What the indexing API promises about an IndexJob, with no threads, no   *)
(* Redis and no repository row: a job is created pending, runs, reports a  *)
(* progress that never goes back, and ends succeeded or failed for good.   *)
(* It may succeed only after the repository row of its run was published.  *)
(* IndexingService refines this module.                                    *)
(***************************************************************************)
EXTENDS Naturals

CONSTANTS
    Jobs,         \* identities of the index jobs of one repository
    MaxProgress   \* the progress value that stands for the fraction 1.0

VARIABLES
    state,        \* [Jobs -> the job's JobStatus, or "absent"]
    progress,     \* [Jobs -> reported fraction, in 0..MaxProgress]
    published     \* jobs whose index was committed to the repository row

vars == <<state, progress, published>>

Terminal == {"succeeded", "failed"}

Init ==
    /\ state = [j \in Jobs |-> "absent"]
    /\ progress = [j \in Jobs |-> 0]
    /\ published = {}

Create(j) ==
    /\ state[j] = "absent"
    /\ state' = [state EXCEPT ![j] = "pending"]
    /\ UNCHANGED <<progress, published>>

Start(j) ==
    /\ state[j] = "pending"
    /\ state' = [state EXCEPT ![j] = "running"]
    /\ UNCHANGED <<progress, published>>

Report(j) ==
    /\ state[j] = "running"
    /\ j \notin published
    /\ \E p \in 0..MaxProgress :
          /\ p >= progress[j]
          /\ progress' = [progress EXCEPT ![j] = p]
    /\ UNCHANGED <<state, published>>

Publish(j) ==
    /\ state[j] = "running"
    /\ published' = published \union {j}
    /\ UNCHANGED <<state, progress>>

Succeed(j) ==
    /\ state[j] = "running"
    /\ j \in published
    /\ state' = [state EXCEPT ![j] = "succeeded"]
    /\ progress' = [progress EXCEPT ![j] = MaxProgress]
    /\ UNCHANGED published

Fail(j) ==
    /\ state[j] = "running"
    /\ state' = [state EXCEPT ![j] = "failed"]
    /\ UNCHANGED <<progress, published>>

Next ==
    \E j \in Jobs :
        Create(j) \/ Start(j) \/ Report(j) \/ Publish(j) \/ Succeed(j) \/ Fail(j)

Spec == Init /\ [][Next]_vars
=============================================================================
