----------------------------- MODULE RepoButton -----------------------------
(***************************************************************************)
(* The button of a repository's overview page (RepoActions): it starts a   *)
(* job, polls until the run settles and then asks for the page again.      *)
(* Unlike the ingestion card it has one chain of polls, begun by a click.  *)
(***************************************************************************)
EXTENDS StatusServer

CONSTANTS
    MaxFailures  \* bound: the requests that fail

ButtonAssumption == RunsAssumption /\ MaxFailures \in Nat

VARIABLES
    page,        \* the status the page was rendered with, "none" before that
    indexing,    \* the button spins
    post,        \* the request of a click: "no", "sent", "created"
    poll,        \* "no", "timer", "sent", "row" or "ready"
    readRow, readJob,  \* what the poll has read
    kicked,      \* history: a job was created and the page not refreshed since
    born,        \* history: the page was rendered with a job under way
    failures     \* requests that have failed

buttonVars == <<page, indexing, post, poll, readRow, readJob, kicked, born, failures>>
vars == <<serverVars, buttonVars>>

NotYet == "none"

TypeOK ==
    /\ ServerTypeOK
    /\ page \in RepoStatus \cup {NotYet}
    /\ {indexing, kicked, born} \subseteq BOOLEAN
    /\ post \in {"no", "sent", "created"}
    /\ poll \in {"no", "timer", "sent", "row", "ready"}
    /\ readRow \in RepoStatus \cup {NotYet}
    /\ readJob \in [n : 0 .. Len(jobs), status : ShownStatus]
    /\ failures \in 0 .. MaxFailures

Init ==
    /\ ServerInit
    /\ page = NotYet
    /\ indexing = FALSE
    /\ post = "no"
    /\ poll = "no"
    /\ readRow = NotYet /\ readJob = None
    /\ kicked = FALSE /\ born = FALSE
    /\ failures = 0

-----------------------------------------------------------------------------
(* Faulty variants: one-slip mutations of the definitions below, to show    *)
(* that the properties can fail.  The specification uses none of them.     *)

\* Only the row is asked.
activeRow == readRow = "indexing"

\* A poll that fails leaves the button spinning.
FailedPoll == indexing' = indexing

\* The page is not asked for again.
SettlesSilently ==
    /\ poll' = "no"
    /\ UNCHANGED <<page, kicked>>

-----------------------------------------------------------------------------
\* The overview is rendered by the server and the button takes its state.
Mount ==
    /\ page = NotYet
    /\ page' = row
    /\ indexing' = (row = "indexing")
    /\ born' = indexing'
    /\ UNCHANGED <<serverVars, post, poll, readRow, readJob, kicked, failures>>

handleIndex ==
    /\ page # NotYet
    /\ post = "no" /\ ~indexing
    /\ post' = "sent"
    /\ UNCHANGED <<serverVars, page, indexing, poll, readRow, readJob, kicked, born, failures>>

JobCreated ==
    /\ post = "sent"
    /\ StartIndex
    /\ post' = "created"
    /\ UNCHANGED <<page, indexing, poll, readRow, readJob, kicked, born, failures>>

StartPolling == poll' = "sent"

Kick ==
    /\ post = "created"
    /\ post' = "no"
    /\ indexing' = TRUE
    /\ kicked' = TRUE
    /\ StartPolling
    /\ UNCHANGED <<serverVars, page, readRow, readJob, born, failures>>

KickFails ==
    /\ post # "no" /\ failures < MaxFailures
    /\ failures' = failures + 1
    /\ post' = "no"
    /\ UNCHANGED <<serverVars, page, indexing, poll, readRow, readJob, kicked, born>>

ReadRow ==
    /\ poll = "sent"
    /\ poll' = "row" /\ readRow' = row
    /\ UNCHANGED <<serverVars, page, indexing, post, readJob, kicked, born, failures>>

ReadJob ==
    /\ poll = "row"
    /\ poll' = "ready" /\ readJob' = Shown(latest)
    /\ UNCHANGED <<serverVars, page, indexing, post, readRow, kicked, born, failures>>

active ==
    \/ readRow = "indexing"
    \/ readJob.status \in {"running", "pending"}

\* router.refresh(): the page is rendered again, the button keeps its state.
Settles ==
    /\ poll' = "no"
    /\ page' = row
    /\ kicked' = FALSE

PollAnswered ==
    /\ poll = "ready"
    /\ indexing' = active
    /\ IF active THEN poll' = "timer" /\ UNCHANGED <<page, kicked>> ELSE Settles
    /\ UNCHANGED <<serverVars, post, readRow, readJob, born, failures>>

tick ==
    /\ poll = "timer"
    /\ poll' = "sent"
    /\ UNCHANGED <<serverVars, page, indexing, post, readRow, readJob, kicked, born, failures>>

StopSpinning == indexing' = FALSE

\* A poll that fails ends the chain.
PollFails ==
    /\ poll \in {"sent", "row", "ready"} /\ failures < MaxFailures
    /\ failures' = failures + 1
    /\ poll' = "no"
    /\ StopSpinning
    /\ UNCHANGED <<serverVars, page, post, readRow, readJob, kicked, born>>

Server == Work /\ UNCHANGED buttonVars

\* Another page starts a job.
OtherStarts == StartIndex /\ UNCHANGED buttonVars

ButtonStep == JobCreated \/ Kick \/ ReadRow \/ ReadJob \/ PollAnswered \/ tick

Next ==
    \/ Mount \/ handleIndex \/ ButtonStep
    \/ KickFails \/ PollFails
    \/ Server \/ OtherStarts

Spec == Init /\ [][Next]_vars

\* Jobs go on, requests are answered or fail, and timers fire.
FairSpec == Spec /\ WF_vars(Server) /\ WF_vars(ButtonStep)

-----------------------------------------------------------------------------
\* A spinning button waits for a poll, so that something will stop it; the
\* one exception is a page rendered while a job was under way, whose button
\* spins until a reload for nothing polls then (RepoActions.tsx:28, 39-61).
SpinnerBacked == indexing => poll # "no" \/ born

\* The page is refreshed by its button only when the job it waits for has
\* ended: the row, committed first, is not enough (RepoActions.tsx:44-54).
RefreshedAtEnd == kicked /\ ~kicked' => jobs[latest] \in Ended
RefreshAfterEnd == [][RefreshedAtEnd]_vars

\* A kicked job leads to a refresh of the page, if no poll fails
\* (RepoActions.tsx:20-23).
Waiting == kicked /\ failures = 0
KickRefreshes == Waiting ~> ~Waiting

-----------------------------------------------------------------------------
(* What the docs say, where the code does not do it; no run checks these.   *)

\* "After kicking a job it polls status until the run settles, then refreshes
\* the server component" (RepoActions.tsx:20-22), whatever fails.
PollsUntilSettled == kicked ~> ~kicked
=============================================================================
