----------------------------- MODULE StatusCard -----------------------------
(***************************************************************************)
(* The ingestion card of one repository (JobProgress): it shows a row and  *)
(* a job, polls for them in a loop that is re-armed when activity flips,   *)
(* starts jobs, and is handed the row again whenever the page reloads its  *)
(* list.  Polls overlap, their answers arrive in any order, and those of a *)
(* loop that was cancelled are still applied.                              *)
(***************************************************************************)
EXTENDS StatusServer, FiniteSets

CONSTANTS
    Polls,       \* the requests for a status that may be in flight at once
    Lists,       \* the reloads of the list that may be
    MaxFailures  \* bound: the requests that fail

CardAssumption ==
    /\ RunsAssumption
    /\ IsFiniteSet(Polls) /\ Cardinality(Polls) > 1
    /\ IsFiniteSet(Lists) /\ Lists # {}
    /\ MaxFailures \in Nat

VARIABLES
    mounted,     \* the card is on the page
    view,        \* what the card shows: a row and a job
    lastStatus,  \* the row's status the page was last told of
    badge,       \* the row's status the page's list shows
    timer,       \* the loop has a tick scheduled
    poll,        \* each poll: its state, what it has read, and whether the
                 \* loop that is armed waits for it
    list,        \* each reload of the list
    trigger,     \* the POST of the button and the job it created
    failures     \* requests that have failed

cardVars == <<mounted, view, lastStatus, badge, timer, poll, list, trigger, failures>>
vars == <<serverVars, cardVars>>

NotRead == "none"

FreePoll == [state |-> "free", row |-> NotRead, job |-> None, live |-> FALSE]
FreeList == [state |-> "free", row |-> NotRead]
NoTrigger == [sent |-> FALSE, job |-> None]

Sent(live) == [FreePoll EXCEPT !.state = "sent", !.live = live]

\* Where a new request goes: a free place or, at the bound, that of a request
\* no loop waits for, which is then one that fails and changes nothing.
Places(polls) ==
    LET free == {p \in Polls : polls[p].state = "free"}
    IN IF free # {} THEN {CHOOSE p \in free : TRUE}
       ELSE {p \in Polls : ~polls[p].live}

isActive(v) ==
    \/ v.row = "indexing"
    \/ v.job.status \in {"pending", "running"}

TypeOK ==
    LET JobShown == [n : 0 .. Len(jobs), status : ShownStatus]
    IN /\ ServerTypeOK
       /\ mounted \in BOOLEAN
       /\ view \in [row : RepoStatus, job : JobShown]
       /\ {lastStatus, badge} \subseteq RepoStatus
       /\ timer \in BOOLEAN
       /\ poll \in [Polls -> [state : {"free", "sent", "row", "ready"}, live : BOOLEAN,
                              row : RepoStatus \cup {NotRead}, job : JobShown]]
       /\ list \in [Lists -> [state : {"free", "sent", "ready"},
                              row : RepoStatus \cup {NotRead}]]
       /\ trigger \in [sent : BOOLEAN, job : JobShown]
       /\ failures \in 0 .. MaxFailures

\* The card is mounted: the effect starts the loop with a first tick.
Init ==
    /\ ServerInit
    /\ mounted = TRUE
    /\ view = [row |-> row, job |-> None]
    /\ lastStatus = row /\ badge = row
    /\ timer = FALSE
    /\ poll = LET p == CHOOSE p \in Polls : TRUE
              IN [q \in Polls |-> IF q = p THEN Sent(TRUE) ELSE FreePoll]
    /\ list = [l \in Lists |-> FreeList]
    /\ trigger = NoTrigger
    /\ failures = 0

-----------------------------------------------------------------------------
(* Faulty variants: one-slip mutations of the definitions below, to show    *)
(* that the properties can fail.  The specification uses none of them.     *)

\* The loop does not look whether it was cancelled.
RenderDeaf(v, polls, tick) ==
    /\ view' = v
    /\ IF isActive(v) = isActive(view)
       THEN poll' = polls /\ timer' = tick
       ELSE /\ \E p \in Places(polls) : poll' = [polls EXCEPT ![p] = Sent(TRUE)]
            /\ timer' = FALSE

\* An idle card stops polling.
NextTickActive(p, v) == poll[p].live /\ isActive(v)

-----------------------------------------------------------------------------
(* The card renders v: polls are the requests in flight and tick says       *)
(* whether the loop has its next tick scheduled.  When activity flips the   *)
(* effect of the loop runs again: the old one is cancelled, with its tick,  *)
(* and a new one polls at once.                                             *)
Render(v, polls, tick) ==
    /\ view' = v
    /\ IF isActive(v) = isActive(view)
       THEN poll' = polls /\ timer' = tick
       ELSE LET cancelled == [q \in Polls |-> [polls[q] EXCEPT !.live = FALSE]]
            IN /\ \E p \in Places(cancelled) :
                    poll' = [cancelled EXCEPT ![p] = Sent(TRUE)]
               /\ timer' = FALSE

\* After a poll, its loop schedules the next tick, sooner if it is active.
NextTick(p, v) == poll[p].live

tick ==
    /\ mounted /\ timer
    /\ timer' = FALSE
    /\ \E p \in Places(poll) : poll' = [poll EXCEPT ![p] = Sent(TRUE)]
    /\ UNCHANGED <<serverVars, mounted, view, lastStatus, badge, list, trigger, failures>>

\* The two reads of get_status.
ReadRow(p) ==
    /\ poll[p].state = "sent"
    /\ poll' = [poll EXCEPT ![p].state = "row", ![p].row = row]
    /\ UNCHANGED <<serverVars, mounted, view, lastStatus, badge, timer, list, trigger, failures>>

ReadJob(p) ==
    /\ poll[p].state = "row"
    /\ poll' = [poll EXCEPT ![p].state = "ready", ![p].job = Shown(latest)]
    /\ UNCHANGED <<serverVars, mounted, view, lastStatus, badge, timer, list, trigger, failures>>

\* onStatusChange: the page reloads its list.
TellPage(status) ==
    IF status = lastStatus THEN UNCHANGED <<lastStatus, list>>
    ELSE /\ lastStatus' = status
         /\ \E l \in Lists : /\ list[l].state = "free"
                             /\ list' = [list EXCEPT ![l].state = "sent"]

\* The answer of a poll is applied, whichever loop sent it.
PollAnswered(p) ==
    LET v == [row |-> poll[p].row, job |-> poll[p].job]
    IN /\ poll[p].state = "ready"
       /\ IF mounted
          THEN /\ Render(v, [poll EXCEPT ![p] = FreePoll], timer \/ NextTick(p, v))
               /\ TellPage(v.row)
          ELSE /\ poll' = [poll EXCEPT ![p] = FreePoll]
               /\ UNCHANGED <<view, timer, lastStatus, list>>
       /\ UNCHANGED <<serverVars, mounted, badge, trigger, failures>>

\* A poll that fails leaves the last render, and the loop goes on.
PollFails(p) ==
    /\ poll[p].state # "free" /\ failures < MaxFailures
    /\ failures' = failures + 1
    /\ poll' = [poll EXCEPT ![p] = FreePoll]
    /\ timer' = (timer \/ (mounted /\ NextTick(p, view)))
    /\ UNCHANGED <<serverVars, mounted, view, lastStatus, badge, list, trigger>>

ListRead(l) ==
    /\ list[l].state = "sent"
    /\ list' = [list EXCEPT ![l] = [state |-> "ready", row |-> row]]
    /\ UNCHANGED <<serverVars, mounted, view, lastStatus, badge, timer, poll, trigger, failures>>

\* The page's list changes, and the card takes over the row handed to it.
ListAnswered(l) ==
    /\ list[l].state = "ready"
    /\ badge' = list[l].row
    /\ list' = [list EXCEPT ![l] = FreeList]
    /\ IF mounted THEN Render([view EXCEPT !.row = list[l].row], poll, timer)
       ELSE UNCHANGED <<view, poll, timer>>
    /\ UNCHANGED <<serverVars, mounted, lastStatus, trigger, failures>>

\* A reload that fails empties the page's list: the card goes with it.
ListFails(l) ==
    /\ list[l].state # "free" /\ failures < MaxFailures
    /\ failures' = failures + 1
    /\ list' = [list EXCEPT ![l] = FreeList]
    /\ mounted' = FALSE
    /\ timer' = FALSE
    /\ poll' = [p \in Polls |-> [poll[p] EXCEPT !.live = FALSE]]
    /\ UNCHANGED <<serverVars, view, lastStatus, badge, trigger>>

-----------------------------------------------------------------------------
(* handleIndex: the button, disabled while the card shows activity.         *)
Click ==
    /\ mounted
    /\ ~isActive(view) /\ ~trigger.sent
    /\ trigger' = [NoTrigger EXCEPT !.sent = TRUE]
    /\ UNCHANGED <<serverVars, mounted, view, lastStatus, badge, timer, poll, list, failures>>

JobCreated ==
    /\ trigger.sent /\ trigger.job = None
    /\ StartIndex
    /\ trigger' = [trigger EXCEPT !.job = [n |-> Len(jobs'), status |-> "pending"]]
    /\ UNCHANGED <<mounted, view, lastStatus, badge, timer, poll, list, failures>>

\* The new job is shown, and a poll is sent beside the loop's own.
TriggerAnswered ==
    /\ trigger.job # None
    /\ trigger' = NoTrigger
    /\ IF mounted
       THEN /\ \E p \in Places(poll) :
                 Render([row |-> "indexing", job |-> trigger.job],
                        [poll EXCEPT ![p] = Sent(FALSE)], timer)
            /\ lastStatus' = "indexing"
       ELSE UNCHANGED <<view, poll, timer, lastStatus>>
    /\ UNCHANGED <<serverVars, mounted, badge, list, failures>>

TriggerFails ==
    /\ trigger.sent /\ failures < MaxFailures
    /\ trigger' = NoTrigger
    /\ failures' = failures + 1
    /\ UNCHANGED <<serverVars, mounted, view, lastStatus, badge, timer, poll, list>>

Server == Work /\ UNCHANGED cardVars

\* Another page starts a job.
OtherStarts == StartIndex /\ UNCHANGED cardVars

\* The bound on jobs ends the request that no job is left for.
TriggerRefused ==
    /\ trigger.sent /\ trigger.job = None /\ Len(jobs) = MaxRuns
    /\ trigger' = NoTrigger
    /\ UNCHANGED <<serverVars, mounted, view, lastStatus, badge, timer, poll, list, failures>>

PollStep(p) == ReadRow(p) \/ ReadJob(p) \/ PollAnswered(p)
ListStep(l) == ListRead(l) \/ ListAnswered(l)
TriggerStep == JobCreated \/ TriggerAnswered \/ TriggerRefused

Next ==
    \/ tick
    \/ \E p \in Polls : PollStep(p) \/ PollFails(p)
    \/ \E l \in Lists : ListStep(l) \/ ListFails(l)
    \/ Click \/ TriggerStep \/ TriggerFails
    \/ Server \/ OtherStarts

Spec == Init /\ [][Next]_vars

\* Jobs go on, timers fire and requests are answered or fail.  Nothing is
\* asked of the user, of other pages, or of failures.
FairSpec ==
    /\ Spec
    /\ WF_vars(Server) /\ WF_vars(tick) /\ WF_vars(TriggerStep)
    /\ \A p \in Polls : WF_vars(PollStep(p))
    /\ \A l \in Lists : WF_vars(ListStep(l))

-----------------------------------------------------------------------------
\* The loop of a card neither dies nor doubles: it waits for one poll or for
\* one tick, whatever answers of earlier loops and of the button come between
\* (JobProgress.tsx:100-118).
LoopAlive ==
    LET awaited == Cardinality({p \in Polls : poll[p].live})
    IN mounted => awaited + (IF timer THEN 1 ELSE 0) = 1

\* Once jobs have ended the card comes to show what they left, and stays so,
\* although answers are applied in any order, older ones over newer ones, and
\* the page hands its own reading of the row (JobProgress.tsx:74-97).
Settled == mounted => view = [row |-> row, job |-> Shown(latest)]
ViewSettles == <>[]Settled

-----------------------------------------------------------------------------
(* What the docs say, where the code does not do it; no run checks these.   *)

\* "Refresh the shared list so the sidebar/topbar badges stay in sync"
\* (ingestion/page.tsx:34-35): in the end the list shows the row's status.
BadgesInSync == <>[](mounted => badge = row)
=============================================================================
