------------------------------- MODULE MCWeb --------------------------------
(***************************************************************************)
(* The parts of the web client that keep asking the server, one open at a  *)
(* time: the ingestion card, the button of a repository's page and the     *)
(* workspace provider with the chat's scope.  The part is chosen at the    *)
(* start and only its module moves; the variables of the others are Idle.  *)
(* The card and the button see the same server.                            *)
(***************************************************************************)
EXTENDS Naturals, Sequences, FiniteSets, TLC

CONSTANTS
    Idle,
    Polls, FairPolls, Lists, CardRuns, CardFailures,                     \* of the cards
    ButtonRuns, ButtonFailures, LoneFailures,                            \* of the buttons
    Workspaces, Existing, Repos, Owner, Calls, MaxMoves, ViewFailures    \* of the view

VARIABLES
    open,        \* "card" (three polls), "fair" (a card of two), "button", "lone"
                 \* (the button, its job the only one) or "view"
    row, jobs, latest,
    mounted, view, lastStatus, badge, timer, poll, list, trigger, failures,
    page, indexing, post, chain, readRow, readJob, kicked, born,
    created, connected, workspaces, selected, repositories, loading, reposLoading,
    warned, stored, scope, call, overlap, lost, moves

serverVars == <<row, jobs, latest>>
cardVars == <<mounted, view, lastStatus, badge, timer, poll, list, trigger>>
buttonVars == <<page, indexing, post, chain, readRow, readJob, kicked, born>>
viewVars == <<created, connected, workspaces, selected, repositories, loading, reposLoading,
              warned, stored, scope, call, overlap, lost, moves>>
vars == <<open, serverVars, cardVars, buttonVars, viewVars, failures>>

Card == INSTANCE StatusCard WITH MaxRuns <- CardRuns, MaxFailures <- CardFailures
Fair == INSTANCE StatusCard WITH
    Polls <- FairPolls, MaxRuns <- CardRuns, MaxFailures <- CardFailures

Button == INSTANCE RepoButton WITH MaxRuns <- ButtonRuns, MaxFailures <- ButtonFailures, poll <- chain
Lone == INSTANCE RepoButton WITH MaxRuns <- 1, MaxFailures <- LoneFailures, poll <- chain

\* A repository of each workspace that is there at the start.
OneEach == CHOOSE owner \in [Repos -> Existing] : \A r, s \in Repos : owner[r] = owner[s] => r = s

View == INSTANCE WorkspaceView WITH MaxFailures <- ViewFailures

ASSUME Assumptions ==
    /\ Card!CardAssumption /\ Fair!CardAssumption
    /\ Button!ButtonAssumption /\ Lone!ButtonAssumption
    /\ View!ConstantsAssumption

-----------------------------------------------------------------------------

IdleServer == row = Idle /\ jobs = Idle /\ latest = Idle
IdleCard ==
    /\ mounted = Idle /\ view = Idle /\ lastStatus = Idle /\ badge = Idle
    /\ timer = Idle /\ poll = Idle /\ list = Idle /\ trigger = Idle
IdleButton ==
    /\ page = Idle /\ indexing = Idle /\ post = Idle /\ chain = Idle
    /\ readRow = Idle /\ readJob = Idle /\ kicked = Idle /\ born = Idle
IdleView ==
    /\ created = Idle /\ connected = Idle /\ workspaces = Idle /\ selected = Idle
    /\ repositories = Idle /\ loading = Idle /\ reposLoading = Idle /\ warned = Idle
    /\ stored = Idle /\ scope = Idle /\ call = Idle /\ overlap = Idle /\ lost = Idle /\ moves = Idle

Init ==
    \/ open = "card" /\ Card!Init /\ IdleButton /\ IdleView
    \/ open = "fair" /\ Fair!Init /\ IdleButton /\ IdleView
    \/ open = "button" /\ Button!Init /\ IdleCard /\ IdleView
    \/ open = "lone" /\ Lone!Init /\ IdleCard /\ IdleView
    \/ open = "view" /\ View!Init /\ IdleServer /\ IdleCard /\ IdleButton

InCard(step) == step /\ UNCHANGED <<open, buttonVars, viewVars>>
InButton(step) == step /\ UNCHANGED <<open, cardVars, viewVars>>
InView(step) == step /\ UNCHANGED <<open, serverVars, cardVars, buttonVars>>

Next ==
    \/ open = "card" /\ InCard(Card!Next)
    \/ open = "fair" /\ InCard(Fair!Next)
    \/ open = "button" /\ InButton(Button!Next)
    \/ open = "lone" /\ InButton(Lone!Next)
    \/ open = "view" /\ InView(View!Next)

\* As in FairSpec of the two modules: jobs go on, timers fire and requests are
\* answered or fail; nothing is asked of the user, other pages or failures.
FairCard(step) == open = "fair" /\ InCard(step)
FairButton(step) == open = "button" /\ InButton(step)

Spec ==
    /\ Init /\ [][Next]_vars
    /\ WF_vars(FairCard(Fair!Server)) /\ WF_vars(FairCard(Fair!tick)) /\ WF_vars(FairCard(Fair!TriggerStep))
    /\ \A p \in FairPolls : WF_vars(FairCard(Fair!PollStep(p)))
    /\ \A l \in Lists : WF_vars(FairCard(Fair!ListStep(l)))
    /\ WF_vars(FairButton(Button!Server)) /\ WF_vars(FairButton(Button!ButtonStep))

-----------------------------------------------------------------------------
(* The properties of the modules, each for its own part.                    *)

\* The polling loop of a card neither dies nor doubles, and a spinner has a
\* poll or a request behind it that will stop it (JobProgress.tsx:100-118,
\* RepoActions.tsx, WorkspaceProvider.tsx:123-132).
SpinnersBacked ==
    /\ open = "card" => Card!TypeOK /\ Card!LoopAlive
    /\ open = "button" => Button!TypeOK /\ Button!SpinnerBacked
    /\ open = "view" => View!SpinnerBacked

\* Once jobs have ended the card comes to show what they left and stays so,
\* although answers are applied in any order; and a job the button has started
\* leads to a refresh of the page, if no request fails (JobProgress.tsx:74-97,
\* RepoActions.tsx:20-23).
PagesSettle ==
    /\ <>[](open = "fair" => Fair!Settled)
    /\ (open = "button" /\ Button!Waiting) ~> ~(open = "button" /\ Button!Waiting)

\* The button refreshes the page only when its job is over, if it is the only
\* one: the row, committed first, is not enough (RepoActions.tsx:44-54).
RefreshAfterEnd == [][open = "lone" => Lone!RefreshedAtEnd]_vars

\* As long as requests do not overlap, what is shown when they are over is of
\* the selected workspace; and whatever overlaps, the chat asks only for
\* repositories its page lists (WorkspaceProvider.tsx:140-158, chat/page.tsx:54).
ShownListed == open = "view" => View!TypeOK /\ View!AloneIsRight /\ View!ScopeListed
=============================================================================
