--------------------------- MODULE WorkspaceView ---------------------------
(***************************************************************************)
(* The web client's workspace context (WorkspaceProvider): the selected    *)
(* workspace and the repositories shown under it, loaded by requests that  *)
(* overlap and are answered in any order, beside the chat page's scope,    *)
(* the creation of a workspace and the connection of a repository.         *)
(***************************************************************************)
EXTENDS Naturals, FiniteSets, FiniteSetsExt

CONSTANTS
    Workspaces,   \* the workspaces, numbers in the order they are listed
    Existing,     \* those there at the start
    Repos,        \* the repositories
    Owner,        \* the workspace of each
    Calls,        \* the requests that may be in flight at once
    MaxMoves,     \* bound: what the user does
    MaxFailures   \* bound: the requests that fail

ConstantsAssumption ==
    /\ Workspaces \subseteq Nat \ {0} /\ IsFiniteSet(Workspaces)
    /\ Existing \subseteq Workspaces
    /\ Owner \in [Repos -> Workspaces]
    /\ IsFiniteSet(Calls)
    /\ MaxMoves \in Nat /\ MaxFailures \in Nat

NoWs == 0

VARIABLES
    created, connected,    \* the server's workspaces and repositories
    workspaces, selected, repositories, loading, reposLoading,  \* the provider's state
    warned,                \* error or offline is set
    stored,                \* the selection in localStorage
    scope,                 \* the repositories selected on the chat page
    call,                  \* the requests in flight
    overlap,               \* history: requests have overlapped since all was quiet
    lost,                  \* history: the last load of repositories failed
    moves, failures

vars == <<created, connected, workspaces, selected, repositories, loading,
          reposLoading, warned, stored, scope, call, overlap, lost, moves, failures>>

\* A request: its kind, the workspace its closure holds, what it reads or
\* writes, and the workspace to select when all it stands for is done.
Kinds == {"free", "workspaces", "refresh", "repos", "connect"}
Request(kind, w, pick) == [kind |-> kind, of |-> w, ready |-> FALSE, answer |-> {}, pick |-> pick]
Free == Request("free", NoWs, NoWs)

InFlight == {c \in Calls : call[c].kind # "free"}
Quiet == InFlight = {}
Owned(w) == {r \in connected : Owner[r] = w}

TypeOK ==
    /\ created \subseteq Workspaces /\ connected \subseteq Repos
    /\ workspaces \subseteq Workspaces
    /\ {selected, stored} \subseteq Workspaces \cup {NoWs}
    /\ repositories \subseteq Repos /\ scope \subseteq Repos
    /\ {loading, reposLoading, warned, overlap, lost} \subseteq BOOLEAN
    /\ call \in [Calls -> [kind : Kinds, of : Workspaces \cup {NoWs}, ready : BOOLEAN,
                           answer : (SUBSET Workspaces) \cup (SUBSET Repos),
                           pick : Workspaces \cup {NoWs}]]
    /\ moves \in 0 .. MaxMoves /\ failures \in 0 .. MaxFailures

\* The provider is mounted: workspaces are asked for, nothing is selected.
Init ==
    /\ created = Existing
    /\ connected \in SUBSET {r \in Repos : Owner[r] \in Existing}
    /\ workspaces = {} /\ selected = NoWs
    /\ repositories = {} /\ loading = TRUE /\ reposLoading = FALSE
    /\ warned = FALSE
    /\ stored \in Existing \cup {NoWs}
    /\ scope = {}
    /\ \E c \in Calls :
         call = [d \in Calls |-> IF d = c THEN Request("workspaces", NoWs, NoWs) ELSE Free]
    /\ overlap = FALSE /\ lost = FALSE
    /\ moves = 0 /\ failures = 0

-----------------------------------------------------------------------------
(* Faulty variants: one-slip mutations of the definitions below, to show    *)
(* that the properties can fail.  The specification uses none of them.     *)

\* The scope keeps what the new list has not.
ScopeKept(repos) == scope

\* A load that fails leaves the spinner.
LoadEndsWell(failed) == failed /\ reposLoading

\* The repositories are not loaded again when the selection changes.
NoEffect(base, w) == call' = base

-----------------------------------------------------------------------------
\* Requests overlap; a selection or a refresh begun when all is quiet starts
\* the account anew.
Watch(restart) ==
    overlap' = \/ Cardinality({c \in Calls : call'[c].kind # "free"}) > 1
               \/ overlap /\ ~(restart /\ Quiet)

Move == moves < MaxMoves /\ moves' = moves + 1
Fail == failures < MaxFailures /\ failures' = failures + 1

Begin(base, request) ==
    \E c \in Calls : base[c].kind = "free" /\ call' = [base EXCEPT ![c] = request]

resolveSelectedId(list) ==
    IF list = {} THEN NoWs
    ELSE IF stored \in list THEN stored ELSE Min(list)

\* The chat page drops what is no longer listed whenever the list is set.
ScopeOf(repos) == scope \cap repos

setRepositories(repos) ==
    /\ repositories' = repos
    /\ scope' = ScopeOf(repos)

\* The effect of a new selection: its repositories are asked for.
Effect(base, w) == Begin(base, Request("repos", w, NoWs))

\* The provider renders with selection w, repositories repos and the requests
\* of base; spin is the state of the spinner unless a load begins.
Render(base, w, repos, spin) ==
    /\ selected' = w
    /\ IF w = selected THEN call' = base /\ setRepositories(repos) /\ reposLoading' = spin
       ELSE IF w = NoWs THEN call' = base /\ setRepositories({}) /\ reposLoading' = spin
       ELSE Effect(base, w) /\ setRepositories(repos) /\ reposLoading' = TRUE

Pick(c, otherwise) == IF call[c].pick = NoWs THEN otherwise ELSE call[c].pick
Remember(c) == stored' = Pick(c, stored)

-----------------------------------------------------------------------------
(* What the user does.                                                      *)

selectWorkspace(w) ==
    /\ Move
    /\ w \in workspaces \ {selected}
    /\ stored' = w
    /\ Render(call, w, repositories, reposLoading)
    /\ Watch(TRUE)
    /\ UNCHANGED <<created, connected, workspaces, loading, warned, lost, failures>>

\* The button of the dashboard.
refresh ==
    /\ Move
    /\ ~loading
    /\ loading' = TRUE
    /\ Begin(call, Request("refresh", selected, NoWs))
    /\ Watch(TRUE)
    /\ UNCHANGED <<created, connected, workspaces, selected, repositories, reposLoading,
                   warned, stored, scope, lost, failures>>

\* A workspace was created: refresh, and select it when that is over.
Create(w) ==
    /\ Move
    /\ w \notin created
    /\ created' = created \cup {w}
    /\ loading' = TRUE
    /\ Begin(call, Request("refresh", selected, w))
    /\ Watch(TRUE)
    /\ UNCHANGED <<connected, workspaces, selected, repositories, reposLoading,
                   warned, stored, scope, lost, failures>>

\* The connect form, one submission at a time.
handleSubmit(r) ==
    /\ Move
    /\ r \notin connected
    /\ selected \in workspaces /\ Owner[r] = selected
    /\ \A c \in Calls : call[c].kind # "connect"
    /\ Begin(call, [Request("connect", selected, NoWs) EXCEPT !.answer = {r}])
    /\ Watch(FALSE)
    /\ UNCHANGED <<created, connected, workspaces, selected, repositories, loading,
                   reposLoading, warned, stored, scope, lost, failures>>

\* The chat page's scope.
toggle(r) ==
    /\ Move
    /\ r \in repositories
    /\ scope' = IF r \in scope THEN scope \ {r} ELSE scope \cup {r}
    /\ UNCHANGED <<created, connected, workspaces, selected, repositories, loading,
                   reposLoading, warned, stored, call, overlap, lost, failures>>

-----------------------------------------------------------------------------
(* The requests.                                                            *)

\* The server handles a request.
Serve(c) ==
    /\ call[c].kind # "free" /\ ~call[c].ready
    /\ CASE call[c].kind = "connect" ->
              /\ connected' = connected \cup call[c].answer
              /\ call' = [call EXCEPT ![c].ready = TRUE]
         [] call[c].kind = "repos" ->
              /\ call' = [call EXCEPT ![c].ready = TRUE, ![c].answer = Owned(call[c].of)]
              /\ UNCHANGED connected
         [] OTHER ->
              /\ call' = [call EXCEPT ![c].ready = TRUE, ![c].answer = created]
              /\ UNCHANGED connected
    /\ UNCHANGED <<created, workspaces, selected, repositories, loading, reposLoading,
                   warned, stored, scope, overlap, lost, moves, failures>>

\* loadWorkspaces is over with selection w; a refresh goes on to load the
\* repositories of the workspace that was selected when it began.
AfterWorkspaces(c, w) ==
    LET goesOn == call[c].kind = "refresh" /\ call[c].of # NoWs
        base == [call EXCEPT ![c] = IF goesOn
                                    THEN Request("repos", call[c].of, call[c].pick)
                                    ELSE Free]
    IN /\ loading' = FALSE
       /\ IF goesOn
          THEN Render(base, w, repositories, TRUE) /\ UNCHANGED stored
          ELSE /\ Render(base, Pick(c, w),
                         IF call[c].kind = "refresh" THEN {} ELSE repositories, reposLoading)
               /\ Remember(c)
       /\ Watch(FALSE)
       /\ UNCHANGED <<created, connected, lost, moves>>

WorkspacesAnswered(c) ==
    LET list == call[c].answer
    IN /\ call[c].kind \in {"workspaces", "refresh"} /\ call[c].ready
       /\ workspaces' = list
       /\ warned' = (list = {})
       /\ AfterWorkspaces(c, IF selected \in list THEN selected ELSE resolveSelectedId(list))
       /\ UNCHANGED failures

WorkspacesFail(c) ==
    /\ call[c].kind \in {"workspaces", "refresh"}
    /\ Fail
    /\ workspaces' = {}
    /\ warned' = TRUE
    /\ AfterWorkspaces(c, selected)

\* The spinner after a load, whatever became of it.
LoadEnds(failed) == FALSE

\* loadRepositories is over: what it was answered is shown, whichever
\* workspace is selected by now.
Loaded(c, repos, failed) ==
    /\ call[c].kind = "repos"
    /\ Render([call EXCEPT ![c] = Free], Pick(c, selected), repos, LoadEnds(failed))
    /\ Remember(c)
    /\ lost' = failed
    /\ Watch(FALSE)
    /\ UNCHANGED <<created, connected, workspaces, loading, warned, moves>>

ReposAnswered(c) ==
    /\ call[c].ready
    /\ Loaded(c, call[c].answer, FALSE)
    /\ UNCHANGED failures

ReposFail(c) == Fail /\ Loaded(c, {}, TRUE)

\* The list is loaded again as the page was when the form was submitted.
Connected(c) ==
    /\ call[c].kind = "connect" /\ call[c].ready
    /\ call' = [call EXCEPT ![c] = Request("repos", call[c].of, NoWs)]
    /\ reposLoading' = TRUE
    /\ Watch(FALSE)
    /\ UNCHANGED <<created, connected, workspaces, selected, repositories, loading,
                   warned, stored, scope, lost, moves, failures>>

ConnectFails(c) ==
    /\ call[c].kind = "connect"
    /\ Fail
    /\ call' = [call EXCEPT ![c] = Free]
    /\ UNCHANGED <<created, connected, workspaces, selected, repositories, loading,
                   reposLoading, warned, stored, scope, overlap, lost, moves>>

Next ==
    \/ \E w \in Workspaces : selectWorkspace(w) \/ Create(w)
    \/ refresh
    \/ \E r \in Repos : handleSubmit(r) \/ toggle(r)
    \/ \E c \in Calls : \/ Serve(c)
                        \/ WorkspacesAnswered(c) \/ WorkspacesFail(c)
                        \/ ReposAnswered(c) \/ ReposFail(c)
                        \/ Connected(c) \/ ConnectFails(c)

Spec == Init /\ [][Next]_vars

-----------------------------------------------------------------------------
Belong(repos) == \A r \in repos : Owner[r] = selected

\* As long as requests do not overlap, what is shown when they are over is of
\* the selected workspace: the repositories, the chat's scope, and a selection
\* the list of workspaces has (WorkspaceProvider.tsx:140-158).
AloneIsRight ==
    Quiet /\ ~overlap => /\ Belong(repositories) /\ Belong(scope)
                         /\ warned \/ selected \in workspaces

\* The chat asks only for repositories its page lists, whatever was loaded
\* over them in whatever order (chat/page.tsx:53-58).
ScopeListed == scope \subseteq repositories

\* The spinner of the list ends with the loads, failed ones included
\* (WorkspaceProvider.tsx:123-132).
SpinnerBacked == reposLoading => \E c \in Calls : call[c].kind = "repos"

-----------------------------------------------------------------------------
(* What the docs say, where the code does not do it; no run checks these.   *)

\* "Repositories belonging to the selected workspace." (WorkspaceProvider.tsx:22):
\* when no request is in flight.
ReposOfSelected == Quiet => Belong(repositories)

\* "failures surface as a soft `error`/`offline` flag" (WorkspaceProvider.tsx:68-69):
\* so an empty list after a load that failed is told from an empty workspace.
FailuresSurface == Quiet /\ lost => warned

\* "Drop selections that no longer exist after a workspace switch."
\* (chat/page.tsx:53): what a question asked now would name.
ScopeFollowsSwitch == selected \in workspaces => Belong(scope)
=============================================================================
