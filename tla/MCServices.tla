----------------------------- MODULE MCServices -----------------------------
(***************************************************************************)
(* Requests of the API's services, one service at a time: the creation of  *)
(* workspaces, which this module extends, the working tree that a connect  *)
(* and index runs share, and the threads that persist traces, here for     *)
(* their end.  The service is chosen at the start and only its module      *)
(* moves; the others stay as they begin, or their variables are Idle.      *)
(***************************************************************************)
EXTENDS Workspaces

CONSTANTS
    r1, r2, r3, r4, t1, t2, Nobody, Idle,
    MaxCommits, MaxGitFaults, MaxCrashes    \* bounds of WorkingTree

VARIABLES
    service,     \* "slugs", "tree" or "traces"
    remote, mount, dest, row, step, held, indexed, since, quiet, gitFaults, crashes,
    init, client, records, index, evals, thread, mem, reader, redisFaults, pushed, expired

treeVars == <<remote, mount, dest, row, step, held, indexed, since, quiet, gitFaults, crashes>>
traceVars == <<init, client, records, index, evals, thread, mem, reader, redisFaults, pushed, expired>>
allVars == <<service, vars, treeVars, traceVars>>

\* One name three times, and a name that is its second slug.
Four == {r1, r2, r3, r4}
FourNames == [r \in Four |-> IF r = r4 THEN <<"platform", 2>> ELSE <<"platform">>]

Tree == INSTANCE WorkingTree WITH
    MaxFaults <- MaxGitFaults, pc <- step, faults <- gitFaults

\* A chat, which is scored, and a debug request, which is not.
Traces == INSTANCE TraceStore WITH
    Requests <- {t1, t2}, Chats <- {t1}, Filters <- {}, MaxTraces <- 1, MaxEvals <- 1, Limit <- 1,
    MaxFaults <- 2, None <- Nobody, pc <- thread, faults <- redisFaults

ASSUME Assumptions == Tree!ConstantsAssumption

-----------------------------------------------------------------------------

IdleTree ==
    /\ remote = Idle /\ mount = Idle /\ dest = Idle /\ row = Idle /\ step = Idle /\ held = Idle
    /\ indexed = Idle /\ since = Idle /\ quiet = Idle /\ gitFaults = Idle /\ crashes = Idle
IdleTraces ==
    /\ init = Idle /\ client = Idle /\ records = Idle /\ index = Idle /\ evals = Idle /\ thread = Idle
    /\ mem = Idle /\ reader = Idle /\ redisFaults = Idle /\ pushed = Idle /\ expired = Idle

ServicesInit ==
    /\ Init
    /\ \/ service = "slugs" /\ IdleTree /\ IdleTraces
       \/ service = "tree" /\ Tree!Init /\ IdleTraces
       \/ service = "traces" /\ Traces!Init /\ IdleTree

InSlugs(action) == service = "slugs" /\ action /\ UNCHANGED <<service, treeVars, traceVars>>
InTree(action) == service = "tree" /\ action /\ UNCHANGED <<service, vars, traceVars>>
InTraces(action) == service = "traces" /\ action /\ UNCHANGED <<service, vars, treeVars>>

ServicesNext == InSlugs(Next) \/ InTree(Tree!Next) \/ InTraces(Traces!Next)

\* The server runs every request it accepted, and the threads of the traces;
\* nothing is asked of readers, of time or of failures.
ServicesSpec ==
    /\ ServicesInit /\ [][ServicesNext]_allVars
    /\ \A r \in Four : WF_allVars(InSlugs(List(r))) /\ WF_allVars(InSlugs(Insert(r)))
    /\ \A t \in {t1, t2} : WF_allVars(InTraces(Traces!Request(t)))
    /\ WF_allVars(InTraces(Traces!Build))
    /\ WF_allVars(InTraces(\E ok \in BOOLEAN : Traces!Ping(ok)))

-----------------------------------------------------------------------------
(* The properties of the other modules, each for its own service;           *)
(* DuplicatesOverlap is that of Workspaces.                                 *)

\* A repository whose clone failed is healed by a retry, and the tools find
\* the tree of whatever URL was indexed (_open_repo, RepoLocator.resolve).
TreeHeals == service = "tree" => Tree!TypeOK /\ Tree!RetryHeals /\ Tree!ToolsFindTree

\* A whole tree is never lost to another clone (_clone_or_pull).
WholeKept == [][service = "tree" => Tree!WholeStays]_allVars

\* A free slug is found for every request that creates a workspace, however
\* many of its name there are, and every request that persists a trace ends,
\* whatever Redis does (workspace_service.create, telemetry._persist).
RequestsEnd ==
    /\ service = "slugs" => EveryRequestInserts
    /\ \A t \in {t1, t2} : service = "traces" ~> (service = "traces" /\ thread[t] = "done")
=============================================================================
