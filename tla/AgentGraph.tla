----------------------------- MODULE AgentGraph -----------------------------
(***************************************************************************)
(* One request through the agent: Orchestrator.chat, debug or review       *)
(* builds an AgentState, LangGraph runs the nodes over it (each node reads *)
(* the state and returns a partial update, merged here with EXCEPT), and   *)
(* the terminal state becomes the response.                                *)
(*                                                                         *)
(* The model provider may fail at every call and answer anything.  Texts   *)
(* are left out; a chunk of evidence is a repository and a number.         *)
(***************************************************************************)
EXTENDS Integers, FiniteSets

CONSTANTS
    Repos,           \* repository ids
    WorkspaceOf,     \* the workspace of each repository
    ChunksPerRepo,   \* chunks the vector store holds for each
    ChatModes,       \* modes a chat request may have
    Nowhere,         \* no repository
    Huge,            \* a JSON number that parses as an infinite float
    MaxQueries,      \* _MAX_QUERIES
    MaxEvidence,     \* _MAX_EVIDENCE
    MaxToolCalls,    \* _MAX_TOOL_CALLS
    MaxIterations,   \* MAX_TOOL_ITERATIONS and _MAX_ITERATIONS
    MaxResults,      \* _MAX_RESULTS
    RecursionLimit   \* _RECURSION_LIMIT

ASSUME ConstantsAssumption ==
    /\ MaxQueries \in Nat \ {0}
    /\ MaxEvidence \in Nat
    /\ MaxToolCalls \in Nat
    /\ MaxIterations \in Nat
    /\ MaxResults \in Nat
    /\ MaxToolCalls * MaxIterations <= MaxResults
    /\ RecursionLimit \in Nat
    /\ 7 + 3 * MaxIterations <= RecursionLimit
    /\ Nowhere \notin Repos
    /\ Huge \notin Int
    /\ IsFiniteSet(Repos) /\ ChunksPerRepo \in Nat

VARIABLES
    pc,        \* the node that runs next; "crashed" once a node has raised
    entry,     \* which method of Orchestrator: "chat", "debug", "review"
    mode,      \* request.mode
    workspace, \* request.workspace_id
    st,        \* AgentState, without its envelope and its texts
    resp,      \* what the response model carries
    steps,     \* nodes run so far, counted by LangGraph
    calls,     \* history: invocations of a model
    executed,  \* history: tools run by tool_executor
    rounds     \* history: runs of tool_executor

vars == <<pc, entry, mode, workspace, st, resp, steps, calls, executed, rounds>>
history == <<executed, rounds>>
request == <<entry, mode, workspace>>

Chunks == Repos \X (1..ChunksPerRepo)
Confidence == {"low", "medium", "high"}
Nodes == {"router", "retrieval_planner", "evidence_retriever", "code_analyst",
          "action_planner", "tool_executor", "synthesizer", "judge"}

\* make_initial_state: scope is repository_ids, with repository_id added.
InitialState(ids, id, diff) ==
    [scope |-> IF id = Nowhere THEN ids ELSE ids \union {id}, target |-> id, diff |-> diff,
     intent |-> "question", queries |-> 0, evidence |-> {}, analysed |-> 0,
     needs_tools |-> FALSE, tool_calls |-> 0, tool_results |-> 0, iterations |-> 0,
     answer |-> "", confidence |-> "medium", indices |-> {}, scored |-> FALSE,
     warned |-> FALSE, degraded |-> FALSE]

NoResponse == [answer |-> "", confidence |-> "", evidence |-> {}, indices |-> {},
               tools |-> 0, warned |-> FALSE]

Init ==
    /\ pc = "idle"
    /\ entry = "chat" /\ mode = "ask" /\ workspace \in {WorkspaceOf[r] : r \in Repos}
    /\ st = InitialState({}, Nowhere, FALSE)
    /\ resp = NoResponse
    /\ steps = 0 /\ calls = 0 /\ executed = 0 /\ rounds = 0

\* A faulty variant of the next definition: one more look at the answer.
CompleteJsonRetries == {[n |-> 0, ok |-> FALSE]} \union [n : {1, 2, 3}, ok : BOOLEAN]

\* What complete() may come back with, and the model calls it took: JSON is
\* asked for again once, a text is not; the client may not even be built.
CompleteJson == {[n |-> 0, ok |-> FALSE]} \union [n : {1, 2}, ok : BOOLEAN]
CompleteText == {[n |-> 0, ok |-> FALSE]} \union [n : {1}, ok : BOOLEAN]

\* A node has run: merge its update, go on; LangGraph raises when the run has
\* taken too many steps.
Node(next, update) ==
    /\ steps' = steps + 1
    /\ st' = update
    /\ pc' = IF steps < RecursionLimit THEN next ELSE "crashed"
    /\ UNCHANGED <<request, resp>>
Spend(reply) == calls' = calls + reply.n
Warn(s, here) == [s EXCEPT !.warned = @ \/ here]

\* A node raised: graph.invoke raises, and _run catches it.
Raises ==
    /\ steps' = steps + 1
    /\ pc' = "crashed"
    /\ UNCHANGED <<request, st, resp>>

\* RepoLocator.resolve: a path on disk, or None, or an exception.
Resolves(s) == IF s.target = Nowhere THEN {FALSE} ELSE BOOLEAN

MinOf(a, b) == IF a < b THEN a ELSE b

-----------------------------------------------------------------------------
(* Faulty variants: one-slip mutations of the definitions below, to show    *)
(* that the properties can fail.  The specification uses none of them.     *)

\* The planner's filter names the repositories.
PlannerScope(s) == {Repos}

\* Indices are taken to count from one.
KeptIndicesFromOne(raw, n) == {i \in raw \ {Huge} : 0 <= i /\ i <= n}

\* Only the upper end is checked.
KeptIndicesBelow(raw, n) == {i \in raw \ {Huge} : i < n}

\* Tools lead straight back to the planner.
AfterTools == "action_planner"

\* The last batch only.
KeepNew(old, new) == MinOf(new, MaxResults)

\* A diff to review is taken for a reason to be sure.
FallbackRiskHigh(s) == IF s.diff THEN "high" ELSE "low"

\* Only chat() is wrapped.
DegradeChat ==
    /\ pc = "crashed"
    /\ entry = "chat"
    /\ st' = [InitialState(st.scope, st.target, st.diff) EXCEPT
                !.answer = "internal error", !.confidence = "low", !.warned = TRUE]
    /\ pc' = "respond"
    /\ UNCHANGED <<request, resp, steps, calls, history>>

-----------------------------------------------------------------------------
(* Orchestrator: the request. *)

Scopes == {ids \in SUBSET Repos : \A r \in ids : WorkspaceOf[r] = workspace}
FirstOf(ids) == IF ids = {} THEN {Nowhere} ELSE ids

Start(e, m, s) ==
    /\ pc = "idle"
    /\ entry' = e /\ mode' = m /\ st' = s
    /\ pc' = "router"
    /\ UNCHANGED <<workspace, resp, steps, calls, history>>

Chat == \E m \in ChatModes, ids \in Scopes : \E id \in FirstOf(ids) :
            Start("chat", m, InitialState(ids, id, FALSE))

Debug == \E ids \in Scopes : \E id \in FirstOf(ids) :
            Start("debug", "debug", InitialState(ids, id, FALSE))

\* _resolve_diff: the diff of the request, or what git_diff makes of the two
\* refs when the repository is on disk, or none.
ResolvedDiff(given) == IF given THEN {TRUE} ELSE BOOLEAN

Review == \E id \in Repos, given \in BOOLEAN : \E diff \in ResolvedDiff(given) :
            /\ WorkspaceOf[id] = workspace
            /\ Start("review", "change_review", InitialState({id}, id, diff))

-----------------------------------------------------------------------------
(* The nodes. *)

ModeIntent(m) ==
    IF m = "debug" THEN "debugging" ELSE IF m = "change_review" THEN m ELSE "question"

\* The model's intent, unless the mode was an explicit choice.
Router ==
    /\ pc = "router"
    /\ \E reply \in CompleteJson, said \in {"question", "debugging", "change_review"} :
          LET pinned == mode \in {"debug", "change_review"} /\ said = "question"
          IN  /\ Spend(reply)
              /\ Node("retrieval_planner",
                      Warn([st EXCEPT !.intent = IF reply.ok /\ ~pinned THEN said ELSE ModeIntent(mode)],
                           ~reply.ok))
    /\ UNCHANGED history

\* How many of the first queries, and of the first calls, the model planned
\* are usable: coerce_query drops those without text, _coerce_tool_calls
\* those that name no tool.
UsableQueries == 0..MaxQueries
UsableCalls == 0..MaxToolCalls

\* Each planned query is usable, or dropped for want of text; int() raises
\* on an infinite top_k.  Without a query the request itself is searched.
RetrievalPlanner ==
    /\ pc = "retrieval_planner"
    /\ \E reply \in CompleteJson :
          /\ Spend(reply)
          /\ \/ \E n \in IF reply.ok THEN UsableQueries ELSE {0} :
                   Node("evidence_retriever",
                        Warn([st EXCEPT !.queries = IF n = 0 THEN 1 ELSE n], ~reply.ok \/ n = 0))
             \/ reply.ok /\ Raises
    /\ UNCHANGED history

\* coerce_filter: the repositories of the request; none means no filter.
FilterScopes(s) == {IF s.scope = {} THEN Repos ELSE s.scope}

\* Every query may fail on its own; what they find is merged and cut.
EvidenceRetriever ==
    /\ pc = "evidence_retriever"
    /\ \E scope \in FilterScopes(st), failing \in 0..st.queries :
          \E found \in SUBSET {c \in Chunks : c[1] \in scope} :
              /\ failing = st.queries => found = {}
              /\ Cardinality(found) <= MaxEvidence
              /\ Node("code_analyst", Warn([st EXCEPT !.evidence = found], failing > 0 \/ found = {}))
    /\ UNCHANGED <<calls, history>>

CodeAnalyst ==
    /\ pc = "code_analyst"
    /\ \E reply \in CompleteText :
          /\ Spend(reply)
          /\ Node("action_planner", Warn([st EXCEPT !.analysed = st.tool_results], ~reply.ok))
    /\ UNCHANGED history

\* _route_after_action, the conditional edge.
Route(s) ==
    IF s.needs_tools /\ s.tool_calls > 0 /\ s.iterations < MaxIterations
      THEN "tool_executor" ELSE "synthesizer"

BudgetSpent(s) == s.iterations >= MaxIterations

ActionPlanner ==
    /\ pc = "action_planner"
    /\ \/ /\ BudgetSpent(st)
          /\ LET s == [st EXCEPT !.needs_tools = FALSE, !.tool_calls = 0] IN Node(Route(s), s)
          /\ UNCHANGED calls
       \/ /\ ~BudgetSpent(st)
          /\ \E reply \in CompleteJson, wants \in BOOLEAN, planned \in UsableCalls, found \in Resolves(st) :
                LET needs == reply.ok /\ wants
                    n == IF ~reply.ok \/ (needs /\ ~found) THEN 0 ELSE planned
                    s == Warn([st EXCEPT !.needs_tools = needs /\ n > 0, !.tool_calls = n],
                              ~reply.ok \/ (needs /\ ~found))
                IN  Spend(reply) /\ Node(Route(s), s)
    /\ UNCHANGED history

\* Where the graph goes after tools, how results and rounds add up.
BackTo == "code_analyst"
Keep(old, new) == MinOf(old + new, MaxResults)
CountRound(s, found) == s.iterations + 1

\* The repository may be gone by now: then the calls are skipped.
ToolExecutor ==
    /\ pc = "tool_executor"
    /\ \E found \in Resolves(st), failed \in BOOLEAN :
          LET n == IF found THEN st.tool_calls ELSE 0
          IN  /\ Node(BackTo,
                      Warn([st EXCEPT !.tool_results = Keep(@, n), !.iterations = CountRound(st, found),
                                      !.tool_calls = 0, !.needs_tools = FALSE],
                           failed \/ ~found))
              /\ executed' = executed + n
              /\ rounds' = rounds + 1
    /\ UNCHANGED calls

\* The model did not answer: an answer made of the evidence alone.
Fallback(confidence) ==
    Node("judge", [Warn(st, TRUE) EXCEPT !.answer = "fallback", !.degraded = TRUE,
                                         !.confidence = confidence])

\* It answered: its text, or, where that is missing or blank, the code's own,
\* either as sure as the reply says, and without a warning.
Answered(confidence, indices) ==
    \E text \in {"model", "fallback"} :
        Node("judge", [st EXCEPT !.answer = text, !.confidence = confidence, !.indices = indices])

\* _synthesize_answer, for every mode but the next two.
SynthesizeAnswer(reply) ==
    IF reply.ok THEN \E c \in Confidence : Answered(c, {}) ELSE Fallback("low")

\* Evidence indices count from 0 and are kept when they are in range; int()
\* raises on an infinite one.
KeptIndices(raw, n) == {i \in raw \ {Huge} : 0 <= i /\ i < n}
RawIndices == {{}} \union {{i} : i \in -1..MaxEvidence} \union {{Huge}}

SynthesizeDebug(reply) ==
    IF reply.ok
      THEN \E c \in Confidence, raw \in RawIndices :
              IF Huge \in raw THEN Raises
              ELSE Answered(c, KeptIndices(raw, Cardinality(st.evidence)))
      ELSE Fallback("low")

\* The risk level of a change nobody reviewed depends on there being one.
FallbackRisk(s) == IF s.diff THEN "medium" ELSE "low"

SynthesizeReview(reply) ==
    IF reply.ok THEN \E c \in Confidence : Answered(c, {}) ELSE Fallback(FallbackRisk(st))

Synthesizer ==
    /\ pc = "synthesizer"
    /\ \E reply \in CompleteJson :
          /\ Spend(reply)
          /\ CASE mode = "debug" -> SynthesizeDebug(reply)
               [] mode = "change_review" -> SynthesizeReview(reply)
               [] OTHER -> SynthesizeAnswer(reply)
    /\ UNCHANGED history

\* The judge scores, by the model or by heuristics, and changes no answer.
Judge ==
    /\ pc = "judge"
    /\ \E reply \in CompleteJson :
          /\ Spend(reply)
          /\ Node("respond", Warn([st EXCEPT !.scored = TRUE], ~reply.ok))
    /\ UNCHANGED history

-----------------------------------------------------------------------------
(* Orchestrator: the answer. *)

\* _run after a crash: the state of the start, with a warning and an answer.
Degrade ==
    /\ pc = "crashed"
    /\ st' = [InitialState(st.scope, st.target, st.diff) EXCEPT
                !.answer = "internal error", !.confidence = "low", !.warned = TRUE]
    /\ pc' = "respond"
    /\ UNCHANGED <<request, resp, steps, calls, history>>

\* The three responses; only the first has warnings, the last has no tools,
\* and only a debug response has indices into the evidence.
ChatResponse(s) ==
    [answer |-> IF s.answer = "" THEN "empty" ELSE s.answer, confidence |-> s.confidence,
     evidence |-> s.evidence, indices |-> {}, tools |-> s.tool_results, warned |-> s.warned]
DebugResponse(s) == [ChatResponse(s) EXCEPT !.indices = s.indices, !.warned = FALSE]
ReviewResponse(s) == [ChatResponse(s) EXCEPT !.tools = 0, !.warned = FALSE]

Respond ==
    /\ pc = "respond"
    /\ resp' = CASE entry = "chat" -> ChatResponse(st)
                 [] entry = "debug" -> DebugResponse(st)
                 [] entry = "review" -> ReviewResponse(st)
    /\ pc' = "done"
    /\ UNCHANGED <<request, st, steps, calls, history>>

-----------------------------------------------------------------------------
Graph == \/ Router \/ RetrievalPlanner \/ EvidenceRetriever \/ CodeAnalyst
         \/ ActionPlanner \/ ToolExecutor \/ Synthesizer \/ Judge

Next == Chat \/ Debug \/ Review \/ Graph \/ Degrade \/ Respond

Spec == Init /\ [][Next]_vars

\* A request that was accepted runs: nodes end, since every model call and
\* every tool has a timeout.  Clients need not call.
FairSpec == Spec /\ WF_vars(Graph \/ Degrade \/ Respond)

-----------------------------------------------------------------------------
(* Properties. *)

StateType ==
    [scope : SUBSET Repos, target : Repos \union {Nowhere}, diff : BOOLEAN,
     intent : {"question", "debugging", "change_review"}, queries : 0..MaxQueries,
     evidence : SUBSET Chunks, analysed : Nat, needs_tools : BOOLEAN,
     tool_calls : 0..MaxToolCalls, tool_results : 0..MaxResults, iterations : 0..MaxIterations,
     answer : {"", "fallback", "model", "internal error"}, confidence : Confidence,
     indices : SUBSET Nat, scored : BOOLEAN, warned : BOOLEAN, degraded : BOOLEAN]

\* The state of a run keeps the types AgentState declares, and its counters
\* the bounds of the module (state.py, nodes/action_planner.py).
TypeOK ==
    /\ pc \in Nodes \union {"idle", "crashed", "respond", "done"}
    /\ entry \in {"chat", "debug", "review"}
    /\ mode \in ChatModes \union {"ask", "debug", "change_review"}
    /\ workspace \in {WorkspaceOf[r] : r \in Repos}
    /\ st \in StateType
    /\ resp.evidence \in SUBSET Chunks /\ resp.tools \in 0..MaxResults
    /\ steps \in Nat /\ calls \in Nat /\ executed \in Nat /\ rounds \in Nat

\* Whatever the model asks for, a run stays far from LangGraph's recursion
\* limit and invokes models a fixed number of times at most: twice for each
\* JSON node, once for each pass of the analyst (graph.py, models.complete).
RunBounded ==
    /\ steps <= 7 + 3 * MaxIterations
    /\ calls <= 8 + (MaxIterations + 1) + 2 * MaxIterations

\* The answer is written when the last analysis has seen every tool result,
\* and no result was cut away to make room for a later one (_MAX_RESULTS is
\* exactly what two rounds of three calls produce).
AnalysisSeesResults ==
    /\ pc \in Nodes => st.tool_results = executed
    /\ pc \in {"synthesizer", "judge"} => st.analysed = executed

\* What a debug response points at with its evidence indices is evidence it
\* carries, 0-based (RootCauseCandidate.evidence_indices).
IndicesPointAtEvidence ==
    pc = "done" => \A i \in resp.indices : i \in 0..(Cardinality(resp.evidence) - 1)

\* Evidence comes from the repositories the request named, whatever filter
\* the model planned (retrieval_planner: "can't widen scope").
ScopeKept ==
    st.scope # {} => \A c \in st.evidence \union resp.evidence : c[1] \in st.scope

\* When the model was out of reach for the answer, or the graph broke down,
\* the response never claims high confidence, and the one that has warnings
\* (chat) has one.  A reply without a text is another matter: see
\* OwnTextIsTold.
FallbackNotConfident ==
    pc = "done" /\ (st.degraded \/ resp.answer = "internal error") =>
        /\ resp.confidence # "high"
        /\ entry = "chat" => resp.warned

\* Every accepted request is answered (runtime.py: "callers never see an
\* exception"), under fairness of the graph alone.
RequestsAnswered == (pc # "idle") ~> (pc = "done")

\* The promise AgentRequest states, and the refinement mapping.
Promise == INSTANCE AgentRequest WITH
    MaxRounds <- MaxIterations,
    MaxCalls <- MaxToolCalls,
    status <- IF pc = "idle" THEN "idle" ELSE IF pc = "done" THEN "answered" ELSE "working",
    rounds <- rounds,
    ran <- executed,
    answer <- IF pc # "done" THEN "none" ELSE IF resp.answer = "internal error" THEN "error"
              ELSE IF st.analysed = executed THEN "informed" ELSE "uninformed"
ImplementsRequest == Promise!Spec

-----------------------------------------------------------------------------
(* What the docs say, where the code does not do it; no run checks these.   *)

\* docs/agent-graph.md:53-54, "Nodes never raise": the graph never crashes.
NodesNeverRaise == pc # "crashed"

\* docs/agent-graph.md:153-155, a crash inside the graph is answered with
\* "whatever evidence was gathered".
CrashKeepsEvidence == [][Degrade => st'.evidence = st.evidence]_vars

\* docs/agent-graph.md:156, "All warnings surface on the response's
\* `warnings` list".
WarningsSurface == pc = "done" => resp.warned = st.warned

\* docs/agent-graph.md:53-54, "every model/tool failure becomes a `warnings`
\* entry plus a grounded fallback": an answer the code made up is told.  A
\* reply of the model without an answer gets the fallback text with the
\* reply's own confidence, and no warning.
OwnTextIsTold == pc = "done" /\ entry = "chat" /\ resp.answer = "fallback" => resp.warned

\* models/chat.py:25-26, repository_ids "Empty = search all repos in
\* workspace": no evidence comes from another workspace.
EvidenceInWorkspace == \A c \in resp.evidence : WorkspaceOf[c[1]] = workspace
=============================================================================
