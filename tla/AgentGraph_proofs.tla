------------------------- MODULE AgentGraph_proofs --------------------------
(***************************************************************************)
(* A request's run is bounded, its answer is informed by every tool result *)
(* and its evidence stays in scope, for every budget, every set of         *)
(* repositories and whatever the models and the tools do.                  *)
(***************************************************************************)
EXTENDS AgentGraph, FiniteSetTheorems, TLAPS

\* Where a run is, as counted by LangGraph and by the two bookkeepers.
Counted ==
    /\ rounds <= MaxIterations
    /\ pc \in Nodes => st.iterations = rounds
    /\ pc \in {"idle", "router"} => steps = 0 /\ calls = 0 /\ rounds = 0
    /\ pc = "retrieval_planner" => steps = 1 /\ calls <= 2 /\ rounds = 0
    /\ pc = "evidence_retriever" => steps = 2 /\ calls <= 4 /\ rounds = 0
    /\ pc = "code_analyst" => steps = 3 + 3 * rounds /\ calls <= 4 + 3 * rounds
    /\ pc = "action_planner" => steps = 4 + 3 * rounds /\ calls <= 5 + 3 * rounds
    /\ pc = "tool_executor" => /\ steps = 5 + 3 * rounds /\ calls <= 7 + 3 * rounds
                               /\ rounds < MaxIterations
    /\ pc = "synthesizer" => steps = 5 + 3 * rounds /\ calls <= 5 + 3 * MaxIterations
    /\ pc = "judge" => steps = 6 + 3 * rounds /\ calls <= 7 + 3 * MaxIterations
    /\ RunBounded

\* What rounds rounds of full batches come to.
Budget(r) == MaxToolCalls * r

\* The results held are those of the tools that ran, and an analysis follows
\* each round.
Informed ==
    /\ pc \in {"idle", "router"} => executed = 0
    /\ executed <= Budget(rounds)
    /\ pc \in Nodes => st.tool_results = executed
    /\ pc \in {"action_planner", "tool_executor", "synthesizer", "judge"} => st.analysed = executed
    /\ pc \in {"respond", "done"} => st.answer = "internal error" \/ st.analysed = executed

\* An answer there is when the judge runs, and who gave it how sure.
Sure ==
    /\ pc \in Nodes \ {"judge"} => ~st.degraded /\ st.answer = ""
    /\ pc \in {"judge", "respond", "done"} =>
          /\ st.answer # ""
          /\ st.degraded \/ st.answer = "internal error" => st.confidence # "high" /\ st.warned
    /\ pc = "done" => /\ resp.answer = st.answer /\ resp.confidence = st.confidence
                      /\ entry = "chat" => resp.warned = st.warned

\* Evidence is of the scope, and there is none before it is retrieved.
InScope ==
    /\ pc # "done" => resp.evidence = {}
    /\ ScopeKept

IInv == TypeOK /\ Counted /\ Informed /\ Sure /\ InScope

\* A model call takes at most two invocations, one when a text is asked for.
LEMMA TextReplies ==
    ASSUME NEW reply \in CompleteText PROVE reply.n \in 0..1 /\ reply.ok \in BOOLEAN
<1>1. CASE reply = [n |-> 0, ok |-> FALSE]
  BY <1>1
<1>2. CASE reply \in [n : {1}, ok : BOOLEAN]
  BY <1>2
<1> QED
  BY <1>1, <1>2 DEF CompleteText

LEMMA JsonReplies ==
    ASSUME NEW reply \in CompleteJson PROVE reply.n \in 0..2 /\ reply.ok \in BOOLEAN
<1>1. CASE reply = [n |-> 0, ok |-> FALSE]
  BY <1>1
<1>2. CASE reply \in [n : {1, 2}, ok : BOOLEAN]
  BY <1>2
<1> QED
  BY <1>1, <1>2 DEF CompleteJson

\* A warning changes nothing else.
LEMMA Warned ==
    ASSUME NEW s \in StateType, NEW h \in BOOLEAN
    PROVE  /\ Warn(s, h) \in StateType
           /\ Warn(s, h).scope = s.scope /\ Warn(s, h).target = s.target /\ Warn(s, h).diff = s.diff
           /\ Warn(s, h).iterations = s.iterations /\ Warn(s, h).tool_results = s.tool_results
           /\ Warn(s, h).tool_calls = s.tool_calls /\ Warn(s, h).needs_tools = s.needs_tools
           /\ Warn(s, h).analysed = s.analysed /\ Warn(s, h).evidence = s.evidence
           /\ Warn(s, h).answer = s.answer /\ Warn(s, h).degraded = s.degraded
           /\ Warn(s, h).confidence = s.confidence
  BY DEF Warn, StateType

\* And is kept.
LEMMA Told ==
    ASSUME NEW s \in StateType, NEW h \in BOOLEAN
    PROVE  s.warned \/ h => Warn(s, h).warned
  BY DEF Warn, StateType

\* No node meets the recursion limit.
LEMMA WithinLimit ==
    ASSUME IInv, pc \in Nodes
    PROVE  steps < RecursionLimit
  BY ConstantsAssumption DEF IInv, TypeOK, Counted, Nodes

\* A node that does not raise goes where it says.
LEMMA NodeRuns ==
    ASSUME IInv, pc \in Nodes, NEW next, NEW update, Node(next, update)
    PROVE  pc' = next /\ st' = update /\ steps' = steps + 1 /\ UNCHANGED <<request, resp>>
  BY WithinLimit DEF Node

\* The next state keeps what a run is accounted by.
Carries ==
    /\ st' \in StateType
    /\ st'.scope = st.scope /\ st'.iterations = st.iterations
    /\ st'.tool_results = st.tool_results /\ st'.answer = st.answer
    /\ st'.degraded = st.degraded /\ st'.confidence = st.confidence


\* The state a run starts with.
Untouched(s) ==
    /\ s \in StateType /\ s.evidence = {} /\ s.iterations = 0 /\ s.tool_results = 0
    /\ s.answer = "" /\ ~s.degraded /\ s.analysed = 0

LEMMA Fresh ==
    ASSUME NEW ids \in SUBSET Repos, NEW id \in Repos \union {Nowhere}, NEW diff \in BOOLEAN
    PROVE  Untouched(InitialState(ids, id, diff))
<1>1. PICK scope \in SUBSET Repos : scope = IF id = Nowhere THEN ids ELSE ids \union {id}
  OBVIOUS
<1>2. /\ 0 \in 0..MaxQueries /\ 0 \in 0..MaxToolCalls /\ 0 \in 0..MaxResults /\ 0 \in 0..MaxIterations
      /\ {} \in SUBSET Chunks /\ {} \in SUBSET Nat /\ "medium" \in Confidence /\ 0 \in Nat
  BY ConstantsAssumption DEF Confidence
<1> QED
  BY <1>1, <1>2 DEF InitialState, StateType, Untouched

LEMMA InitInv == Init => IInv
<1> SUFFICES ASSUME Init PROVE IInv
  OBVIOUS
<1>1. st \in StateType /\ st.evidence = {} /\ st.scope = {}
  <2>1. Untouched(st)
    BY Fresh DEF Init
  <2>2. st.scope = {}
    BY DEF Init, InitialState
  <2> QED
    BY <2>1, <2>2 DEF Untouched
<1>2. TypeOK
  <2>a. resp.evidence = {} /\ resp.tools = 0
    BY DEF Init, NoResponse
  <2>1. resp.evidence \in SUBSET Chunks /\ resp.tools \in 0..MaxResults
    BY <2>a, ConstantsAssumption
  <2> QED
    BY <1>1, <2>1 DEF Init, TypeOK
<1>3. Counted
  BY ConstantsAssumption DEF Init, Counted, Nodes, RunBounded
<1>4. Informed
  BY ConstantsAssumption DEF Init, Informed, Nodes, Budget
<1>5. Sure
  BY DEF Init, Sure, Nodes
<1>6. InScope
  BY <1>1 DEF Init, InScope, NoResponse, ScopeKept
<1> QED
  BY <1>2, <1>3, <1>4, <1>5, <1>6 DEF IInv

\* A request begins.
LEMMA StartStep ==
    ASSUME IInv, NEW e \in {"chat", "debug", "review"},
           NEW m \in ChatModes \union {"ask", "debug", "change_review"},
           NEW ids \in SUBSET Repos, NEW id \in Repos \union {Nowhere}, NEW diff \in BOOLEAN,
           Start(e, m, InitialState(ids, id, diff))
    PROVE  IInv'
<1> DEFINE s == InitialState(ids, id, diff)
<1>1. Untouched(s)
  BY Fresh
<1>2. /\ pc = "idle" /\ pc' = "router" /\ st' = s /\ entry' = e /\ mode' = m
      /\ UNCHANGED <<workspace, resp, steps, calls, executed, rounds>>
  BY DEF Start, history
<1> HIDE DEF s
<1>3. TypeOK'
  BY <1>1, <1>2 DEF IInv, TypeOK, Nodes, Untouched
<1>4. Counted'
  BY <1>1, <1>2 DEF IInv, Counted, Nodes, RunBounded, Untouched
<1>5. Informed'
  BY <1>1, <1>2 DEF IInv, Informed, Nodes, Untouched
<1>6. Sure'
  BY <1>1, <1>2 DEF IInv, Sure, Nodes, Untouched
<1>7. InScope'
  BY <1>1, <1>2 DEF IInv, InScope, ScopeKept, Untouched
<1> QED
  BY <1>3, <1>4, <1>5, <1>6, <1>7 DEF IInv

\* The steps between the start and the first analysis.
LEMMA EarlyStep ==
    ASSUME IInv, Carries, pc \in Nodes, NEW next, NEW n \in 0..2,
           pc' = next /\ steps' = steps + 1 /\ calls' = calls + n /\ UNCHANGED <<request, resp, history>>,
           \/ pc = "router" /\ next = "retrieval_planner"
           \/ pc = "retrieval_planner" /\ next = "evidence_retriever"
           \/ pc = "evidence_retriever" /\ next = "code_analyst" /\ n = 0,
           st'.evidence = st.evidence \/ pc = "evidence_retriever",
           st.scope # {} => \A c \in st'.evidence : c[1] \in st.scope
    PROVE  IInv'
<1> USE DEF request, history
<1>1. TypeOK'
  BY DEF IInv, TypeOK, Nodes, Carries
<1>2. Counted'
  BY ConstantsAssumption DEF IInv, TypeOK, Counted, Nodes, RunBounded, Carries
<1>3. Informed'
  BY DEF IInv, TypeOK, Informed, Nodes, Carries
<1>4. Sure'
  BY DEF IInv, Sure, Nodes, Carries
<1>5. InScope'
  BY DEF IInv, InScope, ScopeKept, Nodes, Carries
<1> QED
  BY <1>1, <1>2, <1>3, <1>4, <1>5 DEF IInv

LEMMA RouterStep ==
    ASSUME IInv, Router
    PROVE  IInv'
<1>1. PICK reply \in CompleteJson, said \in {"question", "debugging", "change_review"} :
        LET pinned == mode \in {"debug", "change_review"} /\ said = "question"
        IN  /\ Spend(reply)
            /\ Node("retrieval_planner",
                    Warn([st EXCEPT !.intent = IF reply.ok /\ ~pinned THEN said ELSE ModeIntent(mode)],
                         ~reply.ok))
  BY DEF Router
<1>2. PICK intent \in {"question", "debugging", "change_review"} :
        Node("retrieval_planner", Warn([st EXCEPT !.intent = intent], ~reply.ok))
  BY <1>1 DEF ModeIntent
<1> DEFINE s == [st EXCEPT !.intent = intent]
<1>3. /\ s \in StateType /\ s.scope = st.scope /\ s.iterations = st.iterations
      /\ s.tool_results = st.tool_results /\ s.answer = st.answer /\ s.degraded = st.degraded
      /\ s.confidence = st.confidence /\ s.evidence = st.evidence
  BY DEF IInv, TypeOK, StateType
<1>4. /\ pc = "router" /\ pc' = "retrieval_planner" /\ st' = Warn(s, ~reply.ok)
      /\ steps' = steps + 1 /\ UNCHANGED <<request, resp, history>>
  BY <1>2, NodeRuns DEF Router, Nodes
<1> HIDE DEF s
<1>5. Carries /\ st'.evidence = st.evidence
  BY <1>3, <1>4, JsonReplies, Warned DEF Carries
<1>6. calls' = calls + reply.n /\ reply.n \in 0..2
  BY <1>1, JsonReplies DEF Spend
<1> QED
  BY <1>4, <1>5, <1>6, EarlyStep DEF Nodes, IInv, InScope, ScopeKept

\* int() raised, in the planner or in the synthesizer of a debug request.
LEMMA RaisesStep ==
    ASSUME IInv, pc \in {"retrieval_planner", "synthesizer"}, Raises,
           NEW n \in 0..2, calls' = calls + n, UNCHANGED history
    PROVE  IInv'
<1> USE DEF Raises, request, history
<1>1. TypeOK'
  BY DEF IInv, TypeOK
<1>2. Counted'
  BY ConstantsAssumption DEF IInv, TypeOK, Counted, Nodes, RunBounded
<1>3. Informed' /\ Sure' /\ InScope'
  BY DEF IInv, Informed, Sure, InScope, ScopeKept, Nodes
<1> QED
  BY <1>1, <1>2, <1>3 DEF IInv

LEMMA PlannerStep ==
    ASSUME IInv, RetrievalPlanner
    PROVE  IInv'
<1>1. PICK reply \in CompleteJson :
        /\ Spend(reply)
        /\ \/ \E n \in IF reply.ok THEN UsableQueries ELSE {0} :
                 Node("evidence_retriever",
                      Warn([st EXCEPT !.queries = IF n = 0 THEN 1 ELSE n], ~reply.ok \/ n = 0))
           \/ reply.ok /\ Raises
  BY DEF RetrievalPlanner
<1>2. calls' = calls + reply.n /\ reply.n \in 0..2 /\ reply.ok \in BOOLEAN
  BY <1>1, JsonReplies DEF Spend
<1>3. CASE Raises
  BY <1>2, <1>3, RaisesStep DEF RetrievalPlanner
<1>4. ASSUME NEW n \in UsableQueries \union {0},
             Node("evidence_retriever",
                  Warn([st EXCEPT !.queries = IF n = 0 THEN 1 ELSE n], ~reply.ok \/ n = 0))
      PROVE  IInv'
  <2>1. PICK q \in 0..MaxQueries : q = IF n = 0 THEN 1 ELSE n
    BY ConstantsAssumption DEF UsableQueries
  <2> DEFINE s == [st EXCEPT !.queries = q]
             h == ~reply.ok \/ n = 0
  <2>2. /\ s \in StateType /\ s.scope = st.scope /\ s.iterations = st.iterations
        /\ s.tool_results = st.tool_results /\ s.answer = st.answer /\ s.degraded = st.degraded
        /\ s.confidence = st.confidence /\ s.evidence = st.evidence
    BY DEF IInv, TypeOK, StateType
  <2>3. h \in BOOLEAN
    OBVIOUS
  <2>4. /\ pc = "retrieval_planner" /\ pc' = "evidence_retriever" /\ st' = Warn(s, h)
        /\ steps' = steps + 1 /\ UNCHANGED <<request, resp, history>>
    BY <1>4, <2>1, NodeRuns DEF RetrievalPlanner, Nodes
  <2> HIDE DEF s, h
  <2>5. Carries /\ st'.evidence = st.evidence
    BY <2>2, <2>3, <2>4, Warned DEF Carries
  <2> QED
    BY <1>2, <2>4, <2>5, EarlyStep DEF Nodes, IInv, InScope, ScopeKept
<1> QED
  BY <1>1, <1>3, <1>4 DEF UsableQueries

LEMMA RetrieverStep ==
    ASSUME IInv, EvidenceRetriever
    PROVE  IInv'
<1>0. PICK scope \in FilterScopes(st), failing \in 0..st.queries :
        \E found \in SUBSET {c \in Chunks : c[1] \in scope} :
          Node("code_analyst", Warn([st EXCEPT !.evidence = found], failing > 0 \/ found = {}))
  BY DEF EvidenceRetriever
<1>1. PICK found \in SUBSET {c \in Chunks : c[1] \in scope} :
        Node("code_analyst", Warn([st EXCEPT !.evidence = found], failing > 0 \/ found = {}))
  BY <1>0
<1> DEFINE s == [st EXCEPT !.evidence = found]
           h == failing > 0 \/ found = {}
<1>2. /\ s \in StateType /\ s.scope = st.scope /\ s.iterations = st.iterations
      /\ s.tool_results = st.tool_results /\ s.answer = st.answer /\ s.degraded = st.degraded
      /\ s.confidence = st.confidence /\ s.evidence = found
  BY DEF IInv, TypeOK, StateType
<1>3. h \in BOOLEAN
  OBVIOUS
<1>4. /\ pc = "evidence_retriever" /\ pc' = "code_analyst" /\ st' = Warn(s, h)
      /\ steps' = steps + 1 /\ UNCHANGED <<request, resp, calls, history>>
  BY <1>1, NodeRuns DEF EvidenceRetriever, Nodes
<1>5. st.scope # {} => \A c \in found : c[1] \in st.scope
  BY DEF FilterScopes
<1> HIDE DEF s, h
<1>6. Carries /\ st'.evidence = found
  BY <1>2, <1>3, <1>4, Warned DEF Carries
<1>7. calls' = calls + 0
  BY <1>4 DEF IInv, TypeOK
<1> QED
  BY <1>4, <1>5, <1>6, <1>7, EarlyStep DEF Nodes

LEMMA AnalystStep ==
    ASSUME IInv, CodeAnalyst
    PROVE  IInv'
<1>1. PICK reply \in CompleteText :
        /\ Spend(reply)
        /\ Node("action_planner", Warn([st EXCEPT !.analysed = st.tool_results], ~reply.ok))
  BY DEF CodeAnalyst
<1> DEFINE s == [st EXCEPT !.analysed = st.tool_results]
<1>2. /\ s \in StateType /\ s.scope = st.scope /\ s.iterations = st.iterations
      /\ s.tool_results = st.tool_results /\ s.answer = st.answer /\ s.degraded = st.degraded
      /\ s.confidence = st.confidence /\ s.evidence = st.evidence /\ s.analysed = st.tool_results
  <2>1. st \in StateType
    BY DEF IInv, TypeOK
  <2>2. st.tool_results \in Nat
    BY DEF IInv, TypeOK, Informed, Nodes, CodeAnalyst
  <2> QED
    BY <2>1, <2>2 DEF StateType
<1>3. /\ pc = "code_analyst" /\ pc' = "action_planner" /\ st' = Warn(s, ~reply.ok)
      /\ steps' = steps + 1 /\ UNCHANGED <<request, resp, history>>
  BY <1>1, NodeRuns DEF CodeAnalyst, Nodes
<1> HIDE DEF s
<1>4. Carries /\ st'.evidence = st.evidence /\ st'.analysed = st.tool_results
  BY <1>2, <1>3, TextReplies, Warned DEF Carries
<1>5. calls' = calls + reply.n /\ reply.n \in 0..1
  BY <1>1, TextReplies DEF Spend
<1> USE DEF request, history
<1>6. TypeOK'
  BY <1>3, <1>4, <1>5 DEF IInv, TypeOK, Nodes, Carries
<1>7. Counted'
  BY <1>3, <1>4, <1>5, ConstantsAssumption DEF IInv, TypeOK, Counted, Nodes, RunBounded, Carries
<1>8. Informed'
  BY <1>3, <1>4 DEF IInv, TypeOK, Informed, Nodes, Carries
<1>9. Sure'
  BY <1>3, <1>4 DEF IInv, Sure, Nodes, Carries
<1>10. InScope'
  BY <1>3, <1>4 DEF IInv, InScope, ScopeKept, Nodes, Carries
<1> QED
  BY <1>6, <1>7, <1>8, <1>9, <1>10 DEF IInv

\* The planner of actions sends the run to the tools only below the budget.
LEMMA PlannedStep ==
    ASSUME IInv, pc = "action_planner", NEW n \in 0..2,
           NEW s \in StateType, s.scope = st.scope, s.iterations = st.iterations,
           s.tool_results = st.tool_results, s.answer = st.answer, s.degraded = st.degraded,
           s.confidence = st.confidence, s.evidence = st.evidence, s.analysed = st.analysed,
           Node(Route(s), s), calls' = calls + n, UNCHANGED history,
           BudgetSpent(st) => n = 0
    PROVE  IInv'
<1>1. /\ pc' = Route(s) /\ st' = s
      /\ steps' = steps + 1 /\ UNCHANGED <<request, resp, history>>
  BY NodeRuns DEF Nodes
<1>2. Route(s) \in {"tool_executor", "synthesizer"} /\ (Route(s) = "tool_executor" => s.iterations < MaxIterations)
  BY DEF Route
<1>3. Carries /\ st'.evidence = st.evidence /\ st'.analysed = st.analysed
  BY <1>1 DEF Carries
<1> USE DEF request, history
<1>6. TypeOK'
  BY <1>1, <1>2, <1>3 DEF IInv, TypeOK, Nodes, Carries
<1>7. Counted'
  BY <1>1, <1>2, <1>3, ConstantsAssumption
     DEF IInv, TypeOK, Counted, Nodes, RunBounded, Carries, BudgetSpent
<1>8. Informed'
  BY <1>1, <1>2, <1>3 DEF IInv, TypeOK, Informed, Nodes, Carries
<1>9. Sure'
  BY <1>1, <1>2, <1>3 DEF IInv, Sure, Nodes, Carries
<1>10. InScope'
  BY <1>1, <1>2, <1>3 DEF IInv, InScope, ScopeKept, Nodes, Carries
<1> QED
  BY <1>6, <1>7, <1>8, <1>9, <1>10 DEF IInv

LEMMA ActionStep ==
    ASSUME IInv, ActionPlanner
    PROVE  IInv'
<1>0. pc = "action_planner" /\ UNCHANGED history /\ st \in StateType /\ calls \in Nat
  BY DEF ActionPlanner, IInv, TypeOK
<1>1. CASE BudgetSpent(st)
  <2> DEFINE s == [st EXCEPT !.needs_tools = FALSE, !.tool_calls = 0]
  <2>1. Node(Route(s), s) /\ calls' = calls + 0
    BY <1>0, <1>1 DEF ActionPlanner
  <2>2. /\ s \in StateType /\ s.scope = st.scope /\ s.iterations = st.iterations
        /\ s.tool_results = st.tool_results /\ s.answer = st.answer /\ s.degraded = st.degraded
        /\ s.confidence = st.confidence /\ s.evidence = st.evidence /\ s.analysed = st.analysed
    <3>1. 0 \in 0..MaxToolCalls
      BY ConstantsAssumption
    <3> QED
      BY <1>0, <3>1 DEF StateType
  <2> HIDE DEF s
  <2> QED
    BY <1>0, <2>1, <2>2, PlannedStep
<1>2. CASE ~BudgetSpent(st)
  <2>1. PICK reply \in CompleteJson, wants \in BOOLEAN, planned \in UsableCalls, found \in Resolves(st) :
          LET needs == reply.ok /\ wants
              n == IF ~reply.ok \/ (needs /\ ~found) THEN 0 ELSE planned
              s == Warn([st EXCEPT !.needs_tools = needs /\ n > 0, !.tool_calls = n],
                        ~reply.ok \/ (needs /\ ~found))
          IN  Spend(reply) /\ Node(Route(s), s)
    BY <1>2 DEF ActionPlanner
  <2> DEFINE needs == reply.ok /\ wants
             m == IF ~reply.ok \/ (needs /\ ~found) THEN 0 ELSE planned
             h == ~reply.ok \/ (needs /\ ~found)
             t == [st EXCEPT !.needs_tools = needs /\ m > 0, !.tool_calls = m]
             s == Warn(t, h)
  <2>2. Node(Route(s), s) /\ calls' = calls + reply.n /\ reply.n \in 0..2
    BY <2>1, JsonReplies DEF Spend
  <2>3. m \in 0..MaxToolCalls /\ (needs /\ m > 0) \in BOOLEAN /\ h \in BOOLEAN
    BY ConstantsAssumption DEF UsableCalls
  <2> HIDE DEF needs, m, h
  <2>4. /\ t \in StateType /\ t.scope = st.scope /\ t.iterations = st.iterations
        /\ t.tool_results = st.tool_results /\ t.answer = st.answer /\ t.degraded = st.degraded
        /\ t.confidence = st.confidence /\ t.evidence = st.evidence /\ t.analysed = st.analysed
    BY <1>0, <2>3 DEF StateType
  <2> HIDE DEF t
  <2>5. /\ s \in StateType /\ s.scope = st.scope /\ s.iterations = st.iterations
        /\ s.tool_results = st.tool_results /\ s.answer = st.answer /\ s.degraded = st.degraded
        /\ s.confidence = st.confidence /\ s.evidence = st.evidence /\ s.analysed = st.analysed
    BY <2>3, <2>4, Warned
  <2> HIDE DEF s
  <2> QED
    BY <1>0, <1>2, <2>2, <2>5, PlannedStep
<1> QED
  BY <1>1, <1>2

\* One more round fits the results of one more batch.
LEMMA NextBudget ==
    ASSUME NEW r \in Nat, r < MaxIterations
    PROVE  Budget(r) + MaxToolCalls = Budget(r + 1) /\ Budget(r + 1) <= MaxResults
<1>1. MaxToolCalls \in Nat /\ MaxIterations \in Nat /\ MaxResults \in Nat
      /\ MaxToolCalls * MaxIterations <= MaxResults
  BY ConstantsAssumption
<1>2. MaxToolCalls * (r + 1) = MaxToolCalls * r + MaxToolCalls
  BY <1>1
<1>3. PICK d \in Nat : MaxIterations = (r + 1) + d
  <2>1. MaxIterations - (r + 1) \in Nat /\ MaxIterations = (r + 1) + (MaxIterations - (r + 1))
    BY <1>1
  <2> QED
    BY <2>1
<1>4. MaxToolCalls * MaxIterations = MaxToolCalls * (r + 1) + MaxToolCalls * d
  BY <1>1, <1>3
<1>5. MaxToolCalls * d \in Nat /\ MaxToolCalls * (r + 1) \in Nat /\ MaxToolCalls * r \in Nat
  BY <1>1, <1>3
<1> HIDE DEF Budget
<1>6. MaxToolCalls * (r + 1) <= MaxResults
  BY <1>1, <1>4, <1>5
<1> QED
  BY <1>2, <1>6 DEF Budget

LEMMA ToolStep ==
    ASSUME IInv, ToolExecutor
    PROVE  IInv'
<1>0. st \in StateType /\ pc = "tool_executor" /\ calls' = calls /\ rounds < MaxIterations
      /\ st.iterations = rounds /\ st.tool_results = executed /\ executed \in Nat /\ rounds \in Nat
      /\ executed <= Budget(rounds)
  BY DEF IInv, TypeOK, Counted, Informed, ToolExecutor, Nodes
<1>1. PICK found \in Resolves(st), failed \in BOOLEAN :
        LET n == IF found THEN st.tool_calls ELSE 0
        IN  /\ Node(BackTo,
                    Warn([st EXCEPT !.tool_results = Keep(@, n), !.iterations = CountRound(st, found),
                                    !.tool_calls = 0, !.needs_tools = FALSE],
                         failed \/ ~found))
            /\ executed' = executed + n
            /\ rounds' = rounds + 1
  BY DEF ToolExecutor
<1>2. PICK n \in 0..MaxToolCalls : n = IF found THEN st.tool_calls ELSE 0
  <2>1. 0 \in 0..MaxToolCalls
    BY ConstantsAssumption
  <2>2. st.tool_calls \in 0..MaxToolCalls
    BY <1>0 DEF StateType
  <2> QED
    BY <2>1, <2>2
<1>3. /\ executed + n \in 0..MaxResults /\ executed + n <= Budget(rounds + 1)
      /\ Keep(st.tool_results, n) = executed + n
      /\ rounds + 1 \in 0..MaxIterations
  <2>1. MaxToolCalls \in Nat /\ MaxIterations \in Nat /\ MaxResults \in Nat
    BY ConstantsAssumption
  <2>2. Budget(rounds) + MaxToolCalls = Budget(rounds + 1) /\ Budget(rounds + 1) <= MaxResults
    BY <1>0, NextBudget
  <2>3. Budget(rounds) \in Nat
    BY <1>0, <2>1 DEF Budget
  <2>4. PICK b \in Nat : b = Budget(rounds) /\ b + MaxToolCalls = Budget(rounds + 1)
                         /\ b + MaxToolCalls <= MaxResults /\ executed <= b
    BY <1>0, <2>2, <2>3
  <2> QED
    BY <1>0, <2>1, <2>4 DEF Keep, MinOf
<1> DEFINE h == failed \/ ~found
           s == [st EXCEPT !.tool_results = executed + n, !.iterations = rounds + 1,
                           !.tool_calls = 0, !.needs_tools = FALSE]
<1>4. Node("code_analyst", Warn(s, h)) /\ executed' = executed + n /\ rounds' = rounds + 1
  BY <1>0, <1>1, <1>2, <1>3 DEF BackTo, CountRound
<1>5. /\ pc' = "code_analyst" /\ st' = Warn(s, h)
      /\ steps' = steps + 1 /\ UNCHANGED <<request, resp>>
  BY <1>0, <1>4, NodeRuns DEF Nodes
<1>6. h \in BOOLEAN /\ 0 \in 0..MaxToolCalls
  BY <1>2, ConstantsAssumption
<1> HIDE DEF h
<1>7. /\ s \in StateType /\ s.scope = st.scope /\ s.iterations = rounds + 1
      /\ s.tool_results = executed + n /\ s.answer = st.answer /\ s.degraded = st.degraded
      /\ s.confidence = st.confidence /\ s.evidence = st.evidence
  BY <1>0, <1>3, <1>6 DEF StateType
<1> HIDE DEF s
<1>8. /\ st' \in StateType /\ st'.scope = st.scope /\ st'.iterations = rounds + 1
      /\ st'.tool_results = executed + n /\ st'.answer = st.answer /\ st'.degraded = st.degraded
      /\ st'.confidence = st.confidence /\ st'.evidence = st.evidence
  BY <1>5, <1>6, <1>7, Warned
<1>9. n \in Nat
  BY <1>2, ConstantsAssumption
<1> USE DEF request
<1>10. TypeOK'
  BY <1>0, <1>4, <1>5, <1>8, <1>9 DEF IInv, TypeOK, Nodes
<1>11. Counted'
  BY <1>0, <1>4, <1>5, <1>8, ConstantsAssumption DEF IInv, TypeOK, Counted, Nodes, RunBounded
<1>12. Informed'
  BY <1>0, <1>3, <1>4, <1>5, <1>8 DEF IInv, Informed, Nodes, Budget
<1>13. Sure'
  BY <1>0, <1>5, <1>8 DEF IInv, Sure, Nodes
<1>14. InScope'
  BY <1>0, <1>5, <1>8 DEF IInv, InScope, ScopeKept
<1> QED
  BY <1>10, <1>11, <1>12, <1>13, <1>14 DEF IInv

\* An answer, of the model or made up, and told when the model was out of reach.
LEMMA AnswerStep ==
    ASSUME IInv, pc = "synthesizer", NEW n \in 0..2,
           NEW s \in StateType, s.scope = st.scope, s.iterations = st.iterations,
           s.tool_results = st.tool_results, s.evidence = st.evidence, s.analysed = st.analysed,
           s.answer \in {"model", "fallback"},
           s.degraded => s.confidence # "high" /\ s.warned,
           Node("judge", s), calls' = calls + n, UNCHANGED history
    PROVE  IInv'
<1>1. /\ pc' = "judge" /\ st' = s
      /\ steps' = steps + 1 /\ UNCHANGED <<request, resp, history>>
  BY NodeRuns DEF Nodes
<1> USE DEF request, history
<1>2. TypeOK'
  BY <1>1 DEF IInv, TypeOK, Nodes
<1>3. Counted'
  BY <1>1, ConstantsAssumption DEF IInv, TypeOK, Counted, Nodes, RunBounded
<1>4. Informed'
  BY <1>1 DEF IInv, TypeOK, Informed, Nodes
<1>5. Sure'
  BY <1>1 DEF IInv, Sure, Nodes
<1>6. InScope'
  BY <1>1 DEF IInv, InScope, ScopeKept, Nodes
<1> QED
  BY <1>2, <1>3, <1>4, <1>5, <1>6 DEF IInv

\* What a fallback makes of the state.
LEMMA FallbackStep ==
    ASSUME IInv, pc = "synthesizer", NEW n \in 0..2, NEW c \in {"low", "medium"},
           Fallback(c), calls' = calls + n, UNCHANGED history
    PROVE  IInv'
<1> DEFINE w == Warn(st, TRUE)
           s == [w EXCEPT !.answer = "fallback", !.degraded = TRUE, !.confidence = c]
<1>1. Node("judge", s)
  BY DEF Fallback
<1>2. /\ w \in StateType /\ w.scope = st.scope /\ w.iterations = st.iterations
      /\ w.tool_results = st.tool_results /\ w.evidence = st.evidence /\ w.analysed = st.analysed
      /\ w.warned
  <2>1. st \in StateType
    BY DEF IInv, TypeOK
  <2>2. w.warned
    BY <2>1, Told
  <2> QED
    BY <2>1, <2>2, Warned
<1> HIDE DEF w
<1>3. /\ s \in StateType /\ s.scope = st.scope /\ s.iterations = st.iterations
      /\ s.tool_results = st.tool_results /\ s.evidence = st.evidence /\ s.analysed = st.analysed
      /\ s.answer = "fallback" /\ s.confidence # "high" /\ s.warned
  BY <1>2 DEF StateType, Confidence
<1> HIDE DEF s
<1> QED
  BY <1>1, <1>3, AnswerStep

LEMMA ModelStep ==
    ASSUME IInv, pc = "synthesizer", NEW n \in 0..2, NEW c \in Confidence, NEW indices \in SUBSET Nat,
           Answered(c, indices), calls' = calls + n, UNCHANGED history
    PROVE  IInv'
<1>0. PICK text \in {"model", "fallback"} :
        Node("judge", [st EXCEPT !.answer = text, !.confidence = c, !.indices = indices])
  BY DEF Answered
<1> DEFINE s == [st EXCEPT !.answer = text, !.confidence = c, !.indices = indices]
<1>1. Node("judge", s)
  BY <1>0
<1>2. st \in StateType /\ ~st.degraded
  BY DEF IInv, TypeOK, Sure, Nodes
<1>3. /\ s \in StateType /\ s.scope = st.scope /\ s.iterations = st.iterations
      /\ s.tool_results = st.tool_results /\ s.evidence = st.evidence /\ s.analysed = st.analysed
      /\ s.answer \in {"model", "fallback"} /\ s.degraded = st.degraded
  BY <1>2 DEF StateType
<1> HIDE DEF s
<1> QED
  BY <1>1, <1>2, <1>3, AnswerStep

LEMMA SynthesizerStep ==
    ASSUME IInv, Synthesizer
    PROVE  IInv'
<1>0. pc = "synthesizer" /\ UNCHANGED history
  BY DEF Synthesizer
<1>1. PICK reply \in CompleteJson :
        /\ Spend(reply)
        /\ CASE mode = "debug" -> SynthesizeDebug(reply)
             [] mode = "change_review" -> SynthesizeReview(reply)
             [] OTHER -> SynthesizeAnswer(reply)
  BY DEF Synthesizer
<1>2. calls' = calls + reply.n /\ reply.n \in 0..2
  BY <1>1, JsonReplies DEF Spend
<1>3. CASE SynthesizeDebug(reply)
  <2>1. CASE reply.ok
    <3>1. PICK c \in Confidence, raw \in RawIndices :
            IF Huge \in raw THEN Raises ELSE Answered(c, KeptIndices(raw, Cardinality(st.evidence)))
      BY <1>3, <2>1 DEF SynthesizeDebug
    <3>2. CASE Huge \in raw
      BY <1>0, <1>2, <3>1, <3>2, RaisesStep
    <3>3. CASE Huge \notin raw
      <4>1. raw \in SUBSET Int
        BY <3>3, ConstantsAssumption DEF RawIndices
      <4>2. KeptIndices(raw, Cardinality(st.evidence)) \in SUBSET Nat
        <5>1. ASSUME NEW i \in KeptIndices(raw, Cardinality(st.evidence))
              PROVE  i \in Nat
          <6>1. i \in raw /\ 0 <= i
            BY DEF KeptIndices
          <6> QED
            BY <4>1, <6>1
        <5> QED
          BY <5>1
      <4> QED
        BY <1>0, <1>2, <3>1, <3>3, <4>2, ModelStep
    <3> QED
      BY <3>2, <3>3
  <2> QED
    BY <1>0, <1>2, <1>3, <2>1, FallbackStep DEF SynthesizeDebug
<1>4. CASE SynthesizeReview(reply)
  <2>1. FallbackRisk(st) \in {"low", "medium"}
    BY DEF FallbackRisk
  <2> QED
    BY <1>0, <1>2, <1>4, <2>1, FallbackStep, ModelStep DEF SynthesizeReview
<1>5. CASE SynthesizeAnswer(reply)
  BY <1>0, <1>2, <1>5, FallbackStep, ModelStep DEF SynthesizeAnswer
<1> QED
  BY <1>1, <1>3, <1>4, <1>5

LEMMA JudgeStep ==
    ASSUME IInv, Judge
    PROVE  IInv'
<1>1. PICK reply \in CompleteJson :
        Spend(reply) /\ Node("respond", Warn([st EXCEPT !.scored = TRUE], ~reply.ok))
  BY DEF Judge
<1>2. pc = "judge" /\ UNCHANGED history /\ st \in StateType
  BY DEF Judge, IInv, TypeOK
<1>3. calls' = calls + reply.n /\ reply.n \in 0..2 /\ (~reply.ok) \in BOOLEAN
  BY <1>1, JsonReplies DEF Spend
<1> DEFINE s == [st EXCEPT !.scored = TRUE]
<1>4. /\ s \in StateType /\ s.scope = st.scope /\ s.iterations = st.iterations
      /\ s.tool_results = st.tool_results /\ s.answer = st.answer /\ s.degraded = st.degraded
      /\ s.confidence = st.confidence /\ s.evidence = st.evidence /\ s.analysed = st.analysed
      /\ s.warned = st.warned
  BY <1>2 DEF StateType
<1>5. /\ pc' = "respond" /\ st' = Warn(s, ~reply.ok)
      /\ steps' = steps + 1 /\ UNCHANGED <<request, resp>>
  BY <1>1, <1>2, NodeRuns DEF Nodes
<1> HIDE DEF s
<1>6. /\ Carries /\ st'.evidence = st.evidence /\ st'.analysed = st.analysed
      /\ st.warned => st'.warned
  <2>1. Carries /\ st'.evidence = st.evidence /\ st'.analysed = st.analysed
    BY <1>3, <1>4, <1>5, Warned DEF Carries
  <2>2. st.warned => st'.warned
    BY <1>3, <1>4, <1>5, Told
  <2> QED
    BY <2>1, <2>2
<1> USE DEF request, history
<1>7. TypeOK'
  BY <1>2, <1>3, <1>5, <1>6 DEF IInv, TypeOK, Carries
<1>8. Counted'
  BY <1>2, <1>3, <1>5, <1>6, ConstantsAssumption DEF IInv, TypeOK, Counted, Nodes, RunBounded, Carries
<1>9. Informed'
  BY <1>2, <1>5, <1>6 DEF IInv, Informed, Nodes, Carries
<1>10. Sure'
  BY <1>2, <1>5, <1>6 DEF IInv, Sure, Nodes, Carries
<1>11. InScope'
  BY <1>2, <1>5, <1>6 DEF IInv, InScope, ScopeKept, Nodes, Carries
<1> QED
  BY <1>7, <1>8, <1>9, <1>10, <1>11 DEF IInv

LEMMA DegradeStep ==
    ASSUME IInv, Degrade
    PROVE  IInv'
<1> DEFINE w == InitialState(st.scope, st.target, st.diff)
           s == [w EXCEPT !.answer = "internal error", !.confidence = "low", !.warned = TRUE]
<1>1. /\ pc = "crashed" /\ pc' = "respond" /\ st' = s
      /\ UNCHANGED <<request, resp, steps, calls, history>>
  BY DEF Degrade
<1>2. st.scope \in SUBSET Repos /\ st.target \in Repos \union {Nowhere} /\ st.diff \in BOOLEAN
  BY DEF IInv, TypeOK, StateType
<1>3. Untouched(w)
  BY <1>2, Fresh
<1> HIDE DEF w
<1>4. /\ s \in StateType /\ s.evidence = {} /\ s.answer = "internal error"
      /\ s.confidence = "low" /\ s.warned
  BY <1>3 DEF Untouched, StateType, Confidence
<1> HIDE DEF s
<1> USE DEF request, history
<1>5. TypeOK'
  BY <1>1, <1>4 DEF IInv, TypeOK
<1>6. Counted'
  BY <1>1, <1>4 DEF IInv, Counted, Nodes, RunBounded
<1>7. Informed'
  BY <1>1, <1>4 DEF IInv, Informed, Nodes
<1>8. Sure'
  BY <1>1, <1>4 DEF IInv, Sure, Nodes
<1>9. InScope'
  BY <1>1, <1>4 DEF IInv, InScope, ScopeKept
<1> QED
  BY <1>5, <1>6, <1>7, <1>8, <1>9 DEF IInv

\* The response repeats the state's answer, and its evidence.
LEMMA RespondStep ==
    ASSUME IInv, Respond
    PROVE  IInv'
<1>0. st \in StateType /\ st.answer # "" /\ entry \in {"chat", "debug", "review"}
  BY DEF IInv, TypeOK, Sure, Respond
<1> DEFINE r == ChatResponse(st)
<1>1. /\ r = [answer |-> st.answer, confidence |-> st.confidence, evidence |-> st.evidence,
              indices |-> {}, tools |-> st.tool_results, warned |-> st.warned]
  BY <1>0 DEF ChatResponse
<1>2. /\ resp' \in {r, [r EXCEPT !.indices = st.indices, !.warned = FALSE],
                    [r EXCEPT !.tools = 0, !.warned = FALSE]}
      /\ entry = "chat" => resp' = r
  BY <1>0 DEF Respond, DebugResponse, ReviewResponse
<1> HIDE DEF r
<1>3. /\ resp'.answer = st.answer /\ resp'.confidence = st.confidence /\ resp'.evidence = st.evidence
      /\ resp'.tools \in {st.tool_results, 0}
      /\ entry = "chat" => resp'.warned = st.warned
  <2>1. CASE resp' = r
    BY <1>1, <2>1
  <2>2. CASE resp' = [r EXCEPT !.indices = st.indices, !.warned = FALSE]
    BY <1>1, <1>2, <2>2
  <2>3. CASE resp' = [r EXCEPT !.tools = 0, !.warned = FALSE]
    BY <1>1, <1>2, <2>3
  <2> QED
    BY <1>1, <1>2, <2>1, <2>2, <2>3
<1>4. st.evidence \in SUBSET Chunks /\ st.tool_results \in 0..MaxResults /\ 0 \in 0..MaxResults
  <2>1. 0 \in 0..MaxResults
    BY ConstantsAssumption
  <2> QED
    BY <1>0, <2>1 DEF StateType
<1>5. pc = "respond" /\ pc' = "done" /\ UNCHANGED <<request, st, steps, calls, history>>
  BY DEF Respond
<1> USE DEF request, history
<1>6. TypeOK'
  BY <1>3, <1>4, <1>5 DEF IInv, TypeOK
<1>7. Counted'
  BY <1>5 DEF IInv, Counted, Nodes, RunBounded
<1>8. Informed'
  BY <1>5 DEF IInv, Informed, Nodes
<1>9. Sure'
  BY <1>3, <1>5 DEF IInv, Sure, Nodes
<1>10. InScope'
  BY <1>3, <1>5 DEF IInv, InScope, ScopeKept
<1> QED
  BY <1>6, <1>7, <1>8, <1>9, <1>10 DEF IInv

LEMMA RequestStep ==
    ASSUME IInv, Chat \/ Debug \/ Review
    PROVE  IInv'
<1>1. ASSUME NEW ids \in Scopes, NEW id \in FirstOf(ids)
      PROVE  ids \in SUBSET Repos /\ id \in Repos \union {Nowhere}
  BY DEF Scopes, FirstOf
<1>2. CASE Chat
  <2>1. PICK m \in ChatModes, ids \in Scopes :
          \E id \in FirstOf(ids) : Start("chat", m, InitialState(ids, id, FALSE))
    BY <1>2 DEF Chat
  <2> QED
    BY <1>1, <2>1, StartStep
<1>3. CASE Debug
  <2>1. PICK ids \in Scopes : \E id \in FirstOf(ids) : Start("debug", "debug", InitialState(ids, id, FALSE))
    BY <1>3 DEF Debug
  <2> QED
    BY <1>1, <2>1, StartStep
<1>4. CASE Review
  <2>1. PICK id \in Repos, given \in BOOLEAN :
          \E diff \in ResolvedDiff(given) : Start("review", "change_review", InitialState({id}, id, diff))
    BY <1>4 DEF Review
  <2>2. PICK diff \in BOOLEAN : Start("review", "change_review", InitialState({id}, id, diff))
    BY <2>1 DEF ResolvedDiff
  <2> QED
    BY <2>2, StartStep
<1> QED
  BY <1>2, <1>3, <1>4

LEMMA NextInv == IInv /\ [Next]_vars => IInv'
<1> SUFFICES ASSUME IInv, [Next]_vars PROVE IInv'
  OBVIOUS
<1>1. CASE Next
  <2>1. CASE Chat \/ Debug \/ Review
    BY <2>1, RequestStep
  <2>2. CASE Router
    BY <2>2, RouterStep
  <2>3. CASE RetrievalPlanner
    BY <2>3, PlannerStep
  <2>4. CASE EvidenceRetriever
    BY <2>4, RetrieverStep
  <2>5. CASE CodeAnalyst
    BY <2>5, AnalystStep
  <2>6. CASE ActionPlanner
    BY <2>6, ActionStep
  <2>7. CASE ToolExecutor
    BY <2>7, ToolStep
  <2>8. CASE Synthesizer
    BY <2>8, SynthesizerStep
  <2>9. CASE Judge
    BY <2>9, JudgeStep
  <2>10. CASE Degrade
    BY <2>10, DegradeStep
  <2>11. CASE Respond
    BY <2>11, RespondStep
  <2> QED
    BY <1>1, <2>1, <2>2, <2>3, <2>4, <2>5, <2>6, <2>7, <2>8, <2>9, <2>10, <2>11 DEF Next, Graph
<1>2. CASE UNCHANGED vars
  <2> USE <1>2 DEF vars
  <2>1. TypeOK'
    BY DEF IInv, TypeOK
  <2>2. Counted'
    BY DEF IInv, Counted, RunBounded
  <2>3. Informed'
    BY DEF IInv, Informed
  <2>4. Sure'
    BY DEF IInv, Sure
  <2>5. InScope'
    BY DEF IInv, InScope, ScopeKept
  <2> QED
    BY <2>1, <2>2, <2>3, <2>4, <2>5 DEF IInv
<1> QED
  BY <1>1, <1>2

LEMMA Invariance == Spec => []IInv
  BY InitInv, NextInv, PTL DEF Spec

-----------------------------------------------------------------------------
\* The state of a run keeps its types, the counters their bounds.
THEOREM TypeCorrect == Spec => []TypeOK
<1>1. IInv => TypeOK
  BY DEF IInv
<1> QED
  BY <1>1, Invariance, PTL

\* The planner and the tools cannot loop for more than the budget allows, nor
\* can the models be invoked more often: no run comes near the recursion limit.
THEOREM RunsAreBounded == Spec => []RunBounded
<1>1. IInv => RunBounded
  BY DEF IInv, Counted
<1> QED
  BY <1>1, Invariance, PTL

\* The last analysis has seen every result of the tools, and none was cut.
THEOREM AnalysesSeeResults == Spec => []AnalysisSeesResults
<1>1. IInv => AnalysisSeesResults
  BY DEF IInv, Informed, AnalysisSeesResults
<1> QED
  BY <1>1, Invariance, PTL

\* No request is answered from a repository it did not name.
THEOREM ScopeIsKept == Spec => []ScopeKept
<1>1. IInv => ScopeKept
  BY DEF IInv, InScope
<1> QED
  BY <1>1, Invariance, PTL

\* An answer given with the model out of reach, or the graph broken down, is
\* never highly confident, and a chat response says so.
THEOREM FallbacksAreHumble == Spec => []FallbackNotConfident
<1>1. IInv => FallbackNotConfident
  BY DEF IInv, Sure, FallbackNotConfident
<1> QED
  BY <1>1, Invariance, PTL

-----------------------------------------------------------------------------
(* Evidence indices: none before the answer is written, and evidence is      *)
(* never replaced while there are some.                                      *)

InRange(s) == \A i \in s.indices : i \in 0..(Cardinality(s.evidence) - 1)

Pointing ==
    /\ pc \notin {"judge", "respond", "done"} => st.indices = {}
    /\ InRange(st)
    /\ IndicesPointAtEvidence

LEMMA WarningsKeepIndices ==
    ASSUME NEW s \in StateType, NEW h
    PROVE  Warn(s, h).indices = s.indices /\ Warn(s, h).evidence = s.evidence
  BY DEF Warn, StateType

LEMMA EvidenceCounted ==
    ASSUME TypeOK
    PROVE  Cardinality(st.evidence) \in Nat
<1>1. IsFiniteSet(Chunks)
  <2>1. IsFiniteSet(Repos) /\ 1 \in Int /\ ChunksPerRepo \in Int
    BY ConstantsAssumption
  <2>2. IsFiniteSet(1..ChunksPerRepo)
    BY <2>1, FS_Interval
  <2> QED
    BY <2>1, <2>2, FS_Product DEF Chunks
<1>2. st.evidence \in SUBSET Chunks
  BY DEF TypeOK, StateType
<1> QED
  BY <1>1, <1>2, FS_Subset, FS_CardinalityType

\* A node before the synthesizer: it carries the empty set of indices on.
LEMMA EarlyPointing ==
    ASSUME IInv, Pointing, pc \in Nodes \ {"judge", "synthesizer"}, NEW s \in StateType, NEW h,
           s.indices = st.indices, NEW next \in Nodes, Node(next, Warn(s, h))
    PROVE  Pointing'
<1>1. pc' = next /\ st' = Warn(s, h)
  BY NodeRuns
<1>2. st'.indices = {}
  BY <1>1, WarningsKeepIndices DEF Pointing, Nodes
<1> QED
  BY <1>1, <1>2 DEF Pointing, InRange, IndicesPointAtEvidence, Nodes

LEMMA RaisesPointing ==
    ASSUME Pointing, Raises, pc \in {"retrieval_planner", "synthesizer"}
    PROVE  Pointing'
  BY DEF Pointing, Raises, InRange, IndicesPointAtEvidence

LEMMA StartPointing ==
    ASSUME NEW e, NEW m, NEW ids, NEW id, NEW diff, Start(e, m, InitialState(ids, id, diff))
    PROVE  Pointing'
<1>1. pc' = "router" /\ st'.indices = {}
  BY DEF Start, InitialState
<1> QED
  BY <1>1 DEF Pointing, InRange, IndicesPointAtEvidence

LEMMA ActionPointing ==
    ASSUME IInv, Pointing, ActionPlanner
    PROVE  Pointing'
<1>0. pc = "action_planner" /\ pc \in Nodes \ {"judge", "synthesizer"} /\ st \in StateType /\ st.indices = {}
  BY DEF ActionPlanner, IInv, TypeOK, Pointing, Nodes
<1>1. ASSUME NEW s, s.indices = {}, Node(Route(s), s) PROVE Pointing'
  <2>1. pc' \in {"tool_executor", "synthesizer"} /\ st' = s
    BY <1>0, <1>1, NodeRuns DEF Route
  <2> QED
    BY <1>1, <2>1 DEF Pointing, InRange, IndicesPointAtEvidence
<1>2. CASE BudgetSpent(st)
  <2> DEFINE s == [st EXCEPT !.needs_tools = FALSE, !.tool_calls = 0]
  <2>1. Node(Route(s), s)
    BY <1>0, <1>2 DEF ActionPlanner
  <2>2. s.indices = {}
    BY <1>0 DEF StateType
  <2> HIDE DEF s
  <2> QED
    BY <1>1, <2>1, <2>2
<1>3. CASE ~BudgetSpent(st)
  <2>1. PICK reply \in CompleteJson, wants \in BOOLEAN, planned \in UsableCalls, found \in Resolves(st) :
          LET needs == reply.ok /\ wants
              n == IF ~reply.ok \/ (needs /\ ~found) THEN 0 ELSE planned
              s == Warn([st EXCEPT !.needs_tools = needs /\ n > 0, !.tool_calls = n],
                        ~reply.ok \/ (needs /\ ~found))
          IN  Spend(reply) /\ Node(Route(s), s)
    BY <1>3 DEF ActionPlanner
  <2> DEFINE needs == reply.ok /\ wants
             m == IF ~reply.ok \/ (needs /\ ~found) THEN 0 ELSE planned
             h == ~reply.ok \/ (needs /\ ~found)
             t == [st EXCEPT !.needs_tools = needs /\ m > 0, !.tool_calls = m]
             s == Warn(t, h)
  <2>2. Node(Route(s), s)
    BY <2>1
  <2>3. m \in 0..MaxToolCalls /\ (needs /\ m > 0) \in BOOLEAN
    BY ConstantsAssumption DEF UsableCalls
  <2> HIDE DEF needs, m, h
  <2>4. t \in StateType /\ t.indices = {}
    BY <1>0, <2>3 DEF StateType
  <2> HIDE DEF t
  <2>5. s.indices = {}
    BY <2>4, WarningsKeepIndices
  <2> HIDE DEF s
  <2> QED
    BY <1>1, <2>2, <2>5
<1> QED
  BY <1>2, <1>3

LEMMA ToolPointing ==
    ASSUME IInv, Pointing, ToolExecutor
    PROVE  Pointing'
<1>0. st \in StateType /\ pc = "tool_executor" /\ st.indices = {}
  BY DEF IInv, TypeOK, ToolExecutor, Pointing
<1>1. PICK found \in Resolves(st), failed \in BOOLEAN :
        \E n \in {st.tool_calls, 0} :
          Node(BackTo, Warn([st EXCEPT !.tool_results = Keep(@, n), !.iterations = CountRound(st, found),
                                       !.tool_calls = 0, !.needs_tools = FALSE],
                            failed \/ ~found))
  BY DEF ToolExecutor
<1>2. PICK n \in {st.tool_calls, 0} :
        Node(BackTo, Warn([st EXCEPT !.tool_results = Keep(@, n), !.iterations = CountRound(st, found),
                                     !.tool_calls = 0, !.needs_tools = FALSE],
                          failed \/ ~found))
  BY <1>1
<1> DEFINE h == failed \/ ~found
           a == Keep(st.tool_results, n)
           b == CountRound(st, found)
           s == [st EXCEPT !.tool_results = a, !.iterations = b, !.tool_calls = 0, !.needs_tools = FALSE]
           t == Warn(s, h)
<1>3. Node("code_analyst", t)
  BY <1>0, <1>2 DEF BackTo
<1>4. t.indices = {}
  <2> HIDE DEF a, b, h
  <2>1. s.indices = {} /\ t = [s EXCEPT !.warned = s.warned \/ h]
    BY <1>0 DEF StateType, Warn
  <2>2. DOMAIN s = DOMAIN st /\ "indices" \in DOMAIN s
    BY <1>0 DEF StateType
  <2> HIDE DEF s
  <2> QED
    BY <2>1, <2>2
<1> HIDE DEF t
<1>5. pc' = "code_analyst" /\ st' = t
  BY <1>0, <1>3, NodeRuns DEF Nodes
<1> QED
  BY <1>4, <1>5 DEF Pointing, InRange, IndicesPointAtEvidence

\* What the synthesizer keeps of the indices is in the range of the evidence.
LEMMA KeptInRange ==
    ASSUME TypeOK, NEW raw \in RawIndices, Huge \notin raw
    PROVE  /\ KeptIndices(raw, Cardinality(st.evidence)) \in SUBSET Nat
           /\ \A i \in KeptIndices(raw, Cardinality(st.evidence)) :
                 i \in 0..(Cardinality(st.evidence) - 1)
<1>1. raw \in SUBSET Int
  BY ConstantsAssumption DEF RawIndices
<1>2. PICK n \in Nat : n = Cardinality(st.evidence)
  BY EvidenceCounted
<1>3. ASSUME NEW i \in KeptIndices(raw, n) PROVE i \in Nat /\ i \in 0..(n - 1)
  <2>1. i \in Int /\ 0 <= i /\ i < n
    BY <1>1, <1>3 DEF KeptIndices
  <2> QED
    BY <1>2, <2>1
<1> QED
  BY <1>2, <1>3

LEMMA SynthesizerPointing ==
    ASSUME IInv, Pointing, Synthesizer
    PROVE  Pointing'
<1>0. pc = "synthesizer" /\ pc \in Nodes /\ st \in StateType /\ TypeOK /\ st.indices = {}
  BY DEF Synthesizer, Nodes, IInv, TypeOK, Pointing
<1>1. PICK reply \in CompleteJson :
         SynthesizeDebug(reply) \/ SynthesizeReview(reply) \/ SynthesizeAnswer(reply)
  BY DEF Synthesizer
<1>2. ASSUME NEW c \in Confidence, Fallback(c) PROVE Pointing'
  <2> DEFINE w == Warn(st, TRUE)
             s == [w EXCEPT !.answer = "fallback", !.degraded = TRUE, !.confidence = c]
  <2>1. w \in StateType /\ w.indices = {}
    BY <1>0, Warned, WarningsKeepIndices, ZenonT(60)
  <2>2. Node("judge", s)
    BY <1>2 DEF Fallback
  <2> HIDE DEF w
  <2>3. s.indices = {}
    BY <2>1 DEF StateType
  <2> HIDE DEF s
  <2>4. pc' = "judge" /\ st' = s
    BY <1>0, <2>2, NodeRuns
  <2> QED
    BY <2>3, <2>4 DEF Pointing, InRange, IndicesPointAtEvidence
<1>3. ASSUME NEW c \in Confidence, NEW kept \in SUBSET Nat, Answered(c, kept),
             \A i \in kept : i \in 0..(Cardinality(st.evidence) - 1)
      PROVE  Pointing'
  <2>0. PICK text \in {"model", "fallback"} :
          Node("judge", [st EXCEPT !.answer = text, !.confidence = c, !.indices = kept])
    BY <1>3 DEF Answered
  <2> DEFINE s == [st EXCEPT !.answer = text, !.confidence = c, !.indices = kept]
  <2>1. Node("judge", s)
    BY <2>0
  <2>2. s.indices = kept /\ s.evidence = st.evidence
    BY <1>0 DEF StateType
  <2> HIDE DEF s
  <2>3. pc' = "judge" /\ st' = s
    BY <1>0, <2>1, NodeRuns
  <2> QED
    BY <1>3, <2>2, <2>3 DEF Pointing, InRange, IndicesPointAtEvidence
<1>4. FallbackRisk(st) \in Confidence /\ "low" \in Confidence
  BY DEF FallbackRisk, Confidence
<1>5. CASE SynthesizeDebug(reply)
  <2>1. CASE reply.ok
    <3>1. PICK c \in Confidence, raw \in RawIndices :
            IF Huge \in raw THEN Raises ELSE Answered(c, KeptIndices(raw, Cardinality(st.evidence)))
      BY <1>5, <2>1 DEF SynthesizeDebug
    <3>2. CASE Huge \in raw
      BY <1>0, <3>1, <3>2, RaisesPointing
    <3>3. CASE Huge \notin raw
      BY <1>0, <1>3, <3>1, <3>3, KeptInRange
    <3> QED
      BY <3>2, <3>3
  <2> QED
    BY <1>2, <1>4, <1>5, <2>1 DEF SynthesizeDebug
<1>6. CASE SynthesizeReview(reply)
  BY <1>2, <1>3, <1>4, <1>6 DEF SynthesizeReview
<1>7. CASE SynthesizeAnswer(reply)
  BY <1>2, <1>3, <1>4, <1>7 DEF SynthesizeAnswer
<1> QED
  BY <1>1, <1>5, <1>6, <1>7

LEMMA JudgePointing ==
    ASSUME IInv, Pointing, Judge
    PROVE  Pointing'
<1>1. PICK reply \in CompleteJson : Node("respond", Warn([st EXCEPT !.scored = TRUE], ~reply.ok))
  BY DEF Judge
<1>2. pc = "judge" /\ st \in StateType
  BY DEF Judge, IInv, TypeOK
<1> DEFINE s == [st EXCEPT !.scored = TRUE]
<1>3. s \in StateType /\ s.indices = st.indices /\ s.evidence = st.evidence
  BY <1>2 DEF StateType
<1>4. pc' = "respond" /\ st' = Warn(s, ~reply.ok)
  BY <1>1, <1>2, NodeRuns DEF Nodes
<1> HIDE DEF s
<1>5. st'.indices = st.indices /\ st'.evidence = st.evidence
  BY <1>3, <1>4, WarningsKeepIndices
<1> QED
  BY <1>4, <1>5 DEF Pointing, InRange, IndicesPointAtEvidence

\* Only a debug response has indices, and it has the evidence of the state.
LEMMA RespondPointing ==
    ASSUME IInv, Pointing, Respond
    PROVE  Pointing'
<1>0. entry \in {"chat", "debug", "review"} /\ pc' = "done" /\ st' = st
  BY DEF IInv, TypeOK, Respond
<1> DEFINE r == ChatResponse(st)
<1>1. r \in [answer : {r.answer}, confidence : {r.confidence}, evidence : {st.evidence}, indices : {{}},
             tools : {r.tools}, warned : {r.warned}]
  BY DEF ChatResponse
<1>2. resp' \in {r, [r EXCEPT !.indices = st.indices, !.warned = FALSE],
                 [r EXCEPT !.tools = 0, !.warned = FALSE]}
  BY <1>0 DEF Respond, DebugResponse, ReviewResponse
<1> HIDE DEF r
<1>3. resp'.evidence = st.evidence /\ resp'.indices \in {{}, st.indices}
  BY <1>1, <1>2
<1> QED
  BY <1>0, <1>3 DEF Pointing, InRange, IndicesPointAtEvidence

LEMMA PointingStep == IInv /\ Pointing /\ [Next]_vars => Pointing'
<1> SUFFICES ASSUME IInv, Pointing, [Next]_vars PROVE Pointing'
  OBVIOUS
<1>0. st \in StateType
  BY DEF IInv, TypeOK
<1>1. CASE Chat \/ Debug \/ Review
  <2>1. PICK e, m, ids, id, diff : Start(e, m, InitialState(ids, id, diff))
    BY <1>1 DEF Chat, Debug, Review
  <2> QED
    BY <2>1, StartPointing
<1>2. CASE Router
  <2>1. PICK reply \in CompleteJson, said \in {"question", "debugging", "change_review"} :
          LET pinned == mode \in {"debug", "change_review"} /\ said = "question"
          IN  Node("retrieval_planner",
                   Warn([st EXCEPT !.intent = IF reply.ok /\ ~pinned THEN said ELSE ModeIntent(mode)],
                        ~reply.ok))
    BY <1>2 DEF Router
  <2>2. PICK intent \in {"question", "debugging", "change_review"} :
          Node("retrieval_planner", Warn([st EXCEPT !.intent = intent], ~reply.ok))
    BY <2>1 DEF ModeIntent
  <2> DEFINE s == [st EXCEPT !.intent = intent]
  <2>3. s \in StateType /\ s.indices = st.indices
    BY <1>0 DEF StateType
  <2> HIDE DEF s
  <2> QED
    BY <1>2, <2>2, <2>3, EarlyPointing DEF s, Router, Nodes
<1>3. CASE RetrievalPlanner
  <2>1. PICK reply \in CompleteJson :
          \/ \E n \in UsableQueries \union {0} :
               Node("evidence_retriever",
                    Warn([st EXCEPT !.queries = IF n = 0 THEN 1 ELSE n], ~reply.ok \/ n = 0))
          \/ Raises
    BY <1>3 DEF RetrievalPlanner
  <2>2. ASSUME NEW n \in UsableQueries \union {0},
               Node("evidence_retriever",
                    Warn([st EXCEPT !.queries = IF n = 0 THEN 1 ELSE n], ~reply.ok \/ n = 0))
        PROVE  Pointing'
    <3>1. PICK q \in 0..MaxQueries : q = IF n = 0 THEN 1 ELSE n
      BY ConstantsAssumption DEF UsableQueries
    <3> DEFINE s == [st EXCEPT !.queries = q]
               h == ~reply.ok \/ n = 0
    <3>2. s \in StateType /\ s.indices = st.indices
      BY <1>0 DEF StateType
    <3>3. Node("evidence_retriever", Warn(s, h))
      BY <2>2, <3>1
    <3> HIDE DEF s, h
    <3> QED
      BY <1>3, <3>2, <3>3, EarlyPointing DEF RetrievalPlanner, Nodes
  <2> QED
    BY <1>3, <2>1, <2>2, RaisesPointing DEF RetrievalPlanner
<1>4. CASE EvidenceRetriever
  <2>1. PICK scope \in FilterScopes(st), failing \in 0..st.queries :
          \E found \in SUBSET {c \in Chunks : c[1] \in scope} :
            Node("code_analyst", Warn([st EXCEPT !.evidence = found], failing > 0 \/ found = {}))
    BY <1>4 DEF EvidenceRetriever
  <2>2. PICK found \in SUBSET Chunks :
          Node("code_analyst", Warn([st EXCEPT !.evidence = found], failing > 0 \/ found = {}))
    BY <2>1
  <2> DEFINE s == [st EXCEPT !.evidence = found]
             h == failing > 0 \/ found = {}
  <2>3. s \in StateType /\ s.indices = st.indices
    BY <1>0 DEF StateType
  <2>4. Node("code_analyst", Warn(s, h))
    BY <2>2
  <2> HIDE DEF s, h
  <2> QED
    BY <1>4, <2>3, <2>4, EarlyPointing DEF EvidenceRetriever, Nodes
<1>5. CASE CodeAnalyst
  <2>1. PICK reply \in CompleteText :
          Node("action_planner", Warn([st EXCEPT !.analysed = st.tool_results], ~reply.ok))
    BY <1>5 DEF CodeAnalyst
  <2> DEFINE s == [st EXCEPT !.analysed = st.tool_results]
  <2>2. s \in StateType /\ s.indices = st.indices
    <3>1. st.tool_results \in Nat
      BY <1>5 DEF IInv, TypeOK, Informed, Nodes, CodeAnalyst
    <3> QED
      BY <1>0, <3>1 DEF StateType
  <2> HIDE DEF s
  <2> QED
    BY <1>5, <2>1, <2>2, EarlyPointing DEF s, CodeAnalyst, Nodes
<1>6. CASE Degrade
  <2> DEFINE w == InitialState(st.scope, st.target, st.diff)
  <2>1. st' = [w EXCEPT !.answer = "internal error", !.confidence = "low", !.warned = TRUE] /\ pc' = "respond"
    BY <1>6 DEF Degrade
  <2>2. w.indices = {} /\ w \in StateType
    <3>1. st.scope \in SUBSET Repos /\ st.target \in Repos \union {Nowhere} /\ st.diff \in BOOLEAN
      BY <1>0 DEF StateType
    <3> QED
      BY <3>1, Fresh, ZenonT(60) DEF Untouched, InitialState
  <2> HIDE DEF w
  <2>3. st'.indices = {}
    BY <2>1, <2>2 DEF StateType
  <2> QED
    BY <2>1, <2>3 DEF Pointing, InRange, IndicesPointAtEvidence
<1>7. CASE UNCHANGED vars
  BY <1>7 DEF vars, Pointing, InRange, IndicesPointAtEvidence
<1> QED
  BY <1>1, <1>2, <1>3, <1>4, <1>5, <1>6, <1>7, ActionPointing, ToolPointing, SynthesizerPointing,
     JudgePointing, RespondPointing DEF Next, Graph

\* Every evidence index of a debug response points at evidence it carries,
\* whatever numbers the model wrote, for every set of repositories and chunks.
THEOREM IndicesAreGood == Spec => []IndicesPointAtEvidence
<1>1. Init => Pointing
  <2> SUFFICES ASSUME Init PROVE Pointing
    OBVIOUS
  <2>1. pc = "idle" /\ st.indices = {}
    BY DEF Init, InitialState
  <2> QED
    BY <2>1 DEF Pointing, InRange, IndicesPointAtEvidence
<1>2. Pointing => IndicesPointAtEvidence
  BY DEF Pointing
<1> QED
  BY <1>1, <1>2, Invariance, PointingStep, PTL DEF Spec

-----------------------------------------------------------------------------
(* The refinement. *)

\* Working in the sense of AgentRequest.
Working == Nodes \union {"crashed", "respond"}

\* What a step of the graph other than a round of tools does to the promise:
\* nothing.
LEMMA QuietSteps ==
    ASSUME \/ Router \/ RetrievalPlanner \/ EvidenceRetriever \/ CodeAnalyst
           \/ ActionPlanner \/ Synthesizer \/ Judge \/ Degrade
    PROVE  pc \in Working /\ pc' \in Working /\ UNCHANGED history
<1> USE DEF Working, Nodes
<1>1. CASE Router \/ EvidenceRetriever \/ CodeAnalyst \/ Judge
  BY <1>1 DEF Router, EvidenceRetriever, CodeAnalyst, Judge, Node
<1>2. CASE RetrievalPlanner
  BY <1>2 DEF RetrievalPlanner, Node, Raises
<1>3. CASE ActionPlanner
  <2>1. PICK s : Node(Route(s), s)
    <3>1. CASE BudgetSpent(st)
      <4> DEFINE t == [st EXCEPT !.needs_tools = FALSE, !.tool_calls = 0]
      <4>1. Node(Route(t), t)
        BY <1>3, <3>1 DEF ActionPlanner
      <4> HIDE DEF t
      <4> QED
        BY <4>1
    <3>2. CASE ~BudgetSpent(st)
      <4>1. PICK reply \in CompleteJson, wants \in BOOLEAN, planned \in UsableCalls, found \in Resolves(st) :
              LET needs == reply.ok /\ wants
                  n == IF ~reply.ok \/ (needs /\ ~found) THEN 0 ELSE planned
                  s == Warn([st EXCEPT !.needs_tools = needs /\ n > 0, !.tool_calls = n],
                            ~reply.ok \/ (needs /\ ~found))
              IN  Spend(reply) /\ Node(Route(s), s)
        BY <1>3, <3>2 DEF ActionPlanner
      <4> DEFINE m == IF ~reply.ok \/ (reply.ok /\ wants /\ ~found) THEN 0 ELSE planned
                 t == Warn([st EXCEPT !.needs_tools = reply.ok /\ wants /\ m > 0, !.tool_calls = m],
                           ~reply.ok \/ (reply.ok /\ wants /\ ~found))
      <4>2. Node(Route(t), t)
        BY <4>1
      <4> HIDE DEF t
      <4> QED
        BY <4>2
    <3> QED
      BY <3>1, <3>2
  <2> QED
    BY <1>3, <2>1 DEF ActionPlanner, Node, Route
<1>4. CASE Synthesizer
  <2>1. Raises \/ \E s : Node("judge", s)
    BY <1>4 DEF Synthesizer, SynthesizeDebug, SynthesizeReview, SynthesizeAnswer, Fallback, Answered
  <2> QED
    BY <1>4, <2>1 DEF Synthesizer, Node, Raises
<1>5. CASE Degrade
  BY <1>5 DEF Degrade
<1> QED
  BY <1>1, <1>2, <1>3, <1>4, <1>5

\* Every step of the graph is a step of the promise, or none.
LEMMA StepMaps == IInv /\ IInv' /\ [Next]_vars => [Promise!Next]_(Promise!vars)
<1> SUFFICES ASSUME IInv, IInv', [Next]_vars PROVE [Promise!Next]_(Promise!vars)
  OBVIOUS
<1>1. CASE Chat \/ Debug \/ Review
  <2>1. pc = "idle" /\ pc' = "router" /\ UNCHANGED history
    BY <1>1 DEF Chat, Debug, Review, Start
  <2>2. Promise!Accept
    BY <2>1 DEF Promise!Accept, history
  <2> QED
    BY <2>2 DEF Promise!Next
<1>2. CASE \/ Router \/ RetrievalPlanner \/ EvidenceRetriever \/ CodeAnalyst
           \/ ActionPlanner \/ Synthesizer \/ Judge \/ Degrade
  <2>1. pc \in Working /\ pc' \in Working /\ UNCHANGED history
    BY <1>2, QuietSteps
  <2> QED
    BY <2>1 DEF Promise!vars, Working, Nodes, history
<1>3. CASE ToolExecutor
  <2>1. pc = "tool_executor" /\ pc' \in {"code_analyst", "crashed"} /\ rounds' = rounds + 1
        /\ rounds < MaxIterations
    BY <1>3 DEF ToolExecutor, Node, BackTo, IInv, Counted
  <2>2. PICK found \in BOOLEAN : executed' = executed + IF found THEN st.tool_calls ELSE 0
    BY <1>3 DEF ToolExecutor, Resolves
  <2>3. 0 \in 0..MaxToolCalls
    BY ConstantsAssumption
  <2>4. st.tool_calls \in 0..MaxToolCalls
    BY DEF IInv, TypeOK, StateType
  <2>5. \E n \in 0..MaxToolCalls : executed' = executed + n
    BY <2>2, <2>3, <2>4
  <2>6. Promise!ToolRound
    BY <2>1, <2>5 DEF Promise!ToolRound
  <2> QED
    BY <2>6 DEF Promise!Next
<1>4. CASE Respond
  <2>1. pc = "respond" /\ pc' = "done" /\ UNCHANGED <<st, executed, rounds>>
    BY <1>4 DEF Respond, history
  <2>2. resp'.answer = "internal error" \/ st'.analysed = executed'
    BY <2>1 DEF IInv, Sure, Informed
  <2>3. Promise!Answer
    BY <2>1, <2>2 DEF Promise!Answer
  <2> QED
    BY <2>3 DEF Promise!Next
<1>5. CASE UNCHANGED vars
  BY <1>5 DEF vars, Promise!vars
<1> QED
  BY <1>1, <1>2, <1>3, <1>4, <1>5 DEF Next, Graph

\* A request does what AgentRequest promises, but for its end, which is left
\* to the runs: accepted, bounded in rounds and tools, and answered once, with
\* all it learnt or with an error.
THEOREM GraphRefinesRequest == Spec => Promise!Init /\ [][Promise!Next]_(Promise!vars)
<1>1. Init => Promise!Init
  BY DEF Init, Promise!Init
<1> QED
  BY <1>1, Invariance, StepMaps, PTL DEF Spec
=============================================================================
