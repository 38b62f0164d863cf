------------------------------- MODULE Evals --------------------------------
(***************************************************************************)
(* A dataset run: the examples are put to the orchestrator one by one,     *)
(* each answer is scored, a failure becomes a row of zeros, and the rows   *)
(* are aggregated.  Beside it a chat turn is scored online and read back   *)
(* from the scores stored on its trace.                                    *)
(***************************************************************************)
EXTENDS Metrics

CONSTANTS
    Examples,    \* the dataset: a sequence of [id, question, keywords, files]
    Questions,   \* messages of chat turns: records of the same form, no labels
    Responses,   \* answers the orchestrator may give
    Replies,     \* what the judge may reply
    Pending      \* no response yet

IsList(s) == s \in Seq(Range(s))

ConstantsAssumption ==
    /\ IsList(Examples)
    /\ \A ex \in Range(Examples) \cup Questions :
          IsFiniteSet(ex.question) /\ IsFiniteSet(ex.keywords) /\ IsFiniteSet(ex.files)
    /\ \A r \in Responses :
          /\ DOMAIN r = {"answer", "length", "mentions", "markers", "citations", "evidence",
                         "next_actions", "tools"}
          /\ IsFiniteSet(r.answer) /\ IsFiniteSet(r.mentions)
          /\ {r.length, r.next_actions} \subseteq Nat
          /\ IsList(r.citations) /\ IsList(r.evidence) /\ IsList(r.tools)
          /\ \A e \in Range(r.evidence) : e.score \in Int
          /\ Range(r.tools) \subseteq BOOLEAN
          /\ Len(r.tools) < 100     \* the graph keeps _MAX_RESULTS of them
    /\ \A y \in Replies \ {NoObject} : {y.grounding, y.relevance} \subseteq Int \cup {NoNumber, Huge}
    /\ {NoNumber, Huge} \cap Int = {}
    /\ Pending \notin Responses

VARIABLES
    response,    \* the answer to the current example
    results,     \* the rows so far
    asked,       \* for each row, the response and the reply, or Pending
    summary,     \* what _aggregate returns, once it ran
    live         \* the scores of a chat turn and its row in GET /evals

vars == <<response, results, asked, summary, live>>

Unset == <<>>

Init ==
    /\ response = Pending /\ results = <<>> /\ asked = <<>>
    /\ summary = Unset /\ live = Unset

-----------------------------------------------------------------------------
(* Faulty variants.                                                        *)

\* A row passes when its mean does.
PassedRowMean(row) == Total(row.scores) >= 5 * 24000

\* Everything stored with the scores is taken for one.
IsMetricAny(s) == TRUE

-----------------------------------------------------------------------------
Current == Examples[Len(results) + 1]

Row(ex, scores) == [example |-> ex.id, scores |-> scores]

FailedRow(ex) == Row(ex, [n \in 1..5 |-> [metric |-> Metric[n], score |-> 0, passed |-> FALSE]])

Fail == results' = Append(results, FailedRow(Current)) /\ asked' = Append(asked, Pending)

Running == summary = Unset /\ Len(results) < Len(Examples)

Answer ==
    /\ Running /\ response = Pending
    /\ response' \in Responses
    /\ UNCHANGED <<results, asked, summary, live>>

ChatRaises ==
    /\ Running /\ response = Pending
    /\ Fail
    /\ UNCHANGED <<response, summary, live>>

ScoreRaises(reply) == JudgeRaises(response, reply)

Evaluate(reply) ==
    /\ Running /\ response # Pending
    /\ IF ScoreRaises(reply) THEN Fail
       ELSE /\ results' = Append(results, Row(Current, ScoreWithJudge(Current, response, reply)))
            /\ asked' = Append(asked, [resp |-> response, reply |-> reply])
    /\ response' = Pending
    /\ UNCHANGED <<summary, live>>

PassedRow(row) == Passes(row.scores)

\* _aggregate: averages are kept as sums, the rate as a number of rows.
Aggregate ==
    /\ summary = Unset /\ Len(results) = Len(Examples)
    /\ summary' = [n      |-> Len(results),
                   sums   |-> [k \in 1..5 |-> SumFunction([n \in DOMAIN results |-> results[n].scores[k].score])],
                   passed |-> Cardinality({n \in DOMAIN results : PassedRow(results[n])})]
    /\ UNCHANGED <<response, results, asked, live>>

\* The scores merged into the trace by _push_to_trace, their mean among them.
Stored(scores) == Append(scores, [metric |-> "overall", score |-> Total(scores) \div 5, passed |-> TRUE])

IsMetric(s) == s.metric \in Range(Metric)

\* _trace_to_eval: what is a metric of the stored scores, with a flag of its own.
TraceToEval(stored) ==
    [n \in {n \in DOMAIN stored : IsMetric(stored[n])} |->
        [stored[n] EXCEPT !.passed = stored[n].score >= 36000]]

\* evaluate_chat, and GET /evals after it.
ChatTurn(question, resp, reply) ==
    /\ live = Unset
    /\ ~JudgeRaises(resp, reply)
    /\ LET scores == ScoreWithJudge(question, resp, reply)
       IN  live' = [scores |-> scores, shown |-> TraceToEval(Stored(scores))]
    /\ UNCHANGED <<response, results, asked, summary>>

Next ==
    \/ Answer \/ ChatRaises \/ Aggregate
    \/ \E reply \in Replies : Evaluate(reply)
    \/ \E q \in Questions, resp \in Responses, reply \in Replies : ChatTurn(q, resp, reply)

Spec == Init /\ [][Next]_vars

-----------------------------------------------------------------------------
TypeOK ==
    /\ response \in Responses \cup {Pending}
    /\ Len(asked) <= Len(Examples)
    /\ \A n \in DOMAIN results : \A s \in Range(results[n].scores) :
        s.metric \in Range(Metric) /\ s.score \in Grades /\ s.passed \in BOOLEAN

\* One row per example, in the order of the dataset, whatever failed, and in
\* every row the five metrics in their order.
RowsInOrder ==
    /\ Len(results) = Len(asked)
    /\ \A n \in DOMAIN results :
        /\ results[n].example = Examples[n].id
        /\ [k \in DOMAIN results[n].scores |-> results[n].scores[k].metric] = Metric

\* No row passes whose answer is empty or cites nothing while it retrieved
\* nothing, however generous the judge.
BrokenFails ==
    \A n \in DOMAIN results : asked[n] # Pending =>
        LET resp == asked[n].resp IN
        (resp.answer = {} \/ (resp.citations = <<>> /\ resp.evidence = <<>>))
            => ~Passes(results[n].scores)

\* A row with a failed tool does not pass.
FailureVisible ==
    \A n \in DOMAIN results :
        (asked[n] # Pending /\ FALSE \in Range(asked[n].resp.tools)) => ~Passes(results[n].scores)

\* Naming one more file, supported or not, never raises the heuristic
\* grounding of an answer.
NamingNeverHelps ==
    response # Pending =>
        \A f \in UNION {r.mentions : r \in Responses} :
            Grounding([response EXCEPT !.mentions = @ \cup {f}]).score
                <= Grounding(response).score

\* The rate is backed by the averages: each metric's sum is at least the
\* threshold for every row that counts as passed.
RateBacked ==
    summary # Unset =>
        /\ summary.n = Len(Examples)
        /\ \A k \in 1..5 : summary.sums[k] >= summary.passed * Threshold[Metric[k]]

\* GET /evals computes the same overall from the trace as the evaluation did.
OverviewAgrees == live # Unset => Total(live.shown) = Total(live.scores)

-----------------------------------------------------------------------------
(* What the docs say, where the code does not do it; no run checks these.   *)

\* A grade the judge does not give leaves the heuristic in place.
UnusableFallsBack ==
    \A n \in DOMAIN results :
        (asked[n] # Pending /\ asked[n].reply # NoObject) =>
            /\ asked[n].reply.grounding = NoNumber
                   => results[n].scores[1] = Grounding(asked[n].resp)
            /\ asked[n].reply.relevance = NoNumber
                   => results[n].scores[2] = Relevance(Examples[n], asked[n].resp)

\* Asking the judge never raises.
JudgeNeverRaises ==
    \A reply \in Replies : response # Pending => ~JudgeRaises(response, reply)

\* A keyword whose words are all in the answer is covered.
KeywordsCounted ==
    (response # Pending /\ Running) =>
        \A k \in Current.keywords :
            k \subseteq response.answer => KeywordPresent(k, Terms(response.answer))

\* The flag of a score is the same wherever it is shown.
PassedStable ==
    live # Unset => \A n \in DOMAIN live.scores : live.shown[n].passed = live.scores[n].passed
=============================================================================
