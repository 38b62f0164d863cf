------------------------------ MODULE Metrics -------------------------------
(***************************************************************************)
(* The five heuristic metrics and the judge that may replace two of them.  *)
(* A text is the set of its words; a file is a directory and a base name;  *)
(* a score is a whole number of parts of One, chosen so that the fractions *)
(* of small answers are exact.                                             *)
(***************************************************************************)
EXTENDS Integers, Sequences, FiniteSets, FiniteSetsExt, SequencesExt

CONSTANTS
    Short,       \* the words of fewer than three letters
    NoNumber,    \* a grade missing from the judge's object, or not a number
    Huge,        \* a grade too large for a float
    NoObject     \* the judge is off, degraded or answers no object

One == 60000

Grades == 0..One

\* EvalMetric, in the canonical order, and the threshold each score must reach.
Metric == <<"grounding", "relevance", "completeness", "tool_success", "retrieval_quality">>

Threshold == [m \in Range(Metric) |->
    CASE m = "grounding"    -> 27000
      [] m = "completeness" -> 45000
      [] m = "tool_success" -> 59400
      [] OTHER              -> 24000]

Score(m, points) == [metric |-> m, score |-> points, passed |-> points >= Threshold[m]]

\* _make: within 0 and 1, to four decimals.
Make(m, points) ==
    LET within == Max({0, Min({One, points})})
    IN  Score(m, 6 * ((within + 3) \div 6))

\* _content_terms of a text, with the default least length.
Terms(text) == text \ Short

Share(part, whole) == IF whole = 0 THEN 0 ELSE (One * part) \div whole

Overlap(claim, support) == Share(Cardinality(claim \cap support), Cardinality(claim))

-----------------------------------------------------------------------------
(* Faulty variants: one-slip mutations of the definitions below, to show    *)
(* that the properties can fail.  The specification uses none of them.     *)

\* The judge is asked about any answer.
JudgeableAny(resp) == TRUE

\* Tools that failed are left out of the count.
ToolSuccessMild(resp) == Make("tool_success", One)

\* Files named without a citation count for the answer.
PenaltyAbsent(resp) == 0 - 6000 * Cardinality(resp.mentions)

\* The judge's grades are put after the scores they replace are taken out.
ReplacedLast(base, judged) ==
    SelectSeq(base, LAMBDA s : \A j \in Range(judged) : j.metric # s.metric) \o judged

\* A grade above 1 is kept.
ClampedBelow(grade) == IF grade = NoNumber THEN 0 ELSE Max({0, grade})

-----------------------------------------------------------------------------
Items(resp) == Range(resp.evidence) \cup Range(resp.citations)

\* _evidence_terms and _citation_terms.
Support(resp) == UNION {i.terms : i \in Items(resp)}

\* _path_is_cited: each of its tests implies that the base names agree.
Uncited(resp) == {p \in resp.mentions : \A i \in Items(resp) : i.file.base # p.base}

Penalty(resp) == Min({24000, 6000 * Cardinality(Uncited(resp))})

\* Citations whose marker the answer contains.
Marked(resp) == {i \in DOMAIN resp.citations : i \in resp.markers}

Grounding(resp) ==
    Make("grounding",
        IF resp.answer = {} \/ Support(resp) = {} THEN 0
        ELSE Overlap(Terms(resp.answer), Support(resp))
             + (3 * Share(Cardinality(Marked(resp)), Len(resp.citations))) \div 20
             - Penalty(resp))

\* _keyword_present: its own words are kept from two letters on.
KeywordPresent(keyword, terms) == keyword \subseteq terms

Coverage(keywords, terms) ==
    Share(Cardinality({k \in keywords : KeywordPresent(k, terms)}), Cardinality(keywords))

\* _length_sanity, in twentieths.
LengthSanity(n) ==
    CASE n <= 5              -> 6
      [] n > 5 /\ n < 20     -> 14 + (6 * (n - 5)) \div 15
      [] n >= 20 /\ n <= 600 -> 20
      [] n > 600             -> 14 + Max({0, (6 * (1200 - n)) \div 600})

Relevance(ex, resp) ==
    LET asked == IF Terms(ex.question) = {} THEN One \div 2
                 ELSE Overlap(Terms(ex.question), Terms(resp.answer))
        core  == IF ex.keywords = {} THEN asked
                 ELSE (asked + Coverage(ex.keywords, Terms(resp.answer))) \div 2
    IN  Make("relevance", IF resp.answer = {} THEN 0
                          ELSE (core * LengthSanity(resp.length)) \div 20)

\* The confidence of a response is always one of the bands.
Completeness(resp) ==
    Make("completeness", (One \div 4) * Cardinality(
        {c \in {"answer", "citation", "next_action", "confidence"} :
            /\ c = "answer"      => resp.answer # {}
            /\ c = "citation"    => resp.citations # <<>>
            /\ c = "next_action" => resp.next_actions > 0}))

ToolSuccess(resp) ==
    Make("tool_success",
        IF resp.tools = <<>> THEN One
        ELSE Share(Cardinality({n \in DOMAIN resp.tools : resp.tools[n]}), Len(resp.tools)))

\* A mean is kept as the sum of the scores.
Total(scored) == SumFunction([n \in DOMAIN scored |-> scored[n].score])

\* The mean against twice the floor, and the breadth, before the labels.
Health(resp) ==
    LET total == Total(resp.evidence)
        mean  == Min({One, (2 * total) \div Len(resp.evidence)})
        files == Cardinality({e.file : e \in Range(resp.evidence)})
    IN  (7 * (IF total > 0 THEN mean ELSE 0) + 3 * Min({One, Share(files, 3)})) \div 10

Labelled(ex, resp) ==
    Share(Cardinality({f \in ex.files : \E i \in Items(resp) : i.file.base = f.base}),
          Cardinality(ex.files))

RetrievalQuality(ex, resp) ==
    Make("retrieval_quality",
        IF resp.evidence = <<>> THEN 0
        ELSE IF ex.files = {} THEN Health(resp)
        ELSE (Health(resp) + Labelled(ex, resp)) \div 2)

AllMetrics(ex, resp) ==
    <<Grounding(resp), Relevance(ex, resp), Completeness(resp), ToolSuccess(resp),
      RetrievalQuality(ex, resp)>>

-----------------------------------------------------------------------------
\* Answers the judge is asked about.
Judgeable(resp) == resp.answer # {} /\ resp.citations # <<>>

\* _clamp01: what is no number becomes 0.
Clamped(grade) == IF grade = NoNumber THEN 0 ELSE Max({0, Min({One, grade})})

\* The judge's two scores, or none when it is not asked or answers nothing usable.
Judged(resp, reply) ==
    IF ~Judgeable(resp) \/ reply = NoObject THEN <<>>
    ELSE <<Score("grounding", Clamped(reply.grounding)), Score("relevance", Clamped(reply.relevance))>>

\* float() of the grade raises, and no clause of _clamp01 catches it.
JudgeRaises(resp, reply) ==
    Judgeable(resp) /\ reply # NoObject /\ Huge \in {reply.grounding, reply.relevance}

\* The judged scores take the places of the heuristic ones.
Replaced(base, judged) ==
    [n \in DOMAIN base |->
        IF \E j \in Range(judged) : j.metric = base[n].metric
        THEN CHOOSE j \in Range(judged) : j.metric = base[n].metric
        ELSE base[n]]

ScoreWithJudge(ex, resp, reply) == Replaced(AllMetrics(ex, resp), Judged(resp, reply))

Passes(scores) == \A s \in Range(scores) : s.passed
=============================================================================
