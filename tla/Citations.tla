----------------------------- MODULE Citations ------------------------------
(***************************************************************************)
(* The retriever node: each planned query is retrieved, the evidence of    *)
(* all is merged and cut, and the citations the user sees and the context  *)
(* the model sees are made from it, one by one and separately.  A hit is a *)
(* span of lines of one file with a score; a text is its length.           *)
(***************************************************************************)
EXTENDS Integers, Sequences, FiniteSets, FiniteSetsExt, SequencesExt

CONSTANTS
    Spans,         \* spans [file, from, to] of the chunks
    Answers,       \* what one retrieval may return: sequences of [span, score]
    Queries,       \* number of planned queries
    Sizes,         \* possible lengths of the texts: functions of the span
    MaxEvidence,   \* _MAX_EVIDENCE
    MaxChars,      \* max_context_chars
    Slack,         \* _BUDGET_SLACK
    Header,        \* length of a block's header
    Join,          \* characters counted for a block's separator
    Worth,         \* a trimmed block must have more room than this
    Ellipsis       \* what is appended to a trimmed block

ConstantsAssumption ==
    /\ {Queries, MaxEvidence, MaxChars, Slack, Header, Join, Worth, Ellipsis} \subseteq Nat
    /\ Join > 0 /\ Ellipsis <= Slack
    /\ Answers \subseteq Seq([span : Spans, score : Int])
    /\ Sizes \subseteq [Spans -> Nat]

VARIABLES
    size,        \* the length of each text
    groups,      \* the evidence of the queries that succeeded
    left,        \* queries not run yet
    warnings,    \* warnings added by the node
    evidence,    \* merged evidence
    citations,   \* [index, span]
    context,     \* [marker, span, length], the blocks of the packed context
    done

vars == <<size, groups, left, warnings, evidence, citations, context, done>>

Init ==
    /\ size \in Sizes
    /\ groups = <<>> /\ left = Queries /\ warnings = 0
    /\ evidence = <<>> /\ citations = <<>> /\ context = <<>> /\ done = FALSE

-----------------------------------------------------------------------------
(* Faulty variants: one-slip mutations of the definitions below, to show    *)
(* that the properties can fail.  The specification uses none of them.     *)

\* The hit seen first is kept, whatever its score.
KeptFirst(h, best) == \E b \in Range(best) : b.span = h.span

\* All queries' evidence is listed, without merging.
UniqueNever(hits) == hits

\* The block that does not fit is added whole.
TrimmedWhole(used, h, n) == <<[marker |-> n, span |-> h.span, length |-> Header + 1 + size[h.span]]>>

-----------------------------------------------------------------------------
(* merge_evidence. *)

\* A hit is dropped for one of the same span with at least its score.
Kept(h, best) == \E b \in Range(best) : b.span = h.span /\ b.score >= h.score

\* A better hit takes the place of the one of its span.
Merged(best, h) ==
    LET Place == CHOOSE i \in DOMAIN best : best[i].span = h.span
    IN  IF Kept(h, best) THEN best
        ELSE IF \E b \in Range(best) : b.span = h.span THEN [best EXCEPT ![Place] = h]
        ELSE Append(best, h)

Unique(hits) == FoldLeft(Merged, <<>>, hits)

\* sorted(..., reverse=True), which is stable.
ByScore(hits) ==
    LET Before(a, b) == hits[a].score > hits[b].score \/ (hits[a].score = hits[b].score /\ a < b)
        order == CHOOSE p \in Injection(DOMAIN hits, DOMAIN hits) :
                    \A i, j \in DOMAIN hits : i < j => Before(p[i], p[j])
    IN  [i \in DOMAIN hits |-> hits[order[i]]]

MergeEvidence == ByScore(Unique(FlattenSeq(groups)))

Cut(s, n) == SubSeq(s, 1, Min({n, Len(s)}))

-----------------------------------------------------------------------------
(* build_citations and pack_context. *)

\* The first of each span, numbered from 1.
Cited(list, h) ==
    IF \E c \in Range(list) : c.span = h.span THEN list
    ELSE Append(list, [index |-> Len(list) + 1, span |-> h.span])

BuildCitations(hits) == FoldLeft(Cited, <<>>, hits)

Budget == Max({0, MaxChars - Slack})
Length(span) == Header + 1 + size[span] + Join

\* The block that does not fit: trimmed when enough of it is left.
Trimmed(used, h, n) ==
    LET room == Budget - used - Header - 2 * Join
    IN  IF room > Worth
        THEN <<[marker |-> n, span |-> h.span, length |-> Header + 1 + room + Ellipsis]>>
        ELSE <<>>

PackContext(hits) ==
    LET used[i \in 0..Len(hits)] == IF i = 0 THEN 0 ELSE used[i - 1] + Length(hits[i].span)
        fit == Max({i \in 0..Len(hits) : used[i] <= Budget})
        whole == [i \in 1..fit |-> [marker |-> i, span |-> hits[i].span, length |-> Length(hits[i].span)]]
    IN  IF fit = Len(hits) THEN whole ELSE whole \o Trimmed(used[fit], hits[fit + 1], fit + 1)

-----------------------------------------------------------------------------
(* The node. *)

\* One query; one that raises leaves a warning.
RunQuery ==
    /\ left > 0 /\ left' = left - 1
    /\ \/ \E g \in Answers : groups' = Append(groups, g) /\ UNCHANGED warnings
       \/ warnings' = warnings + 1 /\ UNCHANGED groups
    /\ UNCHANGED <<size, evidence, citations, context, done>>

Assemble ==
    /\ left = 0 /\ ~done
    /\ LET hits == Cut(MergeEvidence, MaxEvidence)
       IN  /\ evidence' = hits
           /\ citations' = BuildCitations(hits)
           /\ context' = PackContext(hits)
           /\ warnings' = IF hits = <<>> THEN warnings + 1 ELSE warnings
    /\ done' = TRUE
    /\ UNCHANGED <<size, groups, left>>

Next == RunQuery \/ Assemble

Spec == Init /\ [][Next]_vars

-----------------------------------------------------------------------------
(* Properties. *)

Hits == UNION {Range(g) : g \in Range(groups)}
Total(blocks) == FoldLeft(LAMBDA n, b : n + b.length, 0, blocks)

TypeOK ==
    /\ groups \in Seq(Answers) /\ left \in 0..Queries
    /\ Len(evidence) <= MaxEvidence
    /\ warnings \in 0..(Queries + 1)

\* The [n] the model reads and the [n] the user is shown are the same lines,
\* although citations are deduplicated and blocks are not, and blocks are
\* dropped for the budget and citations are not.
MarkersAgree ==
    done => /\ Len(citations) = Len(evidence)
            /\ \A i \in DOMAIN context : /\ context[i].marker = i
                                         /\ context[i].span = citations[i].span

\* Nothing better is left out: the evidence is the best hit of each span over
\* all queries, and what it leaves out scores no more than what it holds.
BestKept ==
    done => \A h \in Hits :
        \/ \E i \in DOMAIN evidence : evidence[i].span = h.span /\ evidence[i].score >= h.score
        \/ Len(evidence) = MaxEvidence /\ \A i \in DOMAIN evidence : evidence[i].score >= h.score

\* The packed context stays within max_context_chars, the trimmed block and
\* its mark included.
WithinBudget == done => Total(context) <= MaxChars

-----------------------------------------------------------------------------
(* What the docs say, where the code does not do it; no run checks these.   *)

\* citations.py:40 "Overlapping chunks from the same file are collapsed to the
\* highest-ranked occurrence": no two citations share lines.
CitationsDisjoint ==
    \A i, j \in DOMAIN citations :
        LET a == citations[i].span  b == citations[j].span
        IN  i # j /\ a.file = b.file => a.to < b.from \/ b.to < a.from
=============================================================================
