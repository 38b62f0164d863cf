------------------------------ MODULE MCTraces ------------------------------
(***************************************************************************)
(* Traces and their scores: the threads that persist and list traces, which *)
(* this module extends, and the evaluation of a dataset and of a chat turn, *)
(* whose scores the traces hold.  What runs is chosen at the start; the     *)
(* trace store stays as it begins, or the variables of Evals are Idle.      *)
(***************************************************************************)
EXTENDS TraceStore

CONSTANTS
    Idle,
    Examples, DatasetResponses,        \* of the run of a dataset
    Questions, ChatResponses,          \* of a chat turn
    Replies, Short,                    \* of both
    NoNumber, Huge, NoObject, Pending

CONSTANTS c1, d1, d2, wordA, wordB, wordDb      \* members of the sets below

VARIABLES
    scene,       \* "store", "dataset" or "online"
    response, results, asked, summary, live

evalVars == <<response, results, asked, summary, live>>
allVars == <<scene, vars, evalVars>>

\* A chat, which is scored, and two debug requests, which are not.
DebugMostly == {c1, d1, d2}
OneChat == {c1}
AnyReader == {None, "chat"}

-----------------------------------------------------------------------------
(* A dataset of two, answers of every shape and a judge that may reply      *)
(* anything.                                                               *)

File(d, n) == [dir |-> d, base |-> n]
TwoExamples ==
    <<[id |-> 1, question |-> {wordA, wordDb}, keywords |-> {{wordA}, {wordB, wordDb}}, files |-> {File("x", "f"), File("x", "g")}],
      [id |-> 2, question |-> {}, keywords |-> {}, files |-> {}]>>
OneQuestion == {[id |-> 0, question |-> {wordA, wordDb}, keywords |-> {}, files |-> {}]}

Cite(t, f) == [terms |-> t, file |-> f]
Found(t, f, s) == [terms |-> t, file |-> f, score |-> s]
Citations == {<<>>, <<Cite({wordA}, File("x", "f"))>>,
              <<Cite({wordA, wordB}, File("x", "f")), Cite({}, File("y", "f"))>>}
Evidence == {<<>>, <<Found({wordB}, File("x", "g"), 12000)>>,
             <<Found({wordA}, File("x", "f"), 60000), Found({wordA}, File("x", "g"), 0)>>}
AllResponses ==
    {[answer |-> t, length |-> n, mentions |-> m, markers |-> k, citations |-> c,
      evidence |-> e, next_actions |-> 1, tools |-> o] :
        t \in {{}, {wordA}, {wordA, wordB, wordDb}}, n \in {4, 40}, m \in {{}, {File("x", "f"), File("x", "z")}},
        k \in {{}, {1}}, c \in Citations, e \in Evidence, o \in {<<>>, <<TRUE, FALSE>>}}

\* Fewer, for the dataset: every mix of evidence, citations and tools, and
\* one of them with every length, mention and marker.
SomeResponses ==
    {r \in AllResponses : r.length = 40 /\ r.mentions = {} /\ r.markers = {} /\ Len(r.citations) # 1}
    \union {r \in AllResponses : r.answer = {wordA} /\ Len(r.citations) = 1 /\ Len(r.evidence) = 1 /\ r.tools = <<>>}

ShortWords == {wordDb}
Reply(g, r) == [grounding |-> g, relevance |-> r]
AnyReply == {NoObject, Reply(60000, 90000), Reply(26000, 30000), Reply(NoNumber, 60000), Reply(Huge, 0)}

Dataset == INSTANCE Evals WITH Questions <- {}, Responses <- DatasetResponses
Online == INSTANCE Evals WITH Examples <- <<>>, Responses <- ChatResponses

ASSUME Assumptions == Dataset!ConstantsAssumption /\ Online!ConstantsAssumption

-----------------------------------------------------------------------------

IdleEvals == response = Idle /\ results = Idle /\ asked = Idle /\ summary = Idle /\ live = Idle

TracesInit ==
    /\ Init
    /\ \/ scene = "store" /\ IdleEvals
       \/ scene = "dataset" /\ Dataset!Init
       \/ scene = "online" /\ Online!Init

TracesNext ==
    /\ UNCHANGED scene
    /\ \/ scene = "store" /\ Next /\ UNCHANGED evalVars
       \/ scene = "dataset" /\ Dataset!Next /\ UNCHANGED vars
       \/ scene = "online" /\ Online!Next /\ UNCHANGED vars

TracesSpec == TracesInit /\ [][TracesNext]_allVars

-----------------------------------------------------------------------------
(* The properties of Evals; IndexSound and ScoresOnlyGrow are those of       *)
(* TraceStore.                                                             *)

\* One row per example, in the order of the dataset, whatever failed; the rate
\* of passed rows is backed by the averages; and GET /evals computes the same
\* overall from the trace as the evaluation did (offline.py, routes/evals.py).
RowsRight ==
    /\ scene = "dataset" => Dataset!RowsInOrder /\ Dataset!RateBacked
    /\ scene = "online" => Online!OverviewAgrees

\* However generous the judge, no score leaves the range of 0 to 1, no row
\* passes whose answer is empty, that cites and retrieved nothing, or of which
\* a tool failed; and naming one more file never raises the grounding.
GradesBacked ==
    scene = "dataset" =>
        /\ Dataset!TypeOK /\ Dataset!BrokenFails
        /\ Dataset!FailureVisible /\ Dataset!NamingNeverHelps
=============================================================================
