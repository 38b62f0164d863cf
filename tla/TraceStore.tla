----------------------------- MODULE TraceStore -----------------------------
(***************************************************************************)
(* The trace store: what request threads write to Redis when they finish a *)
(* trace (telemetry), score it (evals.online, routes.chat) and what        *)
(* GET /traces and GET /evals read back.                                   *)
(*                                                                         *)
(* Every Redis command is a step of its own and may fail; the callers      *)
(* swallow the failure.  A trace is named by the request it belongs to.    *)
(* What is kept of a record is its scores: for each kind of score, who     *)
(* wrote it last.                                                          *)
(***************************************************************************)
EXTENDS Naturals, Sequences, SequencesExt, FiniteSets

CONSTANTS
    Requests,     \* requests, each with one trace
    Chats,        \* those of POST /chat/query; the others debug or review
    MaxTraces,    \* _MAX_TRACES
    MaxEvals,     \* _MAX_EVALS
    Limit,        \* how many traces a reader asks for
    Filters,      \* the workflows readers ask for, None for all of them
    MaxFaults,    \* bound: Redis commands that fail
    None          \* no record, no filter, nobody

ASSUME ConstantsAssumption ==
    /\ Chats \subseteq Requests
    /\ MaxTraces \in Nat \ {0}
    /\ MaxEvals \in Nat \ {0}
    /\ Limit \in Nat \ {0}
    /\ MaxFaults \in Nat
    /\ None \notin Requests
    /\ IsFiniteSet(Requests)

VARIABLES
    init,     \* [at, by]: how far the first call of _redis() is, and who makes it
    client,   \* _redis_client is set
    records,  \* Redis: tracepilot:trace:{id}
    index,    \* Redis: tracepilot:traces
    evals,    \* Redis: tracepilot:evals, as the ids of the traces scored
    pc,       \* what each request thread does next
    mem,      \* the scores of the TraceRecord each thread holds
    reader,   \* one reader in list_traces
    faults,   \* commands that failed so far
    pushed,   \* history: ids in the order they were pushed
    expired   \* history: ids whose record lived out its time

vars == <<init, client, records, index, evals, pc, mem, reader, faults, pushed, expired>>

\* Scores the judge node and the metrics both write, those only the metrics
\* write, and the mean that only _push_to_trace writes.
Metrics == {"grounding", "tool_success"}
Names == Metrics \union {"overall"}
Writers == {"none", "judge", "metrics"}
Scores == [Names -> Writers]
Unscored == [n \in Names |-> "none"]
Judged == [Unscored EXCEPT !.grounding = "judge"]

ASSUME NoneAssumption == None \notin Scores

Steps == {"running", "persist", "set", "lrem", "lpush", "trim", "eval_load", "eval_set",
          "evals_push", "evals_trim", "score_load", "score_set", "done"}

Init ==
    /\ init = [at |-> "no", by |-> None] /\ client = FALSE
    /\ records = [r \in Requests |-> None]
    /\ index = <<>> /\ evals = <<>>
    /\ pc = [r \in Requests |-> "running"]
    /\ mem = [r \in Requests |-> Unscored]
    /\ reader = [at |-> "idle", want |-> None, ids |-> <<>>, out |-> <<>>]
    /\ faults = 0 /\ pushed = <<>> /\ expired = {}

Redis == <<records, index, evals>>
History == <<pushed, expired>>
Connection == <<init, client>>

\* LRANGE key 0 n, whose end is included, and LTRIM key 0 n.
Upto(n, s) == SubSeq(s, 1, IF Len(s) < n + 1 THEN Len(s) ELSE n + 1)

Goto(r, step) == pc' = [pc EXCEPT ![r] = step]

-----------------------------------------------------------------------------
(* Faulty variants: one-slip mutations of the definitions below, to show    *)
(* that the properties can fail.  The specification uses none of them.     *)

\* The index is pushed first.
PersistIndexFirst(r) ==
    /\ pc[r] = "persist"
    /\ Goto(r, IF client THEN "lrem" ELSE IF r \in Chats THEN "eval_load" ELSE "done")
    /\ UNCHANGED <<Connection, Redis, mem, reader, faults, History>>

\* The end is taken for excluded.
TrimmedShort(s) == IF MaxTraces = 1 THEN <<>> ELSE Upto(MaxTraces - 2, s)

\* The end is taken for a length.
TrimmedLong(s) == Upto(MaxTraces, s)

\* The record of the first load is written back.
ScoreLoadStale(r) ==
    /\ pc[r] = "score_load"
    /\ Goto(r, IF client /\ records[r] # None THEN "score_set" ELSE "done")
    /\ mem' = [mem EXCEPT ![r] = [n \in Names |-> IF n \in Metrics THEN "metrics" ELSE Judged[n]]]
    /\ UNCHANGED <<Connection, Redis, reader, faults, History>>

\* Checked before the record is added.
FullAfter(out) == Len(out) > Limit

\* The failure is let through, and the thread ends there.
FaultEscapes(r, next) ==
    /\ faults < MaxFaults
    /\ faults' = faults + 1
    /\ Goto(r, "raised")
    /\ UNCHANGED <<Connection, Redis, mem, reader, History>>

-----------------------------------------------------------------------------
(* telemetry._redis: one client for the process, built by the first caller. *)

\* _redis_init is set before the client is built and pinged.
Initialise(r) ==
    /\ pc[r] = "persist"
    /\ init.at = "no"
    /\ init' = [at |-> "building", by |-> r]
    /\ UNCHANGED <<client, Redis, pc, mem, reader, faults, History>>

Build ==
    /\ init.at = "building"
    /\ init' = [init EXCEPT !.at = "pinging"]
    /\ client' = TRUE
    /\ UNCHANGED <<Redis, pc, mem, reader, faults, History>>

\* A client that cannot be pinged is dropped, for as long as the process lives.
Ping(ok) ==
    /\ init.at = "pinging"
    /\ init' = [at |-> "done", by |-> None]
    /\ ok \/ faults < MaxFaults
    /\ client' = ok
    /\ faults' = IF ok THEN faults ELSE faults + 1
    /\ UNCHANGED <<Redis, pc, mem, reader, History>>

\* _redis() returns to r at once: it is not the call that builds the client.
Answers(r) == init.at # "no" /\ init.by # r

-----------------------------------------------------------------------------
(* A request thread. *)

\* A command of the thread raised, and its caller went on with `next`.
Fault(r, next) ==
    /\ faults < MaxFaults
    /\ faults' = faults + 1
    /\ Goto(r, next)
    /\ UNCHANGED <<Connection, Redis, mem, reader, History>>

\* The graph has run, its judge node has scored the trace, or has not been
\* reached because a node raised; Tracer.finish calls _persist.
Finish(r) ==
    /\ pc[r] = "running"
    /\ \E s \in {Unscored, Judged} : mem' = [mem EXCEPT ![r] = s]
    /\ Goto(r, "persist")
    /\ UNCHANGED <<Connection, Redis, reader, faults, History>>

\* Only POST /chat/query goes on to the online evaluation.
AfterPersist(r) == IF r \in Chats THEN "eval_load" ELSE "done"

Persist(r) ==
    /\ pc[r] = "persist"
    /\ Goto(r, IF client THEN "set" ELSE AfterPersist(r))
    /\ UNCHANGED <<Connection, Redis, mem, reader, faults, History>>

\* SET of the record the thread holds.
SetRecord(r, step, next, failed) ==
    /\ pc[r] = step
    /\ \/ /\ records' = [records EXCEPT ![r] = mem[r]]
          /\ Goto(r, next)
          /\ UNCHANGED <<Connection, index, evals, mem, reader, faults, History>>
       \/ Fault(r, failed)

Lrem(r) ==
    /\ pc[r] = "lrem"
    /\ \/ /\ index' = IF r \in Range(index) THEN Remove(index, r) ELSE index
          /\ Goto(r, "lpush")
          /\ UNCHANGED <<Connection, records, evals, mem, reader, faults, History>>
       \/ Fault(r, AfterPersist(r))

Lpush(r) ==
    /\ pc[r] = "lpush"
    /\ \/ /\ index' = <<r>> \o index
          /\ pushed' = Append(pushed, r)
          /\ Goto(r, "trim")
          /\ UNCHANGED <<Connection, records, evals, mem, reader, faults, expired>>
       \/ Fault(r, AfterPersist(r))

Trimmed(s) == Upto(MaxTraces - 1, s)

Trim(r) ==
    /\ pc[r] = "trim"
    /\ \/ /\ index' = Trimmed(index)
          /\ Goto(r, AfterPersist(r))
          /\ UNCHANGED <<Connection, records, evals, mem, reader, faults, History>>
       \/ Fault(r, AfterPersist(r))

\* load_trace, and the scores merged into what it found.
LoadRecord(r, step, merged, next, missing) ==
    /\ pc[r] = step
    /\ \/ /\ Goto(r, IF client /\ records[r] # None THEN next ELSE missing)
          /\ mem' = IF client /\ records[r] # None
                    THEN [mem EXCEPT ![r] = [n \in Names |-> IF n \in merged THEN "metrics" ELSE records[r][n]]]
                    ELSE mem
          /\ UNCHANGED <<Connection, Redis, reader, faults, History>>
       \/ client /\ Fault(r, missing)

\* evals.online._push_to_trace.
EvalLoad(r) == LoadRecord(r, "eval_load", Names, "eval_set", "evals_push")

\* evals.online._persist.
EvalsPush(r) ==
    /\ pc[r] = "evals_push"
    /\ \/ /\ evals' = IF client THEN <<r>> \o evals ELSE evals
          /\ Goto(r, IF client THEN "evals_trim" ELSE "score_load")
          /\ UNCHANGED <<Connection, records, index, mem, reader, faults, History>>
       \/ client /\ Fault(r, "score_load")

EvalsTrim(r) ==
    /\ pc[r] = "evals_trim"
    /\ \/ /\ evals' = Upto(MaxEvals - 1, evals)
          /\ Goto(r, "score_load")
          /\ UNCHANGED <<Connection, records, index, mem, reader, faults, History>>
       \/ Fault(r, "score_load")

\* routes.chat._push_scores, which knows the metrics and not their mean, and
\* writes through a client of its own.
ScoreLoad(r) == LoadRecord(r, "score_load", Metrics, "score_set", "done")

Request(r) ==
    \/ Finish(r) \/ Initialise(r) \/ (Answers(r) /\ Persist(r))
    \/ SetRecord(r, "set", "lrem", AfterPersist(r)) \/ Lrem(r) \/ Lpush(r) \/ Trim(r)
    \/ EvalLoad(r) \/ SetRecord(r, "eval_set", "evals_push", "evals_push")
    \/ EvalsPush(r) \/ EvalsTrim(r)
    \/ ScoreLoad(r) \/ SetRecord(r, "score_set", "done", "done")

\* A record lives seven days from its last SET; a request does not.
Expire(r) ==
    /\ pc[r] = "done"
    /\ records[r] # None
    /\ records' = [records EXCEPT ![r] = None]
    /\ expired' = expired \union {r}
    /\ UNCHANGED <<Connection, index, evals, pc, mem, reader, faults, pushed>>

-----------------------------------------------------------------------------
(* list_traces, for GET /traces (which may filter by workflow) and for      *)
(* GET /evals.                                                             *)

Workflow(r) == IF r \in Chats THEN "chat" ELSE "debug"
Full(out) == Len(out) >= Limit

\* LRANGE; a failure of a command makes the whole list empty.
ListTraces(want) ==
    /\ reader.at = "idle"
    /\ init.at \in {"pinging", "done"} /\ client
    /\ reader' = [at |-> "get", want |-> want, ids |-> Upto(3 * Limit, index), out |-> <<>>]
    /\ UNCHANGED <<Connection, Redis, pc, mem, faults, History>>

ListFault ==
    /\ reader.at = "get" /\ faults < MaxFaults
    /\ faults' = faults + 1
    /\ reader' = [reader EXCEPT !.at = "idle", !.ids = <<>>, !.out = <<>>]
    /\ UNCHANGED <<Connection, Redis, pc, mem, History>>

Get ==
    /\ reader.at = "get" /\ reader.ids # <<>> /\ ~Full(reader.out)
    /\ LET r == Head(reader.ids)
           shown == records[r] # None /\ reader.want \in {None, Workflow(r)}
       IN  reader' = [reader EXCEPT !.ids = Tail(@),
                        !.out = IF shown THEN Append(@, [id |-> r, scores |-> records[r]]) ELSE @]
    /\ UNCHANGED <<Connection, Redis, pc, mem, faults, History>>

Answer ==
    /\ reader.at = "get" /\ (reader.ids = <<>> \/ Full(reader.out))
    /\ reader' = [reader EXCEPT !.at = "idle", !.ids = <<>>]
    /\ UNCHANGED <<Connection, Redis, pc, mem, faults, History>>

\* routes.evals.get_evals: the listed traces that have a metric among their
\* scores; "overall" is the name of none.
Overview(out) == {t \in Range(out) : \E n \in Metrics : t.scores[n] # "none"}

-----------------------------------------------------------------------------

Next ==
    \/ \E r \in Requests : Request(r) \/ Expire(r)
    \/ Build \/ \E ok \in BOOLEAN : Ping(ok)
    \/ \E want \in Filters : ListTraces(want)
    \/ Get \/ Answer \/ ListFault

\* The threads run: nothing is assumed of readers, of time, or of failures.
Fairness ==
    /\ \A r \in Requests : WF_vars(Request(r))
    /\ WF_vars(Build) /\ WF_vars(\E ok \in BOOLEAN : Ping(ok))

Spec == Init /\ [][Next]_vars
FairSpec == Spec /\ Fairness

-----------------------------------------------------------------------------
(* Properties. *)

\* Every variable keeps its type, and no request is pushed twice.
TypeOK ==
    /\ init \in [at : {"no", "building", "pinging", "done"}, by : Requests \union {None}]
    /\ client \in BOOLEAN
    /\ records \in [Requests -> Scores \union {None}]
    /\ Range(index) \subseteq Requests /\ Range(evals) \subseteq Requests
    /\ pc \in [Requests -> Steps]
    /\ mem \in [Requests -> Scores]
    /\ reader.at \in {"idle", "get"}
    /\ faults \in 0..MaxFaults
    /\ IsInjective(pushed)

\* An id in the index has its record, or had it until it expired: the record
\* is set before the id is pushed, and a failure in between leaves a record
\* without an id, never an id without a record (telemetry._persist).
IndexedHasRecord == \A r \in Range(index) : records[r] # None \/ r \in expired

\* The index holds the most recent traces, newest first, and at least as many
\* as the bound allows, whatever pushes and trims of other threads come in
\* between and whichever of them fail (telemetry._persist).
IndexIsNewest ==
    /\ IsPrefix(index, Reverse(pushed))
    /\ Len(index) >= (IF Len(pushed) < MaxTraces THEN Len(pushed) ELSE MaxTraces)

\* It is longer than the bound only by what is pushed and not yet trimmed; a
\* trim that failed is made good by the next.
IndexBounded ==
    Len(index) <= MaxTraces + faults + Cardinality({r \in Requests : pc[r] = "trim"})

\* The three writers of a record never take a score back: what the metrics
\* wrote is not undone by a thread that wrote what it had read before
\* (online._push_to_trace, chat._push_scores).
ScoresOnlyGrow ==
    [][\A r \in Requests : records[r] # None /\ records'[r] # None =>
          \A n \in Names : \/ records'[r][n] = "metrics"
                           \/ records'[r][n] = records[r][n]]_records

\* A list shows each trace once, no more of them than asked for, newest first,
\* although the index is read once and the records one by one while other
\* threads push (telemetry.list_traces).
ListingSound ==
    /\ Len(reader.out) <= Limit
    /\ LET ids == [i \in DOMAIN reader.out |-> reader.out[i].id]
       IN  \A i, j \in DOMAIN ids : i < j =>
              \E a, b \in DOMAIN pushed : b < a /\ pushed[a] = ids[i] /\ pushed[b] = ids[j]

\* All that a list of traces rests on, at every moment of every thread.
IndexSound ==
    TypeOK /\ IndexedHasRecord /\ IndexIsNewest /\ IndexBounded /\ ListingSound

\* Whatever Redis does, every request comes to its end.
RequestsEnd == \A r \in Requests : <>(pc[r] = "done")

-----------------------------------------------------------------------------
(* What the docs say, where the code does not do it; no run checks these.   *)

\* README.md:9 "Every model call, retrieval, and tool run is traced": with a
\* Redis that never fails, a request that ended has its trace.
EveryRequestTraced ==
    faults = 0 => \A r \in Requests : pc[r] = "done" => records[r] # None \/ r \in expired

\* routes/evals.py:3-4 "derives recent EvalResult objects from persisted traces
\* (the scores online evaluation pushed onto each trace)": what it shows of
\* a request that ended has been evaluated.
OverviewEvaluated ==
    \A t \in Overview(reader.out) : pc[t.id] = "done" => t.scores.overall = "metrics"

\* online.py:28 "Redis list the API's GET /evals reads from": once the
\* requests have ended, an answer shows the newest result of that list.
OverviewReadsEvals ==
    [][(/\ reader.at = "get" /\ reader'.at = "idle" /\ faults' = 0
        /\ evals # <<>> /\ records[Head(evals)] # None /\ \A r \in Requests : pc[r] = "done")
       => \E t \in Overview(reader'.out) : t.id = Head(evals)]_reader
=============================================================================
