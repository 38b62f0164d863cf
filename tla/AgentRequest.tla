---------------------------- MODULE AgentRequest ----------------------------
(***************************************************************************)
(* What Orchestrator.chat, debug and review promise about one request: it  *)
(* is accepted, it may run a bounded number of rounds of a bounded number  *)
(* of sandboxed tools, and it is answered once, with every tool result of  *)
(* its rounds at hand, unless an internal error is what it answers.        *)
(* AgentGraph refines this module.                                         *)
(***************************************************************************)
EXTENDS Naturals

CONSTANTS
    MaxRounds,   \* rounds of tools a request may run
    MaxCalls     \* tools a round may run

VARIABLES
    status,      \* "idle", "working" or "answered"
    rounds,      \* rounds of tools run so far
    ran,         \* tools run so far
    answer       \* "none", "informed" by every tool result, or an "error"

vars == <<status, rounds, ran, answer>>

Init == status = "idle" /\ rounds = 0 /\ ran = 0 /\ answer = "none"

Accept ==
    /\ status = "idle"
    /\ status' = "working"
    /\ UNCHANGED <<rounds, ran, answer>>

ToolRound ==
    /\ status = "working"
    /\ rounds < MaxRounds
    /\ rounds' = rounds + 1
    /\ \E n \in 0..MaxCalls : ran' = ran + n
    /\ UNCHANGED <<status, answer>>

Answer ==
    /\ status = "working"
    /\ status' = "answered"
    /\ answer' \in {"informed", "error"}
    /\ UNCHANGED <<rounds, ran>>

Next == Accept \/ ToolRound \/ Answer

Spec == Init /\ [][Next]_vars /\ WF_vars(ToolRound \/ Answer)
=============================================================================
