---------------------------- MODULE MCAgentGraph ----------------------------
(***************************************************************************)
(* Instances of AgentGraph for TLC.                                        *)
(***************************************************************************)
EXTENDS AgentGraph, TLC

CONSTANTS r1, r2

TwoRepos == {r1, r2}
TwoHomes == r1 :> "w1" @@ r2 :> "w2"
=============================================================================
