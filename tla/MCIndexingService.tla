-------------------------- MODULE MCIndexingService -------------------------
(***************************************************************************)
(* Instances of IndexingService for TLC.                                   *)
(***************************************************************************)
EXTENDS IndexingService, TLC

CONSTANTS j1, j2, c1

OneJob == {j1}
TwoJobs == {j1, j2}
NoClient == {}
OneClient == {c1}
Local == {"local"}
Git == {"git"}
AnySource == {"local", "git"}

\* Jobs are only compared for equality in the safety properties.
JobSymmetry == Permutations(Jobs)
=============================================================================
