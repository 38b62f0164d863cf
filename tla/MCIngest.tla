------------------------------ MODULE MCIngest ------------------------------
(***************************************************************************)
(* Instances of Ingest for TLC.                                            *)
(***************************************************************************)
EXTENDS Ingest, TLC

CONSTANTS r1, r2, a, b

OneRun == {r1}
TwoRuns == {r1, r2}
TwoBodies == {a, b}

\* A blank file, one chunk, and two files of two chunks that share the first
\* or the second of them.
MixedVersions == {<<>>, <<a>>, <<a, b>>, <<b, b>>}
SmallVersions == {<<a>>, <<a, b>>}

AllFiles == {Files}
AnyFiles == {Files, {1}}

RunSymmetry == Permutations(Runs)
=============================================================================
