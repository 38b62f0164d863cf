------------------------------ MODULE ReadFile ------------------------------
(***************************************************************************)
(* The read_file tool: a slice of lines out of the first bytes of a file.  *)
(* A file is the sequence of the ends of its lines, in bytes.              *)
(***************************************************************************)
EXTENDS Integers, Sequences, FiniteSets, FiniteSetsExt

CONSTANTS
    Files,     \* files: [ends, binary], ends growing from one line to the next
    Args,      \* [path, start, end, max]: None where an argument is missing
    Budget,    \* ctx.max_output_bytes
    None

ConstantsAssumption ==
    /\ \A f \in Files : /\ Len(f.ends) \in Nat /\ DOMAIN f.ends = 1..Len(f.ends)
                        /\ \A i \in DOMAIN f.ends : f.ends[i] \in Nat \ {0}
                        /\ \A i, j \in DOMAIN f.ends : i < j => f.ends[i] < f.ends[j]
    /\ \A a \in Args : {a.start, a.end, a.max} \subseteq Int \cup {None}
    /\ Budget \in Nat \ {0}
    /\ None \notin Int

VARIABLES file, args, result

vars == <<file, args, result>>

Init == file \in Files /\ args \in Args /\ result = None

-----------------------------------------------------------------------------
(* Faulty variants: one-slip mutations of the definitions below, to show    *)
(* that the properties can fail.  The specification uses none of them.     *)

\* Only the arguments are looked at.
ByteTruncatedNever == FALSE

-----------------------------------------------------------------------------
(* What is read. *)

\* The end of line i, in bytes.
Offset(i) == IF i = 0 THEN 0 ELSE file.ends[i]
Size == Offset(Len(file.ends))

MaxBytes == LET m == IF args.max = None THEN Budget ELSE args.max IN Max({1, Min({m, Budget})})
ByteTruncated == Size > MaxBytes

\* Lines that begin within the bytes that are read.
Total == Cardinality({i \in DOMAIN file.ends : Offset(i - 1) < MaxBytes})

\* _slice_lines.
Low == IF args.start = None THEN 1 ELSE Max({1, args.start})

\* A faulty variant of the next definition: the end is exclusive.
HighOpen == Max({Low, IF args.end = None THEN Total ELSE Min({Total, args.end - 1})})

High == Max({Low, IF args.end = None THEN Total ELSE Min({Total, args.end})})
Slice == IF Total = 0 THEN {} ELSE {i \in Low..High : i <= Total}
LineTruncated ==
    /\ Total > 0
    /\ \/ args.start # None /\ args.start > 1
       \/ args.end # None /\ args.end < Total

\* An empty rendering is shown as "(empty file)".
Run ==
    /\ result = None
    /\ result' = IF args.path # "inside" \/ file.binary
                 THEN [ok |-> FALSE, violation |-> args.path = "outside", lines |-> {}, empty |-> FALSE, truncated |-> FALSE]
                 ELSE [ok |-> TRUE, violation |-> FALSE, lines |-> Slice, empty |-> Slice = {},
                       truncated |-> ByteTruncated \/ LineTruncated]
    /\ UNCHANGED <<file, args>>

Next == Run

Spec == Init /\ [][Next]_vars

-----------------------------------------------------------------------------
(* Properties. *)

Read == result # None /\ result.ok
Whole(i) == Offset(i) <= MaxBytes

\* The numbers in the gutter are those of the file's lines, whatever bounds
\* were asked for: below 1, past the end, or the wrong way round.
TypeOK == Read => result.lines \subseteq DOMAIN file.ends

\* Whatever is left out, by the bytes or by the bounds, is told: a result not
\* marked truncated holds every line of the file whole.
NothingHidden == Read /\ ~result.truncated => /\ result.lines = DOMAIN file.ends
                                              /\ \A i \in result.lines : Whole(i)

\* A request for lines that were read gets exactly those.
Requested ==
    Read /\ args.start # None /\ args.end # None /\ args.start \in 1..args.end /\ args.start <= Total
        => result.lines = args.start..Min({args.end, Total})

-----------------------------------------------------------------------------
(* What the docs say, where the code does not do it; no run checks these.   *)

\* read_file.py:9 "Returns the requested slice with 1-based line-number
\* gutters": lines that the file has are returned and not an empty file.
SliceReturned ==
    Read /\ args.start # None /\ args.start \in DOMAIN file.ends => ~result.empty
=============================================================================
