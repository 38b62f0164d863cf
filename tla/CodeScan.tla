------------------------------ MODULE CodeScan ------------------------------
(***************************************************************************)
(* The tools that walk the workspace and read its files: static_analysis   *)
(* and dep_tree.  The walk gives files in an order; each is skipped, noted *)
(* as unreadable or analysed, until a limit is reached.                    *)
(***************************************************************************)
EXTENDS Integers, Sequences, FiniteSets

CONSTANTS
    Walks,      \* sequences of files: [dir, source, big, readable, parses, issues]
    Tree,       \* the parent of each directory; the root is its own
    Root,       \* the directory that is walked
    Inits,      \* sets of directories that have an __init__.py
    MaxFiles,   \* max_files
    MaxDepth,   \* depth of dep_tree
    None

Dirs == DOMAIN Tree

ConstantsAssumption ==
    /\ \A w \in Walks : Len(w) \in Nat /\ DOMAIN w = 1..Len(w)
    /\ Root \in Dirs /\ \A d \in Dirs : Tree[d] \in Dirs
    /\ MaxFiles \in Nat \ {0} /\ MaxDepth \in Nat \ {0}

VARIABLES
    tool,        \* "static_analysis" or "dep_tree"
    walk,        \* the files of the walk, in order
    inits,       \* directories with an __init__.py
    next,        \* the next file of the walk
    scanned,     \* files counted as analysed
    notes,       \* findings and warnings: [kind, at]
    truncated,   \* the limit stopped the walk
    done

vars == <<tool, walk, inits, next, scanned, notes, truncated, done>>

Init ==
    /\ tool \in {"static_analysis", "dep_tree"} /\ walk \in Walks /\ inits \in Inits
    /\ next = 1 /\ scanned = 0 /\ notes = {} /\ truncated = FALSE /\ done = FALSE

Note(kind, at) == [kind |-> kind, at |-> at]

\* Steps from a directory up to the root.
Depth == [d \in Dirs |-> Cardinality({n \in 1..Cardinality(Dirs) :
             LET up[i \in 0..n] == IF i = 0 THEN d ELSE Tree[up[i - 1]] IN up[n - 1] # Root})]

-----------------------------------------------------------------------------
(* Faulty variants: one-slip mutations of the definitions below, to show    *)
(* that the properties can fail.  The specification uses none of them.     *)

\* The walk stops at the limit without saying so.
StopQuietly ==
    /\ ~done /\ next <= Len(walk) /\ scanned >= MaxFiles
    /\ next' = Len(walk) + 1
    /\ UNCHANGED <<tool, walk, inits, scanned, notes, truncated, done>>

\* A file that cannot be read is skipped.
UnreadableSkipped(f) == {}

\* A file that does not parse is not counted.
CountedParsed(f) == IF f.parses THEN 1 ELSE 0

\* Every directory of the walk is looked at, also the root.
PackageDirsAll == {walk[i].dir : i \in DOMAIN walk}

-----------------------------------------------------------------------------
(* The walk. *)

\* dep_tree does not go below max_depth; static_analysis goes everywhere.
Yielded(f) == tool = "dep_tree" => Depth[f.dir] <= MaxDepth

\* The suffix and size a tool reads.
Eligible(f) == Yielded(f) /\ f.source /\ ~f.big

Unreadable(f) == {Note("read-error", next)}
Counted(f) == 1

\* A source that does not parse is a finding or a warning; markers, bare
\* excepts, long functions and prints are findings of static_analysis.
Analysed(f) ==
    (IF f.parses THEN {} ELSE {Note("syntax-error", next)})
    \union (IF tool = "static_analysis" /\ f.issues THEN {Note("issue", next)} ELSE {})

Stop ==
    /\ ~done /\ next <= Len(walk) /\ scanned >= MaxFiles
    /\ truncated' = TRUE /\ next' = Len(walk) + 1
    /\ UNCHANGED <<tool, walk, inits, scanned, notes, done>>

ScanFile ==
    /\ ~done /\ next <= Len(walk) /\ scanned < MaxFiles
    /\ LET f == walk[next]
       IN  IF ~Eligible(f) THEN UNCHANGED <<scanned, notes>>
           ELSE IF ~f.readable THEN notes' = notes \union Unreadable(f) /\ UNCHANGED scanned
           ELSE notes' = notes \union Analysed(f) /\ scanned' = scanned + Counted(f)
    /\ next' = next + 1
    /\ UNCHANGED <<tool, walk, inits, truncated, done>>

\* Directories of the files analysed: a file is when the limit was not
\* reached before it.
Before(i) == Cardinality({j \in 1..(i - 1) : Eligible(walk[j]) /\ walk[j].readable})
Reached(i) == Eligible(walk[i]) /\ walk[i].readable /\ Before(i) < MaxFiles
PackageDirs == {walk[i].dir : i \in {i \in DOMAIN walk : Reached(i)}} \ {Root}

\* The missing __init__.py, of directories below a package.
MissingInits ==
    IF tool = "dep_tree" THEN {}
    ELSE {Note("missing-init", d) : d \in {d \in PackageDirs : d \notin inits /\ Tree[d] \in inits}}

Report ==
    /\ ~done /\ next > Len(walk)
    /\ notes' = notes \union MissingInits
    /\ done' = TRUE
    /\ UNCHANGED <<tool, walk, inits, next, scanned, truncated>>

Next == Stop \/ ScanFile \/ Report

Spec == Init /\ [][Next]_vars

-----------------------------------------------------------------------------
(* Properties. *)

Clean == done /\ notes = {}

\* The counter of the limit counts every file that was analysed, those that
\* do not parse included, and never passes it.
TypeOK ==
    /\ next \in 1..(Len(walk) + 1)
    /\ scanned <= MaxFiles
    /\ done /\ ~truncated =>
         scanned = Cardinality({i \in DOMAIN walk : Eligible(walk[i]) /\ walk[i].readable})

\* A clean report that was not cut is right: all sources were read, parse and
\* show nothing.
CleanIsClean ==
    Clean /\ ~truncated => \A i \in DOMAIN walk : Eligible(walk[i]) =>
        walk[i].parses /\ walk[i].readable /\ (tool = "static_analysis" => ~walk[i].issues)

\* The limit never hides itself: a source left unread by it marks the result.
CutIsTold == done /\ ~truncated => \A i \in DOMAIN walk : Eligible(walk[i]) => Before(i) < MaxFiles

\* Only directories that hold analysed modules and lie in a package are
\* reported to lack an __init__.py, the walked root never.
InitsRight ==
    \A n \in notes : n.kind = "missing-init" =>
        /\ n.at # Root /\ n.at \notin inits /\ Tree[n.at] \in inits
        /\ \E i \in DOMAIN walk : walk[i].dir = n.at /\ Eligible(walk[i]) /\ walk[i].readable
=============================================================================
