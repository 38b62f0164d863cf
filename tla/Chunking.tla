------------------------------ MODULE Chunking ------------------------------
(***************************************************************************)
(* chunk_file: how the text of a file is cut into chunks.  A line is       *)
(* blank, a heading or text; a syntax tree is its nodes, each with its     *)
(* rows and its parent.  A chunk is a range of lines and the definition or *)
(* heading it belongs to; the text of a chunk is those lines.              *)
(***************************************************************************)
EXTENDS Integers, FiniteSets, FiniteSetsExt

CONSTANTS
    Files,     \* the files given to chunk_file
    Window,    \* WINDOW_LINES
    Overlap,   \* WINDOW_OVERLAP
    None       \* no symbol; the chunks before chunk_file has run

ConstantsAssumption ==
    /\ Window \in Nat \ {0}
    /\ Overlap \in Nat /\ Overlap < Window
    /\ \A f \in Files :
          /\ f.n \in Nat /\ f.heads \subseteq 1..f.n
          /\ None \notin f.heads /\ None \notin DOMAIN f.nodes
          /\ \A d \in DOMAIN f.nodes :
                f.nodes[d].from \in 1..f.n /\ f.nodes[d].to \in f.nodes[d].from..f.n

VARIABLES
    file,    \* [lang, n, blank, heads, feeds, parser, nodes], a node is [from, to, def, above]
    chunks   \* what chunk_file returns, as a set of [from, to, symbol]

vars == <<file, chunks>>

Init == file \in Files /\ chunks = None

\* A language of each sort; None is a name no table knows.
MarkdownLangs == {"markdown"}
DocLangs == {"rst"}
ConfigLangs == {"json"}
TreeSitterLangs == {"python", "json"}
\* classify_chunk.
ChunkType(lang) ==
    IF lang = None THEN "unknown"
    ELSE IF lang \in MarkdownLangs THEN "markdown"
    ELSE IF lang \in DocLangs THEN "doc"
    ELSE IF lang \in ConfigLangs THEN "config"
    ELSE "code"

\* _get_parser: the grammar may be missing, and parsing may raise.
Parsed == file.lang \in TreeSitterLangs /\ file.parser

Chunk(a, b, s) == [from |-> a, to |-> b, symbol |-> s]

\* A faulty variant of the next definition: blank pieces are kept.
BlankNever(a, b) == FALSE

\* lines[a:b].strip() is empty.
Blank(a, b) == (a + 1)..b \subseteq file.blank

-----------------------------------------------------------------------------
(* Faulty variants: one-slip mutations of the definitions below, to show    *)
(* that the properties can fail.  The specification uses none of them.     *)

\* Windows go on after the one that reaches the end.
WindowsNoBreak(a, b) ==
    {Chunk(i + 1, Min({i + Window, b}), None) :
        i \in {i \in {a + k * (Window - Overlap) : k \in 0..(b - a)} :
                  i < b /\ ~Blank(i, Min({i + Window, b}))}}

\* The overlap is one line short.
StepLong == Window - Overlap + 1

\* What follows the last definition is forgotten.
TrailingNone == {}

\* Definitions are never windowed.
DefinitionChunksWhole(d) == {c \in {Chunk(d.from, d.to, d.name)} : ~Blank(d.from - 1, d.to)}

\* The walk descends into definitions.
ReachedAll(d) == TRUE

-----------------------------------------------------------------------------
(* Windows. *)

Step == IF Window - Overlap > 1 THEN Window - Overlap ELSE 1

\* The loop of _window_chunks: there is a next window, a step further, as long
\* as the one before does not reach the end.
WindowStarts(a, b) ==
    {i \in {a + k * Step : k \in 0..(b - a)} : i < b /\ (i > a => i - Step + Window < b)}

\* _window_chunks over lines[a:b].
Windows(a, b) ==
    {Chunk(i + 1, Min({i + Window, b}), None) :
        i \in {i \in WindowStarts(a, b) : ~Blank(i, Min({i + Window, b}))}}

Named(cs, s) == {[c EXCEPT !.symbol = s] : c \in cs}

-----------------------------------------------------------------------------
(* Markdown: a section starts at the first line and at every heading.       *)

Starts == {1} \union file.heads
SectionEnd(s) == Min({file.n} \union {h - 1 : h \in {h \in Starts : h > s}})
Heading(s) == IF s \in file.heads THEN s ELSE None

\* The lines of a section are joined and split again, which loses an empty
\* last one.
SectionChunks(s) ==
    LET e == SectionEnd(s)
        last == IF e \in file.blank THEN e - 1 ELSE e
    IN  IF Blank(s - 1, e) THEN {}
        ELSE IF last - s + 1 <= 2 * Window THEN {Chunk(s, e, Heading(s))}
        ELSE Named(Windows(s - 1, last), Heading(s))

MarkdownChunks == UNION {SectionChunks(s) : s \in Starts}

-----------------------------------------------------------------------------
(* Code: the outermost definitions of the tree, and what lies between.      *)

\* The walk reaches a node whose ancestors are no definitions.
Reached(d) == \A up \in file.nodes[d].above : ~file.nodes[up].def

\* _collect_definitions.
Definitions == {[from |-> file.nodes[d].from, to |-> file.nodes[d].to, name |-> d] :
                   d \in {d \in DOMAIN file.nodes : Reached(d) /\ file.nodes[d].def}}

\* prev_end: where the definitions that start earlier end.
PrevEnd(row) == Max({0} \union {d.to : d \in {d \in Definitions : d.from < row}})

Gap(row) == IF row - 1 > PrevEnd(row) THEN Windows(PrevEnd(row), row - 1) ELSE {}
Trailing == Gap(file.n + 1)

\* Rows of the tree are used as line numbers.
DefinitionChunks(d) ==
    IF d.to - d.from + 1 > 3 * Window THEN Named(Windows(d.from - 1, d.to), d.name)
    ELSE {c \in {Chunk(d.from, d.to, d.name)} : ~Blank(d.from - 1, d.to)}

CodeChunks ==
    IF ~Parsed \/ Definitions = {} THEN Windows(0, file.n)
    ELSE Trailing \union UNION {Gap(d.from) \union DefinitionChunks(d) : d \in Definitions}

ChunkFile ==
    /\ chunks = None
    /\ chunks' = IF Blank(0, file.n) THEN {}
                 ELSE IF ChunkType(file.lang) = "markdown" THEN MarkdownChunks
                 ELSE IF ChunkType(file.lang) = "code" THEN CodeChunks
                 ELSE Windows(0, file.n)
    /\ UNCHANGED file

Next == ChunkFile

Spec == Init /\ [][Next]_vars

-----------------------------------------------------------------------------
(* Properties. *)

Done == chunks # None
Span(c) == c.from..c.to
Cut == IF ChunkType(file.lang) = "code" /\ Parsed THEN Definitions ELSE {}

\* Chunks are ranges of lines of the file, and no chunk is blank.
TypeOK ==
    Done => \A c \in chunks : /\ 1 <= c.from /\ c.from <= c.to /\ c.to <= file.n
                              /\ ~(Span(c) \subseteq file.blank)

\* No line of the file is lost between windows, sections, definitions and the
\* gaps between them: every line that is not blank is in a chunk.
Covered == Done => (1..file.n) \ file.blank \subseteq UNION {Span(c) : c \in chunks}

\* Windows overlap: lines at most Overlap apart, with no section or definition
\* starting or ending between them, are together in a chunk.
Together ==
    Done => \A i \in 1..(file.n - Overlap) :
        LET run == i..(i + Overlap)
            split == \/ ChunkType(file.lang) = "markdown" /\ \E h \in file.heads : h - 1 \in run /\ h \in run
                     \/ \E d \in Cut : \/ d.from - 1 \in run /\ d.from \in run
                                       \/ d.to \in run /\ d.to + 1 \in run
        IN  run \cap file.blank = {} /\ ~split => \E c \in chunks : run \subseteq Span(c)

\* No window repeats what another of the same piece holds entirely.
NoneInside ==
    Done => \A c, d \in chunks : c.symbol = d.symbol /\ Span(c) \subseteq Span(d) => c = d

\* A definition is in chunks of its own name that keep to its rows, in one
\* when it is not huge, and what is in a definition has none of its own.
DefinitionsWhole ==
    Done =>
        /\ \A d \in Cut : /\ \A c \in chunks : c.symbol = d.name => Span(c) \subseteq d.from..d.to
                          /\ d.to - d.from + 1 <= 3 * Window /\ ~Blank(d.from - 1, d.to)
                                => Chunk(d.from, d.to, d.name) \in chunks
        /\ ChunkType(file.lang) = "code" =>
             \A c \in chunks : c.symbol # None =>
                \A d \in DOMAIN file.nodes : c.symbol \in file.nodes[d].above => ~\E e \in chunks : e.symbol = d

\* A chunk is at most three windows long.
Bounded == Done => \A c \in chunks : c.to - c.from < 3 * Window

\* The row of a line: str.splitlines also splits where the tree, and an
\* editor, see no new row.
Row(i) == i - Cardinality({f \in file.feeds : f < i})

-----------------------------------------------------------------------------
(* What the docs say, where the code does not do it; no run checks these.   *)

\* README.md:20 "Answers cite exact `file:line` evidence": the lines of the
\* chunk of a definition are the rows of that definition.
RowsExact ==
    Done => \A c \in chunks : \A d \in Cut :
        c.symbol = d.name => {Row(i) : i \in Span(c)} \subseteq d.from..d.to
=============================================================================
