------------------------------ MODULE MCTools -------------------------------
(***************************************************************************)
(* One call of a tool of the registry, whichever family of tools it names: *)
(* those that start a program, read_file, and those that walk the          *)
(* workspace.  The family is chosen by the call and only its module moves; *)
(* the variables of the others are Idle.                                   *)
(***************************************************************************)
EXTENDS Integers, Sequences, FiniteSets, TLC

CONSTANTS
    None, Idle,
    Calls, Programs, Limit,                            \* of the tools that start a program
    Files, Args, Budget,                               \* of read_file
    Walks, Tree, Root, Inits, MaxFiles, MaxDepth       \* of the tools that walk

VARIABLES
    family,      \* "program", "read" or "walk"
    call, program, which, pc, exit, cut,
    file, args,
    tool, walk, inits, next, scanned, notes, truncated, done,
    result       \* the ToolResult of a program or of read_file

programVars == <<call, program, which, pc, exit, cut>>
readVars == <<file, args>>
walkVars == <<tool, walk, inits, next, scanned, notes, truncated, done>>
vars == <<family, programVars, readVars, walkVars, result>>

-----------------------------------------------------------------------------
(* Every call of the four tools, against programs that print up to four    *)
(* units in two files, exit with each of their codes, or hang.             *)

ToolNames == {"repo_search", "run_tests", "run_lint", "git_diff"}

AllCalls == [tool : ToolNames, path : {"none", "inside", "missing", "outside"}, bad : BOOLEAN,
             denied : BOOLEAN, max : 1..2, repo : BOOLEAN]

\* The matches of two files, up to two in each.
Found == {{m \in [file : 1..2, nth : 1..2] : m.nth <= count[m.file]} : count \in [1..2 -> 0..2]}
Prog(hangs, code, found, failed, passed) ==
    [hangs |-> hangs, code |-> code, found |-> found, failed |-> failed, passed |-> passed,
     unseen |-> {}]

\* Each file is read to its end, up to some line, or not at all.
Unread(p) == {[p EXCEPT !.unseen = {m \in p.found : m.nth > reach[m.file]}] : reach \in [1..2 -> 0..2]}

\* rg and ruff exit 1 or 0 by what they found; 2 is an error.
Reports(some, zero) ==
    {Prog(h, IF f # {} THEN some ELSE zero, f, 0, 0) : h \in BOOLEAN, f \in Found}
    \union {Prog(FALSE, 2, {}, 0, 0)}

\* pytest: 0 all passed, 1 some failed, 2 interrupted, 5 nothing collected.
Suites == {Prog(h, IF f > 0 THEN 1 ELSE IF p > 0 THEN 0 ELSE 5, {}, f, p) :
              h \in BOOLEAN, f \in 0..2, p \in 0..2}
          \union {Prog(FALSE, 2, {}, 0, 1)}

Diffs == {Prog(h, 0, f, 0, 0) : h \in BOOLEAN, f \in Found} \union {Prog(FALSE, 128, {}, 0, 0)}

AllPrograms == [t \in ToolNames |->
    CASE t = "repo_search" -> UNION {Unread(p) : p \in Reports(0, 1)} [] t = "run_lint" -> Reports(1, 0)
      [] t = "run_tests" -> Suites          [] t = "git_diff" -> Diffs]

Program == INSTANCE ToolRuns

-----------------------------------------------------------------------------
(* Every file of up to four lines of one or two bytes, every bound from    *)
(* below the first line to past the last, and every limit.                 *)

AllEnds == {e \in UNION {[1..n -> 1..8] : n \in 0..4} :
               \A i \in DOMAIN e : e[i] - (IF i = 1 THEN 0 ELSE e[i - 1]) \in 1..2}
AllFiles == [ends : AllEnds, binary : BOOLEAN]
Bound == {None} \union (-1..6)
AllArgs == [path : {"inside", "missing", "outside", "directory"}, start : Bound, end : Bound, max : {None, 0, 2, 3, 9}]

Read == INSTANCE ReadFile

-----------------------------------------------------------------------------
(* Three directories, one below the other, and walks of three files of     *)
(* every sort, with a limit of two.                                        *)

AllDirs == ("root" :> "root") @@ ("pkg" :> "root") @@ ("sub" :> "pkg")

Sort(d, source, big, readable, parses, issues) ==
    [dir |-> d, source |-> source, big |-> big, readable |-> readable, parses |-> parses, issues |-> issues]
Sorts(d) == {Sort(d, TRUE, FALSE, TRUE, TRUE, FALSE), Sort(d, TRUE, FALSE, TRUE, TRUE, TRUE),
             Sort(d, TRUE, FALSE, TRUE, FALSE, FALSE), Sort(d, TRUE, FALSE, FALSE, TRUE, FALSE),
             Sort(d, TRUE, TRUE, TRUE, TRUE, TRUE), Sort(d, FALSE, FALSE, TRUE, TRUE, TRUE)}

AllWalks == UNION {[1..n -> UNION {Sorts(d) : d \in DOMAIN AllDirs}] : n \in 0..3}

AllInits == SUBSET DOMAIN AllDirs

Walk == INSTANCE CodeScan

ASSUME Assumptions ==
    Program!ConstantsAssumption /\ Read!ConstantsAssumption /\ Walk!ConstantsAssumption

-----------------------------------------------------------------------------

IdleProgram == call = Idle /\ program = Idle /\ which = Idle /\ pc = Idle /\ exit = Idle /\ cut = Idle
IdleRead == file = Idle /\ args = Idle
IdleWalk == /\ tool = Idle /\ walk = Idle /\ inits = Idle /\ next = Idle
            /\ scanned = Idle /\ notes = Idle /\ truncated = Idle /\ done = Idle

Init ==
    \/ family = "program" /\ Program!Init /\ IdleRead /\ IdleWalk
    \/ family = "read" /\ Read!Init /\ IdleProgram /\ IdleWalk
    \/ family = "walk" /\ Walk!Init /\ IdleProgram /\ IdleRead /\ result = Idle

ProgramStep == family = "program" /\ Program!Next /\ UNCHANGED <<family, readVars, walkVars>>
ReadStep == family = "read" /\ Read!Next /\ UNCHANGED <<family, programVars, walkVars>>
WalkStep == family = "walk" /\ Walk!Next /\ UNCHANGED <<family, programVars, readVars, result>>

Next == ProgramStep \/ ReadStep \/ WalkStep

\* The steps of a program's tool are one thread's own, and subprocess.run
\* gives up when the time is over, also on a program that never ends.
OwnStep ==
    /\ family = "program"
    /\ Program!OwnStep
    /\ UNCHANGED <<family, readVars, walkVars>>
TimeOut ==
    /\ family = "program"
    /\ Program!Timeout
    /\ UNCHANGED <<family, readVars, walkVars>>

Spec == Init /\ [][Next]_vars /\ WF_vars(OwnStep) /\ WF_vars(TimeOut)

-----------------------------------------------------------------------------
(* The properties of the three modules, each for its own calls.             *)

\* A program runs only for a call that passed every check, in whatever order
\* its tool checks; a timeout, a failed launch and a missing program, git and
\* rg not being looked for beforehand, are never read as success (execute_tool,
\* run_subprocess, the tools).
CallsGuarded ==
    family = "program" => Program!TypeOK /\ Program!OnlyChecked /\ Program!OkMeansRan

\* What is left out is told: output cut by its limit (for searches that fell
\* back, of what they could read, tests and diffs), lines of a file outside a slice, and sources the
\* limit of a walk left unread.  What is reported is so: a slice is the lines
\* asked for, a clean report that was not cut is right, and only package
\* directories with analysed modules are said to lack an __init__.py.
ReportsHonest ==
    /\ family = "program" => Program!CutIsTold
    /\ family = "read" => Read!TypeOK /\ Read!Requested /\ Read!NothingHidden
    /\ family = "walk" => Walk!TypeOK /\ Walk!CutIsTold /\ Walk!CleanIsClean /\ Walk!InitsRight

\* Every call that starts a program is answered, also when it hangs.
Answered == family = "program" ~> Program!Done
=============================================================================
