------------------------------ MODULE ToolRuns ------------------------------
(***************************************************************************)
(* execute_tool for the tools that start a program: repo_search (rg),      *)
(* run_tests (pytest), run_lint (ruff) and git_diff (git).  A call is      *)
(* validated, its command checked and run under a timeout, and what the    *)
(* program printed is cut to a limit and read back into a result.          *)
(* The program's output is what it reports: findings, failed and passed    *)
(* tests, or matches in each file, one unit of output each.                *)
(***************************************************************************)
EXTENDS Integers, FiniteSets, FiniteSetsExt

CONSTANTS
    Calls,      \* [tool, path, bad, denied, max, repo]: see below
    Programs,   \* for each tool, how its program may behave:
                \* [hangs, code, found, failed, passed, unseen]; found is the
                \* set of findings, or of matches [file, nth], numbered in
                \* their file; unseen are the matches in files, or from a line
                \* of a file on, that _python_search cannot read or finds too big
    Limit,      \* max_output_bytes, in units of output
    None

(* path: where safe_path finds the argument ("none" if there is none);      *)
(* bad: the tool's own check refuses an argument, or a required one is      *)
(* missing; denied: _check_command refuses one; max: max_results; repo: the *)
(* workspace has a .git.                                                    *)

\* A result: what of the ToolResult and its meta the properties tell apart.
Results == [ok : BOOLEAN, violation : BOOLEAN, exit : Int \cup {None}, truncated : BOOLEAN,
            shown : Nat, clean : BOOLEAN, engine : {None, "ripgrep", "python-walk"}]

Tools == {"repo_search", "run_tests", "run_lint", "git_diff"}

ConstantsAssumption ==
    /\ \A c \in Calls : /\ c.tool \in Tools /\ c.max \in Nat \ {0}
                        /\ c.path \in {"none", "inside", "missing", "outside"}
                        /\ {c.bad, c.denied, c.repo} \subseteq BOOLEAN
    /\ \A c \in Calls : \A p \in Programs[c.tool] :
          /\ p.hangs \in BOOLEAN /\ p.code \in Int
          /\ IsFiniteSet(p.found) /\ p.failed \in Nat /\ p.passed \in Nat
          /\ p.unseen \subseteq p.found
          /\ c.tool = "run_tests" /\ p.code = 0 => p.failed = 0     \* pytest's exit code
    /\ Limit \in Nat
    /\ None \notin Int /\ None \notin Results

VARIABLES
    call,      \* the ToolCall
    program,   \* what the program would do if it is started
    which,     \* shutil.which finds the program
    pc,        \* "validate", "check", "running", "read", "fallback" or "done"
    exit,      \* exit code run_subprocess returns
    cut,       \* its output was truncated
    result     \* the ToolResult

vars == <<call, program, which, pc, exit, cut, result>>
env == <<call, program, which>>

Init ==
    /\ call \in Calls /\ program \in Programs[call.tool] /\ which \in BOOLEAN
    /\ pc = "validate" /\ exit = None /\ cut = FALSE /\ result = None

-----------------------------------------------------------------------------
(* Results. *)

Result == [ok |-> FALSE, violation |-> FALSE, exit |-> None, truncated |-> FALSE,
           shown |-> 0, clean |-> FALSE, engine |-> None]

Answer(r) == pc' = "done" /\ result' = r /\ UNCHANGED <<env, exit, cut>>
Failed == Answer(Result)

\* _run_guarded: a SandboxError is a failed result that says so.
Violation == Answer([Result EXCEPT !.violation = TRUE])

-----------------------------------------------------------------------------
(* Faulty variants: one-slip mutations of the definitions below, to show    *)
(* that the properties can fail.  The specification uses none of them.     *)

\* The command is started before it is checked.
CheckLate == pc = "check" /\ pc' = "running" /\ UNCHANGED <<env, exit, cut, result>>

\* The program is waited for without a limit.
TimeoutNever == FALSE

\* Any finished run counts.
ReadTestsAny ==
    Answer([Result EXCEPT !.ok = exit >= 0, !.exit = exit, !.truncated = cut, !.clean = exit = 0])

-----------------------------------------------------------------------------
(* Validation by the tools, in the order each does it. *)

Escapes == call.path = "outside"
NotFound == call.path = "missing"

\* git_diff looks for .git and checks refs before the path; repo_search wants
\* a pattern before the path; the others check the path first.
Early ==
    CASE call.tool = "git_diff" -> ~call.repo \/ call.bad
      [] call.tool = "repo_search" -> call.bad
      [] OTHER -> FALSE

\* run_tests and run_lint check the other argument, then look for the program.
Runner == which
Late == call.tool \in {"run_tests", "run_lint"} /\ (call.bad \/ ~Runner)

Validate ==
    /\ pc = "validate"
    /\ \/ Early /\ Failed
       \/ ~Early /\ Escapes /\ Violation
       \/ ~Early /\ NotFound /\ call.tool # "git_diff" /\ Failed
       \/ /\ ~Early /\ ~Escapes /\ (NotFound => call.tool = "git_diff")
          /\ \/ Late /\ Failed
             \/ ~Late /\ pc' = "check" /\ UNCHANGED <<env, exit, cut, result>>

\* _check_command, before a process exists.
Check ==
    /\ pc = "check"
    /\ IF call.denied THEN Violation
       ELSE pc' = "running" /\ UNCHANGED <<env, exit, cut, result>>

\* _run_guarded: any other exception of the tool.
Raise == pc \in {"validate", "check", "read", "fallback"} /\ Failed

-----------------------------------------------------------------------------
(* run_subprocess. *)

\* What is printed: all counts of the program, matches capped for each file.
Lines == Cardinality(program.found)
Matches == Cardinality({m \in program.found : m.nth <= call.max})
Printed == IF call.tool = "repo_search" THEN Matches ELSE Lines + program.failed + program.passed

\* _truncate.
Kept == IF Limit > 0 THEN Min({Printed, Limit}) ELSE Printed
Truncated(n) == Limit > 0 /\ n > Limit

Ended(code, n) ==
    /\ exit' = code /\ cut' = Truncated(n) /\ pc' = "read"
    /\ UNCHANGED <<env, result>>

\* A program that is not there cannot be started: rg and git are not looked
\* for beforehand, pytest and ruff are.
Launchable == which

Finish == pc = "running" /\ Launchable /\ ~program.hangs /\ Ended(program.code, Printed)
NotOnPath == pc = "running" /\ ~Launchable /\ Ended(127, 0)
Timeout == pc = "running" /\ Launchable /\ \E n \in 0..Printed : Ended(124, n)
LaunchFails == pc = "running" /\ Ended(-1, 1)

-----------------------------------------------------------------------------
(* Reading the output back. *)

\* Of a JSON array that is cut, or that was never finished, nothing is read.
Findings == IF cut \/ exit \notin {0, 1} THEN 0 ELSE Printed

ReadLint ==
    Answer([Result EXCEPT !.ok = exit \in {0, 1}, !.exit = exit, !.truncated = cut,
                          !.shown = Findings, !.clean = exit \in {0, 1} /\ Findings = 0])

\* _parse_summary: the counts are at the end, which a cut removes.
Counted(n) == IF cut THEN 0 ELSE n

ReadTests ==
    Answer([Result EXCEPT !.ok = exit = 0, !.exit = exit, !.truncated = cut,
                          !.shown = Counted(Printed),
                          !.clean = exit = 0 /\ Counted(program.failed) = 0])

\* Faulty variants of the next definition: the cut is not passed on; only
\* git's own error code is a failure.
ReadDiffQuiet ==
    Answer([Result EXCEPT !.ok = exit \in {0, 1}, !.exit = exit, !.shown = Kept])
ReadDiffAny ==
    Answer([Result EXCEPT !.ok = exit # 128, !.exit = exit, !.truncated = cut, !.shown = Kept])

ReadDiff ==
    Answer([Result EXCEPT !.ok = exit \in {0, 1}, !.exit = exit, !.truncated = cut,
                          !.shown = Kept, !.clean = exit \in {0, 1} /\ Printed = 0])

\* rg is missing when its exit code and message say so; 1 is no matches.
ReadSearch ==
    IF exit = 127
    THEN pc' = "fallback" /\ UNCHANGED <<env, exit, cut, result>>
    ELSE Answer([Result EXCEPT !.ok = exit \in {0, 1}, !.exit = exit, !.truncated = cut,
                               !.shown = IF exit \in {0, 1} THEN Kept ELSE 0, !.engine = "ripgrep"])

Read ==
    /\ pc = "read"
    /\ CASE call.tool = "run_lint" -> ReadLint
         [] call.tool = "run_tests" -> ReadTests
         [] call.tool = "git_diff" -> ReadDiff
         [] call.tool = "repo_search" -> ReadSearch

\* _python_search: stops at max_results matches over all files; a file over
\* the size limit, or that cannot be read on, is passed over and not marked.
Seen == Cardinality(program.found \ program.unseen)

PythonSearch ==
    /\ pc = "fallback"
    /\ Answer([Result EXCEPT !.ok = TRUE, !.exit = 0, !.truncated = Seen >= call.max,
                              !.shown = Min({Seen, call.max}), !.engine = "python-walk"])

Next ==
    \/ Validate \/ Check \/ Raise
    \/ Finish \/ NotOnPath \/ Timeout \/ LaunchFails
    \/ Read \/ PythonSearch

Spec == Init /\ [][Next]_vars

\* The steps are one thread's own; the timeout of subprocess.run fires even
\* when the program never ends.
OwnStep == Validate \/ Check \/ Read \/ PythonSearch \/ Finish \/ NotOnPath
FairSpec == Spec /\ WF_vars(OwnStep) /\ WF_vars(Timeout)

-----------------------------------------------------------------------------
(* Properties. *)

Done == pc = "done"
Started == exit # None \/ pc \in {"running", "read", "fallback"}

TypeOK ==
    /\ pc \in {"validate", "check", "running", "read", "fallback", "done"}
    /\ Done <=> result # None
    /\ Done => result \in Results /\ result.shown <= Max({Printed, Lines}) /\ result.exit \in {None, exit, 0}

\* A program runs only for a call that passed every check, whichever tool
\* made it and in whatever order the tool checks.
OnlyChecked == Started => ~call.bad /\ ~call.denied /\ ~Escapes

\* A passing result is the program's: it was there, ran to its end, exited as
\* the tool takes for success, and no test had failed.  A timeout, a failed
\* launch and a missing program, of any tool, are never read as success; a
\* search is made without its program only when that is missing, or says so.
OkMeansRan ==
    Done /\ result.ok =>
        /\ \/ which /\ ~program.hangs /\ exit = program.code /\ exit \in {0, 1}
           \/ result.engine = "python-walk" /\ (~which \/ program.code = 127)
        /\ call.tool = "run_tests" => exit = 0 /\ result.clean

\* Output cut off is said to be: what is shown is all that was printed, or
\* that the fallback search could read, unless the result is marked truncated
\* (for searches that fell back, tests, diffs and complete lint reports).
CutIsTold ==
    Done /\ result.ok /\ ~result.truncated /\ result.engine # "ripgrep" =>
        result.shown = IF call.tool = "repo_search" THEN Seen ELSE Printed

\* Every call is answered, also when the program hangs.
Answered == <>Done

-----------------------------------------------------------------------------
(* What the docs say, where the code does not do it; no run checks these.   *)

\* run_lint.py:83 "ruff exit 0 = clean, 1 = lint violations found (a
\* successful *run*)": a clean report means exit code 0.
CleanMeansClean == Done /\ call.tool = "run_lint" /\ result.clean => exit = 0

\* run_tests.py:100 "pytest exit 0 = all passed, 5 = no tests collected (treat
\* as soft-ok)".
NoTestsIsOk == Done /\ call.tool = "run_tests" /\ result.exit = 5 => result.ok

\* repo_search.py:95 "fall back to a Python walk if rg is absent or errors".
FallsBack == Done /\ call.tool = "repo_search" /\ exit = 2 =>
                 result.engine # "ripgrep"

\* repo_search.py:51-52 "Search the workspace for a regex/literal pattern
\* (ripgrep, with a Python fallback)": without a mark the fallback has found
\* every match.
FallbackFindsAll ==
    Done /\ result.engine = "python-walk" /\ ~result.truncated => result.shown = Lines

\* repo_search.py:7 "cap on emitted ``file:line:match`` lines".
CapHolds == Done /\ call.tool = "repo_search" => result.shown <= call.max
=============================================================================
