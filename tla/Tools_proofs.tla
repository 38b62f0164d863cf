---------------------------- MODULE Tools_proofs ----------------------------
(***************************************************************************)
(* What the tools guarantee of every call: that nothing unchecked is run   *)
(* and that nothing is read as success, left out or reported without being *)
(* so, for any calls, programs, files, walks and limits.                   *)
(***************************************************************************)
EXTENDS MCTools, FiniteSetTheorems, WellFoundedInduction, TLAPS

(* Cardinality, Min and Max are the same in every instance.                 *)

LEMMA OneCardinality ==
    ASSUME NEW S
    PROVE  /\ Program!Cardinality(S) = Cardinality(S)
           /\ Read!Cardinality(S) = Cardinality(S)
           /\ Walk!Cardinality(S) = Cardinality(S)
<1>1. Program!Cardinality(S) = Cardinality(S)
  BY Zenon DEF Program!Cardinality, Cardinality
<1>2. Read!Cardinality(S) = Cardinality(S)
  BY Zenon DEF Read!Cardinality, Cardinality
<1>3. Walk!Cardinality(S) = Cardinality(S)
  BY Zenon DEF Walk!Cardinality, Cardinality
<1> QED
  BY <1>1, <1>2, <1>3

LEMMA LeastOfTwo ==
    ASSUME NEW a \in Int, NEW b \in Int
    PROVE  /\ Program!Min({a, b}) = IF a <= b THEN a ELSE b
           /\ Read!Min({a, b}) = IF a <= b THEN a ELSE b
<1> DEFINE m == IF a <= b THEN a ELSE b
<1>1. m \in {a, b} /\ \A y \in {a, b} : m <= y
  OBVIOUS
<1>2. \A x \in {a, b} : (\A y \in {a, b} : x <= y) => x = m
  OBVIOUS
<1> QED
  BY <1>1, <1>2 DEF Program!Min, Read!Min

LEMMA GreatestOfTwo ==
    ASSUME NEW a \in Int, NEW b \in Int
    PROVE  /\ Program!Max({a, b}) = IF a >= b THEN a ELSE b
           /\ Read!Max({a, b}) = IF a >= b THEN a ELSE b
<1> DEFINE m == IF a >= b THEN a ELSE b
<1>1. m \in {a, b} /\ \A y \in {a, b} : m >= y
  OBVIOUS
<1>2. \A x \in {a, b} : (\A y \in {a, b} : x >= y) => x = m
  OBVIOUS
<1> QED
  BY <1>1, <1>2 DEF Program!Max, Read!Max

-----------------------------------------------------------------------------
(* The tools that start a program.                                          *)

RunTypes ==
    /\ call \in Calls /\ program \in Programs[call.tool]
    /\ pc \in {"validate", "check", "running", "read", "fallback", "done"}
    /\ exit \in Int \cup {None} /\ cut \in BOOLEAN
    /\ pc \in {"validate", "check", "running"} => exit = None
    /\ pc \in {"read", "fallback"} => exit # None
    /\ pc = "fallback" => call.tool = "repo_search" /\ exit = 127

\* A call comes as far as its command only if its arguments passed, and as far
\* as a process only if the command passed too.
Passed ==
    /\ pc \in {"check", "running", "read", "fallback"} \/ exit # None => ~call.bad /\ ~Program!Escapes
    /\ pc \in {"running", "read", "fallback"} \/ exit # None => ~call.denied

\* The exit codes of success are the program's own, and come with all it
\* printed, as far as the limit lets it; 127 is that of a missing program, or
\* its own too.
OwnExit ==
    /\ exit \in {0, 1} =>
          /\ which /\ ~program.hangs /\ exit = program.code
          /\ cut = Program!Truncated(Program!Printed)
          /\ exit = 0 /\ call.tool = "run_tests" => program.failed = 0
    /\ exit = 127 => ~which \/ program.code = 127

\* What is answered.
Sound(r) ==
    /\ r \in Program!Results
    /\ r.shown <= Program!Max({Program!Printed, Program!Lines}) /\ r.exit \in {None, exit, 0}
    /\ r.ok => /\ exit \in {0, 1} \/ (exit = 127 /\ r.engine = "python-walk")
               /\ call.tool = "run_tests" => exit = 0 /\ r.clean
    /\ r.ok /\ ~r.truncated /\ r.engine # "ripgrep" =>
          r.shown = IF call.tool = "repo_search" THEN Program!Seen ELSE Program!Printed

RunInv ==
    /\ RunTypes /\ Passed /\ OwnExit
    /\ pc # "done" => result = None
    /\ pc = "done" => Sound(result)

LEMMA CallFacts ==
    ASSUME RunTypes
    PROVE  /\ call.tool \in Program!Tools /\ call.max \in Nat \ {0}
           /\ call.bad \in BOOLEAN /\ call.denied \in BOOLEAN /\ call.repo \in BOOLEAN
           /\ call.path \in {"none", "inside", "missing", "outside"}
           /\ program.code \in Int /\ program.failed \in Nat
           /\ call.tool = "run_tests" /\ program.code = 0 => program.failed = 0
           /\ Program!Lines \in Nat /\ Program!Printed \in Nat
           /\ Program!Seen \in Nat /\ Program!Seen <= Program!Lines
           /\ Limit \in Nat /\ None \notin Int /\ None \notin Program!Results
<1>1. Program!ConstantsAssumption
  BY Assumptions
<1>2. /\ program.code \in Int /\ program.failed \in Nat /\ program.passed \in Nat
      /\ call.tool = "run_tests" /\ program.code = 0 => program.failed = 0
      /\ Program!IsFiniteSet(program.found) /\ program.unseen \subseteq program.found
  BY <1>1 DEF RunTypes, Program!ConstantsAssumption
<1>3. IsFiniteSet(program.found)
  BY <1>2, Zenon DEF Program!IsFiniteSet, IsFiniteSet
<1>4. Program!Lines \in Nat
  BY <1>3, FS_CardinalityType, OneCardinality DEF Program!Lines
<1>7. Program!Seen \in Nat /\ Program!Seen <= Program!Lines
  <2> DEFINE S == program.found \ program.unseen
  <2>1. S \in SUBSET program.found
    OBVIOUS
  <2> HIDE DEF S
  <2>2. Cardinality(S) \in Nat /\ Cardinality(S) <= Cardinality(program.found)
    BY <1>3, <2>1, FS_Subset, FS_CardinalityType
  <2> QED
    BY <2>2, OneCardinality DEF S, Program!Seen, Program!Lines
<1>5. Program!Matches \in Nat
  <2> DEFINE S == {m \in program.found : m.nth <= call.max}
  <2>1. S \in SUBSET program.found
    OBVIOUS
  <2> HIDE DEF S
  <2>2. Cardinality(S) \in Nat
    BY <1>3, <2>1, FS_Subset, FS_CardinalityType
  <2> QED
    BY <2>2, OneCardinality DEF S, Program!Matches
<1>6. Program!Printed \in Nat
  BY <1>2, <1>4, <1>5 DEF Program!Printed
<1> QED
  BY <1>1, <1>2, <1>4, <1>6, <1>7 DEF RunTypes, Program!ConstantsAssumption

LEMMA InitRun ==
    ASSUME Program!Init
    PROVE  RunInv
<1>1. None \notin Int
  BY Assumptions DEF Program!ConstantsAssumption
<1> USE DEF Program!Init
<1>2. RunTypes
  BY DEF RunTypes
<1>3. Passed /\ OwnExit
  BY <1>1 DEF Passed, OwnExit
<1> QED
  BY <1>2, <1>3 DEF RunInv

\* A sound answer ends the call.
LEMMA AnswerKeeps ==
    ASSUME RunInv, NEW r, Sound(r), Program!Answer(r)
    PROVE  RunInv'
<1>1. UNCHANGED <<call, program, which, exit, cut>> /\ pc' = "done" /\ result' = r
  BY DEF Program!Answer, Program!env
<1>2. RunTypes' /\ Passed' /\ OwnExit'
  BY <1>1 DEF RunInv, RunTypes, Passed, OwnExit, Program!Escapes, Program!Truncated, Program!Printed,
              Program!Lines, Program!Matches
<1>3. Sound(result)'
  BY <1>1 DEF Sound, Program!Printed, Program!Lines, Program!Matches, Program!Seen
<1> QED
  BY <1>1, <1>2, <1>3 DEF RunInv

LEMMA NothingShown ==
    ASSUME RunTypes
    PROVE  0 <= Program!Max({Program!Printed, Program!Lines})
  BY CallFacts, GreatestOfTwo

\* A result that is not ok shows nothing.
LEMMA FailureIsSound ==
    ASSUME RunTypes
    PROVE  /\ Sound(Program!Result)
           /\ Sound([Program!Result EXCEPT !.violation = TRUE])
<1> DEFINE plain == Program!Result
           breach == [plain EXCEPT !.violation = TRUE]
<1>1. plain \in Program!Results /\ plain.shown = 0 /\ plain.exit = None /\ ~plain.ok
  BY DEF Program!Result, Program!Results
<1> HIDE DEF plain
<1>2. breach \in Program!Results /\ breach.shown = 0 /\ breach.exit = None /\ ~breach.ok
  BY <1>1 DEF Program!Results
<1> HIDE DEF breach
<1>3. Sound(plain) /\ Sound(breach)
  BY <1>1, <1>2, NothingShown DEF Sound
<1> QED
  BY <1>3 DEF plain, breach

LEMMA GuardStep ==
    ASSUME RunInv, Program!Validate \/ Program!Check \/ Program!Raise
    PROVE  RunInv'
<1>0. RunTypes
  BY DEF RunInv
<1>1. CASE Program!Failed
  BY <1>0, <1>1, FailureIsSound, AnswerKeeps DEF Program!Failed
<1>2. CASE Program!Violation
  BY <1>0, <1>2, FailureIsSound, AnswerKeeps DEF Program!Violation
<1>3. CASE /\ pc = "validate" /\ ~Program!Early /\ ~Program!Escapes /\ ~Program!Late
           /\ pc' = "check" /\ UNCHANGED <<Program!env, exit, cut, result>>
  <2>1. ~call.bad
    BY <1>0, <1>3, CallFacts DEF Program!Early, Program!Late, Program!Tools
  <2> QED
    BY <1>3, <2>1 DEF Program!env, RunInv, RunTypes, Passed, OwnExit, Program!Escapes, Program!Truncated,
                      Program!Printed, Program!Lines, Program!Matches
<1>4. CASE /\ pc = "check" /\ ~call.denied
           /\ pc' = "running" /\ UNCHANGED <<Program!env, exit, cut, result>>
  BY <1>4 DEF Program!env, RunInv, RunTypes, Passed, OwnExit, Program!Escapes, Program!Truncated,
              Program!Printed, Program!Lines, Program!Matches
<1> QED
  BY <1>1, <1>2, <1>3, <1>4 DEF Program!Validate, Program!Check, Program!Raise

\* Only a program that ends by itself has an exit code of success.
LEMMA ProcessStep ==
    ASSUME RunInv, Program!Finish \/ Program!NotOnPath \/ Program!Timeout \/ Program!LaunchFails
    PROVE  RunInv'
<1> USE DEF RunInv
<1>1. PICK code \in Int, n \in Int :
        /\ Program!Ended(code, n) /\ pc = "running"
        /\ code \in {0, 1} => which /\ ~program.hangs /\ code = program.code /\ n = Program!Printed
        /\ code = 127 => ~which \/ program.code = 127
  <2>0. Program!Printed \in Nat /\ program.code \in Int
    BY CallFacts
  <2>1. CASE Program!Finish
    BY <2>0, <2>1 DEF Program!Finish, Program!Launchable
  <2>2. CASE Program!NotOnPath
    <3>1. Program!Ended(127, 0) /\ pc = "running" /\ ~which
      BY <2>2 DEF Program!NotOnPath, Program!Launchable
    <3> QED
      BY <3>1
  <2>3. CASE Program!Timeout
    <3>1. PICK n \in 0..Program!Printed : Program!Ended(124, n) /\ pc = "running"
      BY <2>3 DEF Program!Timeout
    <3> QED
      BY <2>0, <3>1
  <2>4. CASE Program!LaunchFails
    <3>1. Program!Ended(-1, 1) /\ pc = "running"
      BY <2>4 DEF Program!LaunchFails
    <3> QED
      BY <3>1
  <2> QED
    BY <2>1, <2>2, <2>3, <2>4
<1>2. /\ UNCHANGED <<call, program, which, result>> /\ pc' = "read"
      /\ exit' = code /\ cut' = Program!Truncated(n)
  BY <1>1 DEF Program!Ended, Program!env
<1>3. None \notin Int
  BY CallFacts
<1>4. RunTypes'
  BY <1>2, <1>3 DEF RunTypes, Program!Truncated
<1>5. Passed'
  BY <1>1, <1>2 DEF Passed, Program!Escapes
<1>6. OwnExit'
  <2>1. Program!Printed' = Program!Printed
    BY <1>2 DEF Program!Printed, Program!Lines, Program!Matches
  <2>2. ASSUME code \in {0, 1} PROVE cut' = Program!Truncated(Program!Printed)
    BY <1>1, <1>2, <2>2
  <2>3. Program!Truncated(Program!Printed)' = Program!Truncated(Program!Printed)
    BY <2>1 DEF Program!Truncated
  <2> QED
    BY <1>1, <1>2, <2>2, <2>3, CallFacts DEF OwnExit
<1> QED
  BY <1>1, <1>2, <1>4, <1>5, <1>6

\* What a limit keeps of the output.
LEMMA KeptFacts ==
    ASSUME RunTypes
    PROVE  /\ Program!Kept \in Nat /\ Program!Kept <= Program!Printed
           /\ ~Program!Truncated(Program!Printed) => Program!Kept = Program!Printed
           /\ Program!Printed <= Program!Max({Program!Printed, Program!Lines})
           /\ Program!Lines <= Program!Max({Program!Printed, Program!Lines})
  BY CallFacts, LeastOfTwo, GreatestOfTwo DEF Program!Kept, Program!Truncated

LEMMA PlainResult ==
    /\ Program!Result \in Program!Results
    /\ ~Program!Result.ok /\ Program!Result.shown = 0 /\ Program!Result.exit = None
    /\ ~Program!Result.truncated /\ ~Program!Result.clean /\ Program!Result.engine = None
  BY DEF Program!Result, Program!Results

LEMMA ReadLintStep ==
    ASSUME RunInv, pc = "read", call.tool = "run_lint", Program!ReadLint
    PROVE  RunInv'
<1> USE DEF RunInv
<1> DEFINE base == Program!Result
           ok == exit \in {0, 1}
           clean == exit \in {0, 1} /\ Program!Findings = 0
           q == [base EXCEPT !.ok = ok, !.exit = exit, !.truncated = cut,
                             !.shown = Program!Findings, !.clean = clean]
<1>1. ok \in BOOLEAN /\ clean \in BOOLEAN /\ cut \in BOOLEAN /\ exit \in Int
  BY DEF RunTypes
<1>2. /\ Program!Findings \in Nat
      /\ Program!Findings <= Program!Max({Program!Printed, Program!Lines})
      /\ ok /\ ~cut => Program!Findings = Program!Printed
  BY CallFacts, NothingShown, KeptFacts DEF Program!Findings
<1>3. base \in Program!Results /\ base.engine = None
  BY PlainResult
<1>4. Program!Answer(q)
  BY DEF Program!ReadLint
<1> HIDE DEF base, ok, clean
<1>5. /\ q \in Program!Results
      /\ q.ok = ok /\ q.exit = exit /\ q.truncated = cut /\ q.shown = Program!Findings /\ q.engine = None
  BY <1>1, <1>2, <1>3 DEF Program!Results
<1> HIDE DEF q
<1>6. Sound(q)
  BY <1>1, <1>2, <1>5 DEF Sound, ok
<1> QED
  BY <1>4, <1>6, AnswerKeeps

LEMMA ReadTestsStep ==
    ASSUME RunInv, pc = "read", call.tool = "run_tests", Program!ReadTests
    PROVE  RunInv'
<1> USE DEF RunInv
<1> DEFINE base == Program!Result
           ok == exit = 0
           clean == exit = 0 /\ Program!Counted(program.failed) = 0
           shown == Program!Counted(Program!Printed)
           q == [base EXCEPT !.ok = ok, !.exit = exit, !.truncated = cut, !.shown = shown, !.clean = clean]
<1>1. ok \in BOOLEAN /\ clean \in BOOLEAN /\ cut \in BOOLEAN /\ exit \in Int
  BY DEF RunTypes
<1>2. /\ shown \in Nat
      /\ shown <= Program!Max({Program!Printed, Program!Lines})
      /\ ~cut => shown = Program!Printed
  BY CallFacts, NothingShown, KeptFacts DEF Program!Counted
<1>3. ok => clean
  BY DEF OwnExit, Program!Counted
<1>4. base \in Program!Results /\ base.engine = None
  BY PlainResult
<1>5. Program!Answer(q)
  BY DEF Program!ReadTests
<1> HIDE DEF base, ok, clean, shown
<1>6. /\ q \in Program!Results
      /\ q.ok = ok /\ q.exit = exit /\ q.truncated = cut /\ q.shown = shown /\ q.clean = clean
  BY <1>1, <1>2, <1>4 DEF Program!Results
<1> HIDE DEF q
<1>7. Sound(q)
  BY <1>1, <1>2, <1>3, <1>6 DEF Sound, ok
<1> QED
  BY <1>5, <1>7, AnswerKeeps

LEMMA ReadDiffStep ==
    ASSUME RunInv, pc = "read", call.tool = "git_diff", Program!ReadDiff
    PROVE  RunInv'
<1> USE DEF RunInv
<1> DEFINE base == Program!Result
           ok == exit \in {0, 1}
           clean == exit \in {0, 1} /\ Program!Printed = 0
           q == [base EXCEPT !.ok = ok, !.exit = exit, !.truncated = cut,
                             !.shown = Program!Kept, !.clean = clean]
<1>1. ok \in BOOLEAN /\ clean \in BOOLEAN /\ cut \in BOOLEAN /\ exit \in Int
  BY DEF RunTypes
<1>2. /\ Program!Kept \in Nat
      /\ Program!Kept <= Program!Max({Program!Printed, Program!Lines})
      /\ ok /\ ~cut => Program!Kept = Program!Printed
  BY CallFacts, KeptFacts, GreatestOfTwo DEF OwnExit
<1>3. base \in Program!Results /\ base.engine = None
  BY PlainResult
<1>4. Program!Answer(q)
  BY DEF Program!ReadDiff
<1> HIDE DEF base, ok, clean
<1>5. /\ q \in Program!Results
      /\ q.ok = ok /\ q.exit = exit /\ q.truncated = cut /\ q.shown = Program!Kept /\ q.engine = None
  BY <1>1, <1>2, <1>3 DEF Program!Results
<1> HIDE DEF q
<1>6. Sound(q)
  BY <1>1, <1>2, <1>5 DEF Sound, ok
<1> QED
  BY <1>4, <1>6, AnswerKeeps

LEMMA ReadSearchStep ==
    ASSUME RunInv, pc = "read", call.tool = "repo_search", Program!ReadSearch
    PROVE  RunInv'
<1> USE DEF RunInv
<1>1. CASE exit = 127
  BY <1>1 DEF Program!ReadSearch, Program!env, RunTypes, Passed, OwnExit, Program!Escapes,
              Program!Truncated, Program!Printed, Program!Lines, Program!Matches
<1>2. CASE exit # 127
  <2> DEFINE base == Program!Result
             ok == exit \in {0, 1}
             shown == IF exit \in {0, 1} THEN Program!Kept ELSE 0
             q == [base EXCEPT !.ok = ok, !.exit = exit, !.truncated = cut,
                               !.shown = shown, !.engine = "ripgrep"]
  <2>1. ok \in BOOLEAN /\ cut \in BOOLEAN /\ exit \in Int
    BY DEF RunTypes
  <2>2. shown \in Nat /\ shown <= Program!Max({Program!Printed, Program!Lines})
    BY CallFacts, NothingShown, KeptFacts, GreatestOfTwo
  <2>3. base \in Program!Results
    BY PlainResult
  <2>4. Program!Answer(q)
    BY <1>2 DEF Program!ReadSearch
  <2> HIDE DEF base, ok, shown
  <2>5. /\ q \in Program!Results
        /\ q.ok = ok /\ q.exit = exit /\ q.shown = shown /\ q.engine = "ripgrep"
    BY <2>1, <2>2, <2>3 DEF Program!Results
  <2> HIDE DEF q
  <2>6. Sound(q)
    BY <2>1, <2>2, <2>5 DEF Sound, ok
  <2> QED
    BY <2>4, <2>6, AnswerKeeps
<1> QED
  BY <1>1, <1>2

LEMMA PythonSearchStep ==
    ASSUME RunInv, Program!PythonSearch
    PROVE  RunInv'
<1> USE DEF RunInv
<1> DEFINE base == Program!Result
           ok == TRUE
           code == 0
           walked == "python-walk"
           more == Program!Seen >= call.max
           shown == Program!Min({Program!Seen, call.max})
           q == [base EXCEPT !.ok = ok, !.exit = code, !.truncated = more,
                             !.shown = shown, !.engine = walked]
<1>1. code = 0 /\ walked = "python-walk" /\ ok /\ ok \in BOOLEAN /\ more \in BOOLEAN /\ pc = "fallback" /\ call.tool = "repo_search" /\ exit = 127
  BY DEF Program!PythonSearch, RunTypes
<1>2. /\ shown \in Nat /\ shown <= Program!Max({Program!Printed, Program!Lines})
      /\ ~more => shown = Program!Seen
  BY CallFacts, KeptFacts, LeastOfTwo, GreatestOfTwo
<1>3. base \in Program!Results
  BY PlainResult
<1>4. Program!Answer(q)
  BY DEF Program!PythonSearch
<1> HIDE DEF base, ok, code, walked, more, shown
<1>5. /\ q \in Program!Results
      /\ q.ok = ok /\ q.exit = code /\ q.truncated = more /\ q.shown = shown /\ q.engine = walked
  <2>1. ok \in BOOLEAN /\ more \in BOOLEAN /\ code \in Int /\ walked \in {None, "ripgrep", "python-walk"}
    BY <1>1
  <2>2. q \in Program!Results
    BY <1>2, <1>3, <2>1 DEF Program!Results
  <2>3. q.ok = ok /\ q.truncated = more
    BY <1>3, <2>1 DEF Program!Results
  <2>4. q.exit = code /\ q.shown = shown /\ q.engine = walked
    BY <1>3 DEF Program!Results
  <2> QED
    BY <2>2, <2>3, <2>4
<1> HIDE DEF q
<1>6. Sound(q)
  BY <1>1, <1>2, <1>5 DEF Sound
<1> QED
  BY <1>4, <1>6, AnswerKeeps

LEMMA RunStep ==
    ASSUME RunInv, Program!Next
    PROVE  RunInv'
<1>1. CASE Program!Read
  <2>1. pc = "read" /\ call.tool \in Program!Tools
    BY <1>1, CallFacts DEF Program!Read, RunInv
  <2>2. CASE call.tool = "run_lint"
    BY <1>1, <2>1, <2>2, ReadLintStep DEF Program!Read
  <2>3. CASE call.tool = "run_tests"
    BY <1>1, <2>1, <2>3, ReadTestsStep DEF Program!Read
  <2>4. CASE call.tool = "git_diff"
    BY <1>1, <2>1, <2>4, ReadDiffStep DEF Program!Read
  <2>5. CASE call.tool = "repo_search"
    BY <1>1, <2>1, <2>5, ReadSearchStep DEF Program!Read
  <2> QED
    BY <2>1, <2>2, <2>3, <2>4, <2>5 DEF Program!Tools
<1> QED
  BY <1>1, GuardStep, ProcessStep, PythonSearchStep DEF Program!Next

LEMMA RunIsGuarded ==
    ASSUME RunInv
    PROVE  Program!TypeOK /\ Program!OnlyChecked /\ Program!OkMeansRan /\ Program!CutIsTold
<1> USE DEF RunInv
<1>1. Program!TypeOK
  <2>1. pc = "done" => result # None
    BY CallFacts DEF Sound
  <2> QED
    BY <2>1 DEF Program!TypeOK, Program!Done, RunTypes, Sound
<1>2. Program!OnlyChecked
  BY DEF Program!OnlyChecked, Program!Started, Passed
<1> QED
  BY <1>1, <1>2 DEF Program!OkMeansRan, Program!CutIsTold, Program!Done, Sound, OwnExit

-----------------------------------------------------------------------------
(* read_file.                                                               *)

ReadInv ==
    /\ file \in Files /\ args \in Args
    /\ Read!Read => /\ result.lines = Read!Slice
                    /\ ~result.truncated => ~Read!ByteTruncated /\ ~Read!LineTruncated

LEMMA FileFacts ==
    ASSUME file \in Files, args \in Args
    PROVE  /\ Len(file.ends) \in Nat /\ DOMAIN file.ends = 1..Len(file.ends)
           /\ \A i \in DOMAIN file.ends : file.ends[i] \in Nat \ {0}
           /\ \A i, j \in DOMAIN file.ends : i < j => file.ends[i] < file.ends[j]
           /\ args.start \in Int \cup {None} /\ args.end \in Int \cup {None} /\ args.max \in Int \cup {None}
           /\ None \notin Int /\ Read!MaxBytes \in Nat \ {0}
<1>1. Read!ConstantsAssumption
  BY Assumptions
<1>2. args.start \in Int \cup {None} /\ args.end \in Int \cup {None} /\ args.max \in Int \cup {None}
        /\ None \notin Int /\ Budget \in Nat \ {0}
  BY <1>1 DEF Read!ConstantsAssumption
<1>3. Read!MaxBytes \in Nat \ {0}
  <2> DEFINE m == IF args.max = None THEN Budget ELSE args.max
             least == Read!Min({m, Budget})
  <2>1. m \in Int /\ Budget \in Int
    BY <1>2
  <2> HIDE DEF m
  <2>2. least \in Int
    BY <2>1, LeastOfTwo
  <2> HIDE DEF least
  <2>3. Read!Max({1, least}) \in Nat \ {0}
    <3>1. Read!Max({1, least}) = IF 1 >= least THEN 1 ELSE least
      BY <2>2, GreatestOfTwo
    <3> QED
      BY <2>2, <3>1
  <2> QED
    BY <2>3 DEF Read!MaxBytes, m, least
<1> QED
  BY <1>1, <1>2, <1>3 DEF Read!ConstantsAssumption

\* The lines that begin within the bytes read are the first of the file.
LEMMA FirstLines ==
    ASSUME file \in Files, args \in Args
    PROVE  /\ Read!Total \in 0..Len(file.ends)
           /\ \A i \in DOMAIN file.ends : i <= Read!Total <=> Read!Offset(i - 1) < Read!MaxBytes
<1> DEFINE n == Len(file.ends)
           begun == {i \in DOMAIN file.ends : Read!Offset(i - 1) < Read!MaxBytes}
           out == {i \in Nat : i = n + 1 \/ (i \in 1..n /\ i \notin begun)}
<1>1. n \in Nat /\ DOMAIN file.ends = 1..n /\ Read!MaxBytes \in Nat
  BY FileFacts
<1>2. \A i \in 1..n : Read!Offset(i) = file.ends[i] /\ file.ends[i] \in Nat
  BY FileFacts DEF Read!Offset
<1>3. Read!Offset(0) = 0
  BY DEF Read!Offset
<1>4. \A i, j \in 1..n : i < j /\ j \in begun => i \in begun
  <2> TAKE i, j \in 1..n
  <2> HAVE i < j /\ j \in begun
  <2>1. CASE i = 1
    BY <2>1, <1>1, <1>3, FileFacts
  <2>2. CASE i > 1
    <3>1. i - 1 \in 1..n /\ j - 1 \in 1..n /\ i - 1 < j - 1
      BY <1>1, <2>2
    <3>2. file.ends[i - 1] < file.ends[j - 1]
      BY <1>1, <3>1, FileFacts
    <3>3. Read!Offset(j - 1) < Read!MaxBytes
      OBVIOUS
    <3> QED
      BY <1>1, <1>2, <3>1, <3>2, <3>3
  <2> QED
    BY <1>1, <2>1, <2>2
<1>5. PICK m \in out : \A k \in out : ~(<<k, m>> \in OpToRel(<, Nat))
  <2>1. out # {} /\ out \subseteq Nat
    <3>1. n + 1 \in out
      BY <1>1
    <3> QED
      BY <3>1
  <2> HIDE DEF out
  <2>2. \E m \in out : \A k \in out : ~(<<k, m>> \in OpToRel(<, Nat))
    BY <2>1, NatLessThanWellFounded, WFMin, Zenon
  <2> QED
    BY <2>2
<1>6. m \in 1..(n + 1) /\ \A k \in out : m <= k
  <2>1. m \in Nat /\ m \in 1..(n + 1)
    BY <1>1
  <2>2. \A k \in out : k \in Nat
    OBVIOUS
  <2>3. ASSUME NEW k \in out, k < m PROVE FALSE
    <3>1. <<k, m>> \in OpToRel(<, Nat)
      BY <2>1, <2>2, <2>3 DEF OpToRel
    <3> QED
      BY <1>5, <3>1
  <2> QED
    BY <2>1, <2>2, <2>3
<1>7. begun = 1..(m - 1)
  <2>1. ASSUME NEW i \in 1..(m - 1) PROVE i \in begun
    <3>1. i \in 1..n /\ i < m
      BY <1>1, <1>6
    <3>2. i \notin out
      BY <1>6, <3>1
    <3> QED
      BY <3>1, <3>2
  <2>2. ASSUME NEW i \in begun PROVE i \in 1..(m - 1)
    <3>1. i \in 1..n
      BY <1>1
    <3>2. ASSUME i >= m PROVE FALSE
      <4>1. m \in 1..n /\ m \notin begun
        BY <1>1, <1>6, <3>1, <3>2
      <4>2. i # m
        BY <4>1
      <4> QED
        BY <1>4, <3>1, <3>2, <4>1, <4>2
    <3> QED
      BY <1>6, <3>1, <3>2
  <2> QED
    BY <2>1, <2>2
<1>8. Read!Total = m - 1
  <2>1. Cardinality(1..(m - 1)) = m - 1
    BY <1>6, FS_Interval
  <2>2. Read!Total = Cardinality(begun)
    BY OneCardinality DEF Read!Total
  <2> HIDE DEF begun
  <2> QED
    BY <1>7, <2>1, <2>2
<1> QED
  BY <1>1, <1>6, <1>7, <1>8

LEMMA ReadStarts ==
    ASSUME Read!Init
    PROVE  ReadInv
  BY DEF Read!Init, ReadInv, Read!Read

LEMMA ReadStepKeeps ==
    ASSUME ReadInv, Read!Next
    PROVE  ReadInv'
<1> USE DEF Read!Next, Read!Run
<1>1. UNCHANGED <<file, args>>
  OBVIOUS
<1>2. Read!Slice' = Read!Slice /\ Read!ByteTruncated' = Read!ByteTruncated /\ Read!LineTruncated' = Read!LineTruncated
  BY <1>1 DEF Read!Slice, Read!Total, Read!Low, Read!High, Read!ByteTruncated, Read!LineTruncated,
              Read!MaxBytes, Read!Size, Read!Offset
<1>3. CASE args.path # "inside" \/ file.binary
  <2>1. ~result'.ok
    BY <1>3
  <2> QED
    BY <1>1, <2>1 DEF ReadInv, Read!Read
<1>4. CASE ~(args.path # "inside" \/ file.binary)
  <2> DEFINE cutOff == Read!ByteTruncated \/ Read!LineTruncated
  <2>1. result'.lines = Read!Slice /\ result'.truncated = cutOff
    BY <1>4
  <2>2. ~result'.truncated => ~Read!ByteTruncated /\ ~Read!LineTruncated
    BY <2>1, Zenon
  <2> QED
    BY <1>1, <1>2, <2>1, <2>2 DEF ReadInv
<1> QED
  BY <1>3, <1>4

\* The bounds that are asked for, put in order.
LEMMA BoundFacts ==
    ASSUME file \in Files, args \in Args
    PROVE  /\ Read!Low \in Nat \ {0} /\ Read!High \in Int
           /\ Read!Low = IF args.start = None \/ args.start < 1 THEN 1 ELSE args.start
           /\ Read!High = LET high == IF args.end = None \/ args.end > Read!Total THEN Read!Total ELSE args.end
                          IN  IF Read!Low >= high THEN Read!Low ELSE high
<1>1. args.start \in Int \cup {None} /\ args.end \in Int \cup {None} /\ Read!Total \in Int /\ None \notin Int
  BY FileFacts, FirstLines
<1>2. /\ Read!Low \in Nat \ {0}
      /\ Read!Low = IF args.start = None \/ args.start < 1 THEN 1 ELSE args.start
  <2>1. CASE args.start = None
    BY <2>1 DEF Read!Low
  <2>2. CASE args.start \in Int
    <3>0. 1 \in Int
      OBVIOUS
    <3>1. Read!Max({1, args.start}) = IF 1 >= args.start THEN 1 ELSE args.start
      BY <2>2, <3>0, GreatestOfTwo, Zenon
    <3> QED
      BY <1>1, <2>2, <3>1 DEF Read!Low
  <2> QED
    BY <1>1, <2>1, <2>2
<1> DEFINE asked == IF args.end = None THEN Read!Total ELSE Read!Min({Read!Total, args.end})
<1>3. asked \in Int /\ asked = IF args.end = None \/ args.end > Read!Total THEN Read!Total ELSE args.end
  <2>1. CASE args.end = None
    BY <1>1, <2>1
  <2>2. CASE args.end \in Int
    <3>1. Read!Min({Read!Total, args.end}) = IF Read!Total <= args.end THEN Read!Total ELSE args.end
      BY <1>1, <2>2, LeastOfTwo
    <3> QED
      BY <1>1, <2>2, <3>1
  <2> QED
    BY <1>1, <2>1, <2>2
<1>4. Read!High = Read!Max({Read!Low, asked})
  BY DEF Read!High
<1> HIDE DEF asked
<1>5. Read!High = IF Read!Low >= asked THEN Read!Low ELSE asked
  BY <1>2, <1>3, <1>4, GreatestOfTwo
<1> QED
  BY <1>2, <1>3, <1>5

LEMMA ReadIsHonest ==
    ASSUME ReadInv
    PROVE  Read!TypeOK /\ Read!Requested /\ Read!NothingHidden
<1> USE DEF ReadInv
<1> DEFINE n == Len(file.ends)
           total == Read!Total
           size(i) == Read!Offset(i)
<1>1. /\ n \in Nat /\ DOMAIN file.ends = 1..n /\ total \in 0..n
      /\ args.start \in Int \cup {None} /\ args.end \in Int \cup {None} /\ None \notin Int
      /\ Read!MaxBytes \in Nat \ {0}
  BY FileFacts, FirstLines
<1>2. /\ size(0) = 0 /\ \A i \in 1..n : size(i) \in Nat \ {0}
      /\ \A i, j \in 1..n : i < j => size(i) < size(j)
      /\ \A i \in 1..n : i <= total <=> size(i - 1) < Read!MaxBytes
      /\ ~Read!ByteTruncated => size(n) <= Read!MaxBytes
  <2>1. \A i \in 1..n : size(i) = file.ends[i]
    BY <1>1 DEF Read!Offset
  <2>2. ~Read!ByteTruncated => size(n) <= Read!MaxBytes
    <3>1. size(n) \in Nat
      <4>1. CASE n = 0
        BY <4>1 DEF Read!Offset
      <4>2. CASE n \in 1..n
        BY <2>1, <4>2, FileFacts
      <4> QED
        BY <1>1, <4>1, <4>2
    <3>2. Read!ByteTruncated <=> size(n) > Read!MaxBytes
      BY DEF Read!ByteTruncated, Read!Size
    <3> HIDE DEF size, n
    <3> QED
      BY <1>1, <3>1, <3>2
  <2>3. size(0) = 0
    BY DEF Read!Offset
  <2>4. \A i \in 1..n : i <= total <=> size(i - 1) < Read!MaxBytes
    BY <1>1, FirstLines
  <2>5. /\ \A i \in 1..n : file.ends[i] \in Nat \ {0}
        /\ \A i, j \in 1..n : i < j => file.ends[i] < file.ends[j]
    BY <1>1, FileFacts
  <2> HIDE DEF size, n, total
  <2> QED
    BY <2>1, <2>2, <2>3, <2>4, <2>5
<1>3. /\ Read!Low = IF args.start = None \/ args.start < 1 THEN 1 ELSE args.start
      /\ Read!High = LET high == IF args.end = None \/ args.end > total THEN total ELSE args.end
                     IN  IF Read!Low >= high THEN Read!Low ELSE high
      /\ Read!Slice = IF total = 0 THEN {} ELSE {i \in Read!Low..Read!High : i <= total}
      /\ Read!LineTruncated <=> /\ total > 0
                                /\ \/ args.start # None /\ args.start > 1
                                   \/ args.end # None /\ args.end < total
  BY BoundFacts DEF Read!Slice, Read!LineTruncated
<1>4. Read!Low \in Nat \ {0} /\ Read!High \in Int
  BY BoundFacts
<1>5. Read!TypeOK
  <2> SUFFICES ASSUME Read!Read PROVE Read!Slice \subseteq 1..n
    BY <1>1 DEF Read!TypeOK
  <2> HIDE DEF n, total
  <2> QED
    BY <1>1, <1>3, <1>4
<1>6. Read!Requested
  <2> SUFFICES ASSUME args.start # None, args.end # None, args.start \in 1..args.end, args.start <= total
               PROVE  Read!Slice = args.start..Read!Min({args.end, total})
    BY DEF Read!Requested
  <2>1. args.start \in Int /\ args.end \in Int /\ args.start >= 1 /\ args.start <= args.end /\ total \in Int
    BY <1>1
  <2>2. Read!Min({args.end, total}) = IF args.end <= total THEN args.end ELSE total
    BY <2>1, LeastOfTwo, Zenon
  <2> HIDE DEF n, total
  <2>3. Read!Low = args.start /\ Read!High = IF args.end <= total THEN args.end ELSE total
    BY <1>1, <1>3, <2>1
  <2>4. Read!Slice = {i \in Read!Low..Read!High : i <= total}
    BY <1>1, <1>3, <2>1
  <2>5. Read!High <= total /\ Read!High \in Int
    BY <1>1, <2>1, <2>3
  <2>6. {i \in Read!Low..Read!High : i <= total} = Read!Low..Read!High
    BY <1>1, <1>4, <2>5
  <2> QED
    BY <2>2, <2>3, <2>4, <2>6
<1>7. Read!NothingHidden
  <2> SUFFICES ASSUME Read!Read, ~result.truncated
               PROVE  Read!Slice = 1..n /\ \A i \in Read!Slice : size(i) <= Read!MaxBytes
    BY <1>1 DEF Read!NothingHidden, Read!Whole
  <2>1. ~Read!ByteTruncated /\ ~Read!LineTruncated
    OBVIOUS
  <2> HIDE DEF n, total, size
  <2>2. \A i \in 1..n : size(i) <= Read!MaxBytes
    <3> TAKE i \in 1..n
    <3>1. size(n) <= Read!MaxBytes /\ n \in 1..n
      BY <1>1, <1>2, <2>1
    <3>2. i = n \/ size(i) < size(n)
      BY <1>1, <1>2, <3>1
    <3> QED
      BY <1>1, <1>2, <3>1, <3>2
  <2>3. total = n
    <3>1. CASE n = 0
      BY <1>1, <3>1
    <3>2. CASE n > 0
      <4>1. n \in 1..n /\ size(n - 1) < size(n)
        <5>1. CASE n = 1
          BY <1>2, <5>1
        <5>2. CASE n > 1
          <6>1. n \in 1..n /\ n - 1 \in 1..n /\ n - 1 < n
            BY <1>1, <5>2
          <6> QED
            BY <1>2, <6>1
        <5> QED
          BY <1>1, <3>2, <5>1, <5>2
      <4>2. size(n) \in Nat /\ size(n - 1) \in Nat
        <5>1. n - 1 = 0 \/ n - 1 \in 1..n
          BY <1>1, <3>2
        <5> QED
          BY <1>2, <4>1, <5>1
      <4>3. size(n - 1) < Read!MaxBytes
        BY <1>1, <2>2, <4>1, <4>2
      <4> QED
        BY <1>1, <1>2, <4>1, <4>3
    <3> QED
      BY <1>1, <3>1, <3>2
  <2>4. Read!Slice = 1..n
    <3>1. CASE n = 0
      BY <1>3, <2>3, <3>1
    <3>2. CASE n > 0
      <4>1. args.start = None \/ args.start <= 1
        BY <1>1, <1>3, <2>1, <2>3, <3>2
      <4>2. args.end = None \/ args.end >= n
        BY <1>1, <1>3, <2>1, <2>3, <3>2
      <4>3. Read!Low = 1
        BY <1>1, <1>3, <4>1
      <4>4. Read!High = n
        BY <1>1, <1>3, <2>3, <3>2, <4>2, <4>3
      <4>5. Read!Slice = {i \in 1..n : i <= n}
        BY <1>3, <2>3, <3>2, <4>3, <4>4
      <4> QED
        BY <1>1, <4>5
    <3> QED
      BY <1>1, <3>1, <3>2
  <2> QED
    BY <2>2, <2>4
<1> QED
  BY <1>5, <1>6, <1>7

-----------------------------------------------------------------------------
(* The tools that walk.                                                     *)

\* A file that was analysed, or would have been within the limit.
Scannable(i) == Walk!Eligible(walk[i]) /\ walk[i].readable

Fine(i) ==
    walk[i].parses /\ walk[i].readable /\ (tool = "static_analysis" => ~walk[i].issues)

\* What the counter says while no limit has stopped the walk: what lies behind
\* it was analysed, and what was wrong with it is noted.
Behind ==
    ~truncated =>
        /\ scanned = Walk!Before(next)
        /\ \A i \in 1..(next - 1) : Walk!Eligible(walk[i]) =>
              /\ Walk!Before(i) < MaxFiles
              /\ notes = {} => Fine(i)

NotesOK ==
    \A n \in notes : n.kind = "missing-init" =>
        /\ n.at # Root /\ n.at \notin inits /\ Tree[n.at] \in inits
        /\ \E i \in DOMAIN walk : walk[i].dir = n.at /\ Scannable(i)

WalkTypes ==
    /\ walk \in Walks
    /\ next \in 1..(Len(walk) + 1) /\ scanned \in 0..MaxFiles
    /\ truncated \in BOOLEAN
    /\ truncated \/ done => next = Len(walk) + 1

WalkInv == WalkTypes /\ Behind /\ NotesOK

LEMMA WalkFacts ==
    ASSUME walk \in Walks
    PROVE  Len(walk) \in Nat /\ DOMAIN walk = 1..Len(walk) /\ MaxFiles \in Nat \ {0}
  BY Assumptions DEF Walk!ConstantsAssumption

\* The files before one that were analysed are counted one by one.
LEMMA BeforeGrows ==
    ASSUME NEW i \in Nat \ {0}
    PROVE  /\ Walk!Before(1) = 0
           /\ Walk!Before(i) \in Nat
           /\ Walk!Before(i + 1) = IF Scannable(i) THEN Walk!Before(i) + 1 ELSE Walk!Before(i)
<1> DEFINE S(k) == {j \in 1..(k - 1) : Walk!Eligible(walk[j]) /\ walk[j].readable}
<1>1. \A k \in Nat : Walk!Before(k) = Cardinality(S(k))
  BY OneCardinality DEF Walk!Before
<1>2. S(1) = {}
  OBVIOUS
<1>3. IsFiniteSet(S(i)) /\ Cardinality(S(i)) \in Nat
  <2>1. IsFiniteSet(1..(i - 1)) /\ S(i) \in SUBSET (1..(i - 1))
    BY FS_Interval
  <2> HIDE DEF S
  <2>2. IsFiniteSet(S(i))
    BY <2>1, FS_Subset
  <2> QED
    BY <2>2, FS_CardinalityType
<1>4. Walk!Before(1) = 0 /\ Walk!Before(i) \in Nat
  <2> HIDE DEF S
  <2> QED
    BY <1>1, <1>2, <1>3, FS_EmptySet
<1>5. CASE Scannable(i)
  <2>1. S(i + 1) = S(i) \cup {i} /\ i \notin S(i)
    BY <1>5 DEF Scannable
  <2> HIDE DEF S
  <2>2. Cardinality(S(i) \cup {i}) = Cardinality(S(i)) + 1
    BY <1>3, <2>1, FS_AddElement
  <2>3. i + 1 \in Nat /\ i \in Nat
    OBVIOUS
  <2>4. Walk!Before(i + 1) = Walk!Before(i) + 1
    BY <1>1, <2>1, <2>2, <2>3
  <2> QED
    BY <1>4, <1>5, <2>4
<1>6. CASE ~Scannable(i)
  <2>1. S(i + 1) = S(i)
    BY <1>6 DEF Scannable
  <2> HIDE DEF S
  <2>2. Walk!Before(i + 1) = Walk!Before(i)
    BY <1>1, <2>1
  <2> QED
    BY <1>4, <1>6, <2>2
<1> QED
  BY <1>5, <1>6

LEMMA WalkStarts ==
    ASSUME Walk!Init
    PROVE  WalkInv
<1>1. /\ walk \in Walks /\ next = 1 /\ scanned = 0 /\ notes = {}
      /\ truncated = FALSE /\ done = FALSE
  BY DEF Walk!Init
<1>2. Len(walk) \in Nat /\ MaxFiles \in Nat \ {0}
  BY <1>1, WalkFacts
<1>3. next \in 1..(Len(walk) + 1) /\ scanned \in 0..MaxFiles
  BY <1>1, <1>2
<1>4. WalkTypes
  BY <1>1, <1>3 DEF WalkTypes
<1>5. Walk!Before(1) = 0
  <2>1. 1 \in Nat \ {0}
    OBVIOUS
  <2> QED
    BY <2>1, BeforeGrows
<1>6. Behind
  BY <1>1, <1>5 DEF Behind
<1> QED
  BY <1>1, <1>4, <1>6 DEF WalkInv, NotesOK

LEMMA WalkRests ==
    ASSUME UNCHANGED <<tool, walk>>
    PROVE  /\ \A i : Scannable(i)' <=> Scannable(i)
           /\ \A i : Fine(i)' <=> Fine(i)
           /\ \A i : Walk!Before(i)' = Walk!Before(i)
           /\ \A i : Walk!Eligible(walk[i])' <=> Walk!Eligible(walk[i])
  BY DEF Scannable, Fine, Walk!Before, Walk!Eligible, Walk!Yielded

\* A file is told in the notes by kinds of its own, never as a missing
\* __init__.py.
LEMMA NotesOfFiles ==
    ASSUME NEW f, NEW n \in Walk!Unreadable(f) \cup Walk!Analysed(f)
    PROVE  n.kind # "missing-init"
  BY DEF Walk!Unreadable, Walk!Analysed, Walk!Note

LEMMA StopKeeps ==
    ASSUME WalkInv, Walk!Stop
    PROVE  WalkInv'
<1>1. /\ UNCHANGED <<tool, walk, inits, scanned, notes>> /\ truncated' = TRUE
      /\ next' = Len(walk) + 1
  BY DEF Walk!Stop
<1>2. WalkTypes'
  BY <1>1, WalkFacts DEF WalkInv, WalkTypes
<1>3. Behind'
  BY <1>1 DEF Behind
<1>4. NotesOK'
  BY <1>1, WalkRests DEF WalkInv, NotesOK
<1> QED
  BY <1>2, <1>3, <1>4 DEF WalkInv

LEMMA ScanKeeps ==
    ASSUME WalkInv, Walk!ScanFile
    PROVE  WalkInv'
<1> DEFINE f == walk[next]
<1>1. /\ UNCHANGED <<tool, walk, inits, truncated, done>> /\ next' = next + 1
      /\ ~done /\ next <= Len(walk) /\ scanned < MaxFiles
  BY DEF Walk!ScanFile
<1>2. \/ ~Walk!Eligible(f) /\ UNCHANGED <<scanned, notes>>
      \/ Walk!Eligible(f) /\ ~f.readable /\ notes' = notes \union Walk!Unreadable(f) /\ UNCHANGED scanned
      \/ Scannable(next) /\ notes' = notes \union Walk!Analysed(f) /\ scanned' = scanned + 1
  BY Zenon DEF Walk!ScanFile, Walk!Counted, Scannable
<1>3. /\ Len(walk) \in Nat /\ DOMAIN walk = 1..Len(walk) /\ MaxFiles \in Nat \ {0}
      /\ next \in Nat \ {0} /\ scanned \in 0..MaxFiles
  BY WalkFacts DEF WalkInv, WalkTypes
<1>4. ~truncated
  BY <1>1, <1>3 DEF WalkInv, WalkTypes
<1>5. WalkTypes'
  <2>1. scanned' \in 0..MaxFiles
    BY <1>1, <1>2, <1>3
  <2>2. next' \in 1..(Len(walk) + 1)
    BY <1>1, <1>3
  <2> QED
    BY <1>1, <1>4, <2>1, <2>2 DEF WalkInv, WalkTypes
<1>6. /\ scanned = Walk!Before(next)
      /\ \A i \in 1..(next - 1) : Walk!Eligible(walk[i]) =>
            Walk!Before(i) < MaxFiles /\ (notes = {} => Fine(i))
  BY <1>4 DEF WalkInv, Behind
<1>7. scanned' = Walk!Before(next + 1)
  <2>1. Walk!Before(next + 1) = IF Scannable(next) THEN scanned + 1 ELSE scanned
    BY <1>3, <1>6, BeforeGrows
  <2> QED
    BY <1>2, <2>1 DEF Scannable
<1>8. Walk!Eligible(f) /\ notes' = {} => Fine(next)
  <2> SUFFICES ASSUME Walk!Eligible(f), notes' = {} PROVE Fine(next)
    OBVIOUS
  <2>1. Scannable(next) /\ Walk!Analysed(f) = {}
    <3>1. Walk!Unreadable(f) # {}
      BY DEF Walk!Unreadable
    <3> HIDE DEF f
    <3> QED
      BY <1>2, <3>1
  <2> QED
    BY <2>1 DEF Walk!Analysed, Fine, Scannable
<1>9. Behind'
  <2>1. \A i \in 1..next : Walk!Eligible(walk[i]) =>
           Walk!Before(i) < MaxFiles /\ (notes' = {} => Fine(i))
    <3> TAKE i \in 1..next
    <3>1. CASE i = next
      BY <1>1, <1>6, <1>8, <3>1
    <3>2. CASE i # next
      <4>1. i \in 1..(next - 1)
        BY <1>3, <3>2
      <4>2. notes' = {} => notes = {}
        BY <1>2
      <4> QED
        BY <1>6, <4>1, <4>2
    <3> QED
      BY <3>1, <3>2
  <2>2. next' - 1 = next
    BY <1>1, <1>3
  <2>3. /\ \A i : Fine(i)' <=> Fine(i)
        /\ \A i : Walk!Before(i)' = Walk!Before(i)
        /\ \A i : Walk!Eligible(walk[i])' <=> Walk!Eligible(walk[i])
    BY <1>1, WalkRests
  <2>4. scanned' = Walk!Before(next)'
    BY <1>1, <1>7 DEF Walk!Before, Walk!Eligible, Walk!Yielded
  <2> QED
    BY <2>1, <2>2, <2>3, <2>4 DEF Behind
<1>10. NotesOK'
  <2>1. \A n \in notes' : n.kind = "missing-init" => n \in notes
    BY <1>2, NotesOfFiles
  <2>2. \A i : Scannable(i)' <=> Scannable(i)
    BY <1>1, WalkRests
  <2> QED
    BY <1>1, <2>1, <2>2 DEF WalkInv, NotesOK
<1> QED
  BY <1>5, <1>9, <1>10 DEF WalkInv

LEMMA ReportKeeps ==
    ASSUME WalkInv, Walk!Report
    PROVE  WalkInv'
<1>1. /\ UNCHANGED <<tool, walk, inits, next, scanned, truncated>>
      /\ notes' = notes \union Walk!MissingInits /\ next > Len(walk)
  BY DEF Walk!Report
<1>2. WalkTypes'
  BY <1>1, WalkFacts DEF WalkInv, WalkTypes
<1>3. Behind'
  <2>1. /\ \A i : Fine(i)' <=> Fine(i)
        /\ \A i : Walk!Before(i)' = Walk!Before(i)
        /\ \A i : Walk!Eligible(walk[i])' <=> Walk!Eligible(walk[i])
    BY <1>1, WalkRests
  <2>2. Walk!Before(next)' = Walk!Before(next)
    BY <1>1 DEF Walk!Before, Walk!Eligible, Walk!Yielded
  <2>3. notes' = {} => notes = {}
    BY <1>1
  <2> QED
    BY <1>1, <2>1, <2>2, <2>3 DEF WalkInv, Behind
<1>4. NotesOK'
  <2>1. \A n \in Walk!MissingInits :
           /\ n.at # Root /\ n.at \notin inits /\ Tree[n.at] \in inits
           /\ \E i \in DOMAIN walk : walk[i].dir = n.at /\ Scannable(i)
    BY DEF Walk!MissingInits, Walk!PackageDirs, Walk!Reached, Walk!Note, Scannable
  <2>2. \A i : Scannable(i)' <=> Scannable(i)
    BY <1>1, WalkRests
  <2> QED
    BY <1>1, <2>1, <2>2 DEF WalkInv, NotesOK
<1> QED
  BY <1>2, <1>3, <1>4 DEF WalkInv

LEMMA WalkIsHonest ==
    ASSUME WalkInv
    PROVE  Walk!TypeOK /\ Walk!CutIsTold /\ Walk!CleanIsClean /\ Walk!InitsRight
<1>1. /\ Len(walk) \in Nat /\ DOMAIN walk = 1..Len(walk) /\ MaxFiles \in Nat \ {0}
      /\ next \in 1..(Len(walk) + 1) /\ scanned \in 0..MaxFiles
      /\ done => next = Len(walk) + 1
  BY WalkFacts DEF WalkInv, WalkTypes
<1>2. done => 1..(next - 1) = DOMAIN walk
  BY <1>1
<1>3. done /\ ~truncated =>
         /\ scanned = Walk!Before(next)
         /\ \A i \in DOMAIN walk : Walk!Eligible(walk[i]) =>
               Walk!Before(i) < MaxFiles /\ (notes = {} => Fine(i))
  BY <1>2 DEF WalkInv, Behind
<1>4. Walk!TypeOK
  <2>1. done => Walk!Before(next) =
                  Walk!Cardinality({i \in DOMAIN walk : Walk!Eligible(walk[i]) /\ walk[i].readable})
    BY <1>2 DEF Walk!Before
  <2> QED
    BY <1>1, <1>3, <2>1 DEF Walk!TypeOK
<1>5. Walk!CutIsTold
  BY <1>3 DEF Walk!CutIsTold
<1>6. Walk!CleanIsClean
  BY <1>3 DEF Walk!CleanIsClean, Walk!Clean, Fine
<1>7. Walk!InitsRight
  BY DEF WalkInv, NotesOK, Walk!InitsRight, Scannable
<1> QED
  BY <1>4, <1>5, <1>6, <1>7

-----------------------------------------------------------------------------
(* The call, whichever family it names.                                     *)

ToolsInv ==
    /\ family = "program" => RunInv
    /\ family = "read" => ReadInv
    /\ family = "walk" => WalkInv

LEMMA ToolsStart ==
    ASSUME Init
    PROVE  ToolsInv
  BY InitRun, ReadStarts, WalkStarts DEF Init, ToolsInv

\* A step of one family leaves the others' invariants out of the question; no
\* step at all changes nothing they speak of.
LEMMA ToolsRest ==
    ASSUME ToolsInv, UNCHANGED vars
    PROVE  ToolsInv'
<1>1. UNCHANGED <<family, call, program, which, pc, exit, cut, file, args>>
  BY DEF vars, programVars, readVars
<1>2. UNCHANGED <<tool, walk, inits, next, scanned, notes, truncated, done, result>>
  BY DEF vars, walkVars
<1>3. family = "program" => RunInv'
  <2> SUFFICES ASSUME RunInv PROVE RunInv'
    BY DEF ToolsInv
  <2>1. RunTypes' /\ Passed' /\ OwnExit'
    BY <1>1 DEF RunInv, RunTypes, Passed, OwnExit, Program!Escapes, Program!Truncated, Program!Printed,
                Program!Lines, Program!Matches
  <2>2. pc = "done" => Sound(result)'
    BY <1>1, <1>2 DEF RunInv, Sound, Program!Printed, Program!Lines, Program!Matches, Program!Seen
  <2> QED
    BY <1>1, <1>2, <2>1, <2>2 DEF RunInv
<1>4. family = "read" => ReadInv'
  <2> SUFFICES ASSUME ReadInv PROVE ReadInv'
    BY DEF ToolsInv
  <2>1. /\ Read!Slice' = Read!Slice
        /\ Read!ByteTruncated' = Read!ByteTruncated /\ Read!LineTruncated' = Read!LineTruncated
    BY <1>1 DEF Read!Slice, Read!Total, Read!Low, Read!High, Read!ByteTruncated, Read!LineTruncated,
                Read!MaxBytes, Read!Size, Read!Offset
  <2> QED
    BY <1>1, <1>2, <2>1 DEF ReadInv, Read!Read
<1>5. family = "walk" => WalkInv'
  <2> SUFFICES ASSUME WalkInv PROVE WalkInv'
    BY DEF ToolsInv
  <2>1. /\ \A i : Scannable(i)' <=> Scannable(i)
        /\ \A i : Fine(i)' <=> Fine(i)
        /\ \A i : Walk!Before(i)' = Walk!Before(i)
        /\ \A i : Walk!Eligible(walk[i])' <=> Walk!Eligible(walk[i])
    BY <1>2, WalkRests
  <2>2. Walk!Before(next)' = Walk!Before(next)
    BY <1>2 DEF Walk!Before, Walk!Eligible, Walk!Yielded
  <2>3. WalkTypes' /\ NotesOK'
    BY <1>2, <2>1 DEF WalkInv, WalkTypes, NotesOK
  <2>4. Behind'
    BY <1>2, <2>1, <2>2 DEF WalkInv, Behind
  <2> QED
    BY <2>3, <2>4 DEF WalkInv
<1> QED
  BY <1>1, <1>3, <1>4, <1>5 DEF ToolsInv

LEMMA ToolsStep ==
    ASSUME ToolsInv, [Next]_vars
    PROVE  ToolsInv'
<1>1. CASE ProgramStep
  BY <1>1, RunStep DEF ProgramStep, ToolsInv
<1>2. CASE ReadStep
  BY <1>2, ReadStepKeeps DEF ReadStep, ToolsInv
<1>3. CASE WalkStep
  <2>1. family = "walk" /\ family' = family /\ WalkInv
    BY <1>3 DEF WalkStep, ToolsInv
  <2>2. WalkInv'
    BY <1>3, <2>1, StopKeeps, ScanKeeps, ReportKeeps DEF WalkStep, Walk!Next
  <2> QED
    BY <2>1, <2>2 DEF ToolsInv
<1>4. CASE UNCHANGED vars
  BY <1>4, ToolsRest
<1> QED
  BY <1>1, <1>2, <1>3, <1>4 DEF Next

\* Every call stays within the invariant of its family.
LEMMA ToolsAlways == Spec => []ToolsInv
  BY ToolsStart, ToolsStep, PTL DEF Spec

\* execute_tool, run_subprocess and the tools: a program is started only for a
\* call whose arguments and command passed every check of its tool, and a
\* timeout, a failed launch or a missing program never reads as success; for
\* any calls, any programs that exit as they do, and any output limit.
THEOREM CallsAreGuarded == Spec => []CallsGuarded
<1>1. ToolsInv => CallsGuarded
  BY RunIsGuarded DEF ToolsInv, CallsGuarded
<1> QED
  BY <1>1, ToolsAlways, PTL

\* Whatever a tool leaves out is told, and what it reports is so: cut output,
\* lines outside a slice, sources that a limit left unread, and the findings of
\* a walk; for files, bounds, budgets, trees and walks of any size.
THEOREM ReportsAreHonest == Spec => []ReportsHonest
<1>1. ToolsInv => ReportsHonest
  BY RunIsGuarded, ReadIsHonest, WalkIsHonest DEF ToolsInv, ReportsHonest
<1> QED
  BY <1>1, ToolsAlways, PTL
=============================================================================
