-------------------------- MODULE Services_proofs ---------------------------
(***************************************************************************)
(* Requests that create workspaces without overlapping get slugs of their  *)
(* own, whatever the names; and what the working tree of a repository owes *)
(* to index runs and tools, however many commits, failures and crashes.    *)
(***************************************************************************)
EXTENDS MCServices, TLAPS

-----------------------------------------------------------------------------
(* The creation of workspaces.                                              *)

\* What a request listed are the slugs of the rows that were there before, and
\* the slug it inserted is none of them.
Looked ==
    \A r \in Requests :
        /\ before[r] \subseteq Inserted
        /\ existing[r] = {slug[q] : q \in before[r]}
        /\ pc[r] = "start" => before[r] = {}
        /\ pc[r] = "done" => slug[r] \notin existing[r]

SlugsInv == TypeOK /\ Looked

\* A slug _unique_slug chooses is not among those it was given.
LEMMA UniqueIsNew ==
    ASSUME NEW base, NEW s, NEW taken, Unique(base, s, taken)
    PROVE  s \notin taken
  BY DEF Unique, Unnumbered, Fresh

\* The initial state satisfies the invariant.
LEMMA InitSlugs == Init => SlugsInv
  BY DEF Init, SlugsInv, TypeOK, Looked, Inserted, None

\* A row is never changed once it is inserted.
LEMMA RowsKept ==
    ASSUME SlugsInv, [Next]_vars, NEW q \in Inserted
    PROVE  q \in Inserted' /\ slug'[q] = slug[q] /\ pc'[q] = "done"
<1>1. CASE UNCHANGED vars
  BY <1>1 DEF vars, Inserted
<1>2. ASSUME NEW r \in Requests, List(r) PROVE q \in Inserted' /\ slug'[q] = slug[q] /\ pc'[q] = "done"
  BY <1>2 DEF List, Inserted, SlugsInv, TypeOK
<1>3. ASSUME NEW r \in Requests, Insert(r) PROVE q \in Inserted' /\ slug'[q] = slug[q] /\ pc'[q] = "done"
  BY <1>3 DEF Insert, Inserted, SlugsInv, TypeOK
<1> QED
  BY <1>1, <1>2, <1>3 DEF Next

\* Listing and inserting keep the types.
LEMMA SlugTypesStep == SlugsInv /\ [Next]_vars => TypeOK'
<1> SUFFICES ASSUME SlugsInv, [Next]_vars PROVE TypeOK'
  OBVIOUS
<1>1. CASE UNCHANGED vars
  BY <1>1 DEF vars, SlugsInv, TypeOK
<1>2. ASSUME NEW r \in Requests, List(r) PROVE TypeOK'
  BY <1>2 DEF List, Inserted, SlugsInv, TypeOK
<1>3. ASSUME NEW r \in Requests, Insert(r) PROVE TypeOK'
  BY <1>3 DEF Insert, SlugsInv, TypeOK
<1> QED
  BY <1>1, <1>2, <1>3 DEF Next

\* Every step keeps what a request has looked at.
LEMMA LookedStep == SlugsInv /\ [Next]_vars => Looked'
<1> SUFFICES ASSUME SlugsInv, [Next]_vars, NEW r \in Requests
             PROVE  /\ before'[r] \subseteq Inserted'
                    /\ existing'[r] = {slug'[q] : q \in before'[r]}
                    /\ pc'[r] = "start" => before'[r] = {}
                    /\ pc'[r] = "done" => slug'[r] \notin existing'[r]
  BY DEF Looked
<1>1. CASE before'[r] = before[r] /\ existing'[r] = existing[r]
  <2>1. before'[r] \subseteq Inserted'
    BY <1>1, RowsKept DEF SlugsInv, Looked
  <2>2. {slug'[q] : q \in before[r]} = {slug[q] : q \in before[r]}
    BY RowsKept DEF SlugsInv, Looked
  <2>3. pc'[r] = "start" => pc[r] = "start"
    <3>1. ASSUME NEW p \in Requests, List(p), pc'[r] = "start" PROVE pc[r] = "start"
      BY <3>1 DEF List, SlugsInv, TypeOK
    <3>2. ASSUME NEW p \in Requests, Insert(p), pc'[r] = "start" PROVE pc[r] = "start"
      BY <3>2 DEF Insert, SlugsInv, TypeOK
    <3> QED
      BY <3>1, <3>2 DEF Next, vars
  <2>4. ASSUME pc'[r] = "done" PROVE slug'[r] \notin existing[r]
    <3>1. CASE pc[r] = "done"
      BY <3>1, RowsKept DEF SlugsInv, Looked, Inserted
    <3>2. CASE pc[r] # "done"
      <4>1. PICK p \in Requests : List(p) \/ Insert(p)
        BY <2>4, <3>2 DEF Next, vars
      <4>2. Insert(p) /\ p = r
        BY <4>1, <2>4, <3>2 DEF List, Insert, SlugsInv, TypeOK
      <4>3. PICK s \in Slugs(r) : Unique(Name[r], s, existing[r]) /\ slug' = [slug EXCEPT ![r] = s]
        BY <4>2 DEF Insert
      <4>4. slug'[r] = s
        BY <4>3 DEF SlugsInv, TypeOK
      <4> QED
        BY <4>3, <4>4, UniqueIsNew
    <3> QED
      BY <3>1, <3>2
  <2> QED
    BY <1>1, <2>1, <2>2, <2>3, <2>4 DEF SlugsInv, Looked
<1>2. CASE ~(before'[r] = before[r] /\ existing'[r] = existing[r])
  <2>1. List(r)
    <3>1. ASSUME NEW p \in Requests, List(p), p # r
          PROVE  before'[r] = before[r] /\ existing'[r] = existing[r]
      BY <3>1 DEF List, SlugsInv, TypeOK
    <3>2. ASSUME NEW p \in Requests, Insert(p)
          PROVE  before'[r] = before[r] /\ existing'[r] = existing[r]
      BY <3>2 DEF Insert
    <3> QED
      BY <1>2, <3>1, <3>2 DEF Next, vars
  <2>2. /\ pc'[r] = "listed" /\ before'[r] = Inserted
        /\ existing'[r] = {slug[q] : q \in Inserted}
        /\ slug' = slug
    <3>1. existing' = [existing EXCEPT ![r] = {slug[q] : q \in Inserted}] /\ before' = [before EXCEPT ![r] = Inserted]
      BY <2>1 DEF List
    <3>2. existing'[r] = {slug[q] : q \in Inserted} /\ before'[r] = Inserted
      BY <3>1 DEF SlugsInv, TypeOK
    <3> QED
      BY <2>1, <3>2 DEF List, SlugsInv, TypeOK
  <2>3. Inserted \subseteq Inserted'
    BY RowsKept
  <2> QED
    BY <2>2, <2>3
<1> QED
  BY <1>1, <1>2

\* The types are kept in every reachable state.
THEOREM TypeCorrect == Spec => []TypeOK
<1>1. SlugsInv /\ [Next]_vars => SlugsInv'
  BY SlugTypesStep, LookedStep DEF SlugsInv
<1> QED
  BY InitSlugs, <1>1, PTL DEF Spec, SlugsInv

\* Requests that do not overlap get slugs of their own.
THEOREM OverlapOnly == Spec => []DuplicatesOverlap
<1>1. SlugsInv /\ [Next]_vars => SlugsInv'
  BY SlugTypesStep, LookedStep DEF SlugsInv
<1>2. SlugsInv => DuplicatesOverlap
  <2> SUFFICES ASSUME SlugsInv, NEW r \in Inserted, NEW q \in Inserted, slug[r] = slug[q]
               PROVE  r \notin before[q] /\ q \notin before[r]
    BY DEF DuplicatesOverlap
  <2>1. slug[r] \notin existing[r] /\ slug[q] \notin existing[q]
    BY DEF SlugsInv, Looked, Inserted
  <2>2. r \in before[q] => slug[r] \in existing[q]
    BY DEF SlugsInv, Looked, Inserted
  <2>3. q \in before[r] => slug[q] \in existing[r]
    BY DEF SlugsInv, Looked, Inserted
  <2> QED
    BY <2>1, <2>2, <2>3
<1> QED
  BY InitSlugs, <1>1, <1>2, PTL DEF Spec

\* Beside the other services the slugs are those of Workspaces alone.
THEOREM SlugsInServices == ServicesSpec => []DuplicatesOverlap
<1>1. ServicesInit => Init
  BY DEF ServicesInit
<1>2. [ServicesNext]_allVars => [Next]_vars
  BY DEF ServicesNext, InSlugs, InTree, InTraces, allVars
<1>3. ServicesSpec => Spec
  BY <1>1, <1>2, PTL DEF ServicesSpec, Spec
<1> QED
  BY <1>3, OverlapOnly, PTL

-----------------------------------------------------------------------------
(* The working tree.                                                        *)

TreeState == [at : {"none", "partial", "whole"}, commit : Nat]

TreeTypes ==
    /\ remote \in 1..MaxCommits /\ mount \in BOOLEAN
    /\ dest \in TreeState /\ dest.commit <= remote
    /\ indexed \in [at : {"none", "partial", "whole", "mount"}, commit : Nat] /\ indexed.commit <= remote
    /\ row \in [path : {"absent", "none", "mount", "dest"}, git : BOOLEAN, error : BOOLEAN]
    /\ step \in [Tree!Actors -> Tree!Steps]
    /\ held \in {"absent", "none", "mount", "dest"}
    /\ quiet \in BOOLEAN /\ crashes \in Nat

\* Of the two actors at most one clones, and into a directory nobody else
\* fills; a partial tree that nobody fills is what a crash leaves.
OneClone ==
    /\ \A a \in Tree!Actors : Tree!Cloning(a) => dest.at = "partial"
    /\ ~(Tree!Cloning("connect") /\ Tree!Cloning("run"))
    /\ crashes = 0 /\ dest.at = "partial" => \E a \in Tree!Actors : Tree!Cloning(a)

\* A row with a URL is never that of a mounted path, for the request or for
\* the run that holds a copy of it.
RowOK ==
    /\ row.path = "absent" => \A a \in Tree!Actors : step[a] = "idle"
    /\ row.path = "absent" => held = "none"
    /\ row.git => row.path # "mount" /\ held # "mount"
    /\ indexed.at = "whole" => dest.at = "whole"

\* How far a run got that nothing disturbs.
RunOK ==
    /\ quiet => row.path # "absent" /\ step["connect"] \in {"idle", "ended"}
    /\ quiet /\ row.git /\ crashes = 0 =>
          /\ step["run"] \notin {"reclone", "recloning", "failed"}
          /\ step["run"] \in {"pull", "walk", "cloned"} => dest.at = "whole"
          /\ step["run"] = "clone" => dest.at = "none"
          /\ step["run"] = "idle" => indexed.at = "whole"

TreeInv == TreeTypes /\ OneClone /\ RowOK /\ RunOK

-----------------------------------------------------------------------------

LEMMA BoundsAre ==
    MaxCommits \in Nat \ {0}
  BY Assumptions DEF Tree!ConstantsAssumption

LEMMA InitTree ==
    ASSUME Tree!Init
    PROVE  TreeInv
<1> USE DEF Tree!Init, Tree!NoTree, Tree!Actors, Tree!Steps
<1>1. TreeTypes
  <2>1. row \in [path : {"absent", "none", "mount", "dest"}, git : BOOLEAN, error : BOOLEAN]
    OBVIOUS
  <2>2. quiet \in BOOLEAN
    OBVIOUS
  <2> QED
    BY <2>1, <2>2, BoundsAre DEF TreeTypes, TreeState
<1>2. OneClone /\ RowOK /\ RunOK
  BY DEF OneClone, Tree!Cloning, RowOK, RunOK
<1> QED
  BY <1>1, <1>2 DEF TreeInv

\* The types, action by action.
LEMMA TreeTypesStep ==
    ASSUME TreeTypes, OneClone, Tree!Next
    PROVE  TreeTypes'
<1> USE DEF TreeTypes, TreeState, Tree!Actors, Tree!Steps, Tree!To, Tree!envVars, Tree!NoTree
<1>0. MaxCommits \in Nat \ {0}
  BY BoundsAre
<1>1. CASE Tree!ConnectLocal \/ Tree!ConnectGit
  <2>1. row' \in [path : {"absent", "none", "mount", "dest"}, git : BOOLEAN, error : BOOLEAN]
    <3> DEFINE Row == [path : {"absent", "none", "mount", "dest"}, git : BOOLEAN, error : BOOLEAN]
    <3>1. [path |-> "mount", git |-> FALSE, error |-> FALSE] \in Row
      OBVIOUS
    <3>2. [path |-> "none", git |-> TRUE, error |-> FALSE] \in Row
      OBVIOUS
    <3> QED
      BY <1>1, <3>1, <3>2, Zenon DEF Tree!ConnectLocal, Tree!ConnectGit
  <2> QED
    BY <1>1, <2>1 DEF Tree!ConnectLocal, Tree!ConnectGit
<1>12. CASE Tree!Look
  BY <1>12 DEF Tree!Look
<1>2. CASE Tree!ConnectEnds
  BY <1>2 DEF Tree!ConnectEnds
<1>3. ASSUME NEW a \in Tree!Actors, Tree!CloneBegins(a) PROVE TreeTypes'
  <2>1. dest' \in TreeState /\ dest'.commit <= remote
    BY <1>0, <1>3 DEF Tree!CloneBegins
  <2>2. step' \in [Tree!Actors -> Tree!Steps]
    BY <1>3 DEF Tree!CloneBegins
  <2>3. quiet' \in BOOLEAN
    BY <1>3, Zenon DEF Tree!CloneBegins, Tree!Vacant
  <2> QED
    BY <1>3, <2>1, <2>2, <2>3 DEF Tree!CloneBegins
<1>4. ASSUME NEW a \in Tree!Actors, Tree!CloneEnds(a) PROVE TreeTypes'
  BY <1>0, <1>4 DEF Tree!CloneEnds
<1>5. ASSUME NEW a \in Tree!Actors, Tree!CloneFails(a) PROVE TreeTypes'
  <2>1. quiet' \in BOOLEAN
    BY <1>5, Zenon DEF Tree!CloneFails
  <2>2. step' \in [Tree!Actors -> Tree!Steps]
    BY <1>5 DEF Tree!CloneFails
  <2> QED
    BY <1>0, <1>5, <2>1, <2>2 DEF Tree!CloneFails, Tree!Removed
<1>6. CASE Tree!StartRun
  <2>1. quiet' \in BOOLEAN
    <3>1. quiet' = (step["connect"] \in {"idle", "ended"})
      BY <1>6 DEF Tree!StartRun
    <3> HIDE DEF TreeTypes, Tree!Actors, Tree!Steps
    <3> QED
      BY <3>1
  <2> QED
    BY <1>6, <2>1 DEF Tree!StartRun
<1>7. CASE Tree!Open \/ Tree!RunCloned \/ Tree!Walk
  BY <1>0, <1>7 DEF Tree!Open, Tree!RunCloned, Tree!Walk
<1>8. CASE Tree!Pull
  <2>1. dest' \in TreeState /\ dest'.commit <= remote
    BY <1>0, <1>8 DEF Tree!Pull
  <2>2. quiet' \in BOOLEAN
    BY <1>8, Zenon DEF Tree!Pull
  <2> QED
    BY <1>0, <1>8, <2>1, <2>2 DEF Tree!Pull
<1>9. CASE Tree!Push
  BY <1>0, <1>9 DEF Tree!Push
<1>10. CASE Tree!Remount
  BY <1>0, <1>10 DEF Tree!Remount
<1>11. CASE Tree!Crash
  <2>1. quiet' \in BOOLEAN
    BY <1>11, Zenon DEF Tree!Crash
  <2>2. step' \in [Tree!Actors -> Tree!Steps]
    BY <1>11 DEF Tree!Crash
  <2> QED
    BY <1>0, <1>11, <2>1, <2>2 DEF Tree!Crash
<1> QED
  BY <1>1, <1>2, <1>3, <1>4, <1>5, <1>6, <1>7, <1>8, <1>9, <1>10, <1>11, <1>12 DEF Tree!Next

LEMMA OneCloneStep ==
    ASSUME TreeTypes, OneClone, RowOK, Tree!Next
    PROVE  OneClone'
<1> USE DEF TreeTypes, TreeState, Tree!Actors, Tree!Steps, Tree!To, Tree!envVars, Tree!NoTree,
            OneClone, Tree!Cloning
<1>1. CASE Tree!ConnectLocal \/ Tree!ConnectGit \/ Tree!Look
  BY <1>1 DEF Tree!ConnectLocal, Tree!ConnectGit, Tree!Look, RowOK
<1>2. CASE Tree!ConnectEnds
  BY <1>2 DEF Tree!ConnectEnds
<1>3. ASSUME NEW a \in Tree!Actors, Tree!CloneBegins(a) PROVE OneClone'
  BY <1>3 DEF Tree!CloneBegins, Tree!Vacant
<1>4. ASSUME NEW a \in Tree!Actors, Tree!CloneEnds(a) PROVE OneClone'
  BY <1>4 DEF Tree!CloneEnds
<1>5. ASSUME NEW a \in Tree!Actors, Tree!CloneFails(a) PROVE OneClone'
  BY <1>5 DEF Tree!CloneFails, Tree!Removed
<1>6. CASE Tree!StartRun \/ Tree!Open \/ Tree!RunCloned \/ Tree!Walk
  BY <1>6 DEF Tree!StartRun, Tree!Open, Tree!RunCloned, Tree!Walk
<1>7. CASE Tree!Pull
  BY <1>7 DEF Tree!Pull
<1>8. CASE Tree!Push \/ Tree!Remount
  BY <1>8 DEF Tree!Push, Tree!Remount
<1>9. CASE Tree!Crash
  <2>1. crashes' # 0 /\ dest' = dest /\ \A a \in Tree!Actors : step'[a] \notin {"cloning", "recloning"}
    BY <1>9 DEF Tree!Crash
  <2> QED
    BY <2>1
<1> QED
  BY <1>1, <1>2, <1>3, <1>4, <1>5, <1>6, <1>7, <1>8, <1>9 DEF Tree!Next

\* Git refuses a directory that is not vacant, and only the clone that fills
\* a directory removes it.
LEMMA WholeStep ==
    ASSUME TreeTypes, OneClone, Tree!Next
    PROVE  Tree!WholeStays
<1> USE DEF TreeTypes, TreeState, Tree!WholeStays, Tree!envVars
<1>1. ASSUME NEW a \in Tree!Actors, Tree!CloneBegins(a) \/ Tree!CloneEnds(a) \/ Tree!CloneFails(a)
      PROVE  Tree!WholeStays
  BY <1>1 DEF OneClone, Tree!CloneBegins, Tree!CloneEnds, Tree!CloneFails, Tree!Vacant, Tree!Removed
<1>2. CASE Tree!Pull
  BY <1>2 DEF Tree!Pull
<1>3. CASE ~Tree!Pull /\ ~\E a \in Tree!Actors : Tree!CloneBegins(a) \/ Tree!CloneEnds(a) \/ Tree!CloneFails(a)
  BY <1>3 DEF Tree!Next, Tree!ConnectLocal, Tree!ConnectGit, Tree!Look, Tree!ConnectEnds,
              Tree!StartRun, Tree!Open, Tree!RunCloned, Tree!Walk, Tree!Push, Tree!Remount, Tree!Crash
<1> QED
  BY <1>1, <1>2, <1>3

LEMMA RowStep ==
    ASSUME TreeTypes, OneClone, RowOK, Tree!Next
    PROVE  RowOK'
<1> USE DEF TreeTypes, TreeState, Tree!Actors, Tree!Steps, Tree!To, Tree!envVars, Tree!NoTree, RowOK
<1>0. Tree!WholeStays
  BY WholeStep
<1>1. CASE Tree!ConnectLocal
  BY <1>1 DEF Tree!ConnectLocal
<1>2. CASE Tree!ConnectGit
  BY <1>2 DEF Tree!ConnectGit
<1>3. CASE Tree!Look
  BY <1>3 DEF Tree!Look
<1>4. CASE Tree!ConnectEnds
  BY <1>4 DEF Tree!ConnectEnds
<1>5. ASSUME NEW a \in Tree!Actors, Tree!CloneBegins(a) \/ Tree!CloneEnds(a) \/ Tree!CloneFails(a)
      PROVE  RowOK'
  <2>1. step[a] # "idle" /\ UNCHANGED <<row, held, indexed>>
    BY <1>5 DEF Tree!CloneBegins, Tree!CloneEnds, Tree!CloneFails, Tree!Cloning
  <2> QED
    BY <1>0, <2>1 DEF Tree!WholeStays
<1>6. CASE Tree!StartRun
  BY <1>6 DEF Tree!StartRun
<1>7. CASE Tree!Open \/ Tree!RunCloned \/ Tree!Walk
  <2>1. /\ UNCHANGED <<row, held, dest>> /\ step["run"] # "idle"
        /\ indexed'.at = "whole" => indexed.at = "whole" \/ dest.at = "whole"
    BY <1>7 DEF Tree!Open, Tree!RunCloned, Tree!Walk
  <2> QED
    BY <2>1
<1>8. CASE Tree!Pull
  <2>1. UNCHANGED <<row, held, indexed>> /\ step["run"] # "idle"
    BY <1>8 DEF Tree!Pull
  <2> QED
    BY <1>0, <2>1 DEF Tree!WholeStays
<1>9. CASE Tree!Push \/ Tree!Remount
  BY <1>9 DEF Tree!Push, Tree!Remount
<1>10. CASE Tree!Crash
  <2>1. /\ UNCHANGED <<row, held, indexed, dest>>
        /\ \A a \in Tree!Actors : step[a] = "idle" => step'[a] = "idle"
    BY <1>10 DEF Tree!Crash
  <2> QED
    BY <2>1
<1> QED
  BY <1>1, <1>2, <1>3, <1>4, <1>5, <1>6, <1>7, <1>8, <1>9, <1>10 DEF Tree!Next

\* A run that nothing disturbs ends with the whole tree.
LEMMA RunStep ==
    ASSUME TreeTypes, OneClone, RowOK, RunOK, Tree!Next
    PROVE  RunOK'
<1> USE DEF TreeTypes, TreeState, Tree!Actors, Tree!Steps, Tree!To, Tree!envVars, Tree!NoTree, RunOK
<1>1. CASE Tree!ConnectLocal \/ Tree!ConnectGit
  <2>1. row.path = "absent" /\ quiet' = quiet
    BY <1>1 DEF Tree!ConnectLocal, Tree!ConnectGit
  <2> QED
    BY <2>1
<1>2. CASE Tree!Look \/ Tree!ConnectEnds
  <2>1. step["connect"] \notin {"idle", "ended"} /\ quiet' = quiet
    BY <1>2 DEF Tree!Look, Tree!ConnectEnds
  <2> QED
    BY <2>1
<1>3. ASSUME NEW a \in Tree!Actors, Tree!CloneBegins(a) PROVE RunOK'
  <2>1. CASE Tree!Vacant
    BY <1>3, <2>1 DEF Tree!CloneBegins
  <2>2. CASE ~Tree!Vacant
    BY <1>3, <2>2 DEF Tree!CloneBegins
  <2> QED
    BY <2>1, <2>2
<1>4. ASSUME NEW a \in Tree!Actors, Tree!CloneEnds(a) PROVE RunOK'
  BY <1>4 DEF Tree!CloneEnds, Tree!Cloning
<1>5. ASSUME NEW a \in Tree!Actors, Tree!CloneFails(a) PROVE RunOK'
  <2>1. quiet' = FALSE
    BY <1>5, Zenon DEF Tree!CloneFails
  <2> QED
    BY <2>1
<1>6. CASE Tree!StartRun
  <2>1. /\ row.path # "absent" /\ row' = row /\ step'["run"] = "open" /\ step'["connect"] = step["connect"]
        /\ quiet' = (step["connect"] \in {"idle", "ended"})
    BY <1>6 DEF Tree!StartRun
  <2> QED
    BY <2>1
<1>7. CASE Tree!Open
  <2>1. quiet /\ row.git /\ crashes = 0 => dest.at # "partial"
    BY <1>7 DEF Tree!Open, OneClone, Tree!Cloning
  <2>2. quiet /\ row.git /\ crashes = 0 => held # "mount"
    BY DEF RowOK
  <2> QED
    BY <1>7, <2>1, <2>2 DEF Tree!Open, Tree!OpensHeld
<1>8. CASE Tree!Pull
  BY <1>8 DEF Tree!Pull
<1>9. CASE Tree!RunCloned
  BY <1>9 DEF Tree!RunCloned
<1>10. CASE Tree!Walk
  BY <1>10 DEF Tree!Walk, RowOK
<1>11. CASE Tree!Push \/ Tree!Remount
  BY <1>11 DEF Tree!Push, Tree!Remount
<1>12. CASE Tree!Crash
  <2>1. quiet' = FALSE
    BY <1>12, Zenon DEF Tree!Crash
  <2> QED
    BY <2>1
<1> QED
  BY <1>1, <1>2, <1>3, <1>4, <1>5, <1>6, <1>7, <1>8, <1>9, <1>10, <1>11, <1>12 DEF Tree!Next

-----------------------------------------------------------------------------
(* The theorems. *)

\* While the tree's module is the one that moves, its invariant holds.
ServicesInv == service \in {"slugs", "tree", "traces"} /\ (service = "tree" => TreeInv)

LEMMA ServicesStep ==
    ASSUME ServicesInv, [ServicesNext]_allVars
    PROVE  ServicesInv'
<1>1. CASE InTree(Tree!Next)
  <2>1. service = "tree" /\ service' = service /\ Tree!Next /\ TreeInv
    BY <1>1 DEF InTree, ServicesInv
  <2> QED
    BY <2>1, TreeTypesStep, OneCloneStep, RowStep, RunStep DEF ServicesInv, TreeInv
<1>2. CASE InSlugs(Next) \/ InTraces(Traces!Next) \/ UNCHANGED allVars
  <2>1. service' = service /\ UNCHANGED treeVars
    BY <1>2 DEF InSlugs, InTraces, allVars
  <2>2. TreeInv => TreeInv'
    BY <2>1 DEF treeVars, TreeInv, TreeTypes, OneClone, Tree!Cloning, RowOK, RunOK
  <2> QED
    BY <2>1, <2>2 DEF ServicesInv
<1> QED
  BY <1>1, <1>2 DEF ServicesNext

LEMMA InitServices ==
    ASSUME ServicesInit
    PROVE  ServicesInv
  BY InitTree DEF ServicesInit, ServicesInv

LEMMA ServicesCorrect == ServicesSpec => []ServicesInv
<1>1. ServicesInit => ServicesInv
  BY InitServices
<1>2. ServicesInv /\ [ServicesNext]_allVars => ServicesInv'
  BY ServicesStep
<1> QED
  BY <1>1, <1>2, PTL DEF ServicesSpec

\* A run beside which nothing runs or fails walks the whole tree whatever
\* failed before it, and the tools find the tree of whatever URL was indexed
\* (IndexingService._open_repo, ApiRepoLocator.resolve).
THEOREM TreesAreHealed == ServicesSpec => []TreeHeals
<1>1. ServicesInv => TreeHeals
  <2> SUFFICES ASSUME service = "tree", TreeInv
               PROVE  Tree!TypeOK /\ Tree!RetryHeals /\ Tree!ToolsFindTree
    BY DEF ServicesInv, TreeHeals
  <2> USE DEF TreeInv
  <2>1. Tree!TypeOK
    BY BoundsAre DEF Tree!TypeOK, TreeTypes, TreeState
  <2>2. Tree!RetryHeals
    BY DEF Tree!RetryHeals, RunOK
  <2>3. Tree!ToolsFindTree
    BY DEF Tree!ToolsFindTree, Tree!Resolve, RowOK
  <2> QED
    BY <2>1, <2>2, <2>3
<1> QED
  BY <1>1, ServicesCorrect, PTL

\* No other clone takes a whole tree away (_clone_or_pull, connect).
THEOREM WholeTreesStay == ServicesSpec => WholeKept
<1>1. ServicesInv /\ [ServicesNext]_allVars => [service = "tree" => Tree!WholeStays]_allVars
  <2> SUFFICES ASSUME ServicesInv, ServicesNext, service = "tree" PROVE Tree!WholeStays
    OBVIOUS
  <2>1. Tree!Next /\ TreeInv
    BY DEF ServicesNext, InSlugs, InTree, InTraces, ServicesInv
  <2> QED
    BY <2>1, WholeStep DEF TreeInv
<1> QED
  BY <1>1, ServicesCorrect, PTL DEF ServicesSpec, WholeKept
=============================================================================
