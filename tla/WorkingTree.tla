---------------------------- MODULE WorkingTree -----------------------------
(***************************************************************************)
(* The working tree of one repository: the connect request that registers  *)
(* a path or clones a URL, the index run that opens the tree and may clone *)
(* or pull it too, and the tools that resolve it.  A clone is in progress  *)
(* from the moment its directory is there to the moment its files are, and *)
(* requests and runs overlap freely.                                       *)
(***************************************************************************)
EXTENDS Naturals

CONSTANTS
    MaxCommits,    \* bound on the commits pushed to the remote
    MaxFaults,     \* bound on clones and pulls that fail
    MaxCrashes     \* bound on crashes of the process

ConstantsAssumption ==
    /\ MaxCommits \in Nat \ {0} /\ MaxFaults \in Nat /\ MaxCrashes \in Nat

Actors == {"connect", "run"}

VARIABLES
    remote,      \* the remote's newest commit
    mount,       \* whether the local path exists
    dest,        \* workspaces_dir/<repo_id>: "none", "partial" or "whole", and a commit
    row,         \* the repositories row: its path, whether it has a URL, its error
    pc,          \* next step of the connect request and of the index run
    held,        \* local_path of the object the run holds
    indexed,     \* what the last run walked
    since,       \* history: the newest commit when the run began
    quiet,       \* history: nothing failed or ran beside the run
    faults, crashes

vars == <<remote, mount, dest, row, pc, held, indexed, since, quiet, faults, crashes>>
envVars == <<remote, mount, crashes>>

NoTree == [at |-> "none", commit |-> 0]

Init ==
    /\ remote = 1 /\ mount \in BOOLEAN
    /\ dest = NoTree
    /\ row = [path |-> "absent", git |-> FALSE, error |-> FALSE]
    /\ pc = [a \in Actors |-> "idle"] /\ held = "none"
    /\ indexed = NoTree /\ since = 0 /\ quiet = FALSE
    /\ faults = 0 /\ crashes = 0

-----------------------------------------------------------------------------
(* Faulty variants: one-slip mutations of the definitions below, to show    *)
(* that the properties can fail.  The specification uses none of them.     *)

\* A clone is started over whatever the directory holds.
VacantAny == TRUE

\* Only the stored path is resolved.
ResolveStored == IF row.path = "mount" /\ mount THEN "mount"
                 ELSE IF row.path = "dest" /\ dest.at # "none" THEN "dest" ELSE "none"

\* The run trusts the stored path, there or not.
OpensStored == held \in {"mount", "dest"}

-----------------------------------------------------------------------------
Fault == faults < MaxFaults /\ faults' = faults + 1

To(actor, step) == pc' = [pc EXCEPT ![actor] = step]

\* connect of a local path, which must exist.
ConnectLocal ==
    /\ row.path = "absent" /\ mount
    /\ row' = [path |-> "mount", git |-> FALSE, error |-> FALSE]
    /\ UNCHANGED <<envVars, dest, pc, held, indexed, since, quiet, faults>>

\* connect of a URL: the row first, then the clone.
ConnectGit ==
    /\ row.path = "absent"
    /\ row' = [path |-> "none", git |-> TRUE, error |-> FALSE]
    /\ To("connect", "check")
    /\ UNCHANGED <<envVars, dest, held, indexed, since, quiet, faults>>

\* _clone leaves a directory that has a .git alone; a run may make one after
\* it looked.
Look ==
    /\ pc["connect"] = "check"
    /\ To("connect", IF dest.at # "none" THEN "cloned" ELSE "clone")
    /\ UNCHANGED <<envVars, dest, row, held, indexed, since, quiet, faults>>

\* git clone into the directory, which git refuses unless it is vacant.
Vacant == dest.at = "none"

Cloning(actor) == pc[actor] \in {"cloning", "recloning"}

CloneBegins(actor) ==
    /\ pc[actor] \in {"clone", "reclone"}
    /\ IF Vacant THEN dest' = [at |-> "partial", commit |-> 0]
                      /\ To(actor, IF pc[actor] = "clone" THEN "cloning" ELSE "recloning")
       ELSE UNCHANGED dest /\ To(actor, IF pc[actor] = "clone" THEN "reclone" ELSE "failed")
    /\ quiet' = (quiet /\ Vacant)
    /\ UNCHANGED <<envVars, row, held, indexed, since, faults>>

CloneEnds(actor) ==
    /\ Cloning(actor)
    /\ dest' = [at |-> "whole", commit |-> remote]
    /\ To(actor, "cloned")
    /\ UNCHANGED <<envVars, row, held, indexed, since, quiet, faults>>

\* git removes the directory of a clone that fails; the first failure is
\* followed by a second try without the branch.
Removed == NoTree

CloneFails(actor) ==
    /\ Cloning(actor) /\ Fault
    /\ dest' = Removed
    /\ To(actor, IF pc[actor] = "cloning" THEN "reclone" ELSE "failed")
    /\ quiet' = FALSE
    /\ UNCHANGED <<envVars, row, held, indexed, since>>

\* The whole row is written back, with the path or with the error.
ConnectEnds ==
    /\ pc["connect"] \in {"cloned", "failed"}
    /\ row' = [row EXCEPT !.path = IF pc["connect"] = "cloned" THEN "dest" ELSE "none",
                          !.error = pc["connect"] = "failed"]
    /\ To("connect", "ended")
    /\ UNCHANGED <<envVars, dest, held, indexed, since, quiet, faults>>

-----------------------------------------------------------------------------
StartRun ==
    /\ row.path # "absent" /\ pc["run"] = "idle"
    /\ held' = row.path /\ since' = remote
    /\ quiet' = (pc["connect"] \in {"idle", "ended"})
    /\ To("run", "open")
    /\ UNCHANGED <<envVars, dest, row, indexed, faults>>

\* _open_repo prefers an existing local_path.
OpensHeld == (held = "mount" /\ mount) \/ (held = "dest" /\ dest.at # "none")

Open ==
    /\ pc["run"] = "open"
    /\ \/ OpensHeld /\ To("run", "walk") /\ UNCHANGED indexed
       \/ ~OpensHeld /\ row.git /\ dest.at # "none" /\ To("run", "pull") /\ UNCHANGED indexed
       \/ ~OpensHeld /\ row.git /\ dest.at = "none" /\ To("run", "clone") /\ UNCHANGED indexed
       \/ ~OpensHeld /\ ~row.git /\ To("run", "idle") /\ indexed' = NoTree
    /\ UNCHANGED <<envVars, dest, row, held, since, quiet, faults>>

\* _git_pull keeps its failures for itself, those of a partial tree included.
Pull ==
    /\ pc["run"] = "pull"
    /\ \/ /\ dest.at = "whole" /\ dest' = [dest EXCEPT !.commit = remote] /\ UNCHANGED <<faults, quiet>>
       \/ /\ dest.at # "whole" /\ UNCHANGED <<dest, faults, quiet>>
       \/ /\ Fault /\ quiet' = FALSE /\ UNCHANGED dest
    /\ To("run", "walk")
    /\ UNCHANGED <<envVars, row, held, indexed, since>>

\* After both clones failed a tree another actor made is used.
RunCloned ==
    /\ pc["run"] \in {"cloned", "failed"}
    /\ IF dest.at # "none" THEN To("run", "walk") /\ UNCHANGED indexed
       ELSE To("run", "idle") /\ indexed' = NoTree
    /\ UNCHANGED <<envVars, dest, row, held, since, quiet, faults>>

Walk ==
    /\ pc["run"] = "walk"
    /\ indexed' = IF held = "mount" THEN [at |-> "mount", commit |-> 0] ELSE dest
    /\ To("run", "idle")
    /\ UNCHANGED <<envVars, dest, row, held, since, quiet, faults>>

-----------------------------------------------------------------------------
\* ApiRepoLocator.resolve
Resolve == IF row.path = "mount" /\ mount THEN "mount"
           ELSE IF dest.at # "none" THEN "dest" ELSE "none"

Push ==
    /\ remote < MaxCommits /\ remote' = remote + 1
    /\ UNCHANGED <<mount, dest, row, pc, held, indexed, since, quiet, faults, crashes>>

Remount ==
    /\ mount' = ~mount /\ pc["run"] = "idle"
    /\ UNCHANGED <<remote, dest, row, pc, held, indexed, since, quiet, faults, crashes>>

\* The process ends with its threads; a clone in progress stays as it is.
Crash ==
    /\ crashes < MaxCrashes /\ crashes' = crashes + 1
    /\ pc' = [connect |-> IF pc["connect"] = "idle" THEN "idle" ELSE "ended", run |-> "idle"]
    /\ quiet' = FALSE
    /\ UNCHANGED <<remote, mount, dest, row, held, indexed, since, faults>>

Next ==
    \/ ConnectLocal \/ ConnectGit \/ Look \/ ConnectEnds
    \/ \E actor \in Actors : CloneBegins(actor) \/ CloneEnds(actor) \/ CloneFails(actor)
    \/ StartRun \/ Open \/ Pull \/ RunCloned \/ Walk
    \/ Push \/ Remount \/ Crash

Spec == Init /\ [][Next]_vars

-----------------------------------------------------------------------------
Steps == {"idle", "check", "clone", "cloning", "reclone", "recloning", "cloned", "failed", "ended", "open", "pull", "walk"}

TypeOK ==
    /\ remote \in 1..MaxCommits /\ mount \in BOOLEAN
    /\ \A t \in {dest, indexed} : t.at \in {"none", "partial", "whole", "mount"} /\ t.commit \in 0..remote
    /\ row.path \in {"absent", "none", "mount", "dest"} /\ row.error \in BOOLEAN
    /\ pc \in [Actors -> Steps]
    /\ held \in {"absent", "none", "mount", "dest"}

\* A repository whose clone failed is healed by a retry: whatever happened
\* before, a run beside which nothing runs or fails walks the whole tree.
RetryHeals ==
    (pc["run"] = "idle" /\ quiet /\ row.git /\ crashes = 0) => indexed.at = "whole"

\* A whole tree is never lost to another clone.
WholeStays == dest.at = "whole" => dest'.at = "whole"
WholeKept == [][WholeStays]_vars

\* The tools find the tree of whatever URL was indexed.
ToolsFindTree == (row.git /\ indexed.at = "whole") => Resolve = "dest"

-----------------------------------------------------------------------------
(* What the docs say, where the code does not do it; no run checks these.   *)

\* A run of a cloned repository pulls it first.
PullsOnIndex ==
    (pc["run"] = "idle" /\ quiet /\ row.git /\ crashes = 0) => indexed.commit >= since
=============================================================================
