----------------------------- MODULE Workspaces -----------------------------
(***************************************************************************)
(* POST /workspaces: each request lists the slugs there are, chooses one   *)
(* that is not among them and inserts its row.  Requests run in threads,   *)
(* and no lock or constraint spans the two calls of the store.  A slug is  *)
(* a sequence: the name's parts, and the number appended to it.            *)
(***************************************************************************)
EXTENDS Naturals, Sequences, FiniteSets

CONSTANTS
    Requests,    \* the requests
    Name         \* slugify(body.name) of each request, a sequence

ASSUME ConstantsAssumption ==
    /\ IsFiniteSet(Requests)
    /\ DOMAIN Name = Requests

VARIABLES
    pc,          \* "start", "listed" or "done"
    existing,    \* the slugs a request has listed
    slug,        \* the slug of the row a request inserted, or None
    before       \* history: the requests whose rows were there when it listed

vars == <<pc, existing, slug, before>>

None == <<>>

Init ==
    /\ pc = [r \in Requests |-> "start"]
    /\ existing = [r \in Requests |-> {}]
    /\ slug = [r \in Requests |-> None]
    /\ before = [r \in Requests |-> {}]

-----------------------------------------------------------------------------
(* Faulty variants: one-slip mutations of the definitions below, to show    *)
(* that the properties can fail.  The specification uses none of them.     *)

\* A taken name gets the next number, looked up or not.
FreshCounted(base, i, taken) == i = Cardinality({s \in taken : s = base}) + 1

\* Only the first number is tried.
FreshSecond(base, i, taken) == i = 2 /\ Append(base, i) \notin taken

-----------------------------------------------------------------------------
Inserted == {r \in Requests : pc[r] = "done"}

List(r) ==
    /\ pc[r] = "start"
    /\ pc' = [pc EXCEPT ![r] = "listed"]
    /\ existing' = [existing EXCEPT ![r] = {slug[q] : q \in Inserted}]
    /\ before' = [before EXCEPT ![r] = Inserted]
    /\ UNCHANGED slug

Unnumbered(base, taken) == base \notin taken

\* i is the first number from 2 on that makes the slug a new one.
Fresh(base, i, taken) ==
    /\ Append(base, i) \notin taken
    /\ \A k \in 2..(i - 1) : Append(base, k) \in taken

\* _unique_slug, as a relation: s may be chosen for the name.
Unique(base, s, taken) ==
    \/ Unnumbered(base, taken) /\ s = base
    \/ /\ ~Unnumbered(base, taken)
       /\ \E i \in 2..(Cardinality(taken) + 2) : Fresh(base, i, taken) /\ s = Append(base, i)

Slugs(r) == {Name[r]} \cup {Append(Name[r], i) : i \in 2..(Cardinality(existing[r]) + 2)}

Insert(r) ==
    /\ pc[r] = "listed"
    /\ pc' = [pc EXCEPT ![r] = "done"]
    /\ \E s \in Slugs(r) : Unique(Name[r], s, existing[r]) /\ slug' = [slug EXCEPT ![r] = s]
    /\ UNCHANGED <<existing, before>>

Next == \E r \in Requests : List(r) \/ Insert(r)

Spec == Init /\ [][Next]_vars

\* The server runs every request it accepted.
FairSpec == Spec /\ \A r \in Requests : WF_vars(List(r)) /\ WF_vars(Insert(r))

-----------------------------------------------------------------------------
TypeOK ==
    /\ pc \in [Requests -> {"start", "listed", "done"}]
    /\ before \in [Requests -> SUBSET Requests]
    /\ existing = [r \in Requests |-> existing[r]]
    /\ slug = [r \in Requests |-> slug[r]]

\* Two workspaces share a slug only if neither was there when the other looked:
\* requests that do not overlap always get slugs of their own, also when one
\* name is the numbered form of another.
DuplicatesOverlap ==
    \A r, q \in Inserted :
        (r # q /\ slug[r] = slug[q]) => r \notin before[q] /\ q \notin before[r]

\* A free slug is found for every request, however many of its name there are.
EveryRequestInserts == \A r \in Requests : <>(pc[r] = "done")

-----------------------------------------------------------------------------
(* What the docs say, where the code does not do it; no run checks these.   *)

\* The slug of a workspace is its own.
SlugsUnique == \A r, q \in Inserted : slug[r] = slug[q] => r = q
=============================================================================
