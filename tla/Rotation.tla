------------------------------ MODULE Rotation ------------------------------
(***************************************************************************)
(* The plan of internal/wallet/core/rotation.go: a list of branches of the *)
(* key tree, one of which is active.  Every method holds the mutex, so one *)
(* call is one action.  The path of a branch is named by the generation in *)
(* it.                                                                     *)
(***************************************************************************)
EXTENDS Integers, Sequences

CONSTANT MaxBranches    \* bound on the length of the list

BranchesAssumption == MaxBranches \in Nat \ {0}

VARIABLES
    branches,       \* sequence of [generation, deprecated]
    generation,     \* the active generation
    activeBranch    \* the generation in the active path

vars == <<branches, generation, activeBranch>>

\* A branch is derived for each generation below it first.
Branch == [generation : 0 .. MaxBranches - 1, deprecated : BOOLEAN]

TypeOK ==
    /\ branches \in Seq(Branch)
    /\ generation \in 0 .. MaxBranches - 1
    /\ activeBranch \in 0 .. MaxBranches - 1

\* NewRotationPlan.
Init ==
    /\ branches = <<[generation |-> 0, deprecated |-> FALSE]>>
    /\ generation = 0
    /\ activeBranch = 0

Listed(g) == \E i \in DOMAIN branches : branches[i].generation = g

\* The branch a loop over the list finds.
Found(i, g) ==
    /\ branches[i].generation = g
    /\ \A j \in 1 .. i - 1 : branches[j].generation # g

\* DeriveNext counts from the active generation; a path that cannot be derived
\* changes nothing.
DeriveNext ==
    /\ Len(branches) < MaxBranches
    /\ branches' = Append(branches, [generation |-> generation + 1, deprecated |-> FALSE])
    /\ UNCHANGED <<generation, activeBranch>>

ActivateBranch(g) ==
    /\ Listed(g)
    /\ generation' = g
    /\ activeBranch' = g
    /\ UNCHANGED branches

\* Mutant of DeprecateBranch: the newest branch is protected, not the active one.
DeprecateAllButNewest(g) == \E i \in DOMAIN branches :
    /\ i # Len(branches)
    /\ Found(i, g)
    /\ branches' = [branches EXCEPT ![i].deprecated = TRUE]
    /\ UNCHANGED <<generation, activeBranch>>

\* The first branch of the generation is marked.
DeprecateBranch(g) == \E i \in DOMAIN branches :
    /\ g # generation
    /\ Found(i, g)
    /\ branches' = [branches EXCEPT ![i].deprecated = TRUE]
    /\ UNCHANGED <<generation, activeBranch>>

Next ==
    \/ DeriveNext
    \/ \E g \in 0..MaxBranches : ActivateBranch(g) \/ DeprecateBranch(g)

Spec == Init /\ [][Next]_vars

-----------------------------------------------------------------------------
(* Properties.                                                             *)

\* After any sequence of calls the active generation, the active path and the
\* list agree, and every generation below a listed one is listed: no branch that
\* may hold assets is forgotten (rotation.go:57, 80-84).
PlanIsConsistent ==
    /\ activeBranch = generation
    /\ Listed(generation)
    /\ \A i \in DOMAIN branches : \A g \in 0 .. branches[i].generation : Listed(g)

ActiveDeprecated == \E i \in DOMAIN branches :
    branches[i].generation = generation /\ branches[i].deprecated

\* A deprecated branch is active only by going back to it: no other call makes
\* the active branch a deprecated one (rotation.go:96-98).
OnlyReturnRevives == [][
    ActiveDeprecated' /\ ~ActiveDeprecated => generation' # generation]_vars

\* Whatever is called in whatever order, the plan is consistent and only going back
\* revives a branch.
RotationIsSafe == []PlanIsConsistent /\ OnlyReturnRevives
=============================================================================
