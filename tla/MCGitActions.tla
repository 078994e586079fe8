---------------------------- MODULE MCGitActions ----------------------------
(* A small instance of GitActions: two feature branches besides the default *)
(* branch.                                                                  *)
EXTENDS GitActions, TLC

CONSTANTS main, f1, f2

Alike == Permutations(Runs) \cup Permutations(Edits)

MCBranches == {main, f1, f2}
MCPublished == {main, f2}
MCFeatures == <<f1, f2>>

Bound(starts, movements, preparations, team, failures) ==
  [starts |-> starts, moves |-> movements, preparations |-> preparations,
   team |-> team, failures |-> failures]

\* A pull request is prepared while a request runs and HEAD moves.
Preparing == Bound(1, 1, 1, 2, 0)
\* A command fails.
Failing == Bound(2, 1, 0, 0, 1)
\* The team opens a pull request and merges it, or pushes twice.
Collaborating == Bound(2, 1, 0, 2, 0)
\* Requests and a branch selector where not everything marks the default branch.
Offering == Bound(2, 0, 0, 0, 0)
Selecting == Bound(1, 1, 0, 0, 0)

MCCircumstances == {Marks} \X {Preparing, Failing, Collaborating}
                \cup ((SUBSET Marks) \ {Marks}) \X {Offering, Selecting}
=============================================================================
