------------------------ MODULE MCCapacityAdmission ------------------------
(* TLC instance of CapacityAdmission: three runs of one repository, one of *)
(* them a head successor, and a run of another one.                        *)
EXTENDS CapacityAdmission, TLC

CONSTANTS a1, a2, s1, b1, RepoA, RepoB, RepoLimit, GlobalLimit

MCRuns == {a1, a2, s1, b1}
MCRepoOf == [run \in MCRuns |-> IF run = b1 THEN RepoB ELSE RepoA]

\* One policy; and two, of which one has no repository bound.
MCOnePolicy == {[repo |-> RepoLimit, global |-> GlobalLimit]}
MCTwoPolicies == MCOnePolicy \cup {[repo |-> 0, global |-> GlobalLimit + 1]}

CapacitySymmetry == Permutations(Owners) \cup Permutations({a1, a2})
=============================================================================
