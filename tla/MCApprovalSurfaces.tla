--------------------------- MODULE MCApprovalSurfaces ---------------------------
(* Small instances of ApprovalSurfaces for TLC. *)
EXTENDS ApprovalSurfaces, TLC

CONSTANTS r1, r2, c1, c2

Act(risk, target) == [risk |-> risk, target |-> target]

\* A plan that nobody is asked about, one of a risk that somebody is, and none.
MCPlans == { <<>>, <<Act("low", NoTarget)>>, <<Act("high", NoTarget)>> }
MCTagSets == { {} }

\* Every way through the lifecycle to its end: two resources one of which may be
\* protected, and a plan that the policy denies.
MCLivePlans ==
    { <<>>, <<Act("low", r1)>>, <<Act("medium", r1), Act("low", r2)>>, <<Act("critical", r1)>> }
MCLiveTagSets == { {}, {"do-not-modify"} }

AllQueues == {QueueAnomaly, QueueExec}

Symmetry == Permutations(Approvers)
=============================================================================
