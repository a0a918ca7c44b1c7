--------------------------- MODULE MCAnomalyLifecycle ---------------------------
(* Small instances of AnomalyLifecycle for TLC. *)
EXTENDS AnomalyLifecycle, TLC

CONSTANTS r1, r2, p1, p2, p3

Act(risk, target) == [risk |-> risk, target |-> target]

\* One plan for every way through the policy and the executor: no action, low
\* risk on one resource twice, medium risk over two resources, an action without
\* target, critical risk hidden behind low risk, and an unvalidated level.
MCPlans ==
    { <<>>,
      <<Act("low", r1), Act("low", r1)>>,
      <<Act("medium", r1), Act("low", r2)>>,
      <<Act("high", NoTarget)>>,
      <<Act("low", r2), Act("critical", r1)>>,
      <<Act("unknown", r1)>> }

MCFewPlans ==
    { <<>>, <<Act("low", r1)>>, <<Act("medium", r1), Act("low", r2)>>, <<Act("critical", r1)>> }

MCTagSets == { {}, {"do-not-modify"}, {"manual-only"} }
MCOneTag == { {}, {"do-not-modify"} }
AllQueues == {QueueAnomaly, QueueExec}

Symmetry == Permutations(Approvers)
=============================================================================
