----------------------------- MODULE MCWorkerProcess -----------------------------
(* Small instances of WorkerProcess for TLC. *)
EXTENDS WorkerProcess, TLC

CONSTANTS s1, s2, role, other, east, west

\* Blanks only, which is finops-anomaly with its activities; two queues without them, one
\* of which goes by both its names; and an unknown one.
MCQueueLists ==
    { <<"", "">>, <<"exec", "detect", "", "finops-exec">>, <<"anomaly", "billing">> }

MCEnvironments ==
    { [mode |-> "stub", cur_complete |-> FALSE], [mode |-> "production", cur_complete |-> FALSE],
      [mode |-> "production", cur_complete |-> TRUE], [mode |-> "other", cur_complete |-> TRUE] }

Ask(tenant, r, region) == [tenant |-> tenant, role |-> r, region |-> region]

\* A tenant without a role, or with two, one of which it asks for in two regions: the
\* cache has two entries, and one of them is stored for either region.
acme == <<"acme">>
MCTenants == {acme}
MCRequests ==
    { Ask(acme, NoRole, NoRegion), Ask(acme, role, NoRegion), Ask(acme, role, west),
      Ask(acme, other, NoRegion) }
=============================================================================
