----------------------------- MODULE GatedExecution -----------------------------
(***************************************************************************)
(* What the anomaly lifecycle promises to the owner of the cloud account,  *)
(* without phases, activities, timers or workers: one decision is taken,   *)
(* it is never taken back, actions are carried out only after it was taken *)
(* in favour, each once and in the order planned, and a case that was      *)
(* closed without a decision in favour is closed for good.                 *)
(***************************************************************************)
EXTENDS Integers, Sequences

VARIABLES
    decision,   \* "open", "granted" or "refused"
    plan,       \* how many actions were planned; 0 until the decision
    performed,  \* positions of the actions carried out
    closed      \* the owner was told the outcome

gateVars == <<decision, plan, performed, closed>>

Init ==
    /\ decision = "open"
    /\ plan = 0
    /\ performed = <<>>
    /\ closed = FALSE

\* The decision falls in favour of a plan.
Grant ==
    /\ decision = "open"
    /\ decision' = "granted"
    /\ plan' \in Nat \ {0}
    /\ UNCHANGED <<performed, closed>>

\* The decision falls against, or the case ends without one.
Refuse ==
    /\ decision = "open"
    /\ decision' = "refused"
    /\ closed' = TRUE
    /\ UNCHANGED <<plan, performed>>

\* The next action of a granted plan.  The case may be closed already: an
\* executor the owner was told had failed may still be at work.
Perform ==
    /\ decision = "granted"
    /\ Len(performed) < plan
    /\ performed' = Append(performed, Len(performed) + 1)
    /\ UNCHANGED <<decision, plan, closed>>

\* The owner learns how a granted case ended.
Close ==
    /\ decision = "granted"
    /\ ~closed
    /\ closed' = TRUE
    /\ UNCHANGED <<decision, plan, performed>>

Next == Grant \/ Refuse \/ Perform \/ Close

Spec == Init /\ [][Next]_gateVars
=============================================================================
