------------------------------- MODULE MCRiskScan -------------------------------
(* Every action list of at most three actions, the target of none mattering. *)
EXTENDS RiskScan, SequencesExt

MCInputs == BoundedSeq([risk : ActionRiskLevels, target : {NoTarget}], 3)
=============================================================================
