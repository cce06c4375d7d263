--------------------------- MODULE MCTurnWorkflow ---------------------------
(* Instances of TurnWorkflow for TLC. *)
EXTENDS TurnWorkflowInv, TLC

CONSTANTS w1, w2, api

MCWorkers == {w1, w2}
MCSymmetry == Permutations(MCWorkers)
Undisturbed == {}
Disturbed == {"faults", "lease_end", "legacy_client"}
=============================================================================
