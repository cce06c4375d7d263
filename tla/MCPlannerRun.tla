---------------------------- MODULE MCPlannerRun ----------------------------
(***************************************************************************)
(* The planner on one Plan: two runs that both found it being planned,     *)
(* three tasks and chains of at most two.                                  *)
(***************************************************************************)
EXTENDS PlannerRun, TLC

CONSTANTS r1, r2, a, b, c

\* Everything answered; nothing asked; next to an answer, a query that may be
\* tried again, or one that may not.
MCRounds == {
  [items |-> {"succeeded"}, gap |-> FALSE],
  [items |-> {}, gap |-> FALSE],
  [items |-> {"succeeded", "retryable"}, gap |-> FALSE],
  [items |-> {"succeeded", "final"}, gap |-> TRUE]}

Symmetry == Permutations({r1, r2}) \cup Permutations({a, b, c})
=============================================================================
