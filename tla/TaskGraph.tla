------------------------------ MODULE TaskGraph ------------------------------
(***************************************************************************)
(* The graph of the tasks of a Plan, over which planning and execution     *)
(* meet: FinalizePlan writes it (PlannerRun), the Task Runtime runs it     *)
(* (TaskRuntime).                                                          *)
(***************************************************************************)
EXTENDS Integers

\* n tasks, named by their sequence numbers, and the tasks each one waits for:
\* all of the Plan, and without a circle, so that every nonempty set of tasks
\* has a member that waits for no other member.
IsTaskGraph(n, deps) ==
    /\ n \in Nat \ {0}
    /\ deps \in [1 .. n -> SUBSET (1 .. n)]
    /\ \A S \in SUBSET (1 .. n) : S # {} => \E t \in S : deps[t] \cap S = {}
=============================================================================
