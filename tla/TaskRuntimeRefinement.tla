----------------------- MODULE TaskRuntimeRefinement -----------------------
(***************************************************************************)
(* The Task Runtime implements the life cycle of a Plan, and what the rest *)
(* of the system sees of its execution.                                    *)
(***************************************************************************)
EXTENDS TaskRuntime

Phase ==
    CASE planStatus = "completed"      -> "completed"
      [] planStatus = "replan_pending" -> "failed"
      [] OTHER                         -> "open"

Lifecycle == INSTANCE PlanLifecycle WITH
    phase <- Phase,
    done <- TasksIn({"succeeded"}),
    taken <- {currentTask} \ {0},
    tries <- attempts,
    frozen <- Locked

\* Workers, redeliveries, lease recovery and compensation, seen from outside,
\* do nothing but take tasks in dependency order, finish them or undo them;
\* no late report, stale event or crash makes a step of any other kind.
ImplementsLifecycle == Lifecycle!Spec

\* What the Plan has asked of the other components.
Asked == {kind \in {"aggregate", "replan"} : EventsOf(kind) # {}}

Visible == INSTANCE PlanExecution WITH status <- planStatus, asked <- Asked

\* The Plan starts, and asks in one step with its end for the one thing that
\* its end calls for.
ImplementsExecution == Visible!Spec
=============================================================================
