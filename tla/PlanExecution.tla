---------------------------- MODULE PlanExecution ----------------------------
(***************************************************************************)
(* What the rest of the system sees of the execution of a Plan: its status *)
(* from "ready" on, and what it asks of others when it has ended, each at  *)
(* most once and never both.  PlanLifecycle says what goes on inside.      *)
(***************************************************************************)

VARIABLES
    status,   \* Plan.status
    asked     \* what the Plan has asked for by events

vars == <<status, asked>>

Init ==
    /\ status = "ready"
    /\ asked = {}

Start ==
    /\ status = "ready"
    /\ status' = "running"
    /\ UNCHANGED asked

End(result, request) ==
    /\ status = "running"
    /\ status' = result
    /\ asked' = asked \cup {request}

Complete == End("completed", "aggregate")
Fail == End("replan_pending", "replan")

Next == Start \/ Complete \/ Fail

Spec == Init /\ [][Next]_vars
=============================================================================
