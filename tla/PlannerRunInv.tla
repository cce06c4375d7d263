---------------------------- MODULE PlannerRunInv ----------------------------
(***************************************************************************)
(* The inductive invariant of PlannerRun.                                  *)
(***************************************************************************)
EXTENDS PlannerRun, TaskGraph

\* Nothing is carried by a run that has not begun or has left its workflow.
Blank(r) == run[r].evidence = << >> /\ run[r].decision = "none"

\* The rounds a run has collected, and its decision, where it stands.
RoundsSeen(r, n) == run[r].evidence \in [1 .. n -> Round]
Fits(r) ==
  /\ run[r].at \in {"collect_initial_evidence", "ended", "marking", "over"} => Blank(r)
  /\ At(r, "assess_initial_gap") => RoundsSeen(r, 1) /\ run[r].decision = "none"
  /\ At(r, "collect_follow_up_evidence") => RoundsSeen(r, 1) /\ run[r].decision = "COLLECT_MORE"
  /\ At(r, "assess_final_gap") => RoundsSeen(r, 2) /\ run[r].decision = "COLLECT_MORE"
  /\ At(r, "resolve_gap") => run[r].decision /= "none" /\ Supported(r, run[r].decision, FALSE)
  /\ At(r, "commit_plan") =>
       \/ run[r].decision = "COMMIT"
       \/ run[r].decision = "none" /\ RoundsSeen(r, 1) /\ ReadyForCommit(run[r].evidence[1])
  /\ At(r, "asking") => run[r].decision \in {"none", "COMMIT", "CLARIFICATION"}
EvidenceInv == \A r \in Runs : Fits(r)

\* As soon as one run is over the Plan is handed on; a run that asks has marked
\* the Plan, and only the end of the Turn takes the question away from it.
HandedOn ==
  \/ plan \in {"ready", "unsupported", "retry_pending"}
  \/ plan = "needs_clarification" /\ (question \/ turn = "closed")
HandInv ==
  /\ plan = "needs_clarification" => turn /= "open"
  /\ \A r \in Runs : At(r, "asking") => plan /= "planning"
  /\ \A r \in Runs : At(r, "over") => HandedOn

\* Drafts have numbers and references of their own; they are there as long as
\* the Plan is being planned, and tasks only when it is published.
Distinct(S) == \A t, d \in S : t.ref = d.ref \/ t.sequence = d.sequence => t = d
DraftInv ==
  /\ IsFiniteSet(drafts) /\ Distinct(drafts) /\ Cardinality(drafts) <= MaxTasks
  /\ plan = "ready" => PublishedIsRunnable

IInv == TypeOK /\ EvidenceInv /\ HandInv /\ DraftInv

(***************************************************************************)
(* What the Task Runtime gets.                                             *)
(***************************************************************************)
\* The dependency rows that FinalizePlan writes, by the numbers of the tasks.
Numbered(n) == CHOOSE t \in tasks : t.sequence = n
Dependencies ==
  [n \in 1 .. Cardinality(tasks) |->
     {d.sequence : d \in {t \in tasks : t.ref \in Numbered(n).depends}}]

\* Each published task is one row, by its number as by its reference.
TasksInv == plan = "ready" => IsFiniteSet(tasks) /\ Distinct(tasks)

\* A published Plan has the graph that the Task Runtime takes for granted
\* (DagAssumption of TaskRuntime), with Cardinality(tasks) for NumTasks.
PublishedIsGraph == plan = "ready" => IsTaskGraph(Cardinality(tasks), Dependencies)
=============================================================================
