----------------------------- MODULE PlannerRun -----------------------------
(***************************************************************************)
(* The planner at work on one Plan: collectors gather evidence, the gap    *)
(* handler judges what is missing, the commit agent drafts tasks and       *)
(* publishes them.  What the language models answer is an input; the       *)
(* workflow around them and the planning tools decide what comes of it.    *)
(* A request to replan that is delivered again puts a second run on the    *)
(* same Plan.                                                              *)
(***************************************************************************)
EXTENDS Naturals, Sequences, FiniteSets, FiniteSetsExt

CONSTANTS
  Runs,       \* planner runs on the Plan
  Refs,       \* task_ref values the model may choose
  Rounds,     \* evidence a round may bring: outcomes of its items, a gap or none
  MaxTasks,   \* MAX_TASKS_PER_PLAN
  MaxDepth    \* MAX_PLAN_DAG_DEPTH

Outcomes == {"succeeded", "rejected", "retryable", "final"}
Round == [items : SUBSET Outcomes, gap : BOOLEAN]

ASSUME PlannerAssumption ==
  /\ MaxTasks \in Nat \ {0} /\ MaxDepth \in Nat \ {0}
  /\ Rounds \subseteq Round /\ Runs /= {}

VARIABLES
  plan,       \* status of the Plan
  turn,       \* of the Turn: is it open to the planner, or does it wait for the user?
  question,   \* has the user been asked?
  drafts,     \* draft tasks
  tasks,      \* published tasks
  named,      \* task_refs of the tasks the Turn names
  run         \* where each run is, its evidence and its gap decision

database == <<plan, turn, question, drafts, tasks, named>>
vars == <<database, run>>

PlanStatus == {"planning", "ready", "unsupported", "needs_clarification", "retry_pending"}
Actions == {"COMMIT", "COLLECT_MORE", "RETRY", "SYSTEM_FAILURE", "CLARIFICATION", "UNSUPPORTED"}
Nodes == {"collect_initial_evidence", "assess_initial_gap", "collect_follow_up_evidence",
          "assess_final_gap", "resolve_gap", "commit_plan", "asking", "ended", "marking", "over"}
Task == [ref : Refs, sequence : 1 .. MaxTasks, depends : SUBSET Refs]
Run == [at : Nodes, evidence : UNION {[1 .. n -> Round] : n \in 0 .. 2},
        decision : Actions \cup {"none"}]

TypeOK ==
  /\ plan \in PlanStatus /\ turn \in {"open", "waiting", "closed"} /\ question \in BOOLEAN
  /\ drafts \subseteq Task /\ tasks \subseteq Task /\ named \subseteq Refs
  /\ run \in [Runs -> Run]

Starting == [at |-> "collect_initial_evidence", evidence |-> << >>, decision |-> "none"]

Init ==
  /\ plan = "planning" /\ turn = "open" /\ question = FALSE
  /\ drafts = {} /\ tasks = {} /\ named = {}
  /\ run = [r \in Runs |-> Starting]

At(r, node) == run[r].at = node
Goto(r, node) == run' = [run EXCEPT ![r].at = node]
\* The state of the workflow goes with it.
Leave(r, node) == run' = [run EXCEPT ![r] = [Starting EXCEPT !.at = node]]

(***************************************************************************)
(* Evidence and gaps.                                                      *)
(***************************************************************************)
\* Mutant: a failed query does not keep the planner from committing.
ReadyIfAnySucceeded(round) == "succeeded" \in round.items /\ ~round.gap
ReadyForCommit(round) == round.items = {"succeeded"} /\ ~round.gap

CollectInitialEvidence(r, round) ==
  /\ At(r, "collect_initial_evidence")
  /\ run' = [run EXCEPT ![r].evidence = <<round>>,
       ![r].at = IF ReadyForCommit(round) THEN "commit_plan" ELSE "assess_initial_gap"]
  /\ UNCHANGED database

Failures(r) == UNION {run[r].evidence[n].items : n \in DOMAIN run[r].evidence}
\* validate_gap_decision
Supported(r, action, collectMoreAllowed) ==
  /\ action = "COLLECT_MORE" => collectMoreAllowed
  /\ action = "RETRY" => "retryable" \in Failures(r)
  /\ action = "SYSTEM_FAILURE" => "final" \in Failures(r)

AssessInitialGap(r, action) ==
  /\ At(r, "assess_initial_gap") /\ Supported(r, action, TRUE)
  /\ run' = [run EXCEPT ![r].decision = action,
       ![r].at = IF action = "COLLECT_MORE" THEN "collect_follow_up_evidence" ELSE "resolve_gap"]
  /\ UNCHANGED database

CollectFollowUpEvidence(r, round) ==
  /\ At(r, "collect_follow_up_evidence")
  /\ run' = [run EXCEPT ![r].evidence = Append(@, round), ![r].at = "assess_final_gap"]
  /\ UNCHANGED database

\* Mutant: evidence is collected as long as it is asked for.
CollectsAgain(r, action) ==
  /\ At(r, "assess_final_gap") /\ Supported(r, action, TRUE)
  /\ run' = [run EXCEPT ![r].decision = action,
       ![r].at = IF action = "COLLECT_MORE" THEN "collect_follow_up_evidence" ELSE "resolve_gap"]
  /\ UNCHANGED database
AssessFinalGap(r, action) ==
  /\ At(r, "assess_final_gap") /\ Supported(r, action, FALSE)
  /\ run' = [run EXCEPT ![r].decision = action, ![r].at = "resolve_gap"]
  /\ UNCHANGED database

\* GapDecisionError
DecisionRefused(r, action) ==
  /\ \/ At(r, "assess_initial_gap") /\ ~Supported(r, action, TRUE)
     \/ At(r, "assess_final_gap") /\ ~Supported(r, action, FALSE)
  /\ Leave(r, "ended")
  /\ UNCHANGED database

(***************************************************************************)
(* Decisions on the Plan: transactions under its row lock.                 *)
(***************************************************************************)
MarkUnsupported ==
  /\ plan = "planning"
  /\ plan' = "unsupported"
  /\ UNCHANGED <<turn, question, drafts, tasks, named>>

MarkNeedsClarification ==
  /\ plan = "planning" /\ turn = "open"
  /\ plan' = "needs_clarification" /\ turn' = "waiting"
  /\ UNCHANGED <<question, drafts, tasks, named>>

Decided(r, action) == At(r, "resolve_gap") /\ run[r].decision = action

ResolveCommit(r) ==
  /\ Decided(r, "COMMIT")
  /\ Goto(r, "commit_plan")
  /\ UNCHANGED database

\* PlanningRetryRequested, or the error of a failed system.
ResolveByRaising(r) ==
  /\ Decided(r, "RETRY") \/ Decided(r, "SYSTEM_FAILURE")
  /\ Leave(r, "ended")
  /\ UNCHANGED database

ResolveUnsupported(r) ==
  /\ Decided(r, "UNSUPPORTED") /\ MarkUnsupported
  /\ Leave(r, "ended")

ResolveClarification(r) ==
  /\ Decided(r, "CLARIFICATION") /\ MarkNeedsClarification
  /\ Goto(r, "asking")

ResolveRefused(r) ==
  /\ \/ Decided(r, "UNSUPPORTED") /\ plan /= "planning"
     \/ Decided(r, "CLARIFICATION") /\ (plan /= "planning" \/ turn /= "open")
  /\ Leave(r, "ended")
  /\ UNCHANGED database

(***************************************************************************)
(* The commit agent: one tool call at a time.                              *)
(***************************************************************************)
\* Mutant: the status of the Plan is not looked at again under its lock.
AcceptsUnlocked(t) ==
  /\ Cardinality(drafts) < MaxTasks
  /\ \A d \in drafts : d.sequence /= t.sequence /\ d.ref /= t.ref
  /\ t.ref \notin t.depends
Accepts(t) ==
  /\ plan = "planning"
  /\ Cardinality(drafts) < MaxTasks
  /\ \A d \in drafts : d.sequence /= t.sequence /\ d.ref /= t.ref
  /\ t.ref \notin t.depends

CreateTask(r, t) ==
  /\ At(r, "commit_plan") /\ Accepts(t)
  /\ drafts' = drafts \cup {t}
  /\ UNCHANGED <<plan, turn, question, tasks, named, run>>

\* _validate_dag: depth[n] is the depth of a task, cut off at n; a task on a
\* circle exceeds every limit.
Of(ref) == CHOOSE t \in drafts : t.ref = ref
Depths == LET depth[n \in Nat] ==
                IF n = 0 THEN [t \in drafts |-> 0]
                ELSE [t \in drafts |->
                       1 + Max({0} \cup {depth[n - 1][Of(ref)] : ref \in t.depends})]
          IN depth
RefsExist == \A t \in drafts : \A ref \in t.depends : \E d \in drafts : d.ref = ref
ValidDag ==
  /\ RefsExist
  /\ \A t \in drafts : Depths[MaxDepth + 1][t] <= MaxDepth

Publishable ==
  /\ plan = "planning" /\ turn = "open"
  /\ Cardinality(drafts) \in 1 .. MaxTasks
  /\ {t.sequence : t \in drafts} = 1 .. Cardinality(drafts)
  /\ ValidDag

\* The agent stops at this tool, whatever the answer is: also when the answer
\* of a commit that was made is lost.
FinalizePlan(r) ==
  /\ At(r, "commit_plan") /\ Publishable
  /\ plan' = "ready" /\ tasks' = drafts /\ drafts' = {}
  /\ named' = {t.ref : t \in drafts}
  /\ Leave(r, "ended")
  /\ UNCHANGED <<turn, question>>

FinalizeRefused(r) ==
  /\ At(r, "commit_plan") /\ ~Publishable
  /\ Leave(r, "ended")
  /\ UNCHANGED database

CommitUnsupported(r) ==
  /\ At(r, "commit_plan") /\ MarkUnsupported
  /\ Leave(r, "ended")

CommitUnsupportedRefused(r) ==
  /\ At(r, "commit_plan") /\ plan /= "planning"
  /\ Leave(r, "ended")
  /\ UNCHANGED database

ClarificationHandoff(r) ==
  /\ At(r, "commit_plan") /\ MarkNeedsClarification
  /\ Goto(r, "asking")

\* An error of the model, of the output that is extracted from its tool
\* calls, of a handoff, one turn too many; or the commit agent, or the
\* clarification agent, ends without a result.
AgentFails(r) ==
  /\ run[r].at \notin {"ended", "marking", "over"}
  /\ Leave(r, "ended")
  /\ UNCHANGED database

(***************************************************************************)
(* After the planner: its question is set, and what the Plan has become is *)
(* read from the database.                                                 *)
(***************************************************************************)
AwaitsQuestion == plan = "needs_clarification" /\ turn = "waiting"

SetClarificationQuestion(r) ==
  /\ At(r, "asking") /\ AwaitsQuestion
  /\ question' = TRUE
  /\ Leave(r, "ended")
  /\ UNCHANGED <<plan, turn, drafts, tasks, named>>

SetQuestionRefused(r) ==
  /\ At(r, "asking") /\ ~AwaitsQuestion
  /\ Leave(r, "over")
  /\ UNCHANGED database

\* Mutant: a Plan that waits for a question nobody asks is left alone.
NeedsRetryIfPlanning == plan = "planning"
NeedsRetry == plan = "planning" \/ (plan = "needs_clarification" /\ ~question)

ReadResult(r) ==
  /\ At(r, "ended")
  /\ Goto(r, IF NeedsRetry THEN "marking" ELSE "over")
  /\ UNCHANGED database

MarkRetryPending(r) ==
  /\ At(r, "marking") /\ plan \in {"planning", "needs_clarification"}
  /\ plan' = "retry_pending" /\ turn' = "open"
  /\ Leave(r, "over")
  /\ UNCHANGED <<question, drafts, tasks, named>>

MarkRefused(r) ==
  /\ At(r, "marking") /\ plan \notin {"planning", "needs_clarification"}
  /\ Leave(r, "over")
  /\ UNCHANGED database

\* The client closes the Turn.
CloseTurn ==
  /\ turn /= "closed"
  /\ turn' = "closed"
  /\ UNCHANGED <<plan, question, drafts, tasks, named, run>>

EvidenceStep(r) ==
  \/ \E round \in Rounds : CollectInitialEvidence(r, round) \/ CollectFollowUpEvidence(r, round)
  \/ \E action \in Actions :
       AssessInitialGap(r, action) \/ AssessFinalGap(r, action) \/ DecisionRefused(r, action)

ResolveStep(r) ==
  \/ ResolveCommit(r) \/ ResolveByRaising(r) \/ ResolveUnsupported(r)
  \/ ResolveClarification(r) \/ ResolveRefused(r)

CommitStep(r) ==
  \/ \E t \in Task : CreateTask(r, t)
  \/ FinalizePlan(r) \/ FinalizeRefused(r)
  \/ CommitUnsupported(r) \/ CommitUnsupportedRefused(r) \/ ClarificationHandoff(r)

FinishStep(r) ==
  \/ SetClarificationQuestion(r) \/ SetQuestionRefused(r)
  \/ ReadResult(r) \/ MarkRetryPending(r) \/ MarkRefused(r)

Next ==
  \/ \E r \in Runs : EvidenceStep(r) \/ ResolveStep(r) \/ CommitStep(r) \/ FinishStep(r) \/ AgentFails(r)
  \/ CloseTurn

Spec == Init /\ [][Next]_vars

(***************************************************************************)
(* Properties.                                                             *)
(***************************************************************************)
\* A published Plan can be executed, whatever two runs have drafted: its tasks
\* are numbered without a hole, wait only for tasks of the Plan, none waits
\* for itself over others, and no chain is longer than the limit; the Turn
\* names all of them and no draft is left behind (use_cases.py:358-459).
PublishedIsRunnable ==
  plan = "ready" =>
    /\ drafts = {} /\ tasks /= {} /\ named = {t.ref : t \in tasks}
    /\ {t.sequence : t \in tasks} = 1 .. Cardinality(tasks)
    /\ Cardinality(named) = Cardinality(tasks) /\ Cardinality(tasks) <= MaxTasks
    /\ \A t \in tasks : t.depends \subseteq named
    /\ \A circle \in (SUBSET tasks) \ {{}} :
         \E t \in circle : \A d \in circle : d.ref \notin t.depends
    /\ ~\E chain \in [1 .. MaxDepth + 1 -> tasks] :
         \A n \in 1 .. MaxDepth : chain[n + 1].ref \in chain[n].depends

\* Tasks are drafted, or a run goes to its end, on evidence that allows it:
\* who commits without a gap decision has seen only answered queries and no
\* gap, who retries or reports a failed system has a query that failed in just
\* this way, and nobody collects more than twice (planner.py:405-416,
\* gap_handler.py:178-209).
VerdictIsBacked ==
  \A r \in Runs :
    LET seen == {run[r].evidence[n] : n \in DOMAIN run[r].evidence} IN
    /\ At(r, "commit_plan") /\ run[r].decision = "none" =>
         seen /= {} /\ \A round \in seen : round.items = {"succeeded"} /\ ~round.gap
    /\ run[r].decision = "RETRY" => \E round \in seen : "retryable" \in round.items
    /\ run[r].decision = "SYSTEM_FAILURE" => \E round \in seen : "final" \in round.items
    /\ run[r].decision = "COLLECT_MORE" => ~At(r, "resolve_gap") /\ ~At(r, "commit_plan")

\* When no run is at work on it any more, somebody else is: a Plan is
\* published, refused, handed to its next revision, or its user has been
\* asked, unless a client has closed the Turn under the question
\* (run_planning.py:447-468).
PlanIsHandedOn ==
  (\A r \in Runs : At(r, "over")) =>
    \/ plan \in {"ready", "unsupported", "retry_pending"}
    \/ plan = "needs_clarification" /\ (question \/ turn = "closed")
=============================================================================
