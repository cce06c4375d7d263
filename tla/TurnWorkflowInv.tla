--------------------------- MODULE TurnWorkflowInv ---------------------------
(***************************************************************************)
(* The inductive invariant of TurnWorkflow.                                *)
(***************************************************************************)
EXTENDS TurnWorkflow

\* A planner has a revision, and a worker that plans has recorded its event; an
\* aggregation has not recorded its own yet.
RunnerInv ==
    /\ \A x \in Runners : runner[x].pc \in PlannerStates => Rev(x) \in Revisions
    /\ \A w \in Workers :
         /\ runner[w].pc \notin ApiStates
         /\ runner[w].pc \in PlannerStates \cup {"done"} => runner[w].event \in inbox
         /\ runner[w].pc \in WorkerStates \ {"done"} =>
              /\ Rev(w) \in Revisions
              /\ runner[w].event \in emitted
              /\ runner[w].event.cause = "completed"
    /\ runner[Api].pc \notin WorkerStates

\* The request exists only with the Plan that has asked.
RequestInv == request.status # "none" => request.plan \in Revisions

\* While the message is being routed nothing else has happened.
RoutingFirst ==
    At(Api, "routing") =>
        /\ turn = "routing"
        /\ \A r \in Revisions : plan[r] = "none"
        /\ request.status = "none"
        /\ emitted = {}

\* OneLivePlan, for revisions that are not neighbours as well.
LineOfPlans ==
    \A r, s \in Revisions : r < s /\ plan[s] # "none" => plan[r] = "superseded"

\* Events are about Plans that exist, and a replan that is recorded has been
\* carried out.
EventInv ==
    /\ \A e \in emitted : plan[e.plan] # "none"
    /\ \A e \in inbox : IsReplan(e) => plan[e.plan] \in {"superseded", "failed"}

IInv ==
    /\ TypeOK
    /\ RunnerInv
    /\ RequestInv
    /\ RoutingFirst
    /\ LineOfPlans
    /\ EventInv
    /\ ReplanPromised

-----------------------------------------------------------------------------
(* Why the Turn agrees with its Plan, and the reply with the tables.       *)

\* The Plan that is neither missing nor superseded: the latest one.
Lives(r) == plan[r] \notin {"none", "superseded"}

LatestLives ==
    \A r \in Revisions :
        plan[r] = "superseded" => r + 1 \in Revisions /\ plan[r + 1] # "none"

\* TurnFollowsPlan, said of the Plan that lives.
Agrees ==
    /\ (turn = "needs_clarification") <=>
         request.status = "open" /\ plan[request.plan] = "needs_clarification"
    /\ \A r \in Revisions : Lives(r) =>
         /\ turn = "failed" => r = MaxRevisions /\ plan[r] = "failed"
         /\ turn = "completed" =>
              published = Foreign \/ plan[r] \in {"completed", "unsupported"}
         /\ plan[r] \in {"ready", "running", "completed", "replan_pending"} =>
              \/ published = Foreign
              \/ turn \in {"processing", "completed"} /\ published = r

\* Until the API request has made the first Plan there is nothing but the Turn.
Beginning ==
    runner[Api].pc \in {"routing", "prepared", "loaded"} =>
        /\ \A r \in Revisions : plan[r] = "none"
        /\ emitted = {}
        /\ request.status = "none"
        /\ turn # "failed"
        /\ turn = "completed" => published = Foreign

\* The API request plans the first revision, answers once, and knows what has
\* become of its Plan when it marks it or closes the Turn.
ApiInv ==
    /\ runner[Api].pc \in PlannerStates \cup {"closing"} => Rev(Api) = 1
    /\ reply # "none" => At(Api, "idle")
    /\ At(Api, "closing") => plan[1] = "unsupported"
    /\ At(Api, "rereading") => plan[1] \in {"retry_pending", "superseded", "failed"}

\* An aggregation is about a Plan that is completed, and completes the Turn first.
AggregationInv ==
    \A w \in Workers :
        /\ runner[w].pc \in {"completing", "resolving", "recording"} =>
             plan[Rev(w)] = "completed"
        /\ runner[w].pc \in {"resolving", "recording"} =>
             turn = "completed" /\ published \in {Rev(w), Foreign}

\* A replan that was not carried out yet is about a Plan that waits for one, or
\* one that another event has revised.
Outstanding ==
    \A e \in emitted \ inbox : IsReplan(e) =>
        /\ plan[e.plan] \in {"retry_pending", "replan_pending", "needs_clarification",
                             "superseded", "failed"}
        /\ plan[e.plan] = "needs_clarification" => turn # "needs_clarification"

\* There is one request in a Turn, made by the Plan that waits for its answer.
Asked ==
    /\ \A r \in Revisions : plan[r] = "needs_clarification" =>
         request.plan = r /\ request.status # "none"
    /\ request.status \in {"answered", "resolved"} => clarified

\* The request names no Plan before it is made, and is resolved by a revision.
RequestPlan ==
    /\ request.status = "none" => request.plan = 0
    /\ request.status = "resolved" => request.plan + 1 \in Revisions

\* A Turn that no client has completed was completed on a Plan that has ended.
ClosedByPlan ==
    turn = "completed" /\ published # Foreign =>
        \E r \in Revisions : plan[r] \in {"completed", "unsupported"}

FollowInv ==
    /\ LatestLives
    /\ Agrees
    /\ RequestPlan
    /\ ClosedByPlan
    /\ Beginning
    /\ ApiInv
    /\ AggregationInv
    /\ Outstanding
    /\ Asked
    /\ ReplyIsTrue
    /\ ResolvedByItsPlan

-----------------------------------------------------------------------------
(* The Task Runtime as a Turn sees it: what TaskRuntime implements of a    *)
(* Plan (PlanExecution) is what happens to each revision.                  *)

\* What Plan r has asked of the other components when its execution ended.
RequestsOf(r) ==
    {k \in {"aggregate", "replan"} :
        \/ k = "aggregate" /\ AggregationEvent(r) \in emitted
        \/ k = "replan" /\ ReplanEvent(r, "task_failure") \in emitted}

Execution(r) ==
    INSTANCE PlanExecution WITH status <- plan[r], asked <- RequestsOf(r)

Executing(r) == plan[r] \in {"ready", "running", "completed", "replan_pending"}

\* A revision is handed to the Task Runtime as the Task Runtime begins it, goes
\* on as a Plan that is executed, whatever the planner, the user and the
\* other workers do, and is taken back only when it waits for a replan.
ExecutionStep(r) ==
    /\ ~Executing(r) /\ Executing(r)' => Execution(r)!Init'
    /\ Executing(r) /\ Executing(r)' => [Execution(r)!Next]_(Execution(r)!vars)
    /\ Executing(r) /\ ~Executing(r)' => plan[r] = "replan_pending"

RevisionsAreExecuted == [][\A r \in Revisions : ExecutionStep(r)]_vars

\* The aggregation of a Plan is asked for exactly while it is completed.
AskedWhenCompleted ==
    \A r \in Revisions : AggregationEvent(r) \in emitted <=> plan[r] = "completed"

\* A step that touches nothing but Plan r and its two requests.
ConcernsOnly(r) ==
    /\ plan' \in [Revisions -> PlanStatus]
    /\ \A s \in Revisions \ {r} : plan'[s] = plan[s]
    /\ \A e : e \notin {AggregationEvent(r), ReplanEvent(r, "task_failure")} =>
              (e \in emitted' <=> e \in emitted)
    /\ UNCHANGED <<turn, clarified, published, drafts, leaseOver, request,
                   inbox, acked, runner, reply>>
=============================================================================
