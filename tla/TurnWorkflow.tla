---------------------------- MODULE TurnWorkflow ----------------------------
(***************************************************************************)
(* One conversation Turn from its message to its answer: the API request   *)
(* that routes and plans it, the user who answers a clarification, and the *)
(* workers that make new revisions of its Plan and aggregate its result.   *)
(* One step is one transaction.  The planner is a language model, hence    *)
(* any sequence of calls of its tools; of the Task Runtime only what it    *)
(* does to the Plan is kept (TaskRuntime is the detailed model).           *)
(***************************************************************************)
EXTENDS Integers, FiniteSets

CONSTANTS
    Workers,       \* worker processes that consume the Redis stream
    Api,           \* the API request that carries the message
    MaxRevisions,  \* MAX_PLAN_REVISIONS
    Disturbances   \* which of the disturbances below may happen

ASSUME WorkflowAssumption ==
    /\ MaxRevisions \in Nat \ {0}
    /\ Api \notin Workers
    /\ Disturbances \subseteq {"faults", "lease_end", "legacy_client"}

Runners == Workers \cup {Api}
Revisions == 1 .. MaxRevisions
Foreign == -1

VARIABLES
    turn,       \* ConversationTurn.status
    clarified,  \* ConversationTurn.clarification_input is set
    published,  \* the revision whose tasks are Turn.task_ids, 0 for none,
                \* Foreign for a list a client has made
    plan,       \* revision |-> Plan.status, "none" before the row exists
    drafts,     \* the revisions that have tasks in the status DRAFT
    leaseOver,  \* the revisions whose updated_at is older than the lease;
                \* every update of the row renews it
    request,    \* the ClarificationRequest of the Turn
    emitted,    \* the events written to the outbox
    inbox,      \* the events recorded by their consumer
    acked,      \* the events acknowledged to Redis
    runner,     \* API request or worker |-> what it is doing
    reply       \* what the API has answered

vars == <<turn, clarified, published, plan, drafts, leaseOver, request,
          emitted, inbox, acked, runner, reply>>
tables == <<turn, clarified, published, plan, drafts, leaseOver, request>>

TurnStatus == {"routing", "context_ready", "processing",
               "needs_clarification", "completed", "failed"}
PlanStatus == {"none", "planning", "ready", "running", "completed",
               "unsupported", "needs_clarification", "retry_pending",
               "replan_pending", "failed", "superseded"}
Replies == {"none", "error", "processing", "unsupported",
            "needs_clarification", "retry_pending", "failed"}

ReplanTriggers == {"answered", "planner_failure", "task_failure"}
Event == [plan : Revisions, cause : ReplanTriggers \cup {"completed"}]
ReplanEvent(r, cause) == [plan |-> r, cause |-> cause]
AggregationEvent(r) == [plan |-> r, cause |-> "completed"]
NoEvent == [plan |-> 0, cause |-> "none"]

ApiStates == {"routing", "closing"}
WorkerStates == {"completing", "resolving", "recording", "done"}
PlannerStates == {"prepared", "loaded", "planning", "committing", "asking",
                  "finishing", "marking", "rereading"}
Runner == [pc : {"idle"} \cup ApiStates \cup WorkerStates \cup PlannerStates,
           rev : 0 .. MaxRevisions, event : Event \cup {NoEvent}]
Request == [status : {"none", "open", "answered", "resolved", "expired"},
            plan : 0 .. MaxRevisions, asked : BOOLEAN]
Idle == [pc |-> "idle", rev |-> 0, event |-> NoEvent]
At(x, pc) == runner[x].pc = pc
Rev(x) == runner[x].rev

\* TypeOK: every row and every runner keeps the shape of its table or process.
TypeOK ==
    /\ turn \in TurnStatus
    /\ clarified \in BOOLEAN
    /\ published \in {Foreign} \cup 0 .. MaxRevisions
    /\ plan \in [Revisions -> PlanStatus]
    /\ drafts \subseteq Revisions
    /\ leaseOver \subseteq Revisions
    /\ request \in Request
    /\ emitted \subseteq Event
    /\ inbox \subseteq emitted
    /\ acked \subseteq emitted
    /\ runner \in [Runners -> Runner]
    /\ reply \in Replies

Init ==
    /\ turn = "routing"
    /\ clarified = FALSE
    /\ published = 0
    /\ plan = [r \in Revisions |-> "none"]
    /\ drafts = {}
    /\ leaseOver = {}
    /\ request = [status |-> "none", plan |-> 0, asked |-> FALSE]
    /\ emitted = {}
    /\ inbox = {}
    /\ acked = {}
    /\ runner = [x \in Runners |-> IF x = Api THEN [Idle EXCEPT !.pc = "routing"] ELSE Idle]
    /\ reply = "none"

GoesTo(x, pc) == runner' = [runner EXCEPT ![x].pc = pc]

\* The use case raises, or the process ends: the event stays unacknowledged,
\* the client of the API gets an error.
Raise(x) ==
    /\ runner' = [runner EXCEPT ![x] = Idle]
    /\ reply' = IF x = Api THEN "error" ELSE reply

Respond(status) ==
    /\ runner' = [runner EXCEPT ![Api] = Idle]
    /\ reply' = status

\* The Turn states in which planning, finalisation and completion go on.
OpenTurn == {"context_ready", "processing"}

-----------------------------------------------------------------------------
(* The API request: ContextService.send_message, then RunPlanning.execute. *)

SelectContext ==
    /\ At(Api, "routing")
    /\ turn' = "context_ready"
    /\ runner' = [runner EXCEPT ![Api].pc = "prepared", ![Api].rev = 1]
    /\ UNCHANGED <<clarified, published, plan, drafts, leaseOver, request,
                   emitted, inbox, acked, reply>>

RoutingFails ==
    /\ At(Api, "routing")
    /\ turn' = "failed"
    /\ Raise(Api)
    /\ UNCHANGED <<clarified, published, plan, drafts, leaseOver, request,
                   emitted, inbox, acked>>

\* _load_plannable_input, a transaction of its own.
Plannable(x) ==
    IF x = Api THEN {"context_ready"} ELSE OpenTurn \cup {"completed"}

LoadInput(x) ==
    /\ At(x, "prepared")
    /\ \/ turn \in Plannable(x) /\ GoesTo(x, "loaded") /\ UNCHANGED reply
       \/ turn \notin Plannable(x) /\ Raise(x)
    /\ UNCHANGED <<tables, emitted, inbox, acked>>

CreatePlan ==
    /\ At(Api, "loaded")
    /\ plan[1] = "none"
    /\ plan' = [plan EXCEPT ![1] = "planning"]
    /\ GoesTo(Api, "planning")
    /\ UNCHANGED <<turn, clarified, published, drafts, leaseOver, request,
                   emitted, inbox, acked, reply>>

ValidateExistingPlan(w) ==
    /\ At(w, "loaded")
    /\ \/ plan[Rev(w)] = "planning" /\ GoesTo(w, "planning")
       \/ plan[Rev(w)] # "planning" /\ Raise(w)
    /\ UNCHANGED <<tables, emitted, inbox, acked, reply>>

-----------------------------------------------------------------------------
(* The planner: any of its tools, in any order, each of which may be       *)
(* refused.  A refused call changes nothing.  A clarification is asked for *)
(* by the gap decision or, perhaps with tasks drafted, by the commit agent.*)

Deciding(x) == At(x, "planning") \/ At(x, "committing")

CreateDocumentTask(x) ==
    /\ Deciding(x)
    /\ plan[Rev(x)] = "planning"
    /\ drafts' = drafts \cup {Rev(x)}
    /\ GoesTo(x, "committing")
    /\ UNCHANGED <<turn, clarified, published, plan, leaseOver, request,
                   emitted, inbox, acked, reply>>

\* The wakeup of the Task Runtime goes with the status "ready".
FinalizePlan(x) ==
    /\ Deciding(x)
    /\ plan[Rev(x)] = "planning"
    /\ Rev(x) \in drafts
    /\ turn \in OpenTurn
    /\ plan' = [plan EXCEPT ![Rev(x)] = "ready"]
    /\ turn' = "processing"
    /\ published' = Rev(x)
    /\ GoesTo(x, "finishing")
    /\ leaseOver' = leaseOver \ {Rev(x)}
    /\ drafts' = drafts \ {Rev(x)}
    /\ UNCHANGED <<clarified, request, emitted, inbox, acked, reply>>

MarkPlanUnsupported(x) ==
    /\ Deciding(x)
    /\ plan[Rev(x)] = "planning"
    /\ plan' = [plan EXCEPT ![Rev(x)] = "unsupported"]
    /\ GoesTo(x, "finishing")
    /\ leaseOver' = leaseOver \ {Rev(x)}
    /\ UNCHANGED <<turn, clarified, published, drafts, request,
                   emitted, inbox, acked, reply>>

MarkPlanNeedsClarification(x) ==
    /\ Deciding(x)
    /\ plan[Rev(x)] = "planning"
    /\ turn \in OpenTurn
    /\ request.status = "none"
    /\ plan' = [plan EXCEPT ![Rev(x)] = "needs_clarification"]
    /\ turn' = "needs_clarification"
    /\ request' = [status |-> "open", plan |-> Rev(x), asked |-> FALSE]
    /\ GoesTo(x, "asking")
    /\ leaseOver' = leaseOver \ {Rev(x)}
    /\ UNCHANGED <<clarified, published, drafts, emitted, inbox, acked, reply>>

\* The graph ends without a decision (a retry is asked for, an agent fails,
\* the turns are used up), or the clarification agent gives no question.
PlannerEnds(x) ==
    /\ Deciding(x) \/ At(x, "asking")
    /\ GoesTo(x, "finishing")
    /\ UNCHANGED <<tables, emitted, inbox, acked, reply>>

AwaitsQuestion(r) == plan[r] = "needs_clarification" /\ turn = "needs_clarification"

SetClarificationQuestion(x) ==
    /\ At(x, "asking")
    /\ \/ /\ AwaitsQuestion(Rev(x))
          /\ request' = [request EXCEPT !.asked = TRUE]
          /\ GoesTo(x, "finishing")
          /\ UNCHANGED reply
       \/ /\ ~AwaitsQuestion(Rev(x))
          /\ Raise(x)
          /\ UNCHANGED request
    /\ UNCHANGED <<turn, clarified, published, plan, drafts, leaseOver,
                   emitted, inbox, acked>>

-----------------------------------------------------------------------------
(* RunPlanning._finish_from_database: read, mark in a second transaction,  *)
(* read again.  What was read decides about the answer of the API.         *)

NeedsRetry(r) ==
    \/ plan[r] = "planning"
    \/ plan[r] = "needs_clarification" /\ ~request.asked

\* _read_result raises: the Plan is ready, the Turn lists other tasks.
Inconsistent(r) == plan[r] = "ready" /\ published # r

\* SendConversationMessageUseCase.execute dispatches on the status read.
ReplyTo(status) ==
    CASE status = "ready" -> "processing"
      [] status \in {"needs_clarification", "retry_pending"} -> status
      [] OTHER -> "failed"

Conclude(x) ==
    \/ /\ Inconsistent(Rev(x))
       /\ Raise(x)
    \/ /\ ~Inconsistent(Rev(x))
       /\ x # Api
       /\ GoesTo(x, "done")
       /\ UNCHANGED reply
    \/ /\ ~Inconsistent(Rev(x))
       /\ x = Api
       /\ plan[1] = "unsupported"
       /\ GoesTo(x, "closing")
       /\ UNCHANGED reply
    \/ /\ ~Inconsistent(Rev(x))
       /\ x = Api
       /\ plan[1] # "unsupported"
       /\ Respond(ReplyTo(plan[1]))

ReadResult(x) ==
    /\ At(x, "finishing")
    /\ \/ NeedsRetry(Rev(x)) /\ GoesTo(x, "marking") /\ UNCHANGED reply
       \/ ~NeedsRetry(Rev(x)) /\ Conclude(x)
    /\ UNCHANGED <<tables, emitted, inbox, acked>>

\* Faulty variants: any Plan may be retried; no event is written; the Turn
\* keeps its status.
RetriesAny(r) == plan[r] # "superseded"
RetriesSilently(r) == {}
RetryLeavesTurn == turn

\* _require_planning, waived for a Plan that waits for a clarification.
MayBeRetried(r) == plan[r] \in {"planning", "needs_clarification"}

EventsOfRetry(r) == {ReplanEvent(r, "planner_failure")}
TurnOfRetry == "processing"

MarkPlanRetryPending(x) ==
    /\ At(x, "marking")
    /\ MayBeRetried(Rev(x))
    /\ plan' = [plan EXCEPT ![Rev(x)] = "retry_pending"]
    /\ request' = IF request.plan = Rev(x)
                  THEN [request EXCEPT !.status = "expired"]
                  ELSE request
    /\ turn' = TurnOfRetry
    /\ emitted' = emitted \cup EventsOfRetry(Rev(x))
    /\ GoesTo(x, "rereading")
    /\ leaseOver' = leaseOver \ {Rev(x)}
    /\ UNCHANGED <<clarified, published, drafts, inbox, acked, reply>>

MarkRefused(x) ==
    /\ At(x, "marking")
    /\ ~MayBeRetried(Rev(x))
    /\ Raise(x)
    /\ UNCHANGED <<tables, emitted, inbox, acked>>

ReadResultAgain(x) ==
    /\ At(x, "rereading")
    /\ Conclude(x)
    /\ UNCHANGED <<tables, emitted, inbox, acked>>

\* ContextService.complete_turn: a Turn that is completed stays as it is.
CompleteTurn(revision) ==
    /\ turn' = "completed"
    /\ published' = IF turn = "completed" THEN published ELSE revision

\* Faulty variant: the Turn is not completed.
UnsupportedLeftOpen ==
    /\ At(Api, "closing")
    /\ Respond("unsupported")
    /\ UNCHANGED <<tables, emitted, inbox, acked>>

CompleteUnsupported ==
    /\ At(Api, "closing")
    /\ turn \in OpenTurn \cup {"completed"}
    /\ CompleteTurn(0)
    /\ Respond("unsupported")
    /\ UNCHANGED <<clarified, plan, drafts, leaseOver, request, emitted, inbox, acked>>

-----------------------------------------------------------------------------
(* The user, who has learned the identity of the Turn from the reply.      *)

AnswerClarification ==
    /\ reply \notin {"none", "error"}
    /\ request.status = "open"
    /\ AwaitsQuestion(request.plan)
    /\ ~clarified
    /\ request' = [request EXCEPT !.status = "answered"]
    /\ clarified' = TRUE
    /\ turn' = "processing"
    /\ emitted' = emitted \cup {ReplanEvent(request.plan, "answered")}
    /\ UNCHANGED <<published, plan, drafts, leaseOver, inbox, acked, runner, reply>>

-----------------------------------------------------------------------------
(* The Task Runtime, as far as it acts on the Plan.                        *)

RuntimeStarts(r) ==
    /\ plan[r] = "ready"
    /\ plan' = [plan EXCEPT ![r] = "running"]
    /\ UNCHANGED <<turn, clarified, published, drafts, leaseOver, request,
                   emitted, inbox, acked, runner, reply>>

RuntimeEnds(r, status, event) ==
    /\ plan[r] = "running"
    /\ plan' = [plan EXCEPT ![r] = status]
    /\ emitted' = emitted \cup {event}
    /\ UNCHANGED <<turn, clarified, published, drafts, leaseOver, request,
                   inbox, acked, runner, reply>>

RuntimeCompletes(r) == RuntimeEnds(r, "completed", AggregationEvent(r))
RuntimeFails(r) == RuntimeEnds(r, "replan_pending", ReplanEvent(r, "task_failure"))

-----------------------------------------------------------------------------
(* Delivery: any event that was published may reach any idle worker, again *)
(* and again.  Whoever takes it begins with the transaction below.         *)

Takes(w, e, pc, rev) ==
    /\ At(w, "idle")
    /\ e \in emitted
    /\ runner' = [runner EXCEPT ![w] = [pc |-> pc, rev |-> rev, event |-> e]]
    /\ UNCHANGED <<acked, reply>>

IsReplan(e) == e.cause \in ReplanTriggers
NextRevision(e) == e.plan + 1

\* ReplanUseCase._prepare_revision, for an event handled before.  The first
\* of the two branches holds as well for a revision above the limit.
StillPlanning(r) == r \in Revisions /\ plan[r] = "planning"

ReplanSeen(w, e) ==
    /\ IsReplan(e)
    /\ e \in inbox
    /\ \/ ~StillPlanning(NextRevision(e)) /\ UNCHANGED leaseOver /\ Takes(w, e, "done", 0)
       \/ /\ StillPlanning(NextRevision(e))
          /\ NextRevision(e) \notin leaseOver
          /\ Takes(w, e, "done", 0)
          /\ UNCHANGED leaseOver
       \/ /\ StillPlanning(NextRevision(e))
          /\ NextRevision(e) \in leaseOver
          /\ leaseOver' = leaseOver \ {NextRevision(e)}
          /\ Takes(w, e, "prepared", NextRevision(e))
    /\ UNCHANGED <<turn, clarified, published, plan, drafts, request, emitted, inbox>>

\* Faulty variant: the Turn is left in progress.
ExhaustionForgotten(w, e) ==
    /\ IsReplan(e)
    /\ e \notin inbox
    /\ NextRevision(e) > MaxRevisions
    /\ inbox' = inbox \cup {e}
    /\ Takes(w, e, "done", 0)
    /\ UNCHANGED <<tables, emitted>>

ReplanExhausted(w, e) ==
    /\ IsReplan(e)
    /\ e \notin inbox
    /\ NextRevision(e) > MaxRevisions
    /\ plan' = [plan EXCEPT ![e.plan] = "failed"]
    /\ drafts' = drafts \ {e.plan}
    /\ turn' = "failed"
    /\ inbox' = inbox \cup {e}
    /\ Takes(w, e, "done", 0)
    /\ UNCHANGED <<clarified, published, leaseOver, request, emitted>>

\* Another event has already made the revision.
ReplanJoins(w, e) ==
    /\ IsReplan(e)
    /\ e \notin inbox
    /\ NextRevision(e) \in Revisions
    /\ plan[NextRevision(e)] # "none"
    /\ inbox' = inbox \cup {e}
    /\ \/ plan[NextRevision(e)] = "planning" /\ Takes(w, e, "prepared", NextRevision(e))
       \/ plan[NextRevision(e)] # "planning" /\ Takes(w, e, "done", 0)
    /\ UNCHANGED <<tables, emitted>>

\* Faulty variants: the old revision is left as it is; the limit on the
\* number of revisions is not looked at.
RevisedOnly(r) == [plan EXCEPT ![r + 1] = "planning"]
Unlimited(r) == r \in Revisions => plan[r] = "none"

\* The old revision is superseded in the transaction that makes the new one.
Revised(r) == [plan EXCEPT ![r] = "superseded", ![r + 1] = "planning"]

MayBeCreated(r) == r \in Revisions /\ plan[r] = "none"

ReplanCreates(w, e) ==
    /\ IsReplan(e)
    /\ e \notin inbox
    /\ MayBeCreated(NextRevision(e))
    /\ plan' = Revised(e.plan)
    /\ drafts' = drafts \ {e.plan}
    /\ inbox' = inbox \cup {e}
    /\ Takes(w, e, "prepared", NextRevision(e))
    /\ UNCHANGED <<turn, clarified, published, leaseOver, request, emitted>>

\* The dispatcher reads its inbox, then AggregatePlanUseCase its snapshot.
AggregationTaken(w, e) ==
    /\ e.cause = "completed"
    /\ \/ e \in inbox /\ Takes(w, e, "done", 0)
       \/ e \notin inbox /\ plan[e.plan] = "completed" /\ Takes(w, e, "completing", e.plan)
    /\ UNCHANGED <<tables, emitted, inbox>>

AggregationCompletes(w) ==
    /\ At(w, "completing")
    /\ turn \in OpenTurn \cup {"completed"}
    /\ CompleteTurn(Rev(w))
    /\ GoesTo(w, "resolving")
    /\ UNCHANGED <<clarified, plan, drafts, leaseOver, request, emitted, inbox, acked, reply>>

\* Faulty variant: any answered request of the Turn.
ResolvesAny(r) == request.status = "answered"

\* parent_plan_id of a revision is the revision before it.
Resolves(r) == request.status = "answered" /\ request.plan = r - 1

ResolveClarification(w) ==
    /\ At(w, "resolving")
    /\ request' = IF Resolves(Rev(w))
                  THEN [request EXCEPT !.status = "resolved"]
                  ELSE request
    /\ GoesTo(w, "recording")
    /\ UNCHANGED <<turn, clarified, published, plan, drafts, leaseOver,
                   emitted, inbox, acked, reply>>

RecordProcessed(w) ==
    /\ At(w, "recording")
    /\ inbox' = inbox \cup {runner[w].event}
    /\ GoesTo(w, "done")
    /\ UNCHANGED <<tables, emitted, acked, reply>>

Acknowledge(w) ==
    /\ At(w, "done")
    /\ acked' = acked \cup {runner[w].event}
    /\ runner' = [runner EXCEPT ![w] = Idle]
    /\ UNCHANGED <<tables, emitted, inbox, reply>>

-----------------------------------------------------------------------------
(* Disturbances.                                                           *)

\* A process ends, or a database, Redis or lock error is raised anywhere.
Fault(x) ==
    /\ "faults" \in Disturbances
    /\ ~At(x, "idle")
    /\ Raise(x)
    /\ UNCHANGED <<tables, emitted, inbox, acked>>

\* PLANNER_RUN_LEASE_SECONDS have passed; the first revision is never resumed.
LeaseEnds(r) ==
    /\ "lease_end" \in Disturbances
    /\ r > 1
    /\ plan[r] = "planning"
    /\ r \notin leaseOver
    /\ leaseOver' = leaseOver \cup {r}
    /\ UNCHANGED <<turn, clarified, published, plan, drafts, request,
                   emitted, inbox, acked, runner, reply>>

\* POST /turns/{turn_id}/complete, whose task_ids are the client's own.
ClientCompletes ==
    /\ "legacy_client" \in Disturbances
    /\ turn \in OpenTurn
    /\ CompleteTurn(Foreign)
    /\ UNCHANGED <<clarified, plan, drafts, leaseOver, request, emitted,
                   inbox, acked, runner, reply>>

-----------------------------------------------------------------------------

PlannerStep(x) ==
    \/ LoadInput(x) \/ CreateDocumentTask(x) \/ FinalizePlan(x)
    \/ MarkPlanUnsupported(x) \/ MarkPlanNeedsClarification(x)
    \/ PlannerEnds(x) \/ SetClarificationQuestion(x)
    \/ ReadResult(x) \/ MarkPlanRetryPending(x) \/ MarkRefused(x)
    \/ ReadResultAgain(x)

ApiStep == SelectContext \/ RoutingFails \/ CreatePlan \/ CompleteUnsupported

Take(w, e) ==
    \/ ReplanSeen(w, e) \/ ReplanExhausted(w, e) \/ ReplanJoins(w, e)
    \/ ReplanCreates(w, e) \/ AggregationTaken(w, e)

WorkerStep(w) ==
    \/ ValidateExistingPlan(w) \/ AggregationCompletes(w)
    \/ ResolveClarification(w) \/ RecordProcessed(w) \/ Acknowledge(w)

Next ==
    \/ ApiStep
    \/ \E x \in Runners : PlannerStep(x)
    \/ \E w \in Workers : WorkerStep(w)
    \/ \E w \in Workers : \E e \in emitted : Take(w, e)
    \/ AnswerClarification
    \/ \E r \in Revisions : RuntimeStarts(r) \/ RuntimeCompletes(r) \/ RuntimeFails(r)
    \/ \E x \in Runners : Fault(x)
    \/ \E r \in Revisions : LeaseEnds(r)
    \/ ClientCompletes

Spec == Init /\ [][Next]_vars

(***************************************************************************)
(* A process goes on with what it has begun; an event that has not been    *)
(* acknowledged is delivered again (Redis keeps it pending), and not       *)
(* passed over for ever by a worker that is busy now and then; a Plan that *)
(* runs comes to an end (TaskRuntime!PlanSettles; a Plan frozen by a       *)
(* locked compensation is left out).                                       *)
(***************************************************************************)
Delivery(w, r) == \E e \in emitted \ acked : e.plan = r /\ Take(w, e)

Fairness ==
    /\ WF_vars(ApiStep \/ PlannerStep(Api))
    /\ \A w \in Workers : WF_vars(PlannerStep(w) \/ WorkerStep(w))
    /\ \A r \in Revisions : SF_vars(\E w \in Workers : Delivery(w, r))
    /\ \A r \in Revisions : WF_vars(RuntimeStarts(r) \/ RuntimeCompletes(r) \/ RuntimeFails(r))

FairSpec == Spec /\ Fairness

-----------------------------------------------------------------------------
(* Properties.                                                             *)

IsLatest(r) ==
    /\ plan[r] # "none"
    /\ r + 1 \in Revisions => plan[r + 1] = "none"

\* OneLivePlan: revisions follow one another without a gap, and every one
\* but the latest is superseded, whatever events of the Turn arrive when:
\* no two Plans of a Turn are ever executed side by side.
OneLivePlan ==
    \A r \in Revisions : r > 1 /\ plan[r] # "none" => plan[r - 1] = "superseded"

\* TurnFollowsPlan: what the client polls agrees with the Plan.  The Turn
\* waits for an answer exactly while an unanswered request belongs to the
\* latest Plan, it has failed only in routing or with its last revision, it is
\* completed only on a Plan that has ended, and while tasks may run it is
\* being processed and lists the tasks of that revision.  The last two do not
\* hold for a Turn that a client has completed.
TurnFollowsPlan ==
    /\ (turn = "needs_clarification") <=>
         /\ request.status = "open"
         /\ IsLatest(request.plan)
         /\ plan[request.plan] = "needs_clarification"
    /\ \A r \in Revisions : IsLatest(r) =>
         /\ turn = "failed" => r = MaxRevisions /\ plan[r] = "failed"
         /\ turn = "completed" =>
              published = Foreign \/ plan[r] \in {"completed", "unsupported"}
         /\ plan[r] \in {"ready", "running", "completed", "replan_pending"} =>
              \/ published = Foreign
              \/ turn \in {"processing", "completed"} /\ published = r

\* ReplanPromised: a Plan that waits to be revised has an event that was not
\* handled yet, and no event is acknowledged before it is recorded.  A lost
\* one would leave the Turn in "processing" for ever.
Due(r, cause) == ReplanEvent(r, cause) \in emitted \ inbox

ReplanPromised ==
    /\ acked \subseteq inbox
    /\ \A r \in Revisions :
         /\ plan[r] = "retry_pending" => Due(r, "planner_failure")
         /\ plan[r] = "replan_pending" => Due(r, "task_failure")
         /\ plan[r] = "needs_clarification" /\ turn # "needs_clarification" =>
              Due(r, "answered")

\* ReplyIsTrue: what the API has answered, read in a transaction of its own,
\* is backed by the tables afterwards, except "failed".
ReplyIsTrue ==
    /\ reply = "processing" => published # 0
    /\ reply = "unsupported" => turn = "completed" /\ plan[1] = "unsupported"
    /\ reply = "needs_clarification" => request.plan = 1 /\ request.asked
    /\ reply = "retry_pending" => ReplanEvent(1, "planner_failure") \in emitted

\* ResolvedByItsPlan: a request is resolved only by the revision that was
\* planned with its answer, and only when that revision has completed the Turn.
ResolvedByItsPlan ==
    request.status = "resolved" =>
        /\ clarified
        /\ turn = "completed"
        /\ published \in {request.plan + 1, Foreign}
        /\ plan[request.plan + 1] = "completed"

\* ClosedTurnIsFinal: a late planner, a second event or a repeated
\* aggregation never reopens a Turn that is completed or has failed, unless a
\* client has completed it while it was still being planned.
ClosedTurnIsFinal ==
    [][(turn \in {"completed", "failed"}) /\ published # Foreign =>
         turn' = turn /\ published' = published]_vars

\* TurnSettles: without faults every Turn is completed, fails or waits for
\* its user, unless a revision made by a worker is found unsupported.
Settled ==
    \/ turn \in {"completed", "failed", "needs_clarification"}
    \/ \E r \in Revisions : plan[r] = "unsupported"

TurnSettles == ~Settled ~> Settled

=============================================================================
