------------------------- MODULE TurnWorkflowProofs -------------------------
(***************************************************************************)
(* Proofs about TurnWorkflow for any number of workers and revisions, and  *)
(* with any disturbances.                                                  *)
(***************************************************************************)
EXTENDS TurnWorkflowInv, TLAPS

ProcessStates == {"idle"} \cup ApiStates \cup WorkerStates \cup PlannerStates

LEMMA Bounds ==
    /\ MaxRevisions \in Nat
    /\ 0 \in 0 .. MaxRevisions
    /\ 1 \in Revisions
    /\ Revisions \subseteq 0 .. MaxRevisions
  BY WorkflowAssumption DEF Revisions

-----------------------------------------------------------------------------
(* What the moves of a process do to its record.                           *)

LEMMA GoesToType ==
    ASSUME TypeOK, NEW x \in Runners, NEW pc \in ProcessStates, GoesTo(x, pc)
    PROVE  /\ runner' \in [Runners -> Runner]
           /\ runner'[x].pc = pc
           /\ runner'[x].rev = runner[x].rev
           /\ runner'[x].event = runner[x].event
           /\ \A y \in Runners \ {x} : runner'[y] = runner[y]
<1>1. runner[x] \in Runner
  BY DEF TypeOK
<1>. QED  BY <1>1 DEF GoesTo, TypeOK, Runner, ProcessStates

LEMMA ResetType ==
    ASSUME TypeOK, NEW x \in Runners, runner' = [runner EXCEPT ![x] = Idle]
    PROVE  /\ runner' \in [Runners -> Runner]
           /\ runner'[x].pc = "idle"
           /\ \A y \in Runners \ {x} : runner'[y] = runner[y]
<1>1. Idle \in Runner
  BY WorkflowAssumption DEF Idle, Runner
<1>. QED  BY <1>1 DEF TypeOK, Idle

LEMMA TakesType ==
    ASSUME TypeOK, NEW w \in Workers, NEW e \in emitted,
           NEW pc \in ProcessStates, NEW r \in 0 .. MaxRevisions,
           Takes(w, e, pc, r)
    PROVE  /\ runner' \in [Runners -> Runner]
           /\ runner'[w] = [pc |-> pc, rev |-> r, event |-> e]
           /\ \A y \in Runners \ {w} : runner'[y] = runner[y]
<1>1. [pc |-> pc, rev |-> r, event |-> e] \in Runner
  BY DEF TypeOK, Runner, ProcessStates
<1>. QED  BY <1>1 DEF TypeOK, Takes, Runners

-----------------------------------------------------------------------------
(* Types.                                                                  *)

LEMMA TypeStep ==
    ASSUME TypeOK, RunnerInv, RequestInv, [Next]_vars
    PROVE  TypeOK'
<1>1. ASSUME SelectContext
      PROVE  TypeOK'
  <2>1. [runner[Api] EXCEPT !.pc = "prepared", !.rev = 1] \in Runner
    <3>1. runner[Api] \in Runner
      BY DEF TypeOK, Runners
    <3>. QED  BY <3>1, Bounds DEF Runner, PlannerStates
  <2>2. runner' \in [Runners -> Runner]
    BY <1>1, <2>1 DEF SelectContext, TypeOK, Runners
  <2>. QED  BY <1>1, <2>2 DEF SelectContext, TypeOK, TurnStatus
<1>2. ASSUME NEW x \in Runners, LoadInput(x)
      PROVE  TypeOK'
  BY <1>2, GoesToType, ResetType
  DEF LoadInput, Raise, Replies, TypeOK, tables, Runners, ProcessStates, ApiStates,
      WorkerStates, PlannerStates
<1>3. ASSUME RoutingFails
      PROVE  TypeOK'
  BY <1>3, ResetType
  DEF RoutingFails, Raise, Replies, TurnStatus, TypeOK, tables, Runners,
      ProcessStates, ApiStates, WorkerStates, PlannerStates
<1>4. ASSUME CreatePlan
      PROVE  TypeOK'
  BY <1>4, GoesToType
  DEF CreatePlan, PlanStatus, TypeOK, tables, Runners, ProcessStates, ApiStates,
      WorkerStates, PlannerStates
<1>5. ASSUME CompleteUnsupported
      PROVE  TypeOK'
  BY <1>5, ResetType, Bounds
  DEF CompleteUnsupported, CompleteTurn, Respond, Replies, TurnStatus, TypeOK, tables,
      Runners, ProcessStates, ApiStates, WorkerStates, PlannerStates
<1>6. ASSUME NEW x \in Runners, CreateDocumentTask(x)
      PROVE  TypeOK'
  BY <1>6, GoesToType
  DEF CreateDocumentTask, Deciding, Rev, At, RunnerInv, TypeOK, tables, Runners,
      ProcessStates, ApiStates, WorkerStates, PlannerStates
<1>7. ASSUME NEW x \in Runners, FinalizePlan(x)
      PROVE  TypeOK'
  BY <1>7, GoesToType, Bounds
  DEF FinalizePlan, Deciding, Rev, At, RunnerInv, Revisions, TurnStatus, PlanStatus,
      TypeOK, tables, Runners, ProcessStates, ApiStates, WorkerStates, PlannerStates
<1>8. ASSUME NEW x \in Runners, MarkPlanUnsupported(x)
      PROVE  TypeOK'
  BY <1>8, GoesToType
  DEF MarkPlanUnsupported, PlanStatus, TypeOK, tables, Runners, ProcessStates,
      ApiStates, WorkerStates, PlannerStates
<1>9. ASSUME NEW x \in Runners, MarkPlanNeedsClarification(x)
      PROVE  TypeOK'
  BY <1>9, GoesToType
  DEF MarkPlanNeedsClarification, PlanStatus, TurnStatus, Request, At, Rev, Runner,
      TypeOK, tables, Runners, ProcessStates, ApiStates, WorkerStates, PlannerStates
<1>10. ASSUME NEW x \in Runners, PlannerEnds(x)
      PROVE  TypeOK'
  BY <1>10, GoesToType
  DEF PlannerEnds, TypeOK, tables, Runners, ProcessStates, ApiStates, WorkerStates,
      PlannerStates
<1>11. ASSUME NEW x \in Runners, SetClarificationQuestion(x)
      PROVE  TypeOK'
  BY <1>11, GoesToType, ResetType
  DEF SetClarificationQuestion, Raise, Replies, Request, TypeOK, tables, Runners,
      ProcessStates, ApiStates, WorkerStates, PlannerStates
<1>12. ASSUME NEW x \in Runners, ReadResult(x)
      PROVE  TypeOK'
  BY <1>12, GoesToType, ResetType
  DEF ReadResult, Conclude, Raise, Respond, ReplyTo, Replies, TypeOK, tables, Runners,
      ProcessStates, ApiStates, WorkerStates, PlannerStates
<1>13. ASSUME NEW x \in Runners, ReadResultAgain(x)
      PROVE  TypeOK'
  BY <1>13, GoesToType, ResetType
  DEF ReadResultAgain, Conclude, Raise, Respond, ReplyTo, Replies, TypeOK, tables,
      Runners, ProcessStates, ApiStates, WorkerStates, PlannerStates
<1>14. ASSUME NEW x \in Runners, MarkPlanRetryPending(x)
      PROVE  TypeOK'
  BY <1>14, GoesToType
  DEF MarkPlanRetryPending, At, RunnerInv, PlanStatus, TurnStatus, TurnOfRetry,
      EventsOfRetry, ReplanEvent, Event, ReplanTriggers, Request, TypeOK, tables,
      Runners, ProcessStates, ApiStates, WorkerStates, PlannerStates
<1>15. ASSUME NEW x \in Runners, MarkRefused(x)
      PROVE  TypeOK'
  BY <1>15, ResetType
  DEF MarkRefused, Raise, Replies, TypeOK, tables, Runners, ProcessStates, ApiStates,
      WorkerStates, PlannerStates
<1>16. ASSUME NEW w \in Workers, ValidateExistingPlan(w)
      PROVE  TypeOK'
  BY <1>16, GoesToType, ResetType
  DEF ValidateExistingPlan, Raise, Replies, TypeOK, tables, Runners, ProcessStates,
      ApiStates, WorkerStates, PlannerStates
<1>17. ASSUME NEW w \in Workers, AggregationCompletes(w)
      PROVE  TypeOK'
  BY <1>17, GoesToType
  DEF AggregationCompletes, CompleteTurn, TurnStatus, Rev, Runner, TypeOK, tables,
      Runners, ProcessStates, ApiStates, WorkerStates, PlannerStates
<1>18. ASSUME NEW w \in Workers, ResolveClarification(w)
      PROVE  TypeOK'
  <2>1. runner' \in [Runners -> Runner]
    BY <1>18, GoesToType DEF ResolveClarification, Runners, ProcessStates, WorkerStates
  <2>2. request' \in Request
    BY <1>18 DEF ResolveClarification, TypeOK, Request
  <2>. QED  BY <1>18, <2>1, <2>2 DEF ResolveClarification, TypeOK
<1>19. ASSUME NEW w \in Workers, RecordProcessed(w)
      PROVE  TypeOK'
  BY <1>19, GoesToType
  DEF RecordProcessed, At, RunnerInv, TypeOK, tables, Runners, ProcessStates,
      ApiStates, WorkerStates, PlannerStates
<1>20. ASSUME NEW w \in Workers, Acknowledge(w)
      PROVE  TypeOK'
  BY <1>20, ResetType
  DEF Acknowledge, At, RunnerInv, TypeOK, tables, Runners, ProcessStates, ApiStates,
      WorkerStates, PlannerStates
<1>21. ASSUME NEW w \in Workers, NEW e \in emitted, ReplanSeen(w, e)
      PROVE  TypeOK'
  <2>1. \/ Takes(w, e, "done", 0)
        \/ /\ NextRevision(e) \in Revisions
           /\ Takes(w, e, "prepared", NextRevision(e))
    BY <1>21 DEF ReplanSeen, MayBeCreated, StillPlanning
  <2>2. runner' \in [Runners -> Runner]
    BY <2>1, TakesType, Bounds
    DEF Revisions, ProcessStates, WorkerStates, PlannerStates
  <2>. QED  BY <1>21, <2>1, <2>2 DEF ReplanSeen, Takes, TypeOK, tables
<1>22. ASSUME NEW w \in Workers, NEW e \in emitted, ReplanExhausted(w, e)
      PROVE  TypeOK'
  <2>1. Takes(w, e, "done", 0)
    BY <1>22 DEF ReplanExhausted, MayBeCreated, StillPlanning
  <2>2. runner' \in [Runners -> Runner]
    BY <2>1, TakesType, Bounds
    DEF Revisions, ProcessStates, WorkerStates, PlannerStates
  <2>. QED  BY <1>22, <2>1, <2>2 DEF ReplanExhausted, Takes, TypeOK, PlanStatus, TurnStatus
<1>23. ASSUME NEW w \in Workers, NEW e \in emitted, ReplanJoins(w, e)
      PROVE  TypeOK'
  <2>1. \/ Takes(w, e, "done", 0)
        \/ /\ NextRevision(e) \in Revisions
           /\ Takes(w, e, "prepared", NextRevision(e))
    BY <1>23 DEF ReplanJoins, MayBeCreated, StillPlanning
  <2>2. runner' \in [Runners -> Runner]
    BY <2>1, TakesType, Bounds
    DEF Revisions, ProcessStates, WorkerStates, PlannerStates
  <2>. QED  BY <1>23, <2>1, <2>2 DEF ReplanJoins, Takes, TypeOK, tables
<1>24. ASSUME NEW w \in Workers, NEW e \in emitted, ReplanCreates(w, e)
      PROVE  TypeOK'
  <2>1. \/ Takes(w, e, "done", 0)
        \/ /\ NextRevision(e) \in Revisions
           /\ Takes(w, e, "prepared", NextRevision(e))
    BY <1>24 DEF ReplanCreates, MayBeCreated, StillPlanning
  <2>2. runner' \in [Runners -> Runner]
    BY <2>1, TakesType, Bounds
    DEF Revisions, ProcessStates, WorkerStates, PlannerStates
  <2>. QED  BY <1>24, <2>1, <2>2 DEF ReplanCreates, Takes, TypeOK, Revised, PlanStatus
<1>25. ASSUME NEW w \in Workers, NEW e \in emitted, AggregationTaken(w, e)
      PROVE  TypeOK'
  <2>1. \/ Takes(w, e, "done", 0)
        \/ Takes(w, e, "completing", e.plan)
    BY <1>25 DEF AggregationTaken, MayBeCreated, StillPlanning
  <2>2. runner' \in [Runners -> Runner]
    BY <2>1, TakesType, Bounds
    DEF TypeOK, Event, Revisions, ProcessStates, WorkerStates, PlannerStates
  <2>. QED  BY <1>25, <2>1, <2>2 DEF AggregationTaken, Takes, TypeOK, tables
<1>26. ASSUME AnswerClarification
      PROVE  TypeOK'
  BY <1>26
  DEF AnswerClarification, RequestInv, Request, TurnStatus, ReplanEvent, Event,
      ReplanTriggers, TypeOK, tables
<1>27. ASSUME NEW r \in Revisions, RuntimeStarts(r)
      PROVE  TypeOK'
  BY <1>27
  DEF RuntimeStarts, PlanStatus, TypeOK, tables
<1>28. ASSUME NEW r \in Revisions, RuntimeCompletes(r)
      PROVE  TypeOK'
  BY <1>28
  DEF RuntimeCompletes, RuntimeEnds, AggregationEvent, Event, PlanStatus, TypeOK, tables
<1>29. ASSUME NEW r \in Revisions, RuntimeFails(r)
      PROVE  TypeOK'
  BY <1>29
  DEF RuntimeFails, RuntimeEnds, ReplanEvent, ReplanTriggers, Event, PlanStatus,
      TypeOK, tables
<1>30. ASSUME NEW x \in Runners, Fault(x)
      PROVE  TypeOK'
  BY <1>30, ResetType
  DEF Fault, Raise, Replies, TypeOK, tables, Runners, ProcessStates, ApiStates,
      WorkerStates, PlannerStates
<1>31. ASSUME NEW r \in Revisions, LeaseEnds(r)
      PROVE  TypeOK'
  BY <1>31
  DEF LeaseEnds, TypeOK, tables
<1>32. ASSUME ClientCompletes
      PROVE  TypeOK'
  BY <1>32
  DEF ClientCompletes, CompleteTurn, TurnStatus, TypeOK, tables
<1>33. ASSUME UNCHANGED vars
      PROVE  TypeOK'
  BY <1>33
  DEF TypeOK, vars
<1>. QED
  BY <1>1, <1>2, <1>3, <1>4, <1>5, <1>6, <1>7, <1>8, <1>9, <1>10, <1>11, <1>12, <1>13,
     <1>14, <1>15, <1>16, <1>17, <1>18, <1>19, <1>20, <1>21, <1>22, <1>23, <1>24,
     <1>25, <1>26, <1>27, <1>28, <1>29, <1>30, <1>31, <1>32, <1>33
  DEF Next, PlannerStep, ApiStep, Take, WorkerStep

-----------------------------------------------------------------------------
(* Outbox and inbox only grow.                                             *)

LEMMA Grows ==
    ASSUME [Next]_vars
    PROVE  emitted \subseteq emitted' /\ inbox \subseteq inbox'
<1>1. CASE ApiStep
  BY <1>1 DEF ApiStep, SelectContext, RoutingFails, CreatePlan, CompleteUnsupported
<1>2. ASSUME NEW x \in Runners, PlannerStep(x)
      PROVE  emitted \subseteq emitted' /\ inbox \subseteq inbox'
  <2>1. CASE LoadInput(x) \/ ReadResult(x) \/ ReadResultAgain(x) \/ MarkRefused(x)
    BY <2>1 DEF LoadInput, ReadResult, ReadResultAgain, MarkRefused
  <2>2. CASE CreateDocumentTask(x) \/ FinalizePlan(x) \/ MarkPlanUnsupported(x)
    BY <2>2 DEF CreateDocumentTask, FinalizePlan, MarkPlanUnsupported
  <2>3. CASE MarkPlanNeedsClarification(x) \/ PlannerEnds(x)
             \/ SetClarificationQuestion(x)
    BY <2>3 DEF MarkPlanNeedsClarification, PlannerEnds, SetClarificationQuestion
  <2>4. CASE MarkPlanRetryPending(x)
    BY <2>4 DEF MarkPlanRetryPending
  <2>. QED  BY <1>2, <2>1, <2>2, <2>3, <2>4 DEF PlannerStep
<1>3. ASSUME NEW w \in Workers, WorkerStep(w)
      PROVE  emitted \subseteq emitted' /\ inbox \subseteq inbox'
  BY <1>3 DEF WorkerStep, ValidateExistingPlan, AggregationCompletes,
     ResolveClarification, RecordProcessed, Acknowledge
<1>4. ASSUME NEW w \in Workers, NEW e \in emitted, Take(w, e)
      PROVE  emitted \subseteq emitted' /\ inbox \subseteq inbox'
  BY <1>4 DEF Take, ReplanSeen, ReplanExhausted, ReplanJoins, ReplanCreates,
     AggregationTaken
<1>5. CASE AnswerClarification
  BY <1>5 DEF AnswerClarification
<1>6. ASSUME NEW r \in Revisions,
             RuntimeStarts(r) \/ RuntimeCompletes(r) \/ RuntimeFails(r)
      PROVE  emitted \subseteq emitted' /\ inbox \subseteq inbox'
  BY <1>6 DEF RuntimeStarts, RuntimeCompletes, RuntimeFails, RuntimeEnds
<1>7. CASE \/ \E x \in Runners : Fault(x)
           \/ \E r \in Revisions : LeaseEnds(r)
           \/ ClientCompletes
           \/ UNCHANGED vars
  BY <1>7 DEF Fault, LeaseEnds, ClientCompletes, vars
<1>. QED  BY <1>1, <1>2, <1>3, <1>4, <1>5, <1>6, <1>7 DEF Next

-----------------------------------------------------------------------------
(* What a process holds.                                                   *)

LEMMA RunnersKept ==
    ASSUME RunnerInv, [Next]_vars, runner' = runner
    PROVE  RunnerInv'
  BY Grows DEF RunnerInv, Rev

LEMMA RunnerRests ==
    ASSUME TypeOK, RunnerInv, [Next]_vars, NEW x \in Runners,
           runner' = [runner EXCEPT ![x] = Idle]
    PROVE  RunnerInv'
  BY Grows, ResetType
  DEF RunnerInv, Rev, Runners, ApiStates, WorkerStates, PlannerStates

\* A planner goes on, or it ends.
LEMMA PlannerGoes ==
    ASSUME TypeOK, RunnerInv, [Next]_vars, NEW x \in Runners,
           runner[x].pc \in PlannerStates,
           NEW pc \in PlannerStates \cup {"closing", "done"},
           pc = "closing" => x = Api,
           pc = "done" => x # Api,
           GoesTo(x, pc)
    PROVE  RunnerInv'
<1>1. pc \in ProcessStates
  BY DEF ProcessStates, ApiStates, WorkerStates, PlannerStates
<1>2. Api \notin Workers
  BY WorkflowAssumption
<1>. QED  BY <1>1, <1>2, Grows, GoesToType
     DEF RunnerInv, Rev, Runners, ApiStates, WorkerStates, PlannerStates

\* An aggregation goes on, or it ends.
LEMMA AggregationGoes ==
    ASSUME TypeOK, RunnerInv, [Next]_vars, NEW w \in Workers,
           runner[w].pc \in WorkerStates \ {"done"},
           NEW pc \in WorkerStates,
           pc = "done" => runner[w].event \in inbox',
           GoesTo(w, pc)
    PROVE  RunnerInv'
<1>1. pc \in ProcessStates /\ w \in Runners
  BY DEF ProcessStates, Runners
<1>2. Api \notin Workers
  BY WorkflowAssumption
<1>. QED  BY <1>1, <1>2, Grows, GoesToType
     DEF RunnerInv, Rev, Runners, ApiStates, WorkerStates, PlannerStates

\* A worker takes an event.
LEMMA WorkerTakes ==
    ASSUME TypeOK, RunnerInv, [Next]_vars,
           NEW w \in Workers, NEW e \in emitted, NEW r \in 0 .. MaxRevisions,
           \/ e \in inbox' /\ Takes(w, e, "done", r)
           \/ e \in inbox' /\ r \in Revisions /\ Takes(w, e, "prepared", r)
           \/ /\ e.cause = "completed" /\ r \in Revisions
              /\ Takes(w, e, "completing", r)
    PROVE  RunnerInv'
<1>1. ASSUME NEW pc \in {"done", "prepared", "completing"}, Takes(w, e, pc, r)
      PROVE  /\ runner'[w] = [pc |-> pc, rev |-> r, event |-> e]
             /\ \A y \in Runners \ {w} : runner'[y] = runner[y]
  BY <1>1, TakesType DEF ProcessStates, WorkerStates, PlannerStates
<1>2. Api \notin Workers
  BY WorkflowAssumption
<1>3. CASE e \in inbox' /\ Takes(w, e, "done", r)
  BY <1>1, <1>2, <1>3, Grows
  DEF RunnerInv, Rev, Runners, ApiStates, WorkerStates, PlannerStates
<1>4. CASE e \in inbox' /\ r \in Revisions /\ Takes(w, e, "prepared", r)
  BY <1>1, <1>2, <1>4, Grows
  DEF RunnerInv, Rev, Runners, ApiStates, WorkerStates, PlannerStates
<1>5. CASE e.cause = "completed" /\ r \in Revisions /\ Takes(w, e, "completing", r)
  BY <1>1, <1>2, <1>5, Grows
  DEF RunnerInv, Rev, Runners, ApiStates, WorkerStates, PlannerStates
<1>. QED  BY <1>3, <1>4, <1>5

LEMMA RunnerStep ==
    ASSUME TypeOK, RunnerInv, [Next]_vars
    PROVE  RunnerInv'
<1>. USE DEF At
<1>1. CASE SelectContext
  <2>1. /\ runner'[Api].pc = "prepared"
        /\ runner'[Api].rev = 1
        /\ \A y \in Runners \ {Api} : runner'[y] = runner[y]
    BY <1>1 DEF SelectContext, TypeOK, Runner, Runners
  <2>. QED
    BY <2>1, Bounds, Grows, WorkflowAssumption
    DEF RunnerInv, Rev, Runners, ApiStates, WorkerStates, PlannerStates
<1>2. CASE RoutingFails \/ CompleteUnsupported
  BY <1>2, RunnerRests DEF RoutingFails, Raise, CompleteUnsupported, Respond, Runners
<1>3. CASE CreatePlan
  BY <1>3, PlannerGoes DEF CreatePlan, PlannerStates, Runners
<1>4. ASSUME NEW x \in Runners, PlannerStep(x)
      PROVE  RunnerInv'
  <2>1. CASE LoadInput(x)
    BY <2>1, PlannerGoes, RunnerRests DEF LoadInput, Raise, PlannerStates
  <2>2. CASE CreateDocumentTask(x) \/ FinalizePlan(x) \/ MarkPlanUnsupported(x)
    BY <2>2, PlannerGoes
    DEF CreateDocumentTask, FinalizePlan, MarkPlanUnsupported, Deciding, PlannerStates
  <2>3. CASE \/ MarkPlanNeedsClarification(x) \/ PlannerEnds(x)
             \/ MarkPlanRetryPending(x)
    BY <2>3, PlannerGoes
    DEF MarkPlanNeedsClarification, PlannerEnds, MarkPlanRetryPending,
        Deciding, PlannerStates
  <2>4. CASE SetClarificationQuestion(x)
    BY <2>4, PlannerGoes, RunnerRests
    DEF SetClarificationQuestion, Raise, PlannerStates
  <2>5. ASSUME runner[x].pc \in PlannerStates, Conclude(x)
        PROVE  RunnerInv'
    BY <2>5, PlannerGoes, RunnerRests DEF Conclude, Raise, Respond
  <2>6. CASE ReadResult(x)
    BY <2>5, <2>6, PlannerGoes DEF ReadResult, PlannerStates
  <2>7. CASE ReadResultAgain(x)
    BY <2>5, <2>7 DEF ReadResultAgain, PlannerStates
  <2>8. CASE MarkRefused(x)
    BY <2>8, RunnerRests DEF MarkRefused, Raise
  <2>. QED
    BY <1>4, <2>1, <2>2, <2>3, <2>4, <2>6, <2>7, <2>8 DEF PlannerStep
<1>5. ASSUME NEW w \in Workers, WorkerStep(w)
      PROVE  RunnerInv'
  <2>1. w \in Runners
    BY DEF Runners
  <2>2. CASE ValidateExistingPlan(w)
    BY <2>1, <2>2, PlannerGoes, RunnerRests
    DEF ValidateExistingPlan, Raise, PlannerStates
  <2>3. CASE AggregationCompletes(w) \/ ResolveClarification(w)
    BY <2>3, AggregationGoes
    DEF AggregationCompletes, ResolveClarification, WorkerStates
  <2>4. CASE RecordProcessed(w)
    BY <2>4, AggregationGoes DEF RecordProcessed, WorkerStates
  <2>5. CASE Acknowledge(w)
    BY <2>1, <2>5, RunnerRests DEF Acknowledge
  <2>. QED  BY <1>5, <2>2, <2>3, <2>4, <2>5 DEF WorkerStep
<1>6. ASSUME NEW w \in Workers, NEW e \in emitted, Take(w, e)
      PROVE  RunnerInv'
  <2>1. CASE ReplanSeen(w, e)
    BY <2>1, WorkerTakes, Bounds DEF ReplanSeen, StillPlanning
  <2>2. CASE ReplanExhausted(w, e)
    BY <2>2, WorkerTakes, Bounds DEF ReplanExhausted
  <2>3. CASE ReplanJoins(w, e)
    BY <2>3, WorkerTakes, Bounds DEF ReplanJoins
  <2>4. CASE ReplanCreates(w, e)
    BY <2>4, WorkerTakes, Bounds DEF ReplanCreates, MayBeCreated
  <2>5. CASE AggregationTaken(w, e)
    <3>1. e.plan \in Revisions
      BY DEF TypeOK, Event
    <3>. QED  BY <2>5, <3>1, WorkerTakes, Bounds DEF AggregationTaken
  <2>. QED  BY <1>6, <2>1, <2>2, <2>3, <2>4, <2>5 DEF Take
<1>7. CASE AnswerClarification
  BY <1>7, RunnersKept DEF AnswerClarification
<1>8. ASSUME NEW r \in Revisions,
             RuntimeStarts(r) \/ RuntimeCompletes(r) \/ RuntimeFails(r)
      PROVE  RunnerInv'
  BY <1>8, RunnersKept DEF RuntimeStarts, RuntimeCompletes, RuntimeFails, RuntimeEnds
<1>9. ASSUME NEW x \in Runners, Fault(x)
      PROVE  RunnerInv'
  BY <1>9, RunnerRests DEF Fault, Raise
<1>10. CASE (\E r \in Revisions : LeaseEnds(r)) \/ ClientCompletes \/ UNCHANGED vars
  BY <1>10, RunnersKept DEF LeaseEnds, ClientCompletes, vars
<1>. QED
  BY <1>1, <1>2, <1>3, <1>4, <1>5, <1>6, <1>7, <1>8, <1>9, <1>10 DEF Next, ApiStep

-----------------------------------------------------------------------------
(* The request of the Turn, and the time before it is planned.             *)

LEMMA RequestStep ==
    ASSUME TypeOK, RunnerInv, RequestInv, [Next]_vars
    PROVE  RequestInv'
<1>1. CASE request' = request
  BY <1>1 DEF RequestInv
<1>2. ASSUME NEW x \in Runners, MarkPlanNeedsClarification(x)
      PROVE  RequestInv'
  BY <1>2 DEF MarkPlanNeedsClarification, Deciding, RunnerInv, RequestInv, Rev, At, PlannerStates
<1>3. ASSUME NEW x \in Runners, SetClarificationQuestion(x)
      PROVE  RequestInv'
  BY <1>3 DEF SetClarificationQuestion, RequestInv, TypeOK, Request
<1>4. ASSUME NEW x \in Runners, MarkPlanRetryPending(x)
      PROVE  RequestInv'
  <2>1. runner[x].pc \in PlannerStates
    BY <1>4 DEF MarkPlanRetryPending, At, PlannerStates
  <2>2. Rev(x) \in Revisions
    BY <2>1 DEF RunnerInv
  <2>. QED
    BY <1>4, <2>2 DEF MarkPlanRetryPending, RequestInv, TypeOK, Request
<1>5. CASE AnswerClarification
  BY <1>5 DEF AnswerClarification, RequestInv, TypeOK, Request
<1>6. ASSUME NEW w \in Workers, ResolveClarification(w)
      PROVE  RequestInv'
  BY <1>6 DEF ResolveClarification, Resolves, RequestInv, TypeOK, Request
<1>7. CASE ApiStep
  BY <1>1, <1>7 DEF ApiStep, SelectContext, RoutingFails, CreatePlan,
     CompleteUnsupported
<1>8. ASSUME NEW x \in Runners, PlannerStep(x)
      PROVE  RequestInv'
  <2>1. CASE LoadInput(x) \/ CreateDocumentTask(x) \/ FinalizePlan(x)
    BY <1>1, <2>1 DEF LoadInput, CreateDocumentTask, FinalizePlan, tables
  <2>2. CASE MarkPlanUnsupported(x) \/ PlannerEnds(x) \/ ReadResult(x)
    BY <1>1, <2>2 DEF MarkPlanUnsupported, PlannerEnds, ReadResult, tables
  <2>3. CASE MarkRefused(x) \/ ReadResultAgain(x)
    BY <1>1, <2>3 DEF MarkRefused, ReadResultAgain, tables
  <2>. QED  BY <1>2, <1>3, <1>4, <1>8, <2>1, <2>2, <2>3 DEF PlannerStep
<1>9. ASSUME NEW w \in Workers, WorkerStep(w)
      PROVE  RequestInv'
  BY <1>1, <1>6, <1>9
  DEF WorkerStep, ValidateExistingPlan, AggregationCompletes, RecordProcessed,
      Acknowledge, tables
<1>10. ASSUME NEW w \in Workers, NEW e \in emitted, Take(w, e)
       PROVE  RequestInv'
  BY <1>1, <1>10
  DEF Take, ReplanSeen, ReplanExhausted, ReplanJoins, ReplanCreates,
      AggregationTaken, tables
<1>11. ASSUME NEW r \in Revisions,
              RuntimeStarts(r) \/ RuntimeCompletes(r) \/ RuntimeFails(r)
       PROVE  RequestInv'
  BY <1>1, <1>11 DEF RuntimeStarts, RuntimeCompletes, RuntimeFails, RuntimeEnds
<1>12. CASE \/ \E x \in Runners : Fault(x)
            \/ \E r \in Revisions : LeaseEnds(r)
            \/ ClientCompletes
            \/ UNCHANGED vars
  BY <1>1, <1>12 DEF Fault, LeaseEnds, ClientCompletes, tables, vars
<1>. QED
  BY <1>5, <1>7, <1>8, <1>9, <1>10, <1>11, <1>12 DEF Next

\* Before the Turn has a context no worker has anything to do.
LEMMA OthersIdle ==
    ASSUME TypeOK, RunnerInv, RoutingFirst, At(Api, "routing")
    PROVE  \A w \in Workers : At(w, "idle")
<1>1. inbox = {}
  BY DEF RoutingFirst, TypeOK
<1>2. ASSUME NEW w \in Workers
      PROVE  At(w, "idle")
  <2>1. /\ runner[w].pc \in ProcessStates \ ApiStates
        /\ runner[w].pc \notin PlannerStates \cup WorkerStates
    BY <1>1 DEF RoutingFirst, RunnerInv, TypeOK, Runner, Runners, ProcessStates
  <2>. QED  BY <2>1 DEF ProcessStates, At
<1>. QED  BY <1>2

\* A planner moves itself, and never back into the routing.
LEMMA PlannerMoves ==
    ASSUME TypeOK, NEW x \in Runners, PlannerStep(x)
    PROVE  /\ runner[x].pc \in PlannerStates
           /\ runner'[x].pc # "routing"
           /\ \A y \in Runners \ {x} : runner'[y] = runner[y]
<1>. DEFINE Moves == \/ runner' = [runner EXCEPT ![x] = Idle]
                     \/ \E pc \in ProcessStates \ {"routing"} : GoesTo(x, pc)
<1>1. ASSUME NEW pc \in PlannerStates \cup {"closing", "done"}, GoesTo(x, pc)
      PROVE  Moves
  BY <1>1 DEF ProcessStates, ApiStates, WorkerStates, PlannerStates
<1>2. ASSUME Conclude(x)
      PROVE  Moves
  BY <1>1, <1>2 DEF Conclude, Raise, Respond
<1>3. runner[x].pc \in PlannerStates /\ Moves
  <2>. USE DEF At, PlannerStates
  <2>1. CASE LoadInput(x) \/ SetClarificationQuestion(x) \/ MarkRefused(x)
    BY <1>1, <2>1 DEF LoadInput, SetClarificationQuestion, MarkRefused, Raise
  <2>2. CASE CreateDocumentTask(x) \/ FinalizePlan(x) \/ MarkPlanUnsupported(x)
    BY <1>1, <2>2
    DEF CreateDocumentTask, FinalizePlan, MarkPlanUnsupported, Deciding
  <2>3. CASE \/ MarkPlanNeedsClarification(x) \/ PlannerEnds(x)
             \/ MarkPlanRetryPending(x)
    BY <1>1, <2>3
    DEF MarkPlanNeedsClarification, PlannerEnds, MarkPlanRetryPending, Deciding
  <2>4. CASE ReadResult(x) \/ ReadResultAgain(x)
    BY <1>1, <1>2, <2>4 DEF ReadResult, ReadResultAgain
  <2>. QED  BY <2>1, <2>2, <2>3, <2>4 DEF PlannerStep
<1>. HIDE DEF Moves
<1>4. CASE runner' = [runner EXCEPT ![x] = Idle]
  BY <1>3, <1>4, ResetType
<1>5. ASSUME NEW pc \in ProcessStates \ {"routing"}, GoesTo(x, pc)
      PROVE  /\ runner'[x].pc # "routing"
             /\ \A y \in Runners \ {x} : runner'[y] = runner[y]
  BY <1>5, GoesToType
<1>. QED  BY <1>3, <1>4, <1>5, ResetType DEF Moves

\* A worker never touches the API request.
LEMMA WorkerMoves ==
    ASSUME TypeOK, NEW w \in Workers,
           WorkerStep(w) \/ (\E e \in emitted : Take(w, e))
    PROVE  runner'[Api] = runner[Api]
<1>. DEFINE Kept == runner'[Api] = runner[Api]
<1>1. w # Api /\ w \in Runners /\ Api \in Runners
  BY WorkflowAssumption DEF Runners
<1>2. ASSUME NEW v, runner' = [runner EXCEPT ![w] = v]
      PROVE  Kept
  BY <1>1, <1>2 DEF TypeOK
<1>3. ASSUME NEW pc, GoesTo(w, pc)
      PROVE  Kept
  BY <1>1, <1>3 DEF TypeOK, GoesTo
<1>4. ASSUME NEW e, NEW pc, NEW r, Takes(w, e, pc, r)
      PROVE  Kept
  BY <1>2, <1>4 DEF Takes
<1>5. ASSUME WorkerStep(w)
      PROVE  Kept
  <2>1. CASE \/ AggregationCompletes(w) \/ ResolveClarification(w)
             \/ RecordProcessed(w)
    BY <1>3, <2>1 DEF AggregationCompletes, ResolveClarification, RecordProcessed
  <2>2. CASE ValidateExistingPlan(w) \/ Acknowledge(w)
    BY <1>2, <1>3, <2>2 DEF ValidateExistingPlan, Acknowledge, Raise
  <2>. QED  BY <1>5, <2>1, <2>2 DEF WorkerStep
<1>6. ASSUME NEW e \in emitted, Take(w, e)
      PROVE  Kept
  BY <1>4, <1>6
  DEF Take, ReplanSeen, ReplanExhausted, ReplanJoins, ReplanCreates, AggregationTaken
<1>. QED  BY <1>5, <1>6

LEMMA RoutingStep ==
    ASSUME TypeOK, RunnerInv, RoutingFirst, [Next]_vars
    PROVE  RoutingFirst'
<1>. DEFINE Untouched == UNCHANGED <<turn, plan, request, emitted>>
<1>. SUFFICES ASSUME At(Api, "routing")'
              PROVE  At(Api, "routing") /\ Untouched
  BY DEF RoutingFirst
<1>1. Api \in Runners /\ \A w \in Workers : w \in Runners /\ w # Api
  BY WorkflowAssumption DEF Runners
<1>2. CASE ApiStep
  <2>1. CASE SelectContext
    BY <1>1, <2>1 DEF SelectContext, TypeOK, Runner, At
  <2>2. CASE RoutingFails \/ CompleteUnsupported
    BY <1>1, <2>2, ResetType DEF RoutingFails, Raise, CompleteUnsupported, Respond, At
  <2>3. CASE CreatePlan
    BY <1>1, <2>3, GoesToType DEF CreatePlan, At, ProcessStates, PlannerStates
  <2>. QED  BY <1>2, <2>1, <2>2, <2>3 DEF ApiStep
<1>3. ASSUME NEW x \in Runners, PlannerStep(x)
      PROVE  At(Api, "routing") /\ Untouched
  <2>1. x \in Workers /\ At(Api, "routing")
    BY <1>1, <1>3, PlannerMoves DEF Runners, At
  <2>2. At(x, "idle")
    BY <2>1, OthersIdle
  <2>. QED  BY <1>3, <2>2, PlannerMoves DEF At, PlannerStates
<1>4. ASSUME NEW w \in Workers, WorkerStep(w)
      PROVE  At(Api, "routing") /\ Untouched
  <2>1. At(Api, "routing")
    BY <1>4, WorkerMoves DEF At
  <2>2. At(w, "idle")
    BY <2>1, OthersIdle
  <2>. QED
    BY <1>4, <2>2
    DEF At, WorkerStep, ValidateExistingPlan, AggregationCompletes,
        ResolveClarification, RecordProcessed, Acknowledge
<1>5. ASSUME NEW w \in Workers, NEW e \in emitted, Take(w, e)
      PROVE  At(Api, "routing") /\ Untouched
  BY <1>5, WorkerMoves DEF At, RoutingFirst
<1>6. CASE AnswerClarification
  BY <1>6 DEF AnswerClarification, At, RoutingFirst
<1>7. ASSUME NEW r \in Revisions,
             RuntimeStarts(r) \/ RuntimeCompletes(r) \/ RuntimeFails(r)
      PROVE  At(Api, "routing") /\ Untouched
  BY <1>7
  DEF RuntimeStarts, RuntimeCompletes, RuntimeFails, RuntimeEnds, At, RoutingFirst
<1>8. ASSUME NEW x \in Runners, Fault(x)
      PROVE  At(Api, "routing") /\ Untouched
  BY <1>1, <1>8, ResetType DEF Fault, Raise, At, tables
<1>9. CASE (\E r \in Revisions : LeaseEnds(r)) \/ UNCHANGED vars
  BY <1>9 DEF LeaseEnds, At, vars
<1>10. CASE ClientCompletes
  BY <1>10 DEF ClientCompletes, OpenTurn, At, RoutingFirst
<1>. QED
  BY <1>2, <1>3, <1>4, <1>5, <1>6, <1>7, <1>8, <1>9, <1>10 DEF Next

-----------------------------------------------------------------------------
(* The revisions and the events about them.                                *)

\* A step at which no Plan and no event changes; the Turn goes on waiting.
PlansKept ==
    /\ UNCHANGED <<plan, emitted, inbox>>
    /\ turn = "needs_clarification" => turn' = turn

PlannerChanges(x) ==
    \/ FinalizePlan(x) \/ MarkPlanUnsupported(x)
    \/ MarkPlanNeedsClarification(x) \/ MarkPlanRetryPending(x)

ReplanChanges(w, e) ==
    ReplanExhausted(w, e) \/ ReplanJoins(w, e) \/ ReplanCreates(w, e)

PlansChange ==
    \/ CreatePlan
    \/ \E x \in Runners : PlannerChanges(x)
    \/ \E w \in Workers : RecordProcessed(w)
    \/ \E w \in Workers : \E e \in emitted : ReplanChanges(w, e)
    \/ AnswerClarification
    \/ \E r \in Revisions : RuntimeStarts(r) \/ RuntimeCompletes(r) \/ RuntimeFails(r)

LEMMA PlansKeptOrChange ==
    ASSUME RoutingFirst, [Next]_vars
    PROVE  PlansKept \/ PlansChange
<1>. USE DEF PlansKept
<1>1. CASE ApiStep
  <2>1. CASE SelectContext \/ RoutingFails
    BY <2>1 DEF SelectContext, RoutingFails, RoutingFirst
  <2>2. CASE CompleteUnsupported
    BY <2>2 DEF CompleteUnsupported, OpenTurn
  <2>. QED  BY <1>1, <2>1, <2>2 DEF ApiStep, PlansChange
<1>2. ASSUME NEW x \in Runners, PlannerStep(x)
      PROVE  PlansKept \/ PlannerChanges(x)
  <2>1. CASE LoadInput(x) \/ CreateDocumentTask(x) \/ PlannerEnds(x)
    BY <2>1 DEF LoadInput, CreateDocumentTask, PlannerEnds, tables
  <2>2. CASE SetClarificationQuestion(x)
    BY <2>2 DEF SetClarificationQuestion
  <2>3. CASE ReadResult(x) \/ MarkRefused(x) \/ ReadResultAgain(x)
    BY <2>3 DEF ReadResult, MarkRefused, ReadResultAgain, tables
  <2>. QED  BY <1>2, <2>1, <2>2, <2>3 DEF PlannerStep, PlannerChanges
<1>3. ASSUME NEW w \in Workers, WorkerStep(w)
      PROVE  PlansKept \/ RecordProcessed(w)
  BY <1>3
  DEF WorkerStep, ValidateExistingPlan, AggregationCompletes, OpenTurn,
      ResolveClarification, Acknowledge, tables
<1>4. ASSUME NEW w \in Workers, NEW e \in emitted, Take(w, e)
      PROVE  PlansKept \/ ReplanChanges(w, e)
  BY <1>4 DEF Take, ReplanSeen, AggregationTaken, tables, ReplanChanges
<1>5. CASE \/ \E x \in Runners : Fault(x)
           \/ \E r \in Revisions : LeaseEnds(r)
           \/ UNCHANGED vars
  BY <1>5 DEF Fault, LeaseEnds, tables, vars
<1>6. CASE ClientCompletes
  BY <1>6 DEF ClientCompletes, OpenTurn
<1>. HIDE DEF PlansKept
<1>. QED  BY <1>1, <1>2, <1>3, <1>4, <1>5, <1>6 DEF Next, PlansChange

\* Of the Plans of a Turn at most one is not superseded.
LEMMA OnlyOne ==
    ASSUME LineOfPlans, NEW r \in Revisions, NEW s \in Revisions,
           plan[r] \notin {"none", "superseded"},
           plan[s] \notin {"none", "superseded"}
    PROVE  r = s
  BY Bounds DEF LineOfPlans, Revisions

\* What a Plan that is not closed may become, and what it may emit.
LEMMA Advance ==
    ASSUME TypeOK, LineOfPlans, EventInv,
           NEW r \in Revisions, NEW s,
           plan[r] \notin {"none", "superseded", "failed"}, s # "none",
           plan' = [plan EXCEPT ![r] = s],
           \A e \in emitted' : e \in emitted \/ e.plan = r,
           inbox' = inbox
    PROVE  LineOfPlans' /\ EventInv'
<1>1. LineOfPlans'
  BY DEF LineOfPlans, TypeOK
<1>2. \A e \in emitted : e.plan \in Revisions
  BY DEF TypeOK, Event
<1>3. \A e \in emitted' : plan'[e.plan] # "none"
  BY <1>2 DEF EventInv, TypeOK
<1>4. \A e \in inbox : IsReplan(e) => e.plan # r
  BY DEF EventInv
<1>5. \A e \in inbox' : IsReplan(e) => plan'[e.plan] \in {"superseded", "failed"}
  BY <1>2, <1>4 DEF EventInv, TypeOK
<1>. QED  BY <1>1, <1>3, <1>5 DEF EventInv, IsReplan

LEMMA PlannerLine ==
    ASSUME TypeOK, RunnerInv, LineOfPlans, EventInv,
           NEW x \in Runners, PlannerChanges(x)
    PROVE  LineOfPlans' /\ EventInv'
<1>1. runner[x].pc \in PlannerStates
  BY DEF PlannerChanges, FinalizePlan, MarkPlanUnsupported, Deciding,
     MarkPlanNeedsClarification, MarkPlanRetryPending, At, PlannerStates
<1>2. Rev(x) \in Revisions
  BY <1>1 DEF RunnerInv
<1>3. CASE FinalizePlan(x)
  BY <1>2, <1>3, Advance DEF FinalizePlan
<1>4. CASE MarkPlanUnsupported(x)
  BY <1>2, <1>4, Advance DEF MarkPlanUnsupported
<1>5. CASE MarkPlanNeedsClarification(x)
  BY <1>2, <1>5, Advance DEF MarkPlanNeedsClarification
<1>6. CASE MarkPlanRetryPending(x)
  <2>1. \A e \in emitted' : e \in emitted \/ e.plan = Rev(x)
    BY <1>6 DEF MarkPlanRetryPending, EventsOfRetry, ReplanEvent
  <2>. QED
    BY <1>2, <1>6, <2>1, Advance DEF MarkPlanRetryPending, MayBeRetried
<1>. QED  BY <1>3, <1>4, <1>5, <1>6 DEF PlannerChanges

LEMMA ReplanLine ==
    ASSUME TypeOK, LineOfPlans, EventInv,
           NEW w \in Workers, NEW e \in emitted, ReplanChanges(w, e)
    PROVE  LineOfPlans' /\ EventInv'
<1>1. /\ e.plan \in Revisions
      /\ plan[e.plan] # "none"
      /\ emitted' = emitted
      /\ inbox' = inbox \cup {e}
  BY DEF ReplanChanges, ReplanExhausted, ReplanJoins, ReplanCreates, EventInv,
     TypeOK, Event, tables
<1>2. \A f \in emitted : f.plan \in Revisions
  BY DEF TypeOK, Event
<1>3. \A r, s \in Revisions : r < s => r # MaxRevisions
  BY Bounds DEF Revisions
<1>4. CASE ReplanExhausted(w, e)
  <2>1. e.plan = MaxRevisions
    BY <1>1, <1>4, Bounds DEF ReplanExhausted, NextRevision, Revisions
  <2>2. plan' = [plan EXCEPT ![e.plan] = "failed"]
    BY <1>4 DEF ReplanExhausted
  <2>3. LineOfPlans'
    BY <1>1, <1>3, <2>1, <2>2 DEF LineOfPlans, TypeOK
  <2>. QED
    BY <1>1, <1>2, <2>2, <2>3 DEF EventInv, IsReplan, TypeOK
<1>5. CASE ReplanJoins(w, e)
  <2>1. plan' = plan
    BY <1>5 DEF ReplanJoins, tables
  <2>2. plan[e.plan] = "superseded"
    BY <1>1, <1>5, Bounds DEF ReplanJoins, NextRevision, LineOfPlans, Revisions
  <2>. QED
    BY <1>1, <2>1, <2>2 DEF LineOfPlans, EventInv, IsReplan
<1>6. CASE ReplanCreates(w, e)
  <2>1. /\ e.plan + 1 \in Revisions
        /\ plan[e.plan + 1] = "none"
        /\ plan' = [plan EXCEPT ![e.plan] = "superseded", ![e.plan + 1] = "planning"]
    BY <1>6 DEF ReplanCreates, MayBeCreated, NextRevision, Revised
  <2>2. /\ plan'[e.plan] = "superseded"
        /\ plan'[e.plan + 1] = "planning"
        /\ \A r \in Revisions \ {e.plan, e.plan + 1} : plan'[r] = plan[r]
    BY <1>1, <2>1 DEF TypeOK, Revisions
  <2>3. LineOfPlans'
    <3>1. SUFFICES ASSUME NEW r \in Revisions, NEW s \in Revisions,
                          r < s, plan'[s] # "none"
                   PROVE  plan'[r] = "superseded"
      BY DEF LineOfPlans
    <3>2. CASE s = e.plan + 1
      <4>1. r = e.plan \/ r < e.plan
        BY <1>1, <3>1, <3>2 DEF Revisions
      <4>2. r < e.plan => plan[r] = "superseded"
        BY <1>1 DEF LineOfPlans
      <4>. QED  BY <1>1, <2>2, <3>1, <3>2, <4>1, <4>2
    <3>3. CASE s # e.plan + 1
      <4>1. plan[s] # "none"
        BY <1>1, <2>2, <3>1, <3>3
      <4>2. plan[r] = "superseded"
        BY <3>1, <4>1 DEF LineOfPlans
      <4>. QED  BY <2>1, <2>2, <4>2
    <3>. QED  BY <3>2, <3>3
  <2>4. \A f \in emitted : f.plan # e.plan + 1
    BY <2>1 DEF EventInv
  <2>. QED
    BY <1>1, <1>2, <2>2, <2>3, <2>4 DEF EventInv, IsReplan, TypeOK
<1>. QED  BY <1>4, <1>5, <1>6 DEF ReplanChanges

LEMMA LineStep ==
    ASSUME TypeOK, RunnerInv, RequestInv, RoutingFirst, LineOfPlans, EventInv,
           [Next]_vars
    PROVE  LineOfPlans' /\ EventInv'
<1>1. CASE PlansKept
  BY <1>1 DEF PlansKept, LineOfPlans, EventInv, IsReplan
<1>2. CASE CreatePlan
  <2>1. /\ plan' = [plan EXCEPT ![1] = "planning"]
        /\ plan[1] = "none"
        /\ UNCHANGED <<emitted, inbox>>
    BY <1>2 DEF CreatePlan
  <2>2. \A r, s \in Revisions : r < s => s # 1
    BY Bounds DEF Revisions
  <2>3. LineOfPlans'
    BY <2>1, <2>2, Bounds DEF LineOfPlans, TypeOK
  <2>. QED
    BY <2>1, <2>3, Bounds DEF EventInv, IsReplan, TypeOK, Event
<1>3. ASSUME NEW w \in Workers, RecordProcessed(w)
      PROVE  LineOfPlans' /\ EventInv'
  <2>1. runner[w].event.cause = "completed"
    BY <1>3 DEF RecordProcessed, At, RunnerInv, WorkerStates
  <2>2. ~IsReplan(runner[w].event)
    BY <2>1 DEF IsReplan, ReplanTriggers
  <2>. QED
    BY <1>3, <2>2 DEF RecordProcessed, LineOfPlans, EventInv, IsReplan, tables
<1>4. CASE AnswerClarification
  <2>1. request.plan \in Revisions /\ plan[request.plan] # "none"
    BY <1>4 DEF AnswerClarification, AwaitsQuestion, RequestInv
  <2>. QED
    BY <1>4, <2>1
    DEF AnswerClarification, LineOfPlans, EventInv, IsReplan, ReplanEvent
<1>5. ASSUME NEW r \in Revisions,
             RuntimeStarts(r) \/ RuntimeCompletes(r) \/ RuntimeFails(r)
      PROVE  LineOfPlans' /\ EventInv'
  <2>1. CASE RuntimeStarts(r)
    BY <2>1, Advance DEF RuntimeStarts
  <2>2. ASSUME NEW s, s # "none", NEW f, f.plan = r, RuntimeEnds(r, s, f)
        PROVE  LineOfPlans' /\ EventInv'
    BY <2>2, Advance DEF RuntimeEnds
  <2>3. CASE RuntimeCompletes(r)
    BY <2>2, <2>3 DEF RuntimeCompletes, AggregationEvent
  <2>4. CASE RuntimeFails(r)
    BY <2>2, <2>4 DEF RuntimeFails, ReplanEvent
  <2>. QED  BY <1>5, <2>1, <2>3, <2>4
<1>. QED
  BY <1>1, <1>2, <1>3, <1>4, <1>5, PlannerLine, ReplanLine, PlansKeptOrChange
  DEF PlansChange

-----------------------------------------------------------------------------
(* The promise.                                                            *)

\* Only what is recorded is acknowledged.
LEMMA AckedStep ==
    ASSUME RunnerInv, acked \subseteq inbox, [Next]_vars
    PROVE  acked' \subseteq inbox'
<1>1. ASSUME NEW w \in Workers, Acknowledge(w)
      PROVE  acked' \subseteq inbox'
  BY <1>1 DEF Acknowledge, At, RunnerInv
<1>2. CASE acked' = acked
  BY <1>2, Grows
<1>3. ASSUME NEW x \in Runners, PlannerStep(x)
      PROVE  acked' = acked
  <2>1. CASE LoadInput(x) \/ ReadResult(x) \/ ReadResultAgain(x) \/ MarkRefused(x)
    BY <2>1 DEF LoadInput, ReadResult, ReadResultAgain, MarkRefused
  <2>2. CASE CreateDocumentTask(x) \/ FinalizePlan(x) \/ MarkPlanUnsupported(x)
    BY <2>2 DEF CreateDocumentTask, FinalizePlan, MarkPlanUnsupported
  <2>3. CASE MarkPlanNeedsClarification(x) \/ PlannerEnds(x)
             \/ SetClarificationQuestion(x) \/ MarkPlanRetryPending(x)
    BY <2>3 DEF MarkPlanNeedsClarification, PlannerEnds, SetClarificationQuestion,
       MarkPlanRetryPending
  <2>. QED  BY <1>3, <2>1, <2>2, <2>3 DEF PlannerStep
<1>4. ASSUME NEW w \in Workers, WorkerStep(w)
      PROVE  acked' = acked \/ Acknowledge(w)
  BY <1>4 DEF WorkerStep, ValidateExistingPlan, AggregationCompletes,
     ResolveClarification, RecordProcessed
<1>5. ASSUME NEW w \in Workers, NEW e \in emitted, Take(w, e)
      PROVE  acked' = acked
  BY <1>5 DEF Take, ReplanSeen, ReplanExhausted, ReplanJoins, ReplanCreates,
     AggregationTaken, Takes
<1>6. ASSUME NEW r \in Revisions,
             RuntimeStarts(r) \/ RuntimeCompletes(r) \/ RuntimeFails(r)
      PROVE  acked' = acked
  BY <1>6 DEF RuntimeStarts, RuntimeCompletes, RuntimeFails, RuntimeEnds
<1>7. CASE ApiStep \/ AnswerClarification
  BY <1>2, <1>7 DEF ApiStep, SelectContext, RoutingFails, CreatePlan,
     CompleteUnsupported, AnswerClarification
<1>8. CASE \/ \E x \in Runners : Fault(x)
           \/ \E r \in Revisions : LeaseEnds(r)
           \/ ClientCompletes
           \/ UNCHANGED vars
  BY <1>2, <1>8 DEF Fault, LeaseEnds, ClientCompletes, vars
<1>. QED
  BY <1>1, <1>2, <1>3, <1>4, <1>5, <1>6, <1>7, <1>8 DEF Next

\* The part of ReplanPromised that is about Plans.
Promised ==
    \A r \in Revisions :
        /\ plan[r] = "retry_pending" => Due(r, "planner_failure")
        /\ plan[r] = "replan_pending" => Due(r, "task_failure")
        /\ plan[r] = "needs_clarification" /\ turn # "needs_clarification" =>
             Due(r, "answered")

\* An event about a Plan that is still open has not been recorded.
LEMMA NotRecorded ==
    ASSUME EventInv, NEW r \in Revisions, NEW cause \in ReplanTriggers,
           plan[r] \notin {"superseded", "failed"}
    PROVE  ReplanEvent(r, cause) \notin inbox
  BY DEF EventInv, IsReplan, ReplanEvent

LEMMA PlannerPromise ==
    ASSUME TypeOK, RunnerInv, LineOfPlans, EventInv, Promised,
           NEW x \in Runners, PlannerChanges(x)
    PROVE  Promised'
<1>1. runner[x].pc \in PlannerStates
  BY DEF PlannerChanges, FinalizePlan, MarkPlanUnsupported, Deciding,
     MarkPlanNeedsClarification, MarkPlanRetryPending, At, PlannerStates
<1>2. Rev(x) \in Revisions
  BY <1>1 DEF RunnerInv
<1>3. CASE FinalizePlan(x)
  BY <1>2, <1>3 DEF FinalizePlan, OpenTurn, Promised, Due, TypeOK
<1>4. CASE MarkPlanUnsupported(x)
  BY <1>2, <1>4 DEF MarkPlanUnsupported, Promised, Due, TypeOK
<1>5. CASE MarkPlanNeedsClarification(x)
  BY <1>2, <1>5 DEF MarkPlanNeedsClarification, Promised, Due, TypeOK
<1>6. CASE MarkPlanRetryPending(x)
  <2>1. /\ plan' = [plan EXCEPT ![Rev(x)] = "retry_pending"]
        /\ plan[Rev(x)] \in {"planning", "needs_clarification"}
        /\ inbox' = inbox
        /\ emitted' = emitted \cup {ReplanEvent(Rev(x), "planner_failure")}
    BY <1>6 DEF MarkPlanRetryPending, MayBeRetried, EventsOfRetry
  <2>2. ReplanEvent(Rev(x), "planner_failure") \notin inbox
    BY <1>2, <2>1, NotRecorded DEF ReplanTriggers
  <2>3. \A s \in Revisions : plan[s] = "needs_clarification" => s = Rev(x)
    BY <1>2, <2>1, OnlyOne
  <2>. QED
    BY <1>2, <2>1, <2>2, <2>3 DEF Promised, Due, TypeOK
<1>. QED  BY <1>3, <1>4, <1>5, <1>6 DEF PlannerChanges

LEMMA ReplanPromise ==
    ASSUME TypeOK, LineOfPlans, EventInv, Promised,
           NEW w \in Workers, NEW e \in emitted, ReplanChanges(w, e)
    PROVE  Promised'
<1>1. /\ e.plan \in Revisions
      /\ plan[e.plan] # "none"
      /\ emitted' = emitted
      /\ inbox' = inbox \cup {e}
  BY DEF ReplanChanges, ReplanExhausted, ReplanJoins, ReplanCreates, EventInv,
     TypeOK, Event, tables
<1>2. ASSUME NEW r \in Revisions, r # e.plan, NEW cause, Due(r, cause)
      PROVE  Due(r, cause)'
  BY <1>1, <1>2 DEF Due, ReplanEvent
<1>3. CASE ReplanExhausted(w, e)
  <2>1. e.plan = MaxRevisions
    BY <1>1, <1>3, Bounds DEF ReplanExhausted, NextRevision, Revisions
  <2>2. plan' = [plan EXCEPT ![e.plan] = "failed"]
    BY <1>3 DEF ReplanExhausted
  <2>3. \A r \in Revisions \ {e.plan} : plan[r] = "superseded"
    BY <1>1, <2>1, Bounds DEF LineOfPlans, Revisions
  <2>. QED  BY <1>1, <2>2, <2>3 DEF Promised, TypeOK
<1>4. CASE ReplanJoins(w, e)
  <2>1. plan' = plan /\ turn' = turn
    BY <1>4 DEF ReplanJoins, tables
  <2>2. plan[e.plan] = "superseded"
    BY <1>1, <1>4, Bounds DEF ReplanJoins, NextRevision, LineOfPlans, Revisions
  <2>. QED  BY <1>2, <2>1, <2>2 DEF Promised
<1>5. CASE ReplanCreates(w, e)
  <2>1. /\ e.plan + 1 \in Revisions
        /\ plan' = [plan EXCEPT ![e.plan] = "superseded", ![e.plan + 1] = "planning"]
        /\ turn' = turn
    BY <1>5 DEF ReplanCreates, MayBeCreated, NextRevision, Revised
  <2>2. /\ plan'[e.plan] = "superseded"
        /\ plan'[e.plan + 1] = "planning"
        /\ \A r \in Revisions \ {e.plan, e.plan + 1} : plan'[r] = plan[r]
    BY <1>1, <2>1 DEF TypeOK, Revisions
  <2>. QED  BY <1>2, <2>1, <2>2 DEF Promised
<1>. QED  BY <1>3, <1>4, <1>5 DEF ReplanChanges

LEMMA PromiseStep ==
    ASSUME TypeOK, RunnerInv, RequestInv, RoutingFirst, LineOfPlans, EventInv,
           ReplanPromised, [Next]_vars
    PROVE  ReplanPromised'
<1>. SUFFICES Promised'
  BY AckedStep DEF ReplanPromised, Promised
<1>0. Promised
  BY DEF ReplanPromised, Promised
<1>1. CASE PlansKept
  BY <1>0, <1>1 DEF PlansKept, Promised, Due
<1>2. CASE CreatePlan
  BY <1>0, <1>2, Bounds DEF CreatePlan, Promised, Due, TypeOK
<1>3. ASSUME NEW w \in Workers, RecordProcessed(w)
      PROVE  Promised'
  <2>1. runner[w].event.cause = "completed"
    BY <1>3 DEF RecordProcessed, At, RunnerInv, WorkerStates
  <2>2. \A r \in Revisions : \A cause \in ReplanTriggers :
            ReplanEvent(r, cause) # runner[w].event
    BY <2>1 DEF ReplanEvent, ReplanTriggers
  <2>. QED
    BY <1>0, <1>3, <2>2 DEF RecordProcessed, Promised, Due, ReplanTriggers, tables
<1>4. CASE AnswerClarification
  <2>1. /\ request.plan \in Revisions
        /\ plan[request.plan] = "needs_clarification"
        /\ UNCHANGED <<plan, inbox>>
        /\ emitted' = emitted \cup {ReplanEvent(request.plan, "answered")}
    BY <1>4 DEF AnswerClarification, AwaitsQuestion, RequestInv
  <2>2. ReplanEvent(request.plan, "answered") \notin inbox
    BY <2>1, NotRecorded DEF ReplanTriggers
  <2>3. \A s \in Revisions : plan[s] = "needs_clarification" => s = request.plan
    BY <2>1, OnlyOne
  <2>. QED  BY <1>0, <2>1, <2>2, <2>3 DEF Promised, Due
<1>5. ASSUME NEW r \in Revisions,
             RuntimeStarts(r) \/ RuntimeCompletes(r) \/ RuntimeFails(r)
      PROVE  Promised'
  <2>1. CASE RuntimeStarts(r)
    BY <1>0, <2>1 DEF RuntimeStarts, Promised, Due, TypeOK
  <2>2. CASE RuntimeCompletes(r)
    BY <1>0, <2>2 DEF RuntimeCompletes, RuntimeEnds, Promised, Due, TypeOK
  <2>3. CASE RuntimeFails(r)
    <3>1. /\ plan[r] = "running"
          /\ plan' = [plan EXCEPT ![r] = "replan_pending"]
          /\ emitted' = emitted \cup {ReplanEvent(r, "task_failure")}
          /\ UNCHANGED <<turn, inbox>>
      BY <2>3 DEF RuntimeFails, RuntimeEnds
    <3>2. ReplanEvent(r, "task_failure") \notin inbox
      BY <3>1, NotRecorded DEF ReplanTriggers
    <3>. QED  BY <1>0, <3>1, <3>2 DEF Promised, Due, TypeOK
  <2>. QED  BY <1>5, <2>1, <2>2, <2>3
<1>. QED
  BY <1>0, <1>1, <1>2, <1>3, <1>4, <1>5, PlannerPromise, ReplanPromise,
     PlansKeptOrChange
  DEF PlansChange

-----------------------------------------------------------------------------
(* The theorems.                                                           *)

LEMMA InitIInv ==
    ASSUME Init
    PROVE  IInv
<1>1. TypeOK
  <2>1. runner \in [Runners -> Runner]
    BY Bounds DEF Init, Runner, ApiStates, Idle
  <2>2. request \in Request
    BY Bounds DEF Init, Request
  <2>. QED  BY <2>1, <2>2, Bounds DEF Init, TypeOK, TurnStatus, PlanStatus, Replies
<1>2. RunnerInv
  BY WorkflowAssumption
  DEF Init, RunnerInv, Runners, Idle, ApiStates, WorkerStates, PlannerStates
<1>. QED
  BY <1>1, <1>2
  DEF Init, IInv, RequestInv, RoutingFirst, LineOfPlans, EventInv, ReplanPromised

\* Inductive: no step of any process, no fault, no lapsed lease and no client
\* that completes the Turn leaves IInv.
THEOREM Inductive == Spec => []IInv
<1>1. IInv /\ [Next]_vars => IInv'
  BY TypeStep, RunnerStep, RequestStep, RoutingStep, LineStep, PromiseStep DEF IInv
<1>. QED  BY <1>1, InitIInv, PTL DEF Spec

\* TypeCorrect: every row and every process keeps its shape.
THEOREM TypeCorrect == Spec => []TypeOK
  BY Inductive, PTL DEF IInv

\* OnePlanLives: the revisions of a Turn follow one another without a gap and
\* all but the latest are superseded (ReplanUseCase._prepare_revision), however
\* often and in whatever order its events are delivered.
THEOREM OnePlanLives == Spec => []OneLivePlan
<1>1. IInv => OneLivePlan
  <2>1. SUFFICES ASSUME LineOfPlans, NEW r \in Revisions, r > 1, plan[r] # "none"
                 PROVE  plan[r - 1] = "superseded"
    BY DEF IInv, OneLivePlan
  <2>2. r - 1 \in Revisions /\ r - 1 < r
    BY <2>1, Bounds DEF Revisions
  <2>. QED  BY <2>1, <2>2 DEF LineOfPlans
<1>. QED  BY <1>1, Inductive, PTL

\* PromiseKept: a Plan that waits to be revised always has an event in the
\* outbox that no worker has recorded, and no worker acknowledges an event to
\* Redis that is not recorded: a crash between the two loses nothing.
THEOREM PromiseKept == Spec => []ReplanPromised
  BY Inductive, PTL DEF IInv

-----------------------------------------------------------------------------
(* The Turn and its Plan.                                                  *)

\* Steps that change neither the Turn, nor a Plan, nor the request.
Quiet ==
    /\ UNCHANGED <<turn, clarified, published, plan, emitted>>
    /\ request'.status = request.status /\ request'.plan = request.plan
    /\ inbox \subseteq inbox'

ReplanRevises(w, e) == ReplanExhausted(w, e) \/ ReplanCreates(w, e)
RuntimeActs(r) == RuntimeStarts(r) \/ RuntimeCompletes(r) \/ RuntimeFails(r)

TablesChange ==
    \/ ApiStep
    \/ \E x \in Runners : PlannerChanges(x)
    \/ \E w \in Workers : AggregationCompletes(w) \/ ResolveClarification(w)
    \/ \E w \in Workers : \E e \in emitted : ReplanRevises(w, e)
    \/ AnswerClarification
    \/ \E r \in Revisions : RuntimeActs(r)
    \/ ClientCompletes

LEMMA QuietOrChange ==
    ASSUME TypeOK, [Next]_vars
    PROVE  Quiet \/ TablesChange
<1>1. inbox \subseteq inbox'
  BY Grows
<1>2. ASSUME NEW x \in Runners, PlannerStep(x)
      PROVE  Quiet \/ PlannerChanges(x)
  <2>1. CASE LoadInput(x) \/ CreateDocumentTask(x) \/ PlannerEnds(x)
    BY <2>1 DEF LoadInput, CreateDocumentTask, PlannerEnds, tables, Quiet
  <2>2. CASE SetClarificationQuestion(x)
    BY <2>2 DEF SetClarificationQuestion, Quiet, TypeOK, Request
  <2>3. CASE ReadResult(x) \/ MarkRefused(x) \/ ReadResultAgain(x)
    BY <2>3 DEF ReadResult, MarkRefused, ReadResultAgain, tables, Quiet
  <2>. QED  BY <1>2, <2>1, <2>2, <2>3 DEF PlannerStep, PlannerChanges
<1>3. ASSUME NEW w \in Workers, WorkerStep(w)
      PROVE  Quiet \/ AggregationCompletes(w) \/ ResolveClarification(w)
  BY <1>1, <1>3
  DEF WorkerStep, ValidateExistingPlan, RecordProcessed, Acknowledge, tables, Quiet
<1>4. ASSUME NEW w \in Workers, NEW e \in emitted, Take(w, e)
      PROVE  Quiet \/ ReplanRevises(w, e)
  BY <1>1, <1>4
  DEF Take, ReplanSeen, ReplanJoins, AggregationTaken, tables, ReplanRevises, Quiet
<1>5. CASE \/ \E x \in Runners : Fault(x)
           \/ \E r \in Revisions : LeaseEnds(r)
           \/ UNCHANGED vars
  BY <1>5 DEF Fault, LeaseEnds, tables, vars, Quiet
<1>. QED  BY <1>2, <1>3, <1>4, <1>5 DEF Next, TablesChange, RuntimeActs

\* The other Plans when one lives.
LEMMA Alone ==
    ASSUME LineOfPlans, NEW q \in Revisions, Lives(q)
    PROVE  \A s \in Revisions \ {q} : plan[s] \in {"none", "superseded"}
  BY OnlyOne DEF Lives

\* Plan q lives after the step, with status v.
LEMMA AgreesWith ==
    ASSUME RequestInv', NEW q \in Revisions, NEW v \in PlanStatus, plan'[q] = v,
           v \notin {"none", "superseded"},
           \A s \in Revisions \ {q} : plan'[s] \in {"none", "superseded"},
           (turn' = "needs_clarification") <=>
             /\ request'.status = "open"
             /\ request'.plan = q
             /\ v = "needs_clarification",
           turn' = "failed" => q = MaxRevisions /\ v = "failed",
           turn' = "completed" => published' = Foreign \/ v \in {"completed", "unsupported"},
           v \in {"ready", "running", "completed", "replan_pending"} =>
             \/ published' = Foreign
             \/ turn' \in {"processing", "completed"} /\ published' = q,
           v = "needs_clarification" => request'.plan = q /\ request'.status # "none",
           request'.status \in {"answered", "resolved"} => clarified'
    PROVE  Agrees' /\ Asked'
<1>1. \A s \in Revisions : Lives(s)' => s = q
  BY DEF Lives
<1>2. request'.status = "open" =>
        (plan'[request'.plan] = "needs_clarification"
            <=> request'.plan = q /\ v = "needs_clarification")
  BY DEF RequestInv
<1>3. Agrees'
  BY <1>1, <1>2 DEF Agrees
<1>4. Asked'
  BY <1>1 DEF Asked, Lives
<1>. QED  BY <1>3, <1>4

WaitsForReplan ==
    {"retry_pending", "replan_pending", "needs_clarification", "superseded", "failed"}

\* Only the Plan that lives changes, and it goes on living: the line of Plans
\* keeps its last one, and outstanding events are about what they were about.
LEMMA LineKept ==
    ASSUME IInv, FollowInv, NEW q \in Revisions, Lives(q),
           NEW v \in PlanStatus, v \notin {"none", "superseded"},
           plan' = [plan EXCEPT ![q] = v], inbox' = inbox,
           \A e \in emitted' : e \in emitted \/ e.plan = q,
           \A e \in emitted' \ inbox : IsReplan(e) /\ e.plan = q =>
             v \in WaitsForReplan
             /\ (v = "needs_clarification" => turn' # "needs_clarification")
    PROVE  /\ LatestLives' /\ Outstanding'
           /\ plan'[q] = v
           /\ \A s \in Revisions \ {q} : plan'[s] \in {"none", "superseded"}
<1>1. \A s \in Revisions \ {q} : plan[s] \in {"none", "superseded"} /\ plan'[s] = plan[s]
  BY Alone DEF IInv, TypeOK
<1>2. plan'[q] = v
  BY DEF IInv, TypeOK
<1>3. LatestLives'
  BY <1>1, <1>2 DEF LatestLives, FollowInv
<1>4. \A e \in emitted : e.plan \in Revisions
  BY DEF IInv, TypeOK, Event
<1>5. ASSUME NEW e \in emitted' \ inbox', IsReplan(e)
      PROVE  /\ plan'[e.plan] \in WaitsForReplan
             /\ plan'[e.plan] = "needs_clarification" => turn' # "needs_clarification"
  <2>1. CASE e.plan = q
    BY <1>2, <1>5, <2>1
  <2>2. CASE e.plan # q
    <3>1. e \in emitted \ inbox /\ e.plan \in Revisions \ {q}
      BY <1>4, <1>5, <2>2
    <3>2. plan[e.plan] \in WaitsForReplan
      BY <1>5, <3>1 DEF FollowInv, Outstanding, WaitsForReplan
    <3>. QED  BY <1>1, <3>1, <3>2
  <2>. QED  BY <2>1, <2>2
<1>6. Outstanding'
  BY <1>5 DEF Outstanding, WaitsForReplan, IsReplan
<1>. QED  BY <1>1, <1>2, <1>3, <1>6

TablesInv == LatestLives /\ Agrees /\ Outstanding /\ Asked

LEMMA QuietTables ==
    ASSUME FollowInv, Quiet
    PROVE  TablesInv'
<1>1. LatestLives' /\ Agrees'
  BY DEF FollowInv, Quiet, LatestLives, Agrees, Lives
<1>2. Outstanding' /\ Asked'
  BY DEF FollowInv, Quiet, Outstanding, Asked, IsReplan
<1>. QED  BY <1>1, <1>2 DEF TablesInv

LEMMA ApiTables ==
    ASSUME IInv, FollowInv, [Next]_vars, ApiStep
    PROVE  TablesInv'
<1>. USE DEF TablesInv
<1>0. Api \in Runners /\ RequestInv'
  BY RequestStep DEF IInv, Runners
<1>1. CASE SelectContext \/ RoutingFails
  <2>1. /\ \A r \in Revisions : plan[r] = "none"
        /\ emitted = {} /\ request.status = "none"
        /\ turn' \in {"context_ready", "failed"}
        /\ UNCHANGED <<plan, request, emitted, inbox, clarified>>
    BY <1>1 DEF SelectContext, RoutingFails, IInv, RoutingFirst
  <2>2. Agrees'
    BY <2>1 DEF Agrees, Lives
  <2>. QED
    BY <2>1, <2>2 DEF FollowInv, LatestLives, Outstanding, Asked
<1>2. CASE CreatePlan
  <2>1. /\ \A r \in Revisions : plan[r] = "none"
        /\ emitted = {} /\ request.status = "none" /\ turn # "failed"
        /\ turn = "completed" => published = Foreign
    BY <1>2 DEF CreatePlan, At, FollowInv, Beginning
  <2>2. turn # "needs_clarification"
    BY <2>1 DEF FollowInv, Agrees
  <2>3. /\ plan' = [plan EXCEPT ![1] = "planning"]
        /\ UNCHANGED <<turn, clarified, published, request, emitted, inbox>>
    BY <1>2 DEF CreatePlan
  <2>4. /\ plan'[1] = "planning"
        /\ \A s \in Revisions \ {1} : plan'[s] = "none"
    BY <2>1, <2>3, Bounds DEF IInv, TypeOK
  <2>5. Agrees' /\ Asked'
    BY <1>0, <2>1, <2>2, <2>3, <2>4, Bounds, AgreesWith DEF PlanStatus
  <2>6. LatestLives' /\ Outstanding'
    BY <2>1, <2>3, <2>4 DEF LatestLives, Outstanding
  <2>. QED  BY <2>5, <2>6
<1>3. CASE CompleteUnsupported
  <2>1. /\ plan[1] = "unsupported" /\ 1 \in Revisions
        /\ turn' = "completed" /\ turn # "needs_clarification"
        /\ UNCHANGED <<plan, request, clarified, emitted, inbox>>
    BY <1>3, Bounds DEF CompleteUnsupported, CompleteTurn, OpenTurn, FollowInv, ApiInv
  <2>2. \A s \in Revisions \ {1} : plan[s] \in {"none", "superseded"}
    BY <2>1, Alone DEF Lives, IInv
  <2>3. ~(request.status = "open" /\ plan[request.plan] = "needs_clarification")
    BY <2>1 DEF FollowInv, Agrees
  <2>4. Agrees'
    BY <2>1, <2>2, <2>3 DEF Agrees, Lives
  <2>5. LatestLives' /\ Asked'
    BY <2>1 DEF FollowInv, LatestLives, Asked
  <2>6. Outstanding'
    BY <2>1 DEF FollowInv, Outstanding, IsReplan
  <2>. QED  BY <2>4, <2>5, <2>6
<1>. QED  BY <1>1, <1>2, <1>3 DEF ApiStep

\* A Plan in planning lives, and no replan about it is outstanding.
LEMMA InPlanning ==
    ASSUME IInv, FollowInv, NEW q \in Revisions, plan[q] = "planning"
    PROVE  /\ Lives(q)
           /\ turn \notin {"needs_clarification", "failed"}
           /\ turn = "completed" => published = Foreign
           /\ \A e \in emitted \ inbox : ~(IsReplan(e) /\ e.plan = q)
<1>1. Lives(q)
  BY DEF Lives
<1>2. turn # "failed" /\ (turn = "completed" => published = Foreign)
  BY <1>1 DEF FollowInv, Agrees
<1>3. turn # "needs_clarification"
  <2>1. ASSUME turn = "needs_clarification"
        PROVE  FALSE
    <3>1. /\ request.status = "open" /\ request.plan \in Revisions
          /\ plan[request.plan] = "needs_clarification"
      BY <2>1 DEF FollowInv, Agrees, IInv, RequestInv
    <3>. QED  BY <3>1, OnlyOne DEF IInv
  <2>. QED  BY <2>1
<1>4. \A e \in emitted \ inbox : ~(IsReplan(e) /\ e.plan = q)
  BY DEF FollowInv, Outstanding
<1>. QED  BY <1>1, <1>2, <1>3, <1>4

LEMMA PlanningEnds ==
    ASSUME IInv, FollowInv, NEW q \in Revisions, plan[q] = "planning",
           NEW v \in PlanStatus, v \notin {"none", "superseded"},
           plan' = [plan EXCEPT ![q] = v], emitted' = emitted, inbox' = inbox
    PROVE  /\ LatestLives' /\ Outstanding'
           /\ plan'[q] = v
           /\ \A s \in Revisions \ {q} : plan'[s] \in {"none", "superseded"}
<1>1. Lives(q) /\ \A e \in emitted' \ inbox : ~(IsReplan(e) /\ e.plan = q)
  BY InPlanning
<1>2. \A e \in emitted' : e \in emitted \/ e.plan = q
  OBVIOUS
<1>3. \A e \in emitted' \ inbox : IsReplan(e) /\ e.plan = q =>
        /\ v \in WaitsForReplan
        /\ v = "needs_clarification" => turn' # "needs_clarification"
  BY <1>1
<1>. QED  BY <1>1, <1>2, <1>3, LineKept

LEMMA PlannerTables ==
    ASSUME IInv, FollowInv, [Next]_vars, NEW x \in Runners, PlannerChanges(x)
    PROVE  TablesInv'
<1>. USE DEF TablesInv
<1>0. runner[x].pc \in PlannerStates
  BY DEF PlannerChanges, FinalizePlan, MarkPlanUnsupported, Deciding,
     MarkPlanNeedsClarification, MarkPlanRetryPending, At, PlannerStates
<1>1. Rev(x) \in Revisions /\ RequestInv'
  BY <1>0, RequestStep DEF IInv, RunnerInv
<1>2. PICK q \in Revisions : q = Rev(x)
  BY <1>1
<1>3. request.status # "open" \/ plan[request.plan] # "needs_clarification"
        \/ turn = "needs_clarification"
  BY DEF FollowInv, Agrees
<1>4. Asked
  BY DEF FollowInv
<1>5. CASE FinalizePlan(x)
  <2>1. /\ plan[q] = "planning" /\ plan' = [plan EXCEPT ![q] = "ready"]
        /\ turn' = "processing" /\ published' = q
        /\ UNCHANGED <<clarified, request, emitted, inbox>>
    BY <1>2, <1>5 DEF FinalizePlan
  <2>2. /\ LatestLives' /\ Outstanding' /\ plan'[q] = "ready"
        /\ \A s \in Revisions \ {q} : plan'[s] \in {"none", "superseded"}
    <3>1. PICK v \in PlanStatus : v = "ready"
      BY DEF PlanStatus
    <3>. QED  BY <2>1, <3>1, PlanningEnds
  <2>3. Agrees' /\ Asked'
    BY <1>1, <1>4, <2>1, <2>2, AgreesWith DEF PlanStatus, Asked
  <2>. QED  BY <2>2, <2>3
<1>6. CASE MarkPlanUnsupported(x)
  <2>1. /\ plan[q] = "planning" /\ plan' = [plan EXCEPT ![q] = "unsupported"]
        /\ UNCHANGED <<turn, published, clarified, request, emitted, inbox>>
    BY <1>2, <1>6 DEF MarkPlanUnsupported
  <2>2. /\ LatestLives' /\ Outstanding' /\ plan'[q] = "unsupported"
        /\ \A s \in Revisions \ {q} : plan'[s] \in {"none", "superseded"}
    <3>1. PICK v \in PlanStatus : v = "unsupported"
      BY DEF PlanStatus
    <3>. QED  BY <2>1, <3>1, PlanningEnds
  <2>3. turn \notin {"needs_clarification", "failed"}
    BY <2>1, InPlanning
  <2>4. Agrees' /\ Asked'
    BY <1>1, <1>4, <2>1, <2>2, <2>3, AgreesWith DEF PlanStatus, Asked
  <2>. QED  BY <2>2, <2>4
<1>7. CASE MarkPlanNeedsClarification(x)
  <2>1. /\ plan[q] = "planning" /\ plan' = [plan EXCEPT ![q] = "needs_clarification"]
        /\ turn' = "needs_clarification"
        /\ request'.status = "open" /\ request'.plan = q
        /\ UNCHANGED <<published, clarified, emitted, inbox>>
    BY <1>2, <1>7 DEF MarkPlanNeedsClarification
  <2>2. /\ LatestLives' /\ Outstanding' /\ plan'[q] = "needs_clarification"
        /\ \A s \in Revisions \ {q} : plan'[s] \in {"none", "superseded"}
    <3>1. PICK v \in PlanStatus : v = "needs_clarification"
      BY DEF PlanStatus
    <3>. QED  BY <2>1, <3>1, PlanningEnds
  <2>3. Agrees' /\ Asked'
    BY <1>1, <2>1, <2>2, AgreesWith DEF PlanStatus
  <2>. QED  BY <2>2, <2>3
<1>8. CASE MarkPlanRetryPending(x)
  <2>1. /\ plan[q] \in {"planning", "needs_clarification"}
        /\ plan' = [plan EXCEPT ![q] = "retry_pending"]
        /\ turn' = "processing"
        /\ emitted' = emitted \cup {ReplanEvent(q, "planner_failure")}
        /\ UNCHANGED <<published, clarified, inbox>>
        /\ request' = IF request.plan = q THEN [request EXCEPT !.status = "expired"]
                                          ELSE request
    BY <1>2, <1>8 DEF MarkPlanRetryPending, MayBeRetried, EventsOfRetry, TurnOfRetry
  <2>2. Lives(q) /\ \A e \in emitted' : e \in emitted \/ e.plan = q
    BY <2>1 DEF Lives, ReplanEvent
  <2>3. /\ LatestLives' /\ Outstanding' /\ plan'[q] = "retry_pending"
        /\ \A s \in Revisions \ {q} : plan'[s] \in {"none", "superseded"}
    BY <2>1, <2>2, LineKept DEF PlanStatus, WaitsForReplan
  <2>4. request'.status \in {"answered", "resolved"} => clarified'
    BY <1>4, <2>1 DEF Asked, IInv, TypeOK, Request
  <2>5. Agrees' /\ Asked'
    BY <1>1, <2>1, <2>3, <2>4, AgreesWith DEF PlanStatus
  <2>. QED  BY <2>3, <2>5
<1>. QED  BY <1>5, <1>6, <1>7, <1>8 DEF PlannerChanges

LEMMA WorkerTables ==
    ASSUME IInv, FollowInv, [Next]_vars, NEW w \in Workers,
           AggregationCompletes(w) \/ ResolveClarification(w)
    PROVE  TablesInv'
<1>. USE DEF TablesInv
<1>1. CASE AggregationCompletes(w)
  <2>1. /\ Rev(w) \in Revisions /\ plan[Rev(w)] = "completed"
        /\ turn' = "completed" /\ turn # "needs_clarification"
        /\ published' = IF turn = "completed" THEN published ELSE Rev(w)
        /\ UNCHANGED <<plan, request, clarified, emitted, inbox>>
    BY <1>1 DEF AggregationCompletes, At, CompleteTurn, OpenTurn, FollowInv,
       AggregationInv, IInv, RunnerInv, WorkerStates
  <2>2. PICK q \in Revisions : q = Rev(w)
    BY <2>1
  <2>3. \A s \in Revisions : Lives(s) => s = q
    BY <2>1, <2>2, Alone DEF Lives, IInv
  <2>4. ~(request.status = "open" /\ plan[request.plan] = "needs_clarification")
    BY <2>1 DEF FollowInv, Agrees
  <2>5. published' \in {q, Foreign}
    BY <2>1, <2>2 DEF FollowInv, Agrees, Lives
  <2>6. Agrees'
    BY <2>1, <2>2, <2>3, <2>4, <2>5 DEF Agrees, Lives
  <2>7. LatestLives' /\ Asked'
    BY <2>1 DEF FollowInv, LatestLives, Asked
  <2>8. Outstanding'
    BY <2>1 DEF FollowInv, Outstanding, IsReplan
  <2>. QED  BY <2>6, <2>7, <2>8
<1>2. CASE ResolveClarification(w)
  <2>1. /\ UNCHANGED <<turn, clarified, published, plan, emitted, inbox>>
        /\ request'.plan = request.plan
        /\ \/ request'.status = request.status
           \/ request.status = "answered" /\ request'.status = "resolved"
    <3>1. /\ UNCHANGED <<turn, clarified, published, plan, emitted, inbox>>
          /\ \/ request' = request
             \/ /\ request.status = "answered"
                /\ request' = [request EXCEPT !.status = "resolved"]
      BY <1>2 DEF ResolveClarification, Resolves
    <3>2. request \in Request
      BY DEF IInv, TypeOK
    <3>. QED  BY <3>1, <3>2 DEF Request
  <2>2. Agrees' /\ LatestLives'
    BY <2>1 DEF FollowInv, Agrees, LatestLives, Lives
  <2>3. Outstanding' /\ Asked'
    BY <2>1 DEF FollowInv, Outstanding, Asked, IsReplan
  <2>. QED  BY <2>2, <2>3
<1>. QED  BY <1>1, <1>2

LEMMA ReplanTables ==
    ASSUME IInv, FollowInv, [Next]_vars,
           NEW w \in Workers, NEW e \in emitted, ReplanRevises(w, e)
    PROVE  TablesInv'
<1>. USE DEF TablesInv
<1>1. /\ IsReplan(e) /\ e \notin inbox /\ e.plan \in Revisions
      /\ plan[e.plan] # "none" /\ RequestInv'
      /\ plan[e.plan] \in WaitsForReplan
      /\ plan[e.plan] = "needs_clarification" => turn # "needs_clarification"
  BY RequestStep
  DEF ReplanRevises, ReplanExhausted, ReplanCreates, IInv, TypeOK, Event, EventInv,
      FollowInv, Outstanding, WaitsForReplan
<1>2. /\ \A f \in emitted : f.plan \in Revisions
      /\ UNCHANGED <<emitted, request, clarified, published>>
      /\ inbox' = inbox \cup {e} /\ Asked
  BY DEF ReplanRevises, ReplanExhausted, ReplanCreates, IInv, TypeOK, Event, FollowInv
<1>3. CASE ReplanExhausted(w, e)
  <2>1. PICK q \in Revisions : q = e.plan
    BY <1>1
  <2>2. q = MaxRevisions
    BY <1>3, <2>1, Bounds DEF ReplanExhausted, NextRevision, Revisions
  <2>3. plan' = [plan EXCEPT ![q] = "failed"] /\ turn' = "failed"
    BY <1>3, <2>1 DEF ReplanExhausted
  <2>4. \A s \in Revisions \ {q} : plan[s] = "superseded"
    BY <1>1, <2>1, <2>2, Bounds DEF IInv, LineOfPlans, Revisions
  <2>5. plan'[q] = "failed" /\ \A s \in Revisions \ {q} : plan'[s] = "superseded"
    BY <2>3, <2>4 DEF IInv, TypeOK
  <2>6. PICK v \in PlanStatus : v = "failed"
    BY DEF PlanStatus
  <2>7. Agrees' /\ Asked'
    BY <1>1, <1>2, <2>2, <2>3, <2>5, <2>6, AgreesWith DEF Asked
  <2>8. LatestLives'
    <3>1. \A s \in Revisions \ {q} : s + 1 \in Revisions
      BY <2>2, Bounds DEF Revisions
    <3>. QED  BY <2>5, <3>1 DEF LatestLives
  <2>9. Outstanding'
    <3>1. \A f \in emitted' : plan'[f.plan] \in {"failed", "superseded"}
      BY <1>2, <2>5
    <3>. QED  BY <3>1 DEF Outstanding
  <2>. QED  BY <2>7, <2>8, <2>9
<1>4. CASE ReplanCreates(w, e)
  <2>1. /\ e.plan + 1 \in Revisions /\ plan[e.plan + 1] = "none" /\ turn' = turn
        /\ plan' = [plan EXCEPT ![e.plan] = "superseded", ![e.plan + 1] = "planning"]
    BY <1>4 DEF ReplanCreates, MayBeCreated, NextRevision, Revised
  <2>2. PICK p \in Revisions, q \in Revisions : p = e.plan /\ q = e.plan + 1
    BY <1>1, <2>1
  <2>3. p # q /\ p + 1 = q /\ q # 1 /\ p # MaxRevisions
    BY <2>2, Bounds DEF Revisions
  <2>4. /\ plan'[p] = "superseded" /\ plan'[q] = "planning"
        /\ \A s \in Revisions \ {p, q} : plan'[s] = plan[s]
    BY <2>1, <2>2, <2>3 DEF IInv, TypeOK
  <2>5. plan[p] # "superseded"
    BY <2>1, <2>2 DEF FollowInv, LatestLives
  <2>6. Lives(p) /\ \A s \in Revisions \ {p} : plan[s] \in {"none", "superseded"}
    BY <1>1, <2>2, <2>5, Alone DEF Lives, IInv
  <2>7. \A s \in Revisions \ {q} : plan'[s] \in {"none", "superseded"}
    BY <2>4, <2>6
  <2>8. turn # "failed" /\ (turn = "completed" => published = Foreign)
    <3>1. plan[p] \notin {"completed", "unsupported"}
      BY <1>1, <2>2 DEF WaitsForReplan
    <3>. QED  BY <2>3, <2>6, <3>1 DEF FollowInv, Agrees
  <2>9. turn # "needs_clarification"
    <3>1. ASSUME turn = "needs_clarification"
          PROVE  FALSE
      <4>1. /\ request.status = "open" /\ request.plan \in Revisions
            /\ plan[request.plan] = "needs_clarification"
        BY <3>1 DEF FollowInv, Agrees, IInv, RequestInv
      <4>2. request.plan = p
        BY <2>6, <4>1
      <4>. QED  BY <1>1, <2>2, <3>1, <4>1, <4>2
    <3>. QED  BY <3>1
  <2>10. PICK v \in PlanStatus : v = "planning"
    BY DEF PlanStatus
  <2>11. Agrees' /\ Asked'
    <3>1. /\ turn' # "failed" /\ turn' # "needs_clarification"
          /\ turn' = "completed" => published' = Foreign
      BY <1>2, <2>1, <2>8, <2>9
    <3>2. /\ plan'[q] = v /\ v \notin {"none", "superseded", "needs_clarification"}
          /\ v \notin {"ready", "running", "completed", "replan_pending"}
      BY <2>4, <2>10
    <3>3. RequestInv' /\ (request'.status \in {"answered", "resolved"} => clarified')
      BY <1>1, <1>2 DEF Asked
    <3>. QED  BY <2>7, <3>1, <3>2, <3>3, AgreesWith
  <2>12. LatestLives'
    <3>1. ASSUME NEW s \in Revisions, plan'[s] = "superseded"
          PROVE  s + 1 \in Revisions /\ plan'[s + 1] # "none"
      <4>1. CASE s = p
        BY <2>3, <2>4, <4>1
      <4>2. CASE s # p
        <5>1. s + 1 \in Revisions /\ plan[s + 1] # "none"
          BY <2>4, <3>1, <4>2 DEF FollowInv, LatestLives
        <5>. QED  BY <2>4, <5>1
      <4>. QED  BY <4>1, <4>2
    <3>. QED  BY <3>1 DEF LatestLives
  <2>13. Outstanding'
    <3>1. \A f \in emitted : f.plan # q
      BY <2>1, <2>2 DEF IInv, EventInv
    <3>2. ASSUME NEW f \in emitted \ inbox, IsReplan(f)
          PROVE  plan'[f.plan] = "superseded"
      <4>1. plan[f.plan] \in WaitsForReplan /\ f.plan \in Revisions \ {q}
        BY <1>2, <3>1, <3>2 DEF FollowInv, Outstanding, WaitsForReplan
      <4>2. plan'[f.plan] \in {"none", "superseded"}
        BY <2>7, <4>1
      <4>3. plan'[f.plan] # "none"
        BY <2>4, <4>1 DEF WaitsForReplan
      <4>. QED  BY <4>2, <4>3
    <3>. QED  BY <1>2, <3>2 DEF Outstanding, IsReplan
  <2>. QED  BY <2>11, <2>12, <2>13
<1>. QED  BY <1>3, <1>4 DEF ReplanRevises

LEMMA AnswerTables ==
    ASSUME IInv, FollowInv, [Next]_vars, AnswerClarification
    PROVE  TablesInv'
<1>. USE DEF TablesInv
<1>1. /\ request.plan \in Revisions /\ plan[request.plan] = "needs_clarification"
      /\ turn' = "processing" /\ clarified' /\ UNCHANGED <<plan, published, inbox>>
      /\ request'.status = "answered" /\ request'.plan = request.plan
      /\ emitted' = emitted \cup {ReplanEvent(request.plan, "answered")}
  BY DEF AnswerClarification, AwaitsQuestion, IInv, RequestInv, TypeOK, Request
<1>2. PICK q \in Revisions : q = request.plan
  BY <1>1
<1>3. PICK v \in PlanStatus : v = "needs_clarification"
  BY DEF PlanStatus
<1>4. Lives(q) /\ RequestInv' /\ plan' = [plan EXCEPT ![q] = v]
  BY <1>1, <1>2, <1>3, RequestStep DEF Lives, IInv, TypeOK
<1>5. \A e \in emitted' : e \in emitted \/ e.plan = q
  BY <1>1, <1>2 DEF ReplanEvent
<1>6. v \in WaitsForReplan /\ turn' # "needs_clarification"
  BY <1>1, <1>3 DEF WaitsForReplan
<1>7. /\ LatestLives' /\ Outstanding' /\ plan'[q] = v
      /\ \A s \in Revisions \ {q} : plan'[s] \in {"none", "superseded"}
  BY <1>1, <1>3, <1>4, <1>5, <1>6, LineKept
<1>8. Agrees' /\ Asked'
  BY <1>1, <1>2, <1>3, <1>4, <1>7, AgreesWith
<1>. QED  BY <1>7, <1>8

LEMMA RuntimeTables ==
    ASSUME IInv, FollowInv, [Next]_vars, NEW q \in Revisions, RuntimeActs(q)
    PROVE  TablesInv'
<1>. USE DEF TablesInv
<1>1. PICK v \in {"running", "completed", "replan_pending"} :
         /\ plan[q] \in {"ready", "running"} /\ plan' = [plan EXCEPT ![q] = v]
         /\ \A e \in emitted' : e \in emitted \/ (e.plan = q /\ v # "running"
                                   /\ (IsReplan(e) => v = "replan_pending"))
         /\ UNCHANGED <<turn, published, clarified, request, inbox>>
  BY DEF RuntimeActs, RuntimeStarts, RuntimeCompletes, RuntimeFails, RuntimeEnds,
     AggregationEvent, ReplanEvent, IsReplan, ReplanTriggers
<1>2. Lives(q) /\ RequestInv' /\ v \in PlanStatus
  BY <1>1, RequestStep DEF Lives, IInv, PlanStatus
<1>3. \A e \in emitted \ inbox : ~(IsReplan(e) /\ e.plan = q)
  BY <1>1 DEF FollowInv, Outstanding
<1>4. \A e \in emitted' \ inbox : IsReplan(e) /\ e.plan = q => v = "replan_pending"
  BY <1>1, <1>3
<1>5. /\ LatestLives' /\ Outstanding' /\ plan'[q] = v
      /\ \A s \in Revisions \ {q} : plan'[s] \in {"none", "superseded"}
  <2>1. /\ plan' = [plan EXCEPT ![q] = v] /\ inbox' = inbox /\ v \notin {"none", "superseded"}
        /\ \A e \in emitted' : e \in emitted \/ e.plan = q
    BY <1>1
  <2>2. \A e \in emitted' \ inbox : IsReplan(e) /\ e.plan = q =>
          v \in WaitsForReplan /\ (v = "needs_clarification" => turn' # "needs_clarification")
    BY <1>4 DEF WaitsForReplan
  <2>. QED  BY <1>2, <2>1, <2>2, LineKept
<1>6. /\ turn # "failed" /\ (turn = "completed" => published = Foreign)
      /\ published = Foreign \/ (turn = "processing" /\ published = q)
  <2>1. /\ turn = "failed" => plan[q] = "failed"
        /\ turn = "completed" => published = Foreign \/ plan[q] \in {"completed", "unsupported"}
        /\ plan[q] \in {"ready", "running", "completed", "replan_pending"} =>
             published = Foreign \/ (turn \in {"processing", "completed"} /\ published = q)
    BY <1>2 DEF FollowInv, Agrees
  <2>. QED  BY <1>1, <2>1
<1>7. turn # "needs_clarification"
  <2>1. ASSUME turn = "needs_clarification"
        PROVE  FALSE
    <3>1. /\ request.plan \in Revisions
          /\ plan[request.plan] = "needs_clarification"
      BY <2>1 DEF FollowInv, Agrees, IInv, RequestInv
    <3>. QED  BY <1>1, <3>1, OnlyOne DEF IInv
  <2>. QED  BY <2>1
<1>8. Agrees' /\ Asked'
  BY <1>1, <1>2, <1>5, <1>6, <1>7, AgreesWith DEF FollowInv, Asked
<1>. QED  BY <1>5, <1>8

LEMMA TablesStep ==
    ASSUME IInv, FollowInv, [Next]_vars
    PROVE  TablesInv'
<1>1. CASE ClientCompletes
  <2>1. /\ turn' = "completed" /\ turn \in OpenTurn /\ published' = Foreign
        /\ UNCHANGED <<plan, request, clarified, emitted, inbox>>
    BY <1>1 DEF ClientCompletes, CompleteTurn, OpenTurn
  <2>2. LatestLives' /\ Asked'
    BY <2>1 DEF FollowInv, LatestLives, Asked
  <2>3. Outstanding'
    BY <2>1 DEF FollowInv, Outstanding, IsReplan
  <2>4. Agrees'
    BY <2>1 DEF FollowInv, Agrees, Lives, OpenTurn
  <2>. QED  BY <2>2, <2>3, <2>4 DEF TablesInv
<1>. QED
  BY <1>1, QuietOrChange, QuietTables, ApiTables, PlannerTables, WorkerTables,
     ReplanTables, AnswerTables, RuntimeTables
  DEF TablesChange, IInv

-----------------------------------------------------------------------------
(* What is closed stays closed.                                            *)

\* A replan that revises something is about the Plan that lives.
LEMMA RevisesLiving ==
    ASSUME IInv, FollowInv, NEW w \in Workers, NEW e \in emitted, ReplanRevises(w, e)
    PROVE  /\ e.plan \in Revisions /\ plan[e.plan] \in WaitsForReplan
           /\ Lives(e.plan)
<1>1. /\ e.plan \in Revisions /\ plan[e.plan] # "none"
      /\ plan[e.plan] \in WaitsForReplan
  BY DEF ReplanRevises, ReplanExhausted, ReplanCreates, IInv, TypeOK, Event, EventInv,
     FollowInv, Outstanding, WaitsForReplan
<1>2. CASE ReplanExhausted(w, e)
  <2>1. e.plan + 1 \notin Revisions
    BY <1>1, <1>2, Bounds DEF ReplanExhausted, NextRevision, Revisions
  <2>. QED  BY <1>1, <2>1 DEF FollowInv, LatestLives, Lives
<1>3. CASE ReplanCreates(w, e)
  <2>1. plan[e.plan + 1] = "none"
    BY <1>3 DEF ReplanCreates, MayBeCreated, NextRevision
  <2>. QED  BY <1>1, <2>1 DEF FollowInv, LatestLives, Lives
<1>. QED  BY <1>1, <1>2, <1>3 DEF ReplanRevises

\* The Plan a planner decides about.
LEMMA DecidesLiving ==
    ASSUME IInv, NEW x \in Runners, PlannerChanges(x)
    PROVE  /\ Rev(x) \in Revisions
           /\ plan[Rev(x)] \in {"planning", "needs_clarification"}
           /\ Lives(Rev(x))
<1>1. runner[x].pc \in PlannerStates
  BY DEF PlannerChanges, FinalizePlan, MarkPlanUnsupported, Deciding,
     MarkPlanNeedsClarification, MarkPlanRetryPending, At, PlannerStates
<1>2. Rev(x) \in Revisions
  BY <1>1 DEF IInv, RunnerInv
<1>. QED
  BY <1>2 DEF PlannerChanges, FinalizePlan, MarkPlanUnsupported,
     MarkPlanNeedsClarification, MarkPlanRetryPending, MayBeRetried, Lives

\* A Plan that is completed or unsupported remains so, and so does the Turn
\* that was completed on it.
LEMMA EndedStays ==
    ASSUME IInv, FollowInv, [Next]_vars, NEW q \in Revisions,
           plan[q] \in {"completed", "unsupported"}
    PROVE  /\ plan'[q] = plan[q]
           /\ turn = "completed" => turn' = turn /\ published' = published
<1>. DEFINE Stays == /\ plan'[q] = plan[q]
                     /\ turn = "completed" => turn' = turn /\ published' = published
<1>1. Lives(q) /\ LineOfPlans /\ plan[q] \notin WaitsForReplan
      /\ \A s \in Revisions : Lives(s) => s = q
  BY Alone DEF Lives, IInv, WaitsForReplan
<1>2. CASE Quiet
  BY <1>2 DEF Quiet
<1>3. CASE ApiStep
  <2>1. CASE SelectContext \/ RoutingFails \/ CreatePlan
    BY <1>1, <2>1 DEF SelectContext, RoutingFails, CreatePlan, IInv, RoutingFirst,
       FollowInv, Beginning, At, Lives
  <2>2. CASE CompleteUnsupported
    BY <2>2 DEF CompleteUnsupported, CompleteTurn
  <2>. QED  BY <1>3, <2>1, <2>2 DEF ApiStep
<1>4. ASSUME NEW x \in Runners, PlannerChanges(x)
      PROVE  Stays
  <2>1. /\ Rev(x) \in Revisions /\ Lives(Rev(x))
        /\ plan[Rev(x)] \in {"planning", "needs_clarification"}
    BY <1>4, DecidesLiving
  <2>2. Rev(x) = q
    BY <1>1, <2>1
  <2>. QED  BY <2>1, <2>2
<1>5. ASSUME NEW w \in Workers, AggregationCompletes(w) \/ ResolveClarification(w)
      PROVE  Stays
  BY <1>5 DEF AggregationCompletes, CompleteTurn, ResolveClarification
<1>6. ASSUME NEW w \in Workers, NEW e \in emitted, ReplanRevises(w, e)
      PROVE  Stays
  <2>1. /\ e.plan \in Revisions /\ Lives(e.plan)
        /\ plan[e.plan] \in WaitsForReplan
    BY <1>6, RevisesLiving
  <2>2. e.plan = q
    BY <1>1, <2>1
  <2>. QED  BY <1>1, <2>1, <2>2
<1>7. CASE AnswerClarification
  <2>1. request.plan \in Revisions /\ plan[request.plan] = "needs_clarification"
    BY <1>7 DEF AnswerClarification, AwaitsQuestion, IInv, RequestInv
  <2>. QED  BY <1>1, <2>1 DEF Lives
<1>8. ASSUME NEW r \in Revisions, RuntimeActs(r)
      PROVE  Stays
  <2>1. plan[r] \in {"ready", "running"}
    BY <1>8 DEF RuntimeActs, RuntimeStarts, RuntimeCompletes, RuntimeFails, RuntimeEnds
  <2>2. r = q
    BY <1>1, <2>1 DEF Lives
  <2>. QED  BY <2>1, <2>2
<1>9. CASE ClientCompletes
  BY <1>9 DEF ClientCompletes, OpenTurn
<1>. HIDE DEF Stays
<1>10. Stays
  BY <1>2, <1>3, <1>4, <1>5, <1>6, <1>7, <1>8, <1>9, QuietOrChange
  DEF TablesChange, IInv, Stays
<1>. QED  BY <1>10 DEF Stays

LEMMA FailedStays ==
    ASSUME IInv, FollowInv, [Next]_vars, turn = "failed"
    PROVE  turn' = turn /\ published' = published
<1>. DEFINE Stays == turn' = turn /\ published' = published
<1>1. CASE Quiet
  BY <1>1 DEF Quiet
<1>2. CASE ApiStep
  BY <1>2 DEF ApiStep, SelectContext, RoutingFails, CreatePlan, CompleteUnsupported,
     OpenTurn, IInv, RoutingFirst
<1>3. ASSUME NEW x \in Runners, PlannerChanges(x)
      PROVE  Stays
  <2>1. /\ Rev(x) \in Revisions /\ Lives(Rev(x))
        /\ plan[Rev(x)] \in {"planning", "needs_clarification"}
    BY <1>3, DecidesLiving
  <2>. QED  BY <2>1 DEF FollowInv, Agrees
<1>4. ASSUME NEW w \in Workers, AggregationCompletes(w) \/ ResolveClarification(w)
      PROVE  Stays
  BY <1>4 DEF AggregationCompletes, OpenTurn, ResolveClarification
<1>5. ASSUME NEW w \in Workers, NEW e \in emitted, ReplanRevises(w, e)
      PROVE  Stays
  BY <1>5 DEF ReplanRevises, ReplanExhausted, ReplanCreates
<1>6. CASE AnswerClarification \/ ClientCompletes
  BY <1>6 DEF AnswerClarification, AwaitsQuestion, ClientCompletes, OpenTurn
<1>7. ASSUME NEW r \in Revisions, RuntimeActs(r)
      PROVE  Stays
  BY <1>7 DEF RuntimeActs, RuntimeStarts, RuntimeCompletes, RuntimeFails, RuntimeEnds
<1>. QED
  BY <1>1, <1>2, <1>3, <1>4, <1>5, <1>6, <1>7, QuietOrChange DEF TablesChange, IInv

LEMMA ClosedByPlanStep ==
    ASSUME IInv, FollowInv, [Next]_vars
    PROVE  ClosedByPlan'
<1>. DEFINE Ended == \E r \in Revisions : plan'[r] \in {"completed", "unsupported"}
<1>1. ASSUME NEW q \in Revisions, plan[q] \in {"completed", "unsupported"}
      PROVE  Ended
  BY <1>1, EndedStays
<1>2. CASE turn = "completed" /\ published # Foreign
  BY <1>1, <1>2 DEF FollowInv, ClosedByPlan
<1>3. ASSUME turn' = turn, published' = published
      PROVE  ClosedByPlan'
  BY <1>2, <1>3 DEF ClosedByPlan
<1>4. CASE CompleteUnsupported
  <2>1. plan[1] = "unsupported"
    BY <1>4 DEF CompleteUnsupported, FollowInv, ApiInv
  <2>. QED  BY <1>1, <2>1, Bounds DEF ClosedByPlan
<1>5. ASSUME NEW w \in Workers, AggregationCompletes(w)
      PROVE  ClosedByPlan'
  <2>1. Rev(w) \in Revisions /\ plan[Rev(w)] = "completed"
    BY <1>5 DEF AggregationCompletes, At, FollowInv, AggregationInv, IInv, RunnerInv,
       WorkerStates
  <2>. QED  BY <1>1, <2>1 DEF ClosedByPlan
<1>6. CASE ClientCompletes
  BY <1>6 DEF ClientCompletes, CompleteTurn, OpenTurn, ClosedByPlan
<1>7. ASSUME turn' # "completed"
      PROVE  ClosedByPlan'
  BY <1>7 DEF ClosedByPlan
<1>8. ASSUME NEW x \in Runners, PlannerChanges(x)
      PROVE  ClosedByPlan'
  BY <1>3, <1>7, <1>8 DEF PlannerChanges, FinalizePlan, MarkPlanUnsupported,
     MarkPlanNeedsClarification, MarkPlanRetryPending, TurnOfRetry
<1>. QED
  BY <1>3, <1>4, <1>5, <1>6, <1>7, <1>8, QuietOrChange
  DEF TablesChange, IInv, Quiet, ApiStep, SelectContext, RoutingFails, CreatePlan,
      ResolveClarification, ReplanRevises, ReplanExhausted, ReplanCreates,
      AnswerClarification, RuntimeActs, RuntimeStarts, RuntimeCompletes, RuntimeFails,
      RuntimeEnds

-----------------------------------------------------------------------------
(* The request of a Turn.                                                  *)

\* What a step may do to the request.
LEMMA RequestChange ==
    ASSUME IInv, FollowInv, [Next]_vars
    PROVE  \/ /\ request'.status = request.status /\ request'.plan = request.plan
              /\ request.asked => request'.asked
           \/ \E x \in Runners : MarkPlanNeedsClarification(x)
           \/ /\ request'.plan = request.plan /\ request'.asked = request.asked
              /\ request.status # "none" /\ request'.status \in {"expired", "answered"}
              /\ request.status # "resolved"
           \/ \E w \in Workers :
                /\ ResolveClarification(w) /\ request.status = "answered"
                /\ request'.plan = request.plan /\ request'.asked = request.asked
                /\ request.plan + 1 \in Revisions /\ request.plan + 1 = Rev(w)
                /\ At(w, "resolving") /\ request'.status = "resolved"
<1>. DEFINE Same == /\ request'.status = request.status /\ request'.plan = request.plan
                    /\ request.asked => request'.asked
            Next1 == /\ request'.plan = request.plan /\ request'.asked = request.asked
                     /\ request.status # "none"
                     /\ request'.status \in {"expired", "answered"}
                     /\ request.status # "resolved"
<1>0. request \in Request
  BY DEF IInv, TypeOK
<1>1. ASSUME NEW x \in Runners, SetClarificationQuestion(x)
      PROVE  Same
  BY <1>0, <1>1 DEF SetClarificationQuestion, Request
<1>2. ASSUME NEW x \in Runners, MarkPlanRetryPending(x)
      PROVE  Same \/ Next1
  <2>1. /\ Rev(x) \in Revisions /\ Lives(Rev(x))
        /\ plan[Rev(x)] \in {"planning", "needs_clarification"}
    BY <1>2, DecidesLiving DEF PlannerChanges
  <2>2. CASE request.plan = Rev(x)
    <3>1. request' = [request EXCEPT !.status = "expired"]
      BY <1>2, <2>2 DEF MarkPlanRetryPending
    <3>2. request.status # "none"
      BY <2>1, <2>2, Bounds DEF FollowInv, RequestPlan, Revisions
    <3>3. request.status # "resolved"
      BY <2>1, <2>2 DEF FollowInv, ResolvedByItsPlan, RequestPlan, LatestLives, Lives,
         IInv, LineOfPlans, Revisions
    <3>. QED  BY <1>0, <3>1, <3>2, <3>3 DEF Request
  <2>3. CASE request.plan # Rev(x)
    BY <1>2, <2>3 DEF MarkPlanRetryPending
  <2>. QED  BY <2>2, <2>3
<1>3. ASSUME AnswerClarification
      PROVE  Next1
  BY <1>0, <1>3 DEF AnswerClarification, Request
<1>4. ASSUME NEW w \in Workers, ResolveClarification(w), ~UNCHANGED request
      PROVE  /\ request.status = "answered"
             /\ request'.plan = request.plan /\ request'.asked = request.asked
             /\ request.plan + 1 \in Revisions /\ request.plan + 1 = Rev(w)
             /\ At(w, "resolving") /\ request'.status = "resolved"
  <2>1. /\ request.status = "answered" /\ request.plan = Rev(w) - 1
        /\ request' = [request EXCEPT !.status = "resolved"] /\ At(w, "resolving")
    BY <1>4 DEF ResolveClarification, Resolves
  <2>2. Rev(w) \in Revisions
    BY <2>1 DEF IInv, RunnerInv, At, WorkerStates
  <2>3. request.plan + 1 = Rev(w)
    BY <2>1, <2>2 DEF Revisions
  <2>. QED  BY <1>0, <2>1, <2>2, <2>3 DEF Request
<1>5. ASSUME UNCHANGED request
      PROVE  Same
  BY <1>5
<1>6. ASSUME NEW x \in Runners, PlannerStep(x)
      PROVE  Same \/ Next1 \/ MarkPlanNeedsClarification(x)
  <2>1. CASE LoadInput(x) \/ CreateDocumentTask(x) \/ FinalizePlan(x)
    BY <1>5, <2>1 DEF LoadInput, CreateDocumentTask, FinalizePlan, tables
  <2>2. CASE MarkPlanUnsupported(x) \/ PlannerEnds(x) \/ ReadResult(x)
    BY <1>5, <2>2 DEF MarkPlanUnsupported, PlannerEnds, ReadResult, tables
  <2>3. CASE MarkRefused(x) \/ ReadResultAgain(x)
    BY <1>5, <2>3 DEF MarkRefused, ReadResultAgain, tables
  <2>. QED  BY <1>1, <1>2, <1>6, <2>1, <2>2, <2>3 DEF PlannerStep
<1>7. ASSUME ApiStep
      PROVE  Same
  BY <1>5, <1>7 DEF ApiStep, SelectContext, RoutingFails, CreatePlan, CompleteUnsupported
<1>8. ASSUME NEW w \in Workers, WorkerStep(w)
      PROVE  UNCHANGED request \/ ResolveClarification(w)
  BY <1>8 DEF WorkerStep, ValidateExistingPlan, AggregationCompletes, RecordProcessed,
     Acknowledge, tables
<1>9. ASSUME NEW w \in Workers, NEW e \in emitted, Take(w, e)
      PROVE  UNCHANGED request
  BY <1>9 DEF Take, ReplanSeen, ReplanExhausted, ReplanJoins, ReplanCreates,
     AggregationTaken, tables
<1>10. ASSUME NEW r \in Revisions, RuntimeActs(r)
       PROVE  UNCHANGED request
  BY <1>10 DEF RuntimeActs, RuntimeStarts, RuntimeCompletes, RuntimeFails, RuntimeEnds
<1>11. ASSUME \/ \E x \in Runners : Fault(x)
              \/ \E r \in Revisions : LeaseEnds(r)
              \/ ClientCompletes
              \/ UNCHANGED vars
       PROVE  Same
  BY <1>5, <1>11 DEF Fault, LeaseEnds, ClientCompletes, tables, vars
<1>. HIDE DEF Same, Next1
<1>12. \/ Same \/ Next1
       \/ \E x \in Runners : MarkPlanNeedsClarification(x)
       \/ \E w \in Workers : ResolveClarification(w) /\ ~UNCHANGED request
  BY <1>3, <1>5, <1>6, <1>7, <1>8, <1>9, <1>10, <1>11 DEF Next, RuntimeActs
<1>13. CASE Same \/ Next1
  BY <1>13 DEF Same, Next1
<1>14. ASSUME NEW w \in Workers, ResolveClarification(w), ~UNCHANGED request
       PROVE  /\ ResolveClarification(w) /\ request.status = "answered"
              /\ request'.plan = request.plan /\ request'.asked = request.asked
              /\ request.plan + 1 \in Revisions /\ request.plan + 1 = Rev(w)
              /\ At(w, "resolving") /\ request'.status = "resolved"
  BY <1>4, <1>14
<1>. QED  BY <1>12, <1>13, <1>14

LEMMA RequestPlanStep ==
    ASSUME IInv, FollowInv, [Next]_vars
    PROVE  RequestPlan'
<1>1. ASSUME NEW x \in Runners, MarkPlanNeedsClarification(x)
      PROVE  RequestPlan'
  BY <1>1 DEF MarkPlanNeedsClarification, RequestPlan
<1>2. RequestPlan
  BY DEF FollowInv
<1>. QED  BY <1>1, <1>2, RequestChange DEF RequestPlan

\* A request is resolved by the revision made with its answer (clarification
\* service, resolve after the Turn is completed).
LEMMA ResolvedStep ==
    ASSUME IInv, FollowInv, [Next]_vars
    PROVE  ResolvedByItsPlan'
<1>1. ASSUME request.status = "resolved", request'.status = "resolved",
             request'.plan = request.plan
      PROVE  ResolvedByItsPlan'
  <2>1. /\ request.plan + 1 \in Revisions /\ plan[request.plan + 1] = "completed"
        /\ turn = "completed" /\ published \in {request.plan + 1, Foreign} /\ clarified
    BY <1>1 DEF FollowInv, RequestPlan, ResolvedByItsPlan
  <2>2. /\ plan'[request.plan + 1] = "completed"
        /\ turn' = turn /\ published' = published
    BY <2>1, EndedStays
  <2>3. clarified'
    BY <1>1, TablesStep DEF TablesInv, Asked
  <2>. QED  BY <1>1, <2>1, <2>2, <2>3 DEF ResolvedByItsPlan
<1>2. ASSUME NEW w \in Workers, ResolveClarification(w), request.status = "answered",
             request'.plan = request.plan, request.plan + 1 = Rev(w),
             At(w, "resolving"), request'.status = "resolved"
      PROVE  ResolvedByItsPlan'
  <2>1. /\ turn = "completed" /\ published \in {Rev(w), Foreign}
        /\ plan[Rev(w)] = "completed"
    BY <1>2 DEF FollowInv, AggregationInv, At
  <2>2. clarified /\ UNCHANGED <<turn, published, plan, clarified>>
    BY <1>2 DEF ResolveClarification, FollowInv, Asked
  <2>. QED  BY <1>2, <2>1, <2>2 DEF ResolvedByItsPlan
<1>3. ASSUME request'.status # "resolved"
      PROVE  ResolvedByItsPlan'
  BY <1>3 DEF ResolvedByItsPlan
<1>4. ASSUME NEW x \in Runners, MarkPlanNeedsClarification(x)
      PROVE  ResolvedByItsPlan'
  BY <1>3, <1>4 DEF MarkPlanNeedsClarification
<1>. QED  BY <1>1, <1>2, <1>3, <1>4, RequestChange

-----------------------------------------------------------------------------
(* What the API request does, and what it knows.                           *)

ApiRests == runner'[Api] = runner[Api] /\ reply' = reply
ApiFails == runner'[Api] = Idle /\ reply' = "error"

\* The planner of the API request goes on, and has marked nothing.
ApiPlans ==
    /\ runner[Api].pc \in PlannerStates
    /\ \/ runner'[Api].pc \in PlannerStates \ {"prepared", "loaded", "rereading"}
       \/ LoadInput(Api) /\ runner'[Api].pc = "loaded"
    /\ runner'[Api].rev = Rev(Api)
    /\ reply' = reply

ApiMarks ==
    /\ MarkPlanRetryPending(Api)
    /\ runner'[Api].pc = "rereading"
    /\ runner'[Api].rev = Rev(Api)
    /\ reply' = reply

\* It reads what has become of the Plan; only a Plan that needs no retry is
\* reported after the first read.
ApiReads ==
    /\ (At(Api, "finishing") /\ ~NeedsRetry(Rev(Api))) \/ At(Api, "rereading")
    /\ ~Inconsistent(Rev(Api))
    /\ UNCHANGED <<tables, emitted, inbox>>
    /\ runner'[Api].rev \in {0, Rev(Api)}
    /\ \/ /\ plan[1] = "unsupported"
          /\ runner'[Api].pc = "closing" /\ runner'[Api].rev = Rev(Api)
          /\ reply' = reply
       \/ /\ plan[1] # "unsupported"
          /\ runner'[Api] = Idle
          /\ reply' = ReplyTo(plan[1])

ApiActs ==
    \/ SelectContext /\ runner'[Api].pc = "prepared" /\ runner'[Api].rev = 1
    \/ CreatePlan /\ runner'[Api].pc = "planning" /\ runner'[Api].rev = Rev(Api)
    \/ CompleteUnsupported /\ runner'[Api] = Idle
    \/ ApiFails \/ ApiPlans \/ ApiMarks \/ ApiReads

LEMMA ApiPlannerMoves ==
    ASSUME TypeOK, PlannerStep(Api)
    PROVE  ApiActs
<1>. USE DEF At, PlannerStates, ApiActs
<1>0. Api \in Runners /\ runner[Api] \in Runner /\ runner[Api].pc \in PlannerStates
  BY PlannerMoves DEF Runners, TypeOK
<1>1. ASSUME NEW pc \in PlannerStates \cup {"closing"}, GoesTo(Api, pc)
      PROVE  runner'[Api].pc = pc /\ runner'[Api].rev = Rev(Api)
  BY <1>0, <1>1, GoesToType DEF ProcessStates, ApiStates, GoesTo, Rev, TypeOK, Runner
<1>2. ASSUME Raise(Api)
      PROVE  ApiFails
  BY <1>0, <1>2, ResetType DEF Raise, ApiFails
<1>3. CASE LoadInput(Api)
  BY <1>0, <1>1, <1>2, <1>3 DEF LoadInput, ApiPlans
<1>4. CASE \/ CreateDocumentTask(Api) \/ FinalizePlan(Api)
           \/ MarkPlanUnsupported(Api) \/ MarkPlanNeedsClarification(Api)
           \/ PlannerEnds(Api)
  BY <1>0, <1>1, <1>4 DEF CreateDocumentTask, FinalizePlan, MarkPlanUnsupported,
     MarkPlanNeedsClarification, PlannerEnds, ApiPlans
<1>5. CASE SetClarificationQuestion(Api) \/ MarkRefused(Api)
  BY <1>0, <1>1, <1>2, <1>5 DEF SetClarificationQuestion, MarkRefused, ApiPlans
<1>6. CASE MarkPlanRetryPending(Api)
  BY <1>1, <1>6 DEF MarkPlanRetryPending, ApiMarks
<1>7. ASSUME Conclude(Api), UNCHANGED <<tables, emitted, inbox>>,
             (At(Api, "finishing") /\ ~NeedsRetry(Rev(Api))) \/ At(Api, "rereading")
      PROVE  ApiFails \/ ApiReads
  <2>1. CASE Inconsistent(Rev(Api)) /\ Raise(Api)
    BY <1>2, <2>1
  <2>2. CASE /\ ~Inconsistent(Rev(Api)) /\ plan[1] = "unsupported"
             /\ GoesTo(Api, "closing") /\ UNCHANGED reply
    BY <1>1, <1>7, <2>2 DEF ApiReads
  <2>3. CASE /\ ~Inconsistent(Rev(Api)) /\ plan[1] # "unsupported"
             /\ Respond(ReplyTo(plan[1]))
    <3>1. runner'[Api] = Idle /\ reply' = ReplyTo(plan[1])
      BY <1>0, <2>3, ResetType DEF Respond
    <3>. QED  BY <1>7, <2>3, <3>1 DEF ApiReads, Idle
  <2>. QED  BY <1>7, <2>1, <2>2, <2>3 DEF Conclude
<1>8. CASE ReadResult(Api)
  <2>1. CASE NeedsRetry(Rev(Api)) /\ GoesTo(Api, "marking") /\ UNCHANGED reply
    BY <1>0, <1>1, <2>1 DEF ApiPlans
  <2>2. CASE ~NeedsRetry(Rev(Api)) /\ Conclude(Api)
    BY <1>7, <1>8, <2>2 DEF ReadResult
  <2>. QED  BY <1>8, <2>1, <2>2 DEF ReadResult
<1>9. CASE ReadResultAgain(Api)
  BY <1>7, <1>9 DEF ReadResultAgain
<1>. QED
  BY <1>3, <1>4, <1>5, <1>6, <1>8, <1>9 DEF PlannerStep

LEMMA OthersMove ==
    ASSUME TypeOK, NEW x \in Workers, PlannerStep(x) \/ Fault(x)
    PROVE  ApiRests
<1>1. x # Api /\ x \in Runners /\ Api \in Runners
  BY WorkflowAssumption DEF Runners
<1>2. CASE Fault(x)
  BY <1>1, <1>2, ResetType DEF Fault, Raise, ApiRests
<1>3. CASE PlannerStep(x)
  <2>1. runner'[Api] = runner[Api]
    BY <1>1, <1>3, PlannerMoves
  <2>2. Raise(x) => reply' = reply
    BY <1>1 DEF Raise
  <2>3. Conclude(x) => reply' = reply
    BY <1>1, <2>2 DEF Conclude
  <2>4. reply' = reply
    BY <1>3, <2>2, <2>3 DEF PlannerStep, LoadInput, CreateDocumentTask, FinalizePlan,
       MarkPlanUnsupported, MarkPlanNeedsClarification, PlannerEnds,
       SetClarificationQuestion, ReadResult, MarkPlanRetryPending, MarkRefused,
       ReadResultAgain
  <2>. QED  BY <2>1, <2>4 DEF ApiRests
<1>. QED  BY <1>2, <1>3

LEMMA ApiMoves ==
    ASSUME TypeOK, [Next]_vars
    PROVE  ApiRests \/ ApiActs
<1>0. Api \in Runners /\ runner[Api] \in Runner
  BY DEF TypeOK, Runners
<1>1. CASE ApiStep
  <2>1. CASE SelectContext
    BY <1>0, <2>1 DEF SelectContext, ApiActs, TypeOK, Runner
  <2>2. CASE RoutingFails
    BY <1>0, <2>2, ResetType DEF RoutingFails, Raise, ApiFails, ApiActs
  <2>3. CASE CreatePlan
    BY <1>0, <2>3 DEF CreatePlan, GoesTo, ApiActs, TypeOK, Runner, Rev
  <2>4. CASE CompleteUnsupported
    BY <1>0, <2>4, ResetType DEF CompleteUnsupported, Respond, ApiActs
  <2>. QED  BY <1>1, <2>1, <2>2, <2>3, <2>4 DEF ApiStep
<1>2. ASSUME NEW x \in Runners, PlannerStep(x) \/ Fault(x)
      PROVE  ApiRests \/ ApiActs
  <2>1. CASE x \in Workers
    BY <1>2, <2>1, OthersMove
  <2>2. CASE x = Api /\ Fault(Api)
    BY <1>0, <2>2, ResetType DEF Fault, Raise, ApiFails, ApiActs
  <2>3. CASE x = Api /\ PlannerStep(Api)
    BY <2>3, ApiPlannerMoves
  <2>. QED  BY <1>2, <2>1, <2>2, <2>3 DEF Runners
<1>3. ASSUME NEW w \in Workers, WorkerStep(w) \/ (\E e \in emitted : Take(w, e))
      PROVE  ApiRests
  <2>1. runner'[Api] = runner[Api]
    BY <1>3, WorkerMoves
  <2>2. reply' = reply
    BY <1>3, WorkflowAssumption
    DEF WorkerStep, ValidateExistingPlan, Raise, AggregationCompletes,
        ResolveClarification, RecordProcessed, Acknowledge, Take, Takes, ReplanSeen,
        ReplanExhausted, ReplanJoins, ReplanCreates, AggregationTaken
  <2>. QED  BY <2>1, <2>2 DEF ApiRests
<1>4. ASSUME NEW r \in Revisions, RuntimeActs(r) \/ LeaseEnds(r)
      PROVE  ApiRests
  BY <1>4 DEF RuntimeActs, RuntimeStarts, RuntimeCompletes, RuntimeFails, RuntimeEnds,
     LeaseEnds, ApiRests
<1>5. CASE AnswerClarification \/ ClientCompletes \/ UNCHANGED vars
  BY <1>5 DEF AnswerClarification, ClientCompletes, vars, ApiRests
<1>. QED  BY <1>1, <1>2, <1>3, <1>4, <1>5 DEF Next, RuntimeActs

\* Without an event no worker has anything to do.
LEMMA NothingToDo ==
    ASSUME TypeOK, RunnerInv, emitted = {}, NEW w \in Workers
    PROVE  At(w, "idle")
<1>1. inbox = {}
  BY DEF TypeOK
<1>2. /\ runner[w].pc \in ProcessStates \ ApiStates
      /\ runner[w].pc \notin PlannerStates \cup WorkerStates
  BY <1>1 DEF RunnerInv, TypeOK, Runner, Runners, ProcessStates
<1>. QED  BY <1>2 DEF ProcessStates, At

\* While the API request is on its way to the first Plan, a client may
\* complete the Turn and nothing else happens.
LEMMA BeginningStays ==
    ASSUME IInv, FollowInv, [Next]_vars,
           runner[Api].pc \in {"prepared", "loaded"}, ApiRests \/ LoadInput(Api)
    PROVE  Beginning'
<1>1. /\ \A r \in Revisions : plan[r] = "none"
      /\ emitted = {} /\ request.status = "none" /\ turn # "failed"
      /\ turn = "completed" => published = Foreign
  BY DEF FollowInv, Beginning
<1>2. CASE Quiet
  BY <1>1, <1>2 DEF Quiet, Beginning
<1>3. CASE LoadInput(Api)
  BY <1>1, <1>3 DEF LoadInput, tables, Beginning
<1>4. ASSUME ApiRests, ApiStep
      PROVE  FALSE
  <2>1. ~At(Api, "routing") /\ ~At(Api, "closing")
    BY DEF At
  <2>2. CreatePlan
    BY <1>4, <2>1 DEF ApiStep, SelectContext, RoutingFails, CompleteUnsupported
  <2>3. runner'[Api].pc = "planning"
    BY <2>2 DEF CreatePlan, GoesTo, IInv, TypeOK, Runner, Runners
  <2>. QED  BY <1>4, <2>3 DEF ApiRests
<1>5. ASSUME NEW x \in Runners, PlannerChanges(x)
      PROVE  FALSE
  BY <1>1, <1>5, DecidesLiving
<1>6. ASSUME NEW w \in Workers, AggregationCompletes(w) \/ ResolveClarification(w)
      PROVE  FALSE
  BY <1>1, <1>6, NothingToDo DEF AggregationCompletes, ResolveClarification, At, IInv
<1>7. ~AnswerClarification
  BY <1>1 DEF AnswerClarification
<1>8. ASSUME NEW r \in Revisions, RuntimeActs(r)
      PROVE  FALSE
  BY <1>1, <1>8 DEF RuntimeActs, RuntimeStarts, RuntimeCompletes, RuntimeFails, RuntimeEnds
<1>9. CASE ClientCompletes
  <2>1. turn' = "completed" /\ published' = Foreign
        /\ UNCHANGED <<plan, request, emitted>>
    BY <1>9 DEF ClientCompletes, CompleteTurn, OpenTurn
  <2>. QED  BY <1>1, <2>1 DEF Beginning
<1>. QED
  BY <1>1, <1>2, <1>3, <1>4, <1>5, <1>6, <1>7, <1>8, <1>9, QuietOrChange
  DEF TablesChange, IInv

LEMMA BeginningStep ==
    ASSUME IInv, FollowInv, [Next]_vars
    PROVE  Beginning'
<1>1. CASE runner'[Api].pc \notin {"routing", "prepared", "loaded"}
  BY <1>1 DEF Beginning
<1>2. CASE runner'[Api].pc = "routing"
  <2>1. RoutingFirst'
    BY RoutingStep DEF IInv
  <2>. QED  BY <1>2, <2>1 DEF RoutingFirst, Beginning, At
<1>3. CASE SelectContext
  BY <1>3 DEF SelectContext, IInv, RoutingFirst, Beginning
<1>4. CASE runner'[Api].pc \in {"prepared", "loaded"} /\ ~SelectContext
  <2>1. ApiRests \/ (LoadInput(Api) /\ At(Api, "prepared"))
    BY <1>4, ApiMoves DEF ApiActs, ApiFails, ApiPlans, ApiMarks, ApiReads, Idle, IInv,
       LoadInput
  <2>2. runner[Api].pc \in {"prepared", "loaded"}
    BY <1>4, <2>1 DEF ApiRests, At
  <2>. QED  BY <2>1, <2>2, BeginningStays
<1>. QED  BY <1>1, <1>2, <1>3, <1>4

\* A Plan that is revised or about to be stays so.
LEMMA RevisedStays ==
    ASSUME IInv, FollowInv, [Next]_vars, NEW q \in Revisions,
           plan[q] \in {"retry_pending", "superseded", "failed"}
    PROVE  plan'[q] \in {"retry_pending", "superseded", "failed"}
<1>. DEFINE Stays == plan'[q] \in {"retry_pending", "superseded", "failed"}
<1>0. plan \in [Revisions -> PlanStatus]
  BY DEF IInv, TypeOK
<1>1. CASE Quiet \/ AnswerClarification \/ ClientCompletes
  BY <1>1 DEF Quiet, AnswerClarification, ClientCompletes
<1>2. CASE ApiStep
  BY <1>0, <1>2 DEF ApiStep, SelectContext, RoutingFails, CreatePlan, CompleteUnsupported
<1>3. ASSUME NEW x \in Runners, PlannerChanges(x)
      PROVE  Stays
  <2>1. Rev(x) \in Revisions /\ plan[Rev(x)] \in {"planning", "needs_clarification"}
    BY <1>3, DecidesLiving
  <2>2. Rev(x) # q
    BY <2>1
  <2>. QED
    BY <1>0, <1>3, <2>1, <2>2 DEF PlannerChanges, FinalizePlan, MarkPlanUnsupported,
       MarkPlanNeedsClarification, MarkPlanRetryPending
<1>4. ASSUME NEW w \in Workers, AggregationCompletes(w) \/ ResolveClarification(w)
      PROVE  Stays
  BY <1>4 DEF AggregationCompletes, ResolveClarification
<1>5. ASSUME NEW w \in Workers, NEW e \in emitted, ReplanRevises(w, e)
      PROVE  Stays
  <2>1. e.plan \in Revisions
    BY <1>5, RevisesLiving
  <2>2. CASE ReplanExhausted(w, e)
    BY <1>0, <2>1, <2>2 DEF ReplanExhausted
  <2>3. CASE ReplanCreates(w, e)
    <3>1. plan' = [plan EXCEPT ![e.plan] = "superseded", ![e.plan + 1] = "planning"]
          /\ plan[e.plan + 1] = "none"
      BY <2>3 DEF ReplanCreates, Revised, MayBeCreated, NextRevision
    <3>. QED  BY <1>0, <2>1, <3>1
  <2>. QED  BY <1>5, <2>2, <2>3 DEF ReplanRevises
<1>6. ASSUME NEW r \in Revisions, RuntimeActs(r)
      PROVE  Stays
  BY <1>0, <1>6 DEF RuntimeActs, RuntimeStarts, RuntimeCompletes, RuntimeFails, RuntimeEnds
<1>. QED
  BY <1>1, <1>2, <1>3, <1>4, <1>5, <1>6, QuietOrChange DEF TablesChange, IInv

LEMMA ApiInvStep ==
    ASSUME IInv, FollowInv, [Next]_vars
    PROVE  ApiInv'
<1>0. /\ ApiInv /\ 1 \in Revisions /\ plan \in [Revisions -> PlanStatus]
      /\ ApiRests \/ ApiActs
  BY ApiMoves, Bounds DEF FollowInv, IInv, TypeOK
<1>1. CASE ApiRests
  <2>1. At(Api, "closing") => plan'[1] = "unsupported"
    BY <1>0, EndedStays DEF ApiInv
  <2>2. At(Api, "rereading") => plan'[1] \in {"retry_pending", "superseded", "failed"}
    BY <1>0, RevisedStays DEF ApiInv
  <2>. QED  BY <1>0, <1>1, <2>1, <2>2 DEF ApiInv, ApiRests, At, Rev
<1>2. CASE SelectContext /\ runner'[Api].pc = "prepared" /\ runner'[Api].rev = 1
  BY <1>0, <1>2 DEF SelectContext, ApiInv, At, Rev
<1>3. CASE CreatePlan /\ runner'[Api].pc = "planning" /\ runner'[Api].rev = Rev(Api)
  BY <1>0, <1>3 DEF CreatePlan, ApiInv, At, Rev, PlannerStates
<1>4. CASE ApiFails \/ (CompleteUnsupported /\ runner'[Api] = Idle)
  BY <1>4 DEF ApiFails, ApiInv, At, Rev, Idle, PlannerStates
<1>5. CASE ApiPlans
  BY <1>0, <1>5 DEF ApiPlans, ApiInv, At, Rev, PlannerStates
<1>6. CASE ApiMarks
  <2>1. Rev(Api) = 1 /\ reply = "none"
    BY <1>0, <1>6 DEF ApiMarks, MarkPlanRetryPending, ApiInv, At, PlannerStates
  <2>2. plan' = [plan EXCEPT ![1] = "retry_pending"]
    BY <1>6, <2>1 DEF ApiMarks, MarkPlanRetryPending
  <2>. QED  BY <1>0, <1>6, <2>1, <2>2 DEF ApiMarks, ApiInv, At, Rev
<1>7. CASE ApiReads
  <2>1. Rev(Api) = 1 /\ reply = "none"
    BY <1>0, <1>7 DEF ApiReads, ApiInv, At, PlannerStates
  <2>. QED  BY <1>7, <2>1 DEF ApiReads, ApiInv, At, Rev, Idle, PlannerStates, tables
<1>. QED  BY <1>0, <1>1, <1>2, <1>3, <1>4, <1>5, <1>6, <1>7 DEF ApiActs

-----------------------------------------------------------------------------
(* What an aggregation knows.                                              *)

Aggregating == {"completing", "resolving", "recording"}

\* A planner does not turn into an aggregation.
LEMMA PlannerStays ==
    ASSUME TypeOK, NEW x \in Runners, PlannerStep(x)
    PROVE  runner'[x].pc \notin Aggregating
<1>. DEFINE Other == runner'[x].pc \notin Aggregating
<1>. USE DEF Aggregating
<1>1. ASSUME NEW pc \in PlannerStates \cup {"closing", "done"}, GoesTo(x, pc)
      PROVE  Other
  BY <1>1, GoesToType DEF ProcessStates, ApiStates, WorkerStates, PlannerStates
<1>2. ASSUME Raise(x)
      PROVE  Other
  BY <1>2, ResetType DEF Raise, Idle
<1>3. ASSUME Conclude(x)
      PROVE  Other
  <2>1. Respond(ReplyTo(plan[1])) /\ x = Api => Other
    BY ResetType DEF Respond, Idle
  <2>. QED  BY <1>1, <1>2, <1>3, <2>1 DEF Conclude
<1>. HIDE DEF Other
<1>4. ASSUME LoadInput(x) \/ SetClarificationQuestion(x) \/ MarkRefused(x)
      PROVE  Other
  BY <1>1, <1>2, <1>4 DEF LoadInput, SetClarificationQuestion, MarkRefused, PlannerStates
<1>5. ASSUME \/ CreateDocumentTask(x) \/ FinalizePlan(x) \/ MarkPlanUnsupported(x)
             \/ MarkPlanNeedsClarification(x) \/ PlannerEnds(x) \/ MarkPlanRetryPending(x)
      PROVE  Other
  BY <1>1, <1>5 DEF CreateDocumentTask, FinalizePlan, MarkPlanUnsupported,
     MarkPlanNeedsClarification, PlannerEnds, MarkPlanRetryPending, PlannerStates
<1>6. ASSUME ReadResult(x) \/ ReadResultAgain(x)
      PROVE  Other
  BY <1>1, <1>3, <1>6 DEF ReadResult, ReadResultAgain, PlannerStates
<1>7. Other
  BY <1>4, <1>5, <1>6 DEF PlannerStep
<1>. QED  BY <1>7 DEF Other

LEMMA WorkerTurns ==
    ASSUME TypeOK, [Next]_vars, NEW w \in Workers
    PROVE  \/ runner'[w] = runner[w]
           \/ runner'[w].pc \notin Aggregating
           \/ /\ \E r \in Revisions : plan[r] = "completed" /\ runner'[w].rev = r
              /\ runner'[w].pc = "completing" /\ plan' = plan
           \/ /\ AggregationCompletes(w)
              /\ runner'[w].pc = "resolving" /\ runner'[w].rev = Rev(w)
           \/ /\ ResolveClarification(w)
              /\ runner'[w].pc = "recording" /\ runner'[w].rev = Rev(w)
<1>. USE DEF Aggregating
<1>0. w # Api /\ w \in Runners /\ Api \in Runners /\ runner[w] \in Runner
  BY WorkflowAssumption DEF Runners, TypeOK
<1>1. CASE ApiStep
  BY <1>0, <1>1 DEF ApiStep, SelectContext, RoutingFails, CreatePlan, CompleteUnsupported,
     Raise, Respond, GoesTo, TypeOK
<1>2. ASSUME NEW x \in Runners, PlannerStep(x) \/ Fault(x)
      PROVE  runner'[w] = runner[w] \/ runner'[w].pc \notin Aggregating
  <2>1. CASE Fault(x)
    BY <1>0, <2>1, ResetType DEF Fault, Raise, Idle
  <2>2. CASE PlannerStep(x) /\ x # w
    BY <1>0, <2>2, PlannerMoves
  <2>3. CASE PlannerStep(x) /\ x = w
    BY <2>3, PlannerStays
  <2>. QED  BY <1>2, <2>1, <2>2, <2>3
<1>3. ASSUME NEW v \in Workers, v # w, NEW r, runner' = [runner EXCEPT ![v] = r]
      PROVE  runner'[w] = runner[w]
  BY <1>0, <1>3 DEF TypeOK
<1>4. ASSUME NEW v \in Workers, NEW pc, GoesTo(v, pc)
      PROVE  \/ v # w /\ runner'[w] = runner[w]
             \/ v = w /\ runner'[w].pc = pc /\ runner'[w].rev = Rev(w)
  BY <1>0, <1>4 DEF GoesTo, TypeOK, Runner, Rev
<1>5. ASSUME NEW v \in Workers, WorkerStep(v)
      PROVE  \/ runner'[w] = runner[w]
             \/ runner'[w].pc \notin Aggregating
             \/ /\ AggregationCompletes(w)
                /\ runner'[w].pc = "resolving" /\ runner'[w].rev = Rev(w)
             \/ /\ ResolveClarification(w)
                /\ runner'[w].pc = "recording" /\ runner'[w].rev = Rev(w)
  <2>1. CASE ValidateExistingPlan(v) \/ RecordProcessed(v) \/ Acknowledge(v)
    <3>1. \/ runner' = [runner EXCEPT ![v] = Idle]
          \/ \E pc \in {"planning", "done"} : GoesTo(v, pc)
      BY <2>1 DEF ValidateExistingPlan, RecordProcessed, Acknowledge, Raise
    <3>. QED  BY <1>0, <1>3, <1>4, <3>1 DEF Idle, TypeOK
  <2>2. CASE AggregationCompletes(v)
    BY <1>4, <2>2 DEF AggregationCompletes
  <2>3. CASE ResolveClarification(v)
    BY <1>4, <2>3 DEF ResolveClarification
  <2>. QED  BY <1>5, <2>1, <2>2, <2>3 DEF WorkerStep
<1>6. ASSUME NEW v \in Workers, NEW e \in emitted, Take(v, e)
      PROVE  \/ runner'[w] = runner[w]
             \/ runner'[w].pc \notin Aggregating
             \/ /\ \E r \in Revisions : plan[r] = "completed" /\ runner'[w].rev = r
                /\ runner'[w].pc = "completing" /\ plan' = plan
  <2>1. ASSUME NEW pc, NEW r, Takes(v, e, pc, r)
        PROVE  runner'[w] = runner[w] \/ (runner'[w].pc = pc /\ runner'[w].rev = r)
    BY <1>0, <2>1 DEF Takes, TypeOK
  <2>2. CASE ReplanSeen(v, e)
    BY <2>1, <2>2 DEF ReplanSeen
  <2>3. CASE ReplanExhausted(v, e) \/ ReplanJoins(v, e) \/ ReplanCreates(v, e)
    BY <2>1, <2>3 DEF ReplanExhausted, ReplanJoins, ReplanCreates
  <2>4. CASE AggregationTaken(v, e)
    BY <2>1, <2>4 DEF AggregationTaken, tables, TypeOK, Event
  <2>. QED  BY <1>6, <2>2, <2>3, <2>4 DEF Take
<1>7. ASSUME NEW r \in Revisions, RuntimeActs(r) \/ LeaseEnds(r)
      PROVE  runner'[w] = runner[w]
  BY <1>7 DEF RuntimeActs, RuntimeStarts, RuntimeCompletes, RuntimeFails, RuntimeEnds,
     LeaseEnds
<1>8. CASE AnswerClarification \/ ClientCompletes \/ UNCHANGED vars
  BY <1>8 DEF AnswerClarification, ClientCompletes, vars
<1>. QED  BY <1>1, <1>2, <1>5, <1>6, <1>7, <1>8 DEF Next, RuntimeActs

LEMMA AggregationInvStep ==
    ASSUME IInv, FollowInv, [Next]_vars
    PROVE  AggregationInv'
<1>. DEFINE Knows(w) ==
       /\ runner[w].pc \in Aggregating => plan[Rev(w)] = "completed"
       /\ runner[w].pc \in Aggregating \ {"completing"} =>
            turn = "completed" /\ published \in {Rev(w), Foreign}
<1>. USE DEF Aggregating
<1>1. SUFFICES ASSUME NEW w \in Workers
               PROVE  Knows(w)'
  BY DEF AggregationInv
<1>2. /\ Knows(w)
      /\ runner[w].pc \in Aggregating => Rev(w) \in Revisions
  BY DEF FollowInv, AggregationInv, IInv, RunnerInv, WorkerStates
<1>3. CASE runner'[w] = runner[w]
  <2>1. CASE runner[w].pc \in Aggregating
    <3>1. Rev(w) \in Revisions /\ plan[Rev(w)] = "completed"
      BY <1>2, <2>1
    <3>2. plan'[Rev(w)] = "completed"
          /\ (turn = "completed" => turn' = turn /\ published' = published)
      BY <3>1, EndedStays
    <3>. QED  BY <1>2, <1>3, <2>1, <3>2 DEF Rev
  <2>2. CASE runner[w].pc \notin Aggregating
    BY <1>3, <2>2
  <2>. QED  BY <2>1, <2>2
<1>4. CASE runner'[w].pc \notin Aggregating
  BY <1>4
<1>5. CASE /\ \E r \in Revisions : plan[r] = "completed" /\ runner'[w].rev = r
           /\ runner'[w].pc = "completing" /\ plan' = plan
  BY <1>5 DEF Rev
<1>6. CASE /\ AggregationCompletes(w)
           /\ runner'[w].pc = "resolving" /\ runner'[w].rev = Rev(w)
  <2>1. /\ plan[Rev(w)] = "completed" /\ Rev(w) \in Revisions
        /\ turn' = "completed" /\ plan' = plan
        /\ published' = IF turn = "completed" THEN published ELSE Rev(w)
    BY <1>2, <1>6 DEF AggregationCompletes, CompleteTurn, At
  <2>2. turn = "completed" => published \in {Rev(w), Foreign}
    BY <2>1 DEF FollowInv, Agrees, Lives
  <2>. QED  BY <1>6, <2>1, <2>2 DEF Rev
<1>7. CASE /\ ResolveClarification(w)
           /\ runner'[w].pc = "recording" /\ runner'[w].rev = Rev(w)
  BY <1>2, <1>7 DEF ResolveClarification, At, Rev
<1>. QED  BY <1>3, <1>4, <1>5, <1>6, <1>7, WorkerTurns DEF IInv

-----------------------------------------------------------------------------
(* The answer of the API.                                                  *)

\* Only the Turn that is completed as unsupported loses its list of tasks.
LEMMA PublishedStays ==
    ASSUME IInv, FollowInv, [Next]_vars, published # 0
    PROVE  published' # 0 \/ At(Api, "closing")
<1>. DEFINE Stays == published' # 0 \/ At(Api, "closing")
<1>1. CASE Quiet \/ AnswerClarification
  BY <1>1 DEF Quiet, AnswerClarification
<1>2. CASE ApiStep
  BY <1>2 DEF ApiStep, SelectContext, RoutingFails, CreatePlan, CompleteUnsupported
<1>3. ASSUME NEW x \in Runners, PlannerChanges(x)
      PROVE  Stays
  <2>1. Rev(x) # 0
    BY <1>3, DecidesLiving DEF Revisions
  <2>. QED
    BY <1>3, <2>1 DEF PlannerChanges, FinalizePlan, MarkPlanUnsupported,
       MarkPlanNeedsClarification, MarkPlanRetryPending
<1>4. ASSUME NEW w \in Workers, AggregationCompletes(w) \/ ResolveClarification(w)
      PROVE  Stays
  <2>1. Rev(w) \in Revisions
    BY <1>4 DEF AggregationCompletes, ResolveClarification, At, IInv, RunnerInv,
       WorkerStates
  <2>2. Rev(w) # 0
    BY <2>1 DEF Revisions
  <2>. QED
    BY <1>4, <2>2 DEF AggregationCompletes, CompleteTurn, ResolveClarification
<1>5. ASSUME NEW w \in Workers, NEW e \in emitted, ReplanRevises(w, e)
      PROVE  Stays
  BY <1>5 DEF ReplanRevises, ReplanExhausted, ReplanCreates
<1>6. ASSUME NEW r \in Revisions, RuntimeActs(r)
      PROVE  Stays
  BY <1>6 DEF RuntimeActs, RuntimeStarts, RuntimeCompletes, RuntimeFails, RuntimeEnds
<1>7. CASE ClientCompletes
  BY <1>7 DEF ClientCompletes, CompleteTurn, Foreign
<1>. QED
  BY <1>1, <1>2, <1>3, <1>4, <1>5, <1>6, <1>7, QuietOrChange DEF TablesChange, IInv

\* What was true of an answer remains true of it.
LEMMA ReplyHolds ==
    ASSUME IInv, FollowInv, [Next]_vars, reply' = reply
    PROVE  ReplyIsTrue'
<1>0. /\ ReplyIsTrue /\ 1 \in Revisions
      /\ reply # "none" => At(Api, "idle")
  BY Bounds DEF FollowInv, ApiInv
<1>1. CASE reply = "processing"
  <2>1. published # 0 /\ ~At(Api, "closing")
    BY <1>0, <1>1 DEF ReplyIsTrue, At
  <2>. QED  BY <1>1, <2>1, PublishedStays DEF ReplyIsTrue
<1>2. CASE reply = "unsupported"
  BY <1>0, <1>2, EndedStays DEF ReplyIsTrue
<1>3. CASE reply = "needs_clarification"
  <2>1. request.plan = 1 /\ request.asked
    BY <1>0, <1>3 DEF ReplyIsTrue
  <2>2. request.status # "none"
    BY <2>1 DEF FollowInv, RequestPlan
  <2>3. ASSUME NEW x \in Runners
        PROVE  ~MarkPlanNeedsClarification(x)
    BY <2>2 DEF MarkPlanNeedsClarification
  <2>4. request'.plan = 1 /\ request'.asked
    BY <2>1, <2>3, RequestChange
  <2>. QED  BY <1>3, <2>4 DEF ReplyIsTrue
<1>4. CASE reply = "retry_pending"
  BY <1>0, <1>4, Grows DEF ReplyIsTrue
<1>5. CASE reply \notin {"processing", "unsupported", "needs_clarification",
                         "retry_pending"}
  BY <1>5 DEF ReplyIsTrue
<1>. QED  BY <1>1, <1>2, <1>3, <1>4, <1>5

LEMMA ReplyStep ==
    ASSUME IInv, FollowInv, [Next]_vars
    PROVE  ReplyIsTrue'
<1>0. ApiInv /\ 1 \in Revisions /\ (ApiRests \/ ApiActs)
  BY ApiMoves, Bounds DEF FollowInv, IInv
<1>1. CASE reply' = reply
  BY <1>1, ReplyHolds
<1>2. CASE ApiFails
  BY <1>2 DEF ApiFails, ReplyIsTrue
<1>3. CASE CompleteUnsupported
  BY <1>0, <1>3 DEF CompleteUnsupported, CompleteTurn, Respond, ApiInv, ReplyIsTrue
<1>4. CASE ApiReads /\ reply' = ReplyTo(plan[1])
  <2>1. /\ Rev(Api) = 1 /\ ~Inconsistent(1)
        /\ UNCHANGED <<turn, published, plan, request, emitted>>
        /\ ~NeedsRetry(1) \/ plan[1] \in {"retry_pending", "superseded", "failed"}
    BY <1>0, <1>4 DEF ApiReads, ApiInv, At, PlannerStates, tables
  <2>2. CASE plan[1] = "ready"
    BY <1>4, <2>1, <2>2 DEF ReplyTo, ReplyIsTrue, Inconsistent
  <2>3. CASE plan[1] = "needs_clarification"
    <3>1. request.asked /\ request.plan = 1
      BY <1>0, <2>1, <2>3 DEF NeedsRetry, FollowInv, Asked
    <3>. QED  BY <1>4, <2>1, <2>3, <3>1 DEF ReplyTo, ReplyIsTrue
  <2>4. CASE plan[1] = "retry_pending"
    <3>1. ReplanEvent(1, "planner_failure") \in emitted
      BY <1>0, <2>4 DEF IInv, ReplanPromised, Due
    <3>. QED  BY <1>4, <2>1, <2>4, <3>1 DEF ReplyTo, ReplyIsTrue
  <2>5. CASE plan[1] \notin {"ready", "needs_clarification", "retry_pending"}
    BY <1>4, <2>5 DEF ReplyTo, ReplyIsTrue
  <2>. QED  BY <2>2, <2>3, <2>4, <2>5
<1>. QED
  BY <1>0, <1>1, <1>2, <1>3, <1>4
  DEF ApiRests, ApiActs, SelectContext, CreatePlan, ApiPlans, ApiMarks, ApiReads

-----------------------------------------------------------------------------
(* The invariant, and what it says of the Turn.                            *)

LEMMA InitFollowInv ==
    ASSUME Init
    PROVE  FollowInv
<1>1. runner[Api].pc = "routing" /\ \A w \in Workers : runner[w].pc = "idle"
  BY WorkflowAssumption DEF Init, Runners, Idle
<1>. QED
  BY <1>1 DEF Init, FollowInv, LatestLives, Agrees, Lives, RequestPlan, ClosedByPlan,
     Beginning, ApiInv, At, AggregationInv, Outstanding, Asked, ReplyIsTrue,
     ResolvedByItsPlan, PlannerStates

\* Follows: with IInv, what is said of the Turn, its Plan and the processes
\* about them is inductive as well.
THEOREM Follows == Spec => [](IInv /\ FollowInv)
<1>1. Init => IInv /\ FollowInv
  BY InitIInv, InitFollowInv
<1>2. IInv /\ FollowInv /\ [Next]_vars => (IInv /\ FollowInv)'
  <2>. SUFFICES ASSUME IInv, FollowInv, [Next]_vars
                PROVE  IInv' /\ FollowInv'
    OBVIOUS
  <2>1. IInv'
    BY TypeStep, RunnerStep, RequestStep, RoutingStep, LineStep, PromiseStep DEF IInv
  <2>2. LatestLives' /\ Agrees' /\ Outstanding' /\ Asked'
    BY TablesStep DEF TablesInv
  <2>3. RequestPlan' /\ ClosedByPlan' /\ Beginning'
    BY RequestPlanStep, ClosedByPlanStep, BeginningStep
  <2>4. ApiInv' /\ AggregationInv' /\ ReplyIsTrue' /\ ResolvedByItsPlan'
    BY ApiInvStep, AggregationInvStep, ReplyStep, ResolvedStep
  <2>. QED  BY <2>1, <2>2, <2>3, <2>4 DEF FollowInv
<1>. QED  BY <1>1, <1>2, PTL DEF Spec

\* TurnFollowsPlan: what the client polls agrees with the latest Plan, for
\* every limit on the revisions and every number of workers.
THEOREM TurnAgrees == Spec => []TurnFollowsPlan
<1>1. IInv /\ FollowInv => TurnFollowsPlan
  <2>. SUFFICES ASSUME IInv, FollowInv
                PROVE  TurnFollowsPlan
    OBVIOUS
  <2>1. \A r \in Revisions : IsLatest(r) => Lives(r)
    BY DEF IsLatest, Lives, FollowInv, LatestLives
  <2>2. \A r \in Revisions : plan[r] = "needs_clarification" => IsLatest(r)
    <3>. SUFFICES ASSUME NEW r \in Revisions, plan[r] = "needs_clarification",
                         r + 1 \in Revisions
                  PROVE  plan[r + 1] = "none"
      BY DEF IsLatest
    <3>. QED  BY DEF IInv, LineOfPlans, Revisions
  <2>3. request.status = "open" => request.plan \in Revisions
    BY DEF IInv, RequestInv
  <2>4. (turn = "needs_clarification") <=>
          /\ request.status = "open"
          /\ IsLatest(request.plan)
          /\ plan[request.plan] = "needs_clarification"
    BY <2>2, <2>3 DEF FollowInv, Agrees
  <2>. QED  BY <2>1, <2>4 DEF TurnFollowsPlan, FollowInv, Agrees
<1>. QED  BY <1>1, Follows, PTL

\* ReplyIsTrue: the tables go on backing what the API has answered.
THEOREM ReplyHoldsGood == Spec => []ReplyIsTrue
<1>1. FollowInv => ReplyIsTrue
  BY DEF FollowInv
<1>. QED  BY <1>1, Follows, PTL

\* ResolvedByItsPlan: a request is resolved only by the revision planned with
\* its answer.
THEOREM ResolvedRightly == Spec => []ResolvedByItsPlan
<1>1. FollowInv => ResolvedByItsPlan
  BY DEF FollowInv
<1>. QED  BY <1>1, Follows, PTL

\* ClosedTurnIsFinal: nothing that comes late reopens a Turn.
THEOREM ClosedIsFinal == Spec => ClosedTurnIsFinal
<1>1. IInv /\ FollowInv /\ [Next]_vars
        => ((turn \in {"completed", "failed"}) /\ published # Foreign =>
              turn' = turn /\ published' = published)
  BY EndedStays, FailedStays DEF FollowInv, ClosedByPlan
<1>2. [Next]_vars /\ IInv /\ FollowInv
        => [(turn \in {"completed", "failed"}) /\ published # Foreign =>
              turn' = turn /\ published' = published]_vars
  BY <1>1
<1>. QED  BY <1>2, Follows, PTL DEF Spec, ClosedTurnIsFinal

-----------------------------------------------------------------------------
(* The Task Runtime as the Turn sees it.                                   *)

\* What the Task Runtime does is a step of the execution of one Plan.
LEMMA RuntimeExecutes ==
    ASSUME TypeOK, NEW r \in Revisions, RuntimeActs(r)
    PROVE  /\ Executing(r) /\ Executing(r)' /\ Execution(r)!Next
           /\ \A s \in Revisions \ {r} :
                plan'[s] = plan[s] /\ RequestsOf(s)' = RequestsOf(s)
<1>1. \A s \in Revisions \ {r} :
         /\ AggregationEvent(s) # AggregationEvent(r)
         /\ AggregationEvent(s) # ReplanEvent(r, "task_failure")
         /\ ReplanEvent(s, "task_failure") # AggregationEvent(r)
         /\ ReplanEvent(s, "task_failure") # ReplanEvent(r, "task_failure")
  BY DEF AggregationEvent, ReplanEvent
<1>2. AggregationEvent(r) # ReplanEvent(r, "task_failure")
  BY DEF AggregationEvent, ReplanEvent
<1>3. CASE RuntimeStarts(r)
  BY <1>3
  DEF RuntimeStarts, TypeOK, Executing, RequestsOf, Execution!Next, Execution!Start
<1>4. CASE RuntimeCompletes(r)
  BY <1>1, <1>2, <1>4
  DEF RuntimeCompletes, RuntimeEnds, TypeOK, Executing, RequestsOf,
      Execution!Next, Execution!Complete, Execution!End
<1>5. CASE RuntimeFails(r)
  BY <1>1, <1>2, <1>5
  DEF RuntimeFails, RuntimeEnds, TypeOK, Executing, RequestsOf,
      Execution!Next, Execution!Fail, Execution!End
<1>. QED  BY <1>3, <1>4, <1>5 DEF RuntimeActs

\* What the others may do to Plan r: nothing, publish it, or write to it before
\* it is published or after it has asked for a replan.
LeavesExecution(r) ==
    \/ plan'[r] = plan[r]
    \/ plan[r] = "planning" /\ plan'[r] = "ready"
    \/ plan[r] \in WaitsForReplan \cup {"none", "planning"} /\ ~Executing(r)'

\* They ask for replans of their own kinds only.
OwnEvents == \A e \in emitted' : e \in emitted \/ e.cause \in {"planner_failure", "answered"}

LEMMA OthersLeave ==
    ASSUME IInv, FollowInv, [Next]_vars
    PROVE  \/ \E q \in Revisions : RuntimeActs(q)
           \/ OwnEvents /\ \A r \in Revisions : LeavesExecution(r)
<1>. DEFINE Leave == OwnEvents /\ \A r \in Revisions : LeavesExecution(r)
<1>1. ASSUME UNCHANGED <<plan, emitted>>
      PROVE  Leave
  BY <1>1 DEF OwnEvents, LeavesExecution
<1>2. CASE Quiet \/ ClientCompletes
  BY <1>1, <1>2 DEF Quiet, ClientCompletes
<1>3. CASE ApiStep
  <2>1. CASE SelectContext \/ RoutingFails \/ CompleteUnsupported
    BY <1>1, <2>1 DEF SelectContext, RoutingFails, CompleteUnsupported
  <2>2. CASE CreatePlan
    BY <2>2 DEF CreatePlan, OwnEvents, LeavesExecution, Executing, IInv, TypeOK
  <2>. QED  BY <1>3, <2>1, <2>2 DEF ApiStep
<1>4. ASSUME NEW x \in Runners, PlannerChanges(x)
      PROVE  Leave
  <2>1. Rev(x) \in Revisions /\ plan[Rev(x)] \in {"planning", "needs_clarification"}
    BY <1>4, DecidesLiving
  <2>2. OwnEvents
    BY <1>4 DEF PlannerChanges, FinalizePlan, MarkPlanUnsupported,
       MarkPlanNeedsClarification, MarkPlanRetryPending, EventsOfRetry,
       ReplanEvent, OwnEvents
  <2>3. \/ plan[Rev(x)] = "planning" /\ plan' = [plan EXCEPT ![Rev(x)] = "ready"]
        \/ \E s \in {"unsupported", "needs_clarification", "retry_pending"} :
             plan' = [plan EXCEPT ![Rev(x)] = s]
    BY <1>4 DEF PlannerChanges, FinalizePlan, MarkPlanUnsupported,
       MarkPlanNeedsClarification, MarkPlanRetryPending
  <2>4. \A r \in Revisions : LeavesExecution(r)
    BY <2>1, <2>3 DEF LeavesExecution, Executing, WaitsForReplan, IInv, TypeOK
  <2>. QED  BY <2>2, <2>4
<1>5. ASSUME NEW w \in Workers, AggregationCompletes(w) \/ ResolveClarification(w)
      PROVE  Leave
  BY <1>1, <1>5 DEF AggregationCompletes, ResolveClarification
<1>6. ASSUME NEW w \in Workers, NEW e \in emitted, ReplanRevises(w, e)
      PROVE  Leave
  <2>1. e.plan \in Revisions /\ plan[e.plan] \in WaitsForReplan
    BY <1>6, RevisesLiving
  <2>2. emitted' = emitted
    BY <1>6 DEF ReplanRevises, ReplanExhausted, ReplanCreates
  <2>3. \A r \in Revisions : LeavesExecution(r)
    <3>1. CASE ReplanExhausted(w, e)
      BY <2>1, <3>1 DEF ReplanExhausted, LeavesExecution, Executing, IInv, TypeOK
    <3>2. CASE ReplanCreates(w, e)
      <4>1. plan[e.plan + 1] = "none" /\ e.plan + 1 \in Revisions
        BY <3>2 DEF ReplanCreates, MayBeCreated, NextRevision
      <4>2. plan' = [plan EXCEPT ![e.plan] = "superseded", ![e.plan + 1] = "planning"]
        BY <3>2 DEF ReplanCreates, Revised
      <4>. QED
        BY <2>1, <4>1, <4>2 DEF LeavesExecution, Executing, IInv, TypeOK
    <3>. QED  BY <1>6, <3>1, <3>2 DEF ReplanRevises
  <2>. QED  BY <2>2, <2>3 DEF OwnEvents
<1>7. CASE AnswerClarification
  BY <1>7 DEF AnswerClarification, ReplanEvent, OwnEvents, LeavesExecution
<1>. HIDE DEF Leave
<1>8. Leave \/ \E q \in Revisions : RuntimeActs(q)
  BY <1>2, <1>3, <1>4, <1>5, <1>6, <1>7, QuietOrChange DEF TablesChange, IInv, Leave
<1>. QED  BY <1>8 DEF Leave

LEMMA RequestsKept ==
    ASSUME [Next]_vars, OwnEvents, NEW r \in Revisions
    PROVE  /\ RequestsOf(r)' = RequestsOf(r)
           /\ AggregationEvent(r) \in emitted' <=> AggregationEvent(r) \in emitted
<1>1. /\ AggregationEvent(r) \in emitted' <=> AggregationEvent(r) \in emitted
      /\ ReplanEvent(r, "task_failure") \in emitted'
           <=> ReplanEvent(r, "task_failure") \in emitted
  BY Grows DEF OwnEvents, AggregationEvent, ReplanEvent
<1>. QED  BY <1>1 DEF RequestsOf

LEMMA AskedStep ==
    ASSUME IInv, FollowInv, AskedWhenCompleted, [Next]_vars
    PROVE  AskedWhenCompleted'
<1>. SUFFICES ASSUME NEW r \in Revisions
              PROVE  AggregationEvent(r) \in emitted' <=> plan'[r] = "completed"
  BY DEF AskedWhenCompleted, AggregationEvent
<1>1. AggregationEvent(r) \in emitted <=> plan[r] = "completed"
  BY DEF AskedWhenCompleted
<1>2. CASE OwnEvents /\ \A s \in Revisions : LeavesExecution(s)
  BY <1>1, <1>2, RequestsKept DEF LeavesExecution, Executing, WaitsForReplan
<1>3. ASSUME NEW q \in Revisions, RuntimeActs(q)
      PROVE  AggregationEvent(r) \in emitted' <=> plan'[r] = "completed"
  <2>1. CASE r # q
    <3>1. plan'[r] = plan[r] /\ RequestsOf(r)' = RequestsOf(r)
      BY <1>3, <2>1, RuntimeExecutes DEF IInv
    <3>2. /\ AggregationEvent(r) \in emitted <=> "aggregate" \in RequestsOf(r)
          /\ AggregationEvent(r) \in emitted' <=> "aggregate" \in RequestsOf(r)'
      BY DEF RequestsOf
    <3>. QED  BY <1>1, <3>1, <3>2
  <2>2. CASE r = q
    BY <1>1, <1>3, <2>2
    DEF RuntimeActs, RuntimeStarts, RuntimeCompletes, RuntimeFails, RuntimeEnds,
        AggregationEvent, ReplanEvent, IInv, TypeOK
  <2>. QED  BY <2>1, <2>2
<1>. QED  BY <1>2, <1>3, OthersLeave

\* AskedWhenCompleted: a Turn asks for the aggregation of exactly those Plans
\* that are completed, and completion is never taken back.
THEOREM AggregationAsked == Spec => []AskedWhenCompleted
<1>1. Init => AskedWhenCompleted
  BY DEF Init, AskedWhenCompleted
<1>2. IInv /\ FollowInv /\ AskedWhenCompleted /\ [Next]_vars => AskedWhenCompleted'
  BY AskedStep
<1>. QED  BY <1>1, <1>2, Follows, PTL DEF Spec

\* A Plan that is about to be published has asked for nothing yet.
LEMMA NothingAsked ==
    ASSUME IInv, FollowInv, AskedWhenCompleted, NEW r \in Revisions, plan[r] = "planning"
    PROVE  RequestsOf(r) = {}
<1>1. AggregationEvent(r) \notin emitted
  BY DEF AskedWhenCompleted
<1>2. ReplanEvent(r, "task_failure") \notin emitted
  BY DEF IInv, EventInv, FollowInv, Outstanding, ReplanEvent, IsReplan, ReplanTriggers
<1>. QED  BY <1>1, <1>2 DEF RequestsOf

LEMMA ExecutionOfEach ==
    ASSUME IInv, FollowInv, AskedWhenCompleted, [Next]_vars, NEW r \in Revisions
    PROVE  ExecutionStep(r)
<1>1. CASE OwnEvents /\ \A s \in Revisions : LeavesExecution(s)
  <2>1. RequestsOf(r)' = RequestsOf(r)
    BY <1>1, RequestsKept
  <2>2. CASE plan'[r] = plan[r]
    BY <2>1, <2>2 DEF ExecutionStep, Executing, Execution!vars
  <2>3. CASE plan[r] = "planning" /\ plan'[r] = "ready"
    BY <2>1, <2>3, NothingAsked DEF ExecutionStep, Executing, Execution!Init
  <2>4. CASE plan[r] \in WaitsForReplan \cup {"none", "planning"} /\ ~Executing(r)'
    BY <2>4 DEF ExecutionStep, Executing, WaitsForReplan
  <2>. QED  BY <1>1, <2>2, <2>3, <2>4 DEF LeavesExecution
<1>2. ASSUME NEW q \in Revisions, RuntimeActs(q)
      PROVE  ExecutionStep(r)
  <2>1. CASE r = q
    BY <1>2, <2>1, RuntimeExecutes DEF IInv, ExecutionStep
  <2>2. CASE r # q
    <3>1. plan'[r] = plan[r] /\ RequestsOf(r)' = RequestsOf(r)
      BY <1>2, <2>2, RuntimeExecutes DEF IInv
    <3>. QED  BY <3>1 DEF ExecutionStep, Executing, Execution!vars
  <2>. QED  BY <2>1, <2>2
<1>. QED  BY <1>1, <1>2, OthersLeave

\* RevisionsAreExecuted: each revision is executed the way TaskRuntime is
\* proved to execute a Plan.
THEOREM EachIsExecuted == Spec => RevisionsAreExecuted
<1>1. IInv /\ FollowInv /\ AskedWhenCompleted /\ [Next]_vars
        => [\A r \in Revisions : ExecutionStep(r)]_vars
  BY ExecutionOfEach
<1>. QED  BY <1>1, Follows, AggregationAsked, PTL DEF Spec, RevisionsAreExecuted

\* Conversely, the Turn is prepared for whatever the Task Runtime does: every
\* step of the execution of a Plan is one of its own actions.
THEOREM ExecutionIsAllowed ==
    ASSUME TypeOK, NEW r \in Revisions, Execution(r)!Next, ConcernsOnly(r)
    PROVE  RuntimeStarts(r) \/ RuntimeCompletes(r) \/ RuntimeFails(r)
<1>1. /\ "aggregate" \in RequestsOf(r) <=> AggregationEvent(r) \in emitted
      /\ "aggregate" \in RequestsOf(r)' <=> AggregationEvent(r) \in emitted'
      /\ "replan" \in RequestsOf(r) <=> ReplanEvent(r, "task_failure") \in emitted
      /\ "replan" \in RequestsOf(r)' <=> ReplanEvent(r, "task_failure") \in emitted'
  BY DEF RequestsOf
<1>2. plan' = [plan EXCEPT ![r] = plan'[r]]
  BY DEF ConcernsOnly, TypeOK
<1>3. \A e : e \notin {AggregationEvent(r), ReplanEvent(r, "task_failure")} =>
              (e \in emitted' <=> e \in emitted)
  BY DEF ConcernsOnly
<1>4. CASE Execution(r)!Start
  <2>1. emitted' = emitted
    BY <1>1, <1>3, <1>4 DEF Execution!Start
  <2>. QED  BY <1>2, <1>4, <2>1 DEF Execution!Start, RuntimeStarts, ConcernsOnly
<1>5. CASE Execution(r)!Complete
  <2>1. emitted' = emitted \cup {AggregationEvent(r)}
    BY <1>1, <1>3, <1>5 DEF Execution!Complete, Execution!End
  <2>. QED
    BY <1>2, <1>5, <2>1
    DEF Execution!Complete, Execution!End, RuntimeCompletes, RuntimeEnds, ConcernsOnly
<1>6. CASE Execution(r)!Fail
  <2>1. emitted' = emitted \cup {ReplanEvent(r, "task_failure")}
    BY <1>1, <1>3, <1>6 DEF Execution!Fail, Execution!End
  <2>. QED
    BY <1>2, <1>6, <2>1
    DEF Execution!Fail, Execution!End, RuntimeFails, RuntimeEnds, ConcernsOnly
<1>. QED  BY <1>4, <1>5, <1>6 DEF Execution!Next
=============================================================================
