------------------------- MODULE TaskRuntimeProofs -------------------------
(***************************************************************************)
(* Proofs about TaskRuntime for any number of workers, tasks, attempts,    *)
(* crashes and compensator failures.                                       *)
(***************************************************************************)
EXTENDS TaskRuntimeInv, TaskRuntimeRefinement, SequenceTheorems,
        FiniteSetTheorems, TLAPS

\* What the rows of the two tables look like.
LEMMA Rows ==
    ASSUME TypeOK
    PROVE  /\ Len(execs) \in Nat /\ DOMAIN execs = 1 .. Len(execs)
           /\ \A e \in DOMAIN execs :
                 /\ execs[e] \in Execution
                 /\ execs[e].task \in Tasks
                 /\ execs[e].attempt \in Nat
                 /\ execs[e].status \in ExecutionStatus
                 /\ execs[e].compensations \in Nat
           /\ Len(outbox) \in Nat /\ DOMAIN outbox = 1 .. Len(outbox)
           /\ \A i \in DOMAIN outbox : outbox[i] \in Event
<1>1. /\ Len(execs) \in Nat /\ DOMAIN execs = 1 .. Len(execs)
      /\ Len(outbox) \in Nat /\ DOMAIN outbox = 1 .. Len(outbox)
  BY LenProperties DEF TypeOK
<1>2. /\ \A e \in DOMAIN execs : execs[e] \in Execution
      /\ \A i \in DOMAIN outbox : outbox[i] \in Event
  BY <1>1, ElementOfSeq DEF TypeOK
<1>. QED  BY <1>1, <1>2 DEF Execution

\* The one execution that is not closed is the one recovery finds: the latest
\* of the current task (get_latest_by_task_for_update).
LEMMA LatestIsActive ==
    ASSUME TypeOK, ExecutionInv, PlanInv
    PROVE  /\ \A e \in DOMAIN execs :
                 Active(e) => e = LatestExecution(currentTask)
           /\ currentTask # 0 =>
                 /\ LatestExecution(currentTask) \in DOMAIN execs
                 /\ Active(LatestExecution(currentTask))
                 /\ execs[LatestExecution(currentTask)].task = currentTask
<1>1. ASSUME NEW e \in DOMAIN execs, Active(e)
      PROVE  e = LatestExecution(currentTask)
  <2> DEFINE IsLatest(x) ==
        /\ execs[x].task = currentTask
        /\ \A f \in DOMAIN execs :
              execs[f].task = currentTask
              => execs[f].attempt <= execs[x].attempt
  <2>1. /\ execs[e].task = currentTask
        /\ execs[e].attempt = attempts[currentTask]
    BY <1>1 DEF ExecutionInv
  <2>2. \A f \in DOMAIN execs : execs[f].attempt \in Nat
    BY Rows
  <2>3. \A f \in DOMAIN execs :
           execs[f].task = currentTask
           => execs[f].attempt <= attempts[currentTask]
    BY <1>1, <2>1, <2>2 DEF ExecutionInv, TypeOK, Execution
  <2>4. IsLatest(e)
    BY <2>1, <2>3
  <2>5. ASSUME NEW x \in DOMAIN execs, IsLatest(x)
        PROVE  x = e
    BY <2>1, <2>2, <2>3, <2>5 DEF ExecutionInv
  <2>6. e = CHOOSE x \in DOMAIN execs : IsLatest(x)
    BY <2>4, <2>5
  <2>. QED  BY <2>6 DEF LatestExecution
<1>2. ASSUME currentTask # 0
      PROVE  \E e \in DOMAIN execs : Active(e)
  BY <1>2 DEF PlanInv
<1>. QED  BY <1>1, <1>2 DEF ExecutionInv

LEMMA InitIInv == Init => IInv
<1>. SUFFICES ASSUME Init PROVE IInv
  OBVIOUS
<1>. USE CountAssumption DEF Init
<1>1. TypeOK
  BY DEF TypeOK, Tasks, PlanStatus, TaskStatus, Event, EventKind, WakeupKind,
         WorkerState, Idle
<1>2. WorkerInv /\ OwnExecution /\ AcknowledgedIsRecorded
  BY DEF WorkerInv, OwnExecution, AcknowledgedIsRecorded, Idle, Busy
<1>3. ExecutionInv
  BY DEF ExecutionInv
<1>4. PlanInv
  <2>1. 1 \in Tasks /\ 0 \notin Tasks
    BY DEF Tasks
  <2>2. TasksIn({"failed", "blocked"}) = {} /\ TasksIn({"succeeded"}) = {}
    BY DEF TasksIn
  <2>3. \A t \in Tasks :
           /\ taskStatus[t] = "running" <=> t = currentTask
           /\ IF taskStatus[t] \in {"pending", "retry_wait"}
              THEN attempts[t] < MaxAttempts ELSE attempts[t] <= MaxAttempts
    BY <2>1
  <2>. QED  BY <2>1, <2>2, <2>3 DEF PlanInv
<1>5. WakeupInv
  <2>1. DOMAIN outbox = {1} /\ outbox[1].kind = "start"
    OBVIOUS
  <2>. QED  BY <2>1 DEF WakeupInv, ReleaseKind, Idle
<1>. QED  BY <1>1, <1>2, <1>3, <1>4, <1>5 DEF IInv

-----------------------------------------------------------------------------
(* What the pieces of the actions do to the tables *)

LEMMA UpdateExecution ==
    ASSUME TypeOK, NEW e \in DOMAIN execs, NEW r \in Execution,
           execs' = [execs EXCEPT ![e] = r]
    PROVE  /\ execs' \in Seq(Execution)
           /\ DOMAIN execs' = DOMAIN execs
           /\ \A f \in DOMAIN execs :
                 execs'[f] = IF f = e THEN r ELSE execs[f]
<1>1. DOMAIN execs = 1 .. Len(execs) /\ execs \in Seq(Execution)
  BY Rows DEF TypeOK
<1>2. execs' \in Seq(Execution)
  BY <1>1, ExceptSeq
<1>. QED  BY <1>1, <1>2

LEMMA AppendExecution ==
    ASSUME TypeOK, NEW r \in Execution, execs' = Append(execs, r)
    PROVE  /\ execs' \in Seq(Execution)
           /\ DOMAIN execs' = DOMAIN execs \cup {Len(execs) + 1}
           /\ Len(execs) + 1 \notin DOMAIN execs
           /\ execs'[Len(execs) + 1] = r
           /\ \A f \in DOMAIN execs : execs'[f] = execs[f]
<1>1. /\ Len(execs) \in Nat /\ DOMAIN execs = 1 .. Len(execs)
      /\ execs \in Seq(Execution)
  BY Rows DEF TypeOK
<1>2. /\ execs' \in Seq(Execution) /\ Len(execs') = Len(execs) + 1
      /\ \A f \in 1 .. Len(execs) : execs'[f] = execs[f]
      /\ execs'[Len(execs) + 1] = r
  BY <1>1, AppendProperties
<1>3. DOMAIN execs' = 1 .. Len(execs) + 1
  BY <1>2, LenProperties
<1>. QED  BY <1>1, <1>2, <1>3

LEMMA EmitEvent ==
    ASSUME TypeOK, NEW kind \in EventKind, NEW e \in Nat, Emit(kind, e)
    PROVE  /\ outbox' \in Seq(Event)
           /\ DOMAIN outbox' = DOMAIN outbox \cup {Len(outbox) + 1}
           /\ Len(outbox) + 1 \notin DOMAIN outbox
           /\ outbox'[Len(outbox) + 1] = [kind |-> kind, exec |-> e]
           /\ \A i \in DOMAIN outbox : outbox'[i] = outbox[i]
           /\ due' \subseteq DOMAIN outbox'
           /\ due \subseteq due'
<1>1. /\ Len(outbox) \in Nat /\ DOMAIN outbox = 1 .. Len(outbox)
      /\ outbox \in Seq(Event)
  BY Rows DEF TypeOK
<1>2. [kind |-> kind, exec |-> e] \in Event
  BY DEF Event
<1>3. /\ outbox' \in Seq(Event) /\ Len(outbox') = Len(outbox) + 1
      /\ \A i \in 1 .. Len(outbox) : outbox'[i] = outbox[i]
      /\ outbox'[Len(outbox) + 1] = [kind |-> kind, exec |-> e]
  BY <1>1, <1>2, AppendProperties DEF Emit
<1>4. DOMAIN outbox' = 1 .. Len(outbox) + 1
  BY <1>3, LenProperties
<1>5. due' \subseteq DOMAIN outbox' /\ due \subseteq due'
  BY <1>1, <1>4 DEF Emit, TypeOK
<1>. QED  BY <1>1, <1>3, <1>4, <1>5

\* MarkStale changes at most the status and the error of a running execution.
LEMMA MarkStaleExecution ==
    ASSUME TypeOK, NEW e \in DOMAIN execs, execs' = MarkStale(e)
    PROVE  /\ execs' \in Seq(Execution)
           /\ DOMAIN execs' = DOMAIN execs
           /\ \A f \in DOMAIN execs : f # e => execs'[f] = execs[f]
           /\ execs'[e].task = execs[e].task
           /\ execs'[e].attempt = execs[e].attempt
           /\ execs'[e].status = IF execs[e].status = "running"
                                 THEN "compensation_required"
                                 ELSE execs[e].status
           /\ execs'[e].compensations = execs[e].compensations
<1>1. CASE execs[e].status = "running"
  <2> DEFINE r == [execs[e] EXCEPT !.status = "compensation_required",
                                   !.retryable = TRUE,
                                   !.blocked = FALSE,
                                   !.stale = TRUE]
  <2>1. r \in Execution
    BY Rows DEF Execution, ExecutionStatus
  <2>2. execs' = [execs EXCEPT ![e] = r]
    BY <1>1 DEF MarkStale
  <2>3. /\ r.task = execs[e].task /\ r.attempt = execs[e].attempt
        /\ r.status = "compensation_required"
        /\ r.compensations = execs[e].compensations
    BY Rows DEF Execution
  <2>. QED  BY <1>1, <2>1, <2>2, <2>3, UpdateExecution
<1>2. CASE execs[e].status # "running"
  BY <1>2 DEF MarkStale, TypeOK
<1>. QED  BY <1>1, <1>2

-----------------------------------------------------------------------------
(* Type correctness, and what no step takes back *)

\* Rows are never deleted, events stay due and recorded, an execution keeps
\* its task and attempt, and a task that has succeeded stays so.
Grows ==
    /\ \A i \in DOMAIN outbox : i \in DOMAIN outbox' /\ outbox'[i] = outbox[i]
    /\ due \subseteq due' /\ inbox \subseteq inbox'
    /\ \A e \in DOMAIN execs : /\ e \in DOMAIN execs'
                               /\ execs'[e].task = execs[e].task
                               /\ execs'[e].attempt = execs[e].attempt
    /\ TasksIn({"succeeded"}) \subseteq TasksIn({"succeeded"})'

\* Only execution e changes, and it gets the status st.
Becomes(e, st) ==
    /\ execs' \in Seq(Execution)
    /\ e \in DOMAIN execs
    /\ DOMAIN execs' = DOMAIN execs
    /\ \A f \in DOMAIN execs : f # e => execs'[f] = execs[f]
    /\ execs'[e].task = execs[e].task
    /\ execs'[e].attempt = execs[e].attempt
    /\ execs'[e].status = st

LEMMA BecomesByUpdate ==
    ASSUME TypeOK, NEW e \in DOMAIN execs, NEW r \in Execution,
           r.task = execs[e].task, r.attempt = execs[e].attempt,
           execs' = [execs EXCEPT ![e] = r]
    PROVE  Becomes(e, r.status)
BY UpdateExecution DEF Becomes

\* The steps that change neither the Plan nor the tables.
LEMMA QuietType ==
    ASSUME IInv, NEW w \in Workers,
           \/ \E i \in DOMAIN outbox : Deliver(w, i)
           \/ ClaimTerminal(w)
           \/ ClaimAlreadyRunning(w)
           \/ ClaimConflict(w)
           \/ ReportRefused(w)
           \/ FailCompensationRefused(w)
           \/ CompensationRefused(w)
           \/ Crash(w)
    PROVE  TypeOK' /\ Grows
<1>1. TypeOK /\ WorkerInv
  BY DEF IInv
<1>. USE <1>1 DEF TypeOK, WorkerState, Idle, Grows, planVars, eventVars,
                  boundVars
<1>2. CASE \E i \in DOMAIN outbox : ClaimDuplicate(w, i)
  BY <1>2 DEF ClaimDuplicate, Delivered, Return, TasksIn
<1>3. CASE \E i \in DOMAIN outbox : ReadInbox(w, i)
  <2>1. PICK i \in DOMAIN outbox : ReadInbox(w, i)
    BY <1>3
  <2>2. i \in Nat /\ TasksIn({"succeeded"}) \in SUBSET Tasks
    BY Rows DEF TasksIn
  <2>3. worker'[w] \in WorkerState /\ worker' \in [Workers -> WorkerState]
    BY <2>1, <2>2 DEF ReadInbox
  <2>. QED  BY <2>1, <2>3 DEF ReadInbox, Delivered, TasksIn
<1>4. CASE ClaimTerminal(w)
  BY <1>4 DEF ClaimTerminal, RecordAndReturn, Return, WorkerInv, TasksIn
<1>5. CASE ClaimAlreadyRunning(w)
  BY <1>5 DEF ClaimAlreadyRunning, RecordAndReturn, Return, WorkerInv, TasksIn
<1>6. CASE ClaimConflict(w)
  BY <1>6 DEF ClaimConflict, Raise, TasksIn
<1>7. CASE ReportRefused(w)
  BY <1>7 DEF ReportRefused, Raise, TasksIn
<1>8. CASE FailCompensationRefused(w)
  BY <1>8 DEF FailCompensationRefused, Raise, TasksIn
<1>9. CASE CompensationRefused(w)
  BY <1>9 DEF CompensationRefused, Raise, TasksIn
<1>10. CASE Crash(w)
  BY <1>10 DEF Crash, Raise, TasksIn
<1>. QED
  BY <1>2, <1>3, <1>4, <1>5, <1>6, <1>7, <1>8, <1>9, <1>10 DEF Deliver

LEMMA ClaimRecoveryType ==
    ASSUME IInv, NEW w \in Workers, ClaimRecovery(w) \/ ClaimNoRecovery(w)
    PROVE  /\ TypeOK' /\ Grows
           /\ LET e == LatestExecution(currentTask)
              IN  /\ Active(e)
                  /\ Becomes(e, IF execs[e].status = "running"
                                THEN "compensation_required"
                                ELSE execs[e].status)
<1>. DEFINE e == LatestExecution(currentTask)
<1>1. /\ TypeOK /\ WorkerInv
      /\ e \in DOMAIN execs /\ Active(e) /\ execs' = MarkStale(e)
  BY LatestIsActive DEF IInv, ClaimRecovery, ClaimNoRecovery, RecoveryDue
<1>2. Becomes(e, IF execs[e].status = "running"
                 THEN "compensation_required" ELSE execs[e].status)
  BY <1>1, MarkStaleExecution DEF Becomes
<1>3. e \in Nat
  BY <1>1, Rows
<1>4. CASE ClaimRecovery(w)
  <2>1. worker[w] \in WorkerState
    BY <1>1 DEF TypeOK
  <2>2. worker'[w] \in WorkerState /\ worker' \in [Workers -> WorkerState]
    BY <1>1, <1>3, <1>4, <2>1 DEF ClaimRecovery, WorkerState, Idle, TypeOK
  <2>. QED
    BY <1>1, <1>2, <1>4, <2>2
    DEF ClaimRecovery, TypeOK, Grows, Becomes, planVars, eventVars, boundVars,
        TasksIn
<1>5. CASE ClaimNoRecovery(w)
  <2>1. worker' \in [Workers -> WorkerState]
    BY <1>1, <1>5
    DEF ClaimNoRecovery, RecordAndReturn, Return, WorkerState, Idle, TypeOK
  <2>. QED
    BY <1>1, <1>2, <1>5, <2>1
    DEF ClaimNoRecovery, RecordAndReturn, Return, TypeOK, Grows, Becomes,
        planVars, eventVars, boundVars, TasksIn, WorkerInv
<1>. QED  BY <1>1, <1>2, <1>4, <1>5

LEMMA RequireCompensationType ==
    ASSUME IInv, NEW w \in Workers, RequireCompensation(w)
    PROVE  /\ TypeOK' /\ Grows
           /\ Becomes(worker[w].exec, "compensation_required")
<1>. DEFINE e == worker[w].exec
<1>1. TypeOK /\ WorkerInv /\ e \in DOMAIN execs /\ worker[w] \in WorkerState
  BY DEF IInv, WorkerInv, Busy, RequireCompensation, TypeOK
<1>2. PICK err \in Errors :
         execs' = [execs EXCEPT ![e] =
                      [@ EXCEPT !.status = "compensation_required",
                                !.retryable = err.retryable,
                                !.blocked = err.blocked]]
  BY DEF RequireCompensation
<1>. DEFINE r == [execs[e] EXCEPT !.status = "compensation_required",
                                  !.retryable = err.retryable,
                                  !.blocked = err.blocked]
<1>3. /\ r \in Execution /\ r.task = execs[e].task
      /\ r.attempt = execs[e].attempt /\ r.status = "compensation_required"
  <2>1. err.retryable \in BOOLEAN /\ err.blocked \in BOOLEAN
    BY DEF Errors
  <2>2. execs[e] \in Execution
    BY <1>1, Rows
  <2>. QED  BY <2>1, <2>2 DEF Execution, ExecutionStatus
<1>4. Becomes(e, "compensation_required")
  BY <1>1, <1>2, <1>3, BecomesByUpdate
<1>5. worker' \in [Workers -> WorkerState]
  BY <1>1 DEF RequireCompensation, TypeOK, WorkerState
<1>. QED
  BY <1>1, <1>4, <1>5
  DEF RequireCompensation, TypeOK, Grows, Becomes, planVars, eventVars,
      boundVars, TasksIn

LEMMA BeginCompensationType ==
    ASSUME IInv, NEW w \in Workers, BeginCompensation(w)
    PROVE  /\ TypeOK' /\ Grows
           /\ Becomes(worker[w].exec, "compensation_required")
<1>. DEFINE e == worker[w].exec
            n == execs[e].compensations + 1
            r == [execs[e] EXCEPT !.compensations = n]
<1>1. TypeOK /\ WorkerInv /\ e \in DOMAIN execs /\ worker[w] \in WorkerState
  BY DEF IInv, WorkerInv, Busy, BeginCompensation, TypeOK
<1>2. execs' = [execs EXCEPT ![e] = r]
  BY DEF BeginCompensation
<1>3. /\ r \in Execution /\ r.task = execs[e].task
      /\ r.attempt = execs[e].attempt /\ r.status = "compensation_required"
  BY <1>1, Rows DEF Execution, BeginCompensation, CompensationTokenValid
<1>4. Becomes(e, "compensation_required")
  BY <1>1, <1>2, <1>3, BecomesByUpdate
<1>5. worker' \in [Workers -> WorkerState]
  <2>1. n \in Nat
    BY <1>1, Rows
  <2>2. worker' = [worker EXCEPT ![w] = [worker[w] EXCEPT !.pc = "compensate",
                                                          !.attempt = n]]
    BY <1>1 DEF BeginCompensation, TypeOK
  <2>3. [worker[w] EXCEPT !.pc = "compensate", !.attempt = n] \in WorkerState
    BY <1>1, <2>1 DEF WorkerState
  <2>. QED  BY <1>1, <2>2, <2>3 DEF TypeOK
<1>. QED
  BY <1>1, <1>4, <1>5
  DEF BeginCompensation, TypeOK, Grows, Becomes, planVars, eventVars,
      boundVars, TasksIn

LEMMA FailCompensationType ==
    ASSUME IInv, NEW w \in Workers, FailCompensation(w)
    PROVE  /\ TypeOK' /\ Grows
           /\ \/ /\ Becomes(worker[w].exec, "compensation_locked")
                 /\ UNCHANGED eventVars
              \/ /\ Emit("compensate", worker[w].exec)
                 /\ UNCHANGED execs
<1>. DEFINE e == worker[w].exec
            r == [execs[e] EXCEPT !.status = "compensation_locked"]
<1>1. /\ TypeOK /\ WorkerInv /\ e \in DOMAIN execs /\ e \in Nat
      /\ worker[w] \in WorkerState
  BY Rows DEF IInv, WorkerInv, Busy, FailCompensation, TypeOK
<1>2. worker' \in [Workers -> WorkerState]
  BY <1>1 DEF FailCompensation, Return, TypeOK, WorkerState, Idle
<1>3. worker[w].event \in due
  BY <1>1 DEF WorkerInv, Busy, FailCompensation
<1>4. CASE execs' = [execs EXCEPT ![e].status = "compensation_locked"]
           /\ UNCHANGED eventVars
  <2>1. /\ r \in Execution /\ r.task = execs[e].task
        /\ r.attempt = execs[e].attempt /\ r.status = "compensation_locked"
    BY <1>1, Rows DEF Execution, ExecutionStatus
  <2>2. Becomes(e, "compensation_locked")
    BY <1>1, <1>4, <2>1, BecomesByUpdate
  <2>. QED
    BY <1>1, <1>2, <1>3, <1>4, <2>2
    DEF FailCompensation, Return, RecordOnce, TypeOK, Grows, Becomes,
        planVars, eventVars, TasksIn
<1>5. CASE Emit("compensate", e) /\ UNCHANGED execs
  <2>1. /\ outbox' \in Seq(Event) /\ due' \subseteq DOMAIN outbox'
        /\ due \subseteq due'
        /\ \A i \in DOMAIN outbox : /\ i \in DOMAIN outbox'
                                    /\ outbox'[i] = outbox[i]
    BY <1>1, <1>5, EmitEvent DEF EventKind, WakeupKind
  <2>. QED
    BY <1>1, <1>2, <1>3, <1>5, <2>1
    DEF FailCompensation, Return, RecordOnce, TypeOK, Grows, planVars, TasksIn
<1>. QED  BY <1>4, <1>5 DEF FailCompensation

LEMMA CompleteType ==
    ASSUME IInv, NEW w \in Workers, Complete(w)
    PROVE  TypeOK' /\ Grows /\ Becomes(worker[w].exec, "succeeded")
<1>. DEFINE e == worker[w].exec
            r == [execs[e] EXCEPT !.status = "succeeded"]
<1>1. /\ TypeOK /\ WorkerInv /\ e \in DOMAIN execs /\ e \in Nat
      /\ worker[w] \in WorkerState /\ worker[w].event \in due
      /\ execs[e].task \in Tasks
  BY Rows DEF IInv, WorkerInv, Busy, Complete, TypeOK
<1>2. worker' \in [Workers -> WorkerState]
  BY <1>1 DEF Complete, Return, TypeOK, WorkerState, Idle
<1>3. Becomes(e, "succeeded")
  <2>1. /\ r \in Execution /\ r.task = execs[e].task
        /\ r.attempt = execs[e].attempt /\ r.status = "succeeded"
    BY <1>1, Rows DEF Execution, ExecutionStatus
  <2>. QED  BY <1>1, <2>1, BecomesByUpdate DEF Complete
<1>4. /\ outbox' \in Seq(Event) /\ due' \subseteq DOMAIN outbox'
      /\ due \subseteq due'
      /\ \A i \in DOMAIN outbox : i \in DOMAIN outbox' /\ outbox'[i] = outbox[i]
  <2>1. CASE Emit("next", e) \/ Emit("aggregate", e)
    BY <1>1, <2>1, EmitEvent DEF EventKind, WakeupKind
  <2>2. CASE UNCHANGED eventVars
    BY <1>1, <2>2 DEF eventVars, TypeOK
  <2>. QED  BY <2>1, <2>2 DEF Complete
<1>5. planStatus' \in PlanStatus /\ currentTask' \in Tasks \cup {0}
  BY <1>1 DEF Complete, TypeOK, PlanStatus
<1>6. /\ taskStatus' \in [Tasks -> TaskStatus]
      /\ TasksIn({"succeeded"}) \subseteq TasksIn({"succeeded"})'
  BY <1>1 DEF Complete, TypeOK, TaskStatus, TasksIn
<1>. QED
  BY <1>1, <1>2, <1>3, <1>4, <1>5, <1>6
  DEF Complete, Return, TypeOK, Grows, Becomes, boundVars

\* The common end of a failed execution.
LEMMA RetryOrReplanType ==
    ASSUME TypeOK, NEW e \in DOMAIN execs, NEW err,
           taskStatus[execs[e].task] = "running",
           NEW retryStatus \in {"pending", "retry_wait"},
           NEW retryKind \in {"recovered", "retry"},
           RetryOrReplan(e, err, retryStatus, retryKind)
    PROVE  /\ planStatus' \in PlanStatus /\ currentTask' = 0
           /\ taskStatus' \in [Tasks -> TaskStatus] /\ attempts' = attempts
           /\ TasksIn({"succeeded"}) = TasksIn({"succeeded"})'
           /\ \E kind \in {retryKind, "replan"} : Emit(kind, e)
           /\ outbox' \in Seq(Event) /\ due' \subseteq DOMAIN outbox'
           /\ due \subseteq due'
           /\ \A i \in DOMAIN outbox : /\ i \in DOMAIN outbox'
                                       /\ outbox'[i] = outbox[i]
<1>1. execs[e].task \in Tasks /\ e \in Nat
  BY Rows
<1>2. \E kind \in {retryKind, "replan"} : Emit(kind, e)
  BY DEF RetryOrReplan
<1>3. /\ outbox' \in Seq(Event) /\ due' \subseteq DOMAIN outbox'
      /\ due \subseteq due'
      /\ \A i \in DOMAIN outbox : i \in DOMAIN outbox' /\ outbox'[i] = outbox[i]
  <2>1. PICK kind \in {retryKind, "replan"} : Emit(kind, e)
    BY <1>2
  <2>2. kind \in EventKind
    BY DEF EventKind, WakeupKind
  <2>. QED  BY <1>1, <2>1, <2>2, EmitEvent
<1>4. PICK st \in TaskStatus \ {"succeeded", "running"} :
         taskStatus' = [taskStatus EXCEPT ![execs[e].task] = st]
  BY DEF RetryOrReplan, TaskStatus
<1>5. /\ taskStatus' \in [Tasks -> TaskStatus]
      /\ TasksIn({"succeeded"}) = TasksIn({"succeeded"})'
  BY <1>1, <1>4 DEF TypeOK, TasksIn
<1>. QED
  BY <1>2, <1>3, <1>5 DEF RetryOrReplan, TypeOK, PlanStatus

LEMMA FailType ==
    ASSUME IInv, NEW w \in Workers, Fail(w)
    PROVE  /\ TypeOK' /\ Grows /\ Becomes(worker[w].exec, "failed")
           /\ \E err \in Errors :
                 RetryOrReplan(worker[w].exec, err, "retry_wait", "retry")
<1>. DEFINE e == worker[w].exec
<1>1. /\ TypeOK /\ WorkerInv /\ e \in DOMAIN execs /\ e \in Nat
      /\ worker[w] \in WorkerState /\ worker[w].event \in due
      /\ taskStatus[execs[e].task] = "running"
  BY Rows DEF IInv, WorkerInv, Busy, Fail, TypeOK, TokenValid
<1>2. worker' \in [Workers -> WorkerState]
  BY <1>1 DEF Fail, Return, TypeOK, WorkerState, Idle
<1>3. PICK err \in Errors :
         /\ execs' = [execs EXCEPT ![e] =
                         [@ EXCEPT !.status = "failed",
                                   !.retryable = err.retryable,
                                   !.blocked = err.blocked]]
         /\ RetryOrReplan(e, err, "retry_wait", "retry")
  BY DEF Fail
<1>. DEFINE r == [execs[e] EXCEPT !.status = "failed",
                                  !.retryable = err.retryable,
                                  !.blocked = err.blocked]
<1>4. Becomes(e, "failed")
  <2>1. err.retryable \in BOOLEAN /\ err.blocked \in BOOLEAN
    BY DEF Errors
  <2>2. /\ r \in Execution /\ r.task = execs[e].task
        /\ r.attempt = execs[e].attempt /\ r.status = "failed"
    <3>1. execs[e] \in Execution
      BY <1>1, Rows
    <3>. QED  BY <2>1, <3>1 DEF Execution, ExecutionStatus
  <2>. QED  BY <1>1, <1>3, <2>2, BecomesByUpdate
<1>5. /\ planStatus' \in PlanStatus /\ currentTask' = 0
      /\ taskStatus' \in [Tasks -> TaskStatus] /\ attempts' = attempts
      /\ TasksIn({"succeeded"}) = TasksIn({"succeeded"})'
      /\ outbox' \in Seq(Event) /\ due' \subseteq DOMAIN outbox'
      /\ due \subseteq due'
      /\ \A i \in DOMAIN outbox : i \in DOMAIN outbox' /\ outbox'[i] = outbox[i]
  BY <1>1, <1>3, RetryOrReplanType
<1>. QED
  BY <1>1, <1>2, <1>3, <1>4, <1>5
  DEF Fail, Return, TypeOK, Grows, Becomes, boundVars

LEMMA CompleteCompensationType ==
    ASSUME IInv, NEW w \in Workers, CompleteCompensation(w)
    PROVE  /\ TypeOK' /\ Grows /\ Becomes(worker[w].exec, "compensated")
           /\ \E err \in [retryable: BOOLEAN, blocked: BOOLEAN],
                 retryStatus \in {"pending", "retry_wait"},
                 retryKind \in {"recovered", "retry"} :
                 RetryOrReplan(worker[w].exec, err, retryStatus, retryKind)
<1>. DEFINE e == worker[w].exec
            r == [execs[e] EXCEPT !.status = "compensated"]
<1>1. /\ TypeOK /\ WorkerInv /\ e \in DOMAIN execs /\ e \in Nat
      /\ worker[w] \in WorkerState /\ worker[w].event \in due
      /\ taskStatus[execs[e].task] = "running"
  BY Rows
  DEF IInv, WorkerInv, Busy, CompleteCompensation, TypeOK,
      CompensationTokenValid
<1>2. worker' \in [Workers -> WorkerState]
  BY <1>1 DEF CompleteCompensation, Return, TypeOK, WorkerState, Idle
<1>3. PICK err \in [retryable: BOOLEAN, blocked: BOOLEAN],
           retryStatus \in {"pending", "retry_wait"},
           retryKind \in {"recovered", "retry"} :
         RetryOrReplan(e, err, retryStatus, retryKind)
  <2> DEFINE err == [retryable |-> execs[e].retryable,
                     blocked |-> execs[e].blocked]
  <2>1. err \in [retryable: BOOLEAN, blocked: BOOLEAN]
    BY <1>1, Rows DEF Execution
  <2>2. \/ RetryOrReplan(e, err, "pending", "recovered")
        \/ RetryOrReplan(e, err, "retry_wait", "retry")
    BY DEF CompleteCompensation
  <2>. QED  BY <2>1, <2>2
<1>4. Becomes(e, "compensated")
  <2>1. /\ r \in Execution /\ r.task = execs[e].task
        /\ r.attempt = execs[e].attempt /\ r.status = "compensated"
    BY <1>1, Rows DEF Execution, ExecutionStatus
  <2>. QED  BY <1>1, <2>1, BecomesByUpdate DEF CompleteCompensation
<1>5. /\ planStatus' \in PlanStatus /\ currentTask' = 0
      /\ taskStatus' \in [Tasks -> TaskStatus] /\ attempts' = attempts
      /\ TasksIn({"succeeded"}) = TasksIn({"succeeded"})'
      /\ outbox' \in Seq(Event) /\ due' \subseteq DOMAIN outbox'
      /\ due \subseteq due'
      /\ \A i \in DOMAIN outbox : i \in DOMAIN outbox' /\ outbox'[i] = outbox[i]
  BY <1>1, <1>3, RetryOrReplanType
<1>. QED
  BY <1>1, <1>2, <1>3, <1>4, <1>5
  DEF CompleteCompensation, Return, RecordOnce, TypeOK, Grows, Becomes,
      boundVars

LEMMA ClaimTaskType ==
    ASSUME IInv, NEW w \in Workers, ClaimTask(w)
    PROVE  /\ TypeOK' /\ Grows
           /\ Emit("lease", Len(execs) + 1)
           /\ \E t \in Runnable(worker[w].seen) :
                 /\ taskStatus[t] \in {"pending", "retry_wait"}
                 /\ taskStatus' = [RetryWaitToPending EXCEPT ![t] = "running"]
                 /\ attempts' = [attempts EXCEPT ![t] = @ + 1]
                 /\ currentTask' = t
                 /\ DOMAIN execs' = DOMAIN execs \cup {Len(execs) + 1}
                 /\ Len(execs) + 1 \notin DOMAIN execs
                 /\ \A f \in DOMAIN execs : execs'[f] = execs[f]
                 /\ execs'[Len(execs) + 1].task = t
                 /\ execs'[Len(execs) + 1].attempt = attempts[t] + 1
                 /\ execs'[Len(execs) + 1].status = "running"
<1>1. /\ TypeOK /\ WorkerInv /\ worker[w] \in WorkerState
      /\ worker[w].event \in due /\ worker[w].event \in Nat
  BY DEF IInv, WorkerInv, ClaimTask, MayClaim, TypeOK, WorkerState
<1>2. PICK t \in Runnable(worker[w].seen) :
         /\ taskStatus' = [RetryWaitToPending EXCEPT ![t] = "running"]
         /\ attempts' = [attempts EXCEPT ![t] = @ + 1]
         /\ currentTask' = t
         /\ execs' = Append(execs,
                [task |-> t, attempt |-> attempts[t] + 1,
                 status |-> "running", retryable |-> FALSE,
                 blocked |-> FALSE, stale |-> FALSE, compensations |-> 0])
  BY DEF ClaimTask
<1>. DEFINE r == [task |-> t, attempt |-> attempts[t] + 1,
                  status |-> "running", retryable |-> FALSE,
                  blocked |-> FALSE, stale |-> FALSE, compensations |-> 0]
            n == Len(execs) + 1
<1>3. /\ t \in Tasks /\ attempts[t] \in Nat
      /\ taskStatus[t] \in {"pending", "retry_wait"}
  BY <1>1 DEF Runnable, TasksIn, TypeOK
<1>4. r \in Execution /\ n \in Nat
  BY <1>1, <1>3, Rows DEF Execution, ExecutionStatus
<1>5. /\ execs' \in Seq(Execution) /\ n \notin DOMAIN execs
      /\ DOMAIN execs' = DOMAIN execs \cup {n} /\ execs'[n] = r
      /\ \A f \in DOMAIN execs : execs'[f] = execs[f]
  BY <1>1, <1>2, <1>4, AppendExecution
<1>6. Emit("lease", n)
  BY DEF ClaimTask
<1>7. /\ outbox' \in Seq(Event) /\ due' \subseteq DOMAIN outbox'
      /\ due \subseteq due'
      /\ \A i \in DOMAIN outbox : i \in DOMAIN outbox' /\ outbox'[i] = outbox[i]
  BY <1>1, <1>4, <1>6, EmitEvent DEF EventKind, WakeupKind
<1>8. worker' \in [Workers -> WorkerState]
  BY <1>1, <1>4 DEF ClaimTask, TypeOK, WorkerState, Idle
<1>9. /\ taskStatus' \in [Tasks -> TaskStatus]
      /\ TasksIn({"succeeded"}) \subseteq TasksIn({"succeeded"})'
  BY <1>1, <1>2, <1>3 DEF RetryWaitToPending, TypeOK, TaskStatus, TasksIn
<1>10. attempts' \in [Tasks -> Nat] /\ planStatus' \in PlanStatus
  BY <1>1, <1>2, <1>3 DEF TypeOK, ClaimTask, PlanStatus
<1>11. TypeOK'
  BY <1>1, <1>2, <1>3, <1>5, <1>7, <1>8, <1>9, <1>10
  DEF TypeOK, ClaimTask, boundVars
<1>12. Grows
  BY <1>1, <1>5, <1>7, <1>9 DEF Grows, ClaimTask
<1>13. /\ execs'[n].task = t /\ execs'[n].attempt = attempts[t] + 1
       /\ execs'[n].status = "running"
  BY <1>5
<1>. HIDE DEF r
<1>. QED  BY <1>2, <1>3, <1>5, <1>6, <1>11, <1>12, <1>13

LEMMA ClaimNoTaskType ==
    ASSUME IInv, NEW w \in Workers, ClaimNoTask(w)
    PROVE  /\ TypeOK' /\ Grows
           /\ \A S : /\ {"pending", "retry_wait"} \subseteq S
                        \/ {"pending", "retry_wait"} \cap S = {}
                     => TasksIn(S)' = TasksIn(S)
<1>1. /\ TypeOK /\ WorkerInv /\ worker[w] \in WorkerState
      /\ worker[w].event \in due
  BY DEF IInv, WorkerInv, ClaimNoTask, MayClaim, TypeOK
<1>2. worker' \in [Workers -> WorkerState]
  BY <1>1
  DEF ClaimNoTask, RecordAndReturn, Return, TypeOK, WorkerState, Idle
<1>3. /\ taskStatus' \in [Tasks -> TaskStatus]
      /\ \A S : /\ {"pending", "retry_wait"} \subseteq S
                   \/ {"pending", "retry_wait"} \cap S = {}
                => TasksIn(S)' = TasksIn(S)
  BY <1>1 DEF ClaimNoTask, RetryWaitToPending, TypeOK, TaskStatus, TasksIn
<1>4. TasksIn({"succeeded"})' = TasksIn({"succeeded"})
  BY <1>3
<1>. QED
  BY <1>1, <1>2, <1>3, <1>4
  DEF ClaimNoTask, RecordAndReturn, Return, TypeOK, Grows, eventVars, boundVars

LEMMA FallDueType ==
    ASSUME IInv, NEW i \in DOMAIN outbox, FallDue(i)
    PROVE  TypeOK' /\ Grows
BY DEF IInv, FallDue, TypeOK, Grows, planVars, boundVars, TasksIn

\* The steps of a worker that change neither the Plan nor the tables.
Quiet(w) ==
    \/ \E i \in DOMAIN outbox : Deliver(w, i)
    \/ ClaimTerminal(w)
    \/ ClaimAlreadyRunning(w)
    \/ ClaimConflict(w)
    \/ ReportRefused(w)
    \/ FailCompensationRefused(w)
    \/ CompensationRefused(w)
    \/ Crash(w)

\* Every step of the specification is one of these.
LEMMA StepCases ==
    ASSUME Next
    PROVE  \/ \E w \in Workers :
                 \/ Quiet(w)
                 \/ ClaimRecovery(w) \/ ClaimNoRecovery(w)
                 \/ ClaimTask(w) \/ ClaimNoTask(w)
                 \/ Complete(w) \/ Fail(w)
                 \/ RequireCompensation(w) \/ BeginCompensation(w)
                 \/ FailCompensation(w) \/ CompleteCompensation(w)
           \/ \E i \in DOMAIN outbox : FallDue(i)
BY DEF Next, Proceed, Quiet

LEMMA TypeStep ==
    ASSUME IInv, Next
    PROVE  TypeOK' /\ Grows
BY StepCases, QuietType, ClaimRecoveryType, ClaimTaskType, ClaimNoTaskType,
   CompleteType, FailType, RequireCompensationType, BeginCompensationType,
   FailCompensationType, CompleteCompensationType, FallDueType DEF Quiet

-----------------------------------------------------------------------------
(* The workers *)

\* At most one worker moves in a step, and it becomes idle or is one of those
\* that begin to handle an event, an execution or a compensation.
LEMMA WorkerMoves ==
    ASSUME IInv, Next
    PROVE  \/ worker' = worker
           \/ \E w \in Workers :
                 /\ \A v \in Workers \ {w} : worker'[v] = worker[v]
                 /\ \/ worker'[w] = Idle
                    \/ \E i \in DOMAIN outbox : ReadInbox(w, i)
                    \/ ClaimTask(w)
                    \/ ClaimRecovery(w)
                    \/ RequireCompensation(w)
                    \/ BeginCompensation(w)
<1>. USE DEF IInv, TypeOK
<1>1. CASE \E i \in DOMAIN outbox : FallDue(i)
  BY <1>1 DEF FallDue
<1>. SUFFICES ASSUME NEW w \in Workers,
                     \/ Quiet(w)
                     \/ ClaimRecovery(w) \/ ClaimNoRecovery(w)
                     \/ ClaimTask(w) \/ ClaimNoTask(w)
                     \/ Complete(w) \/ Fail(w)
                     \/ RequireCompensation(w) \/ BeginCompensation(w)
                     \/ FailCompensation(w) \/ CompleteCompensation(w)
              PROVE  \E v \in Workers :
                        /\ \A u \in Workers \ {v} : worker'[u] = worker[u]
                        /\ \/ worker'[v] = Idle
                           \/ \E i \in DOMAIN outbox : ReadInbox(v, i)
                           \/ ClaimTask(v)
                           \/ ClaimRecovery(v)
                           \/ RequireCompensation(v)
                           \/ BeginCompensation(v)
  BY <1>1, StepCases
<1>2. \A v \in Workers \ {w} : worker'[v] = worker[v]
  <2>1. CASE Quiet(w) \/ ClaimNoRecovery(w) \/ ClaimNoTask(w)
    BY <2>1
    DEF Quiet, Deliver, ClaimDuplicate, ReadInbox, ClaimTerminal,
        ClaimAlreadyRunning, ClaimNoRecovery, ClaimNoTask, ClaimConflict,
        ReportRefused, FailCompensationRefused, CompensationRefused, Crash,
        RecordAndReturn, Return, Raise
  <2>2. CASE \/ ClaimRecovery(w) \/ ClaimTask(w) \/ Complete(w) \/ Fail(w)
             \/ RequireCompensation(w) \/ BeginCompensation(w)
             \/ FailCompensation(w) \/ CompleteCompensation(w)
    BY <2>2
    DEF ClaimRecovery, ClaimTask, Complete, Fail, RequireCompensation,
        BeginCompensation, FailCompensation, CompleteCompensation, Return
  <2>. QED  BY <2>1, <2>2
<1>3. CASE \/ \E i \in DOMAIN outbox : ReadInbox(w, i)
           \/ ClaimTask(w) \/ ClaimRecovery(w)
           \/ RequireCompensation(w) \/ BeginCompensation(w)
  BY <1>2, <1>3
<1>4. CASE \/ \E i \in DOMAIN outbox : ClaimDuplicate(w, i)
           \/ ClaimTerminal(w) \/ ClaimAlreadyRunning(w) \/ ClaimConflict(w)
           \/ ReportRefused(w) \/ FailCompensationRefused(w)
           \/ CompensationRefused(w) \/ Crash(w)
           \/ ClaimNoRecovery(w) \/ ClaimNoTask(w)
  <2>1. worker'[w] = Idle
    BY <1>4
    DEF ClaimDuplicate, ClaimTerminal, ClaimAlreadyRunning, ClaimNoRecovery,
        ClaimNoTask, ClaimConflict, ReportRefused, FailCompensationRefused,
        CompensationRefused, Crash, RecordAndReturn, Return, Raise
  <2>. QED  BY <1>2, <2>1
<1>5. CASE \/ Complete(w) \/ Fail(w)
           \/ FailCompensation(w) \/ CompleteCompensation(w)
  <2>1. worker'[w] = Idle
    BY <1>5
    DEF Complete, Fail, FailCompensation, CompleteCompensation, Return
  <2>. QED  BY <1>2, <2>1
<1>. QED  BY <1>3, <1>4, <1>5 DEF Quiet, Deliver

\* A worker keeps its event and its execution on the way to a compensation.
LEMMA CompensationMoves ==
    ASSUME IInv, NEW w \in Workers,
           RequireCompensation(w) \/ BeginCompensation(w)
    PROVE  /\ worker[w].pc \in Busy
           /\ worker'[w].pc \in {"begin", "compensate"}
           /\ worker'[w].event = worker[w].event
           /\ worker'[w].exec = worker[w].exec
           /\ worker'[w].byEvent = worker[w].byEvent
<1>1. worker \in [Workers -> WorkerState] /\ worker[w] \in WorkerState
  BY DEF IInv, TypeOK
<1>2. CASE RequireCompensation(w)
  <2>1. worker'[w] = [worker[w] EXCEPT !.pc = "begin"]
    BY <1>1, <1>2 DEF RequireCompensation
  <2>. QED  BY <1>1, <1>2, <2>1 DEF RequireCompensation, WorkerState, Busy
<1>3. CASE BeginCompensation(w)
  <2>1. PICK n : worker'[w] = [worker[w] EXCEPT !.pc = "compensate",
                                                !.attempt = n]
    BY <1>1, <1>3 DEF BeginCompensation
  <2>. QED  BY <1>1, <1>3, <2>1 DEF BeginCompensation, WorkerState, Busy
<1>. QED  BY <1>2, <1>3

LEMMA WorkerInvStep ==
    ASSUME IInv, Next
    PROVE  WorkerInv'
<1>1. /\ TypeOK /\ WorkerInv /\ TypeOK' /\ Grows
  BY TypeStep DEF IInv
<1>2. ASSUME NEW v \in Workers, worker'[v] = worker[v]
      PROVE  /\ worker'[v].pc = "claim" =>
                   /\ worker'[v].event \in due'
                   /\ outbox'[worker'[v].event].kind \in WakeupKind
                   /\ worker'[v].seen \subseteq TasksIn({"succeeded"})'
             /\ worker'[v].pc \in Busy =>
                   /\ worker'[v].event \in due'
                   /\ worker'[v].exec \in DOMAIN execs'
                   /\ worker'[v].byEvent \/ worker'[v].event \in inbox'
             /\ worker'[v].pc = "execute" => ~worker'[v].byEvent
  BY <1>1, <1>2 DEF WorkerInv, Grows, TypeOK
<1>3. ASSUME NEW w \in Workers,
             \/ worker'[w] = Idle
             \/ \E i \in DOMAIN outbox : ReadInbox(w, i)
             \/ ClaimTask(w)
             \/ ClaimRecovery(w)
             \/ RequireCompensation(w)
             \/ BeginCompensation(w)
      PROVE  /\ worker'[w].pc = "claim" =>
                   /\ worker'[w].event \in due'
                   /\ outbox'[worker'[w].event].kind \in WakeupKind
                   /\ worker'[w].seen \subseteq TasksIn({"succeeded"})'
             /\ worker'[w].pc \in Busy =>
                   /\ worker'[w].event \in due'
                   /\ worker'[w].exec \in DOMAIN execs'
                   /\ worker'[w].byEvent \/ worker'[w].event \in inbox'
             /\ worker'[w].pc = "execute" => ~worker'[w].byEvent
  <2>1. CASE worker'[w] = Idle
    BY <2>1 DEF Idle, Busy
  <2>2. CASE \E i \in DOMAIN outbox : ReadInbox(w, i)
    <3>1. PICK i \in DOMAIN outbox : ReadInbox(w, i)
      BY <2>2
    <3>2. /\ worker'[w].pc = "claim" /\ worker'[w].event = i
          /\ worker'[w].seen = TasksIn({"succeeded"})
      BY <1>1, <3>1 DEF ReadInbox, Idle, TypeOK
    <3>. QED
      BY <1>1, <3>1, <3>2 DEF ReadInbox, Delivered, Busy, Grows
  <2>3. CASE ClaimTask(w)
    <3>1. /\ worker'[w].pc = "execute" /\ worker'[w].event = worker[w].event
          /\ worker'[w].exec = Len(execs) + 1 /\ ~worker'[w].byEvent
          /\ worker[w].event \in inbox' /\ worker[w].event \in due
      BY <1>1, <2>3 DEF ClaimTask, MayClaim, Idle, TypeOK, WorkerInv
    <3>2. Len(execs) + 1 \in DOMAIN execs'
      BY <2>3, ClaimTaskType
    <3>. QED  BY <1>1, <3>1, <3>2 DEF Grows
  <2>4. CASE ClaimRecovery(w)
    <3>1. /\ worker'[w].pc = "begin" /\ worker'[w].event = worker[w].event
          /\ worker'[w].exec = LatestExecution(currentTask)
          /\ worker'[w].byEvent /\ worker[w].event \in due
      BY <1>1, <2>4 DEF ClaimRecovery, Idle, TypeOK, WorkerInv
    <3>2. LatestExecution(currentTask) \in DOMAIN execs
      BY <2>4, LatestIsActive DEF IInv, ClaimRecovery, RecoveryDue
    <3>. QED  BY <1>1, <3>1, <3>2 DEF Grows
  <2>5. CASE RequireCompensation(w) \/ BeginCompensation(w)
    <3>1. /\ worker[w].pc \in Busy
          /\ worker'[w].pc \in {"begin", "compensate"}
          /\ worker'[w].event = worker[w].event
          /\ worker'[w].exec = worker[w].exec
          /\ worker'[w].byEvent = worker[w].byEvent
      BY <2>5, CompensationMoves
    <3>. QED  BY <1>1, <3>1 DEF Grows, WorkerInv
  <2>. QED  BY <1>3, <2>1, <2>2, <2>3, <2>4, <2>5
<1>. QED  BY <1>2, <1>3, WorkerMoves DEF WorkerInv

LEMMA OwnExecutionStep ==
    ASSUME IInv, Next
    PROVE  OwnExecution'
<1>1. TypeOK /\ WorkerInv /\ OwnExecution
  BY DEF IInv
<1>2. CASE worker' = worker
  BY <1>1, <1>2 DEF OwnExecution
<1>3. ASSUME NEW w \in Workers,
             \A v \in Workers \ {w} : worker'[v] = worker[v],
             worker'[w].pc # "execute"
      PROVE  OwnExecution'
  BY <1>1, <1>3 DEF OwnExecution
<1>4. ASSUME NEW w \in Workers,
             \A v \in Workers \ {w} : worker'[v] = worker[v],
             ClaimTask(w)
      PROVE  OwnExecution'
  <2>1. worker'[w].exec = Len(execs) + 1
    BY <1>1, <1>4 DEF ClaimTask, TypeOK, Idle
  <2>2. Len(execs) + 1 \notin DOMAIN execs
    BY <1>4, ClaimTaskType
  <2>. QED  BY <1>1, <1>4, <2>1, <2>2 DEF OwnExecution, WorkerInv, Busy
<1>5. ASSUME NEW w \in Workers,
             \/ worker'[w] = Idle
             \/ \E i \in DOMAIN outbox : ReadInbox(w, i)
             \/ ClaimRecovery(w)
             \/ RequireCompensation(w)
             \/ BeginCompensation(w)
      PROVE  worker'[w].pc # "execute"
  <2>1. CASE RequireCompensation(w) \/ BeginCompensation(w)
    BY <2>1, CompensationMoves
  <2>2. CASE worker'[w] = Idle
    BY <2>2 DEF Idle
  <2>3. CASE \E i \in DOMAIN outbox : ReadInbox(w, i)
    <3>1. worker'[w].pc = "claim"
      BY <1>1, <2>3 DEF ReadInbox, Idle, TypeOK
    <3>. QED  BY <3>1
  <2>4. CASE ClaimRecovery(w)
    <3>1. worker'[w].pc = "begin"
      BY <1>1, <2>4 DEF ClaimRecovery, Idle, TypeOK
    <3>. QED  BY <3>1
  <2>. QED  BY <1>5, <2>1, <2>2, <2>3, <2>4
<1>. QED  BY <1>2, <1>3, <1>4, <1>5, WorkerMoves

LEMMA AcknowledgedStep ==
    ASSUME IInv, Next
    PROVE  AcknowledgedIsRecorded'
<1>1. TypeOK /\ WorkerInv /\ dropped = {}
  BY DEF IInv, AcknowledgedIsRecorded
<1>2. CASE dropped' = dropped
  BY <1>1, <1>2 DEF AcknowledgedIsRecorded
<1>3. CASE \E w \in Workers, i \in DOMAIN outbox : ClaimDuplicate(w, i)
  BY <1>1, <1>3 DEF ClaimDuplicate, Return, AcknowledgedIsRecorded
<1>4. CASE \E w \in Workers : RecordAndReturn(w)
  BY <1>1, <1>4 DEF RecordAndReturn, Return, AcknowledgedIsRecorded
<1>5. CASE \E w \in Workers : Complete(w) \/ Fail(w)
  BY <1>1, <1>5
  DEF Complete, Fail, Return, AcknowledgedIsRecorded, WorkerInv, Busy
<1>6. CASE \E w \in Workers : FailCompensation(w) \/ CompleteCompensation(w)
  BY <1>1, <1>6
  DEF FailCompensation, CompleteCompensation, Return, RecordOnce,
      AcknowledgedIsRecorded, WorkerInv, Busy
<1>7. \/ dropped' = dropped
      \/ \E w \in Workers, i \in DOMAIN outbox : ClaimDuplicate(w, i)
      \/ \E w \in Workers :
            \/ RecordAndReturn(w)
            \/ Complete(w) \/ Fail(w)
            \/ FailCompensation(w) \/ CompleteCompensation(w)
  <2>1. ASSUME NEW w \in Workers, Quiet(w)
        PROVE  \/ dropped' = dropped
               \/ \E i \in DOMAIN outbox : ClaimDuplicate(w, i)
               \/ RecordAndReturn(w)
    BY <2>1
    DEF Quiet, Deliver, ReadInbox, ClaimTerminal, ClaimAlreadyRunning,
        ClaimConflict, ReportRefused, FailCompensationRefused,
        CompensationRefused, Crash, Raise
  <2>2. ASSUME NEW w \in Workers,
               \/ ClaimRecovery(w) \/ ClaimNoRecovery(w)
               \/ ClaimTask(w) \/ ClaimNoTask(w)
               \/ RequireCompensation(w) \/ BeginCompensation(w)
        PROVE  dropped' = dropped \/ RecordAndReturn(w)
    BY <2>2
    DEF ClaimRecovery, ClaimNoRecovery, ClaimTask, ClaimNoTask,
        RequireCompensation, BeginCompensation
  <2>3. ASSUME NEW i \in DOMAIN outbox, FallDue(i)
        PROVE  dropped' = dropped
    BY <2>3 DEF FallDue
  <2>. QED  BY <2>1, <2>2, <2>3, StepCases
<1>. QED  BY <1>2, <1>3, <1>4, <1>5, <1>6, <1>7

-----------------------------------------------------------------------------
(* The executions *)

\* The execution a worker reports on with a valid token is not closed.
LEMMA TokenActive ==
    ASSUME IInv, NEW w \in Workers, worker[w].pc \in Busy,
           \/ TokenValid(worker[w].exec)
           \/ CompensationTokenValid(worker[w].exec)
    PROVE  /\ worker[w].exec \in DOMAIN execs
           /\ Active(worker[w].exec)
           /\ execs[worker[w].exec].task = currentTask
           /\ currentTask \in Tasks /\ planStatus = "running"
           /\ taskStatus[currentTask] = "running"
           /\ attempts[currentTask] \in Nat
           /\ attempts[currentTask] <= MaxAttempts
<1>1. worker[w].exec \in DOMAIN execs /\ Active(worker[w].exec)
  BY DEF IInv, WorkerInv, TokenValid, CompensationTokenValid, Active,
         ActiveStatus
<1>2. execs[worker[w].exec].task = currentTask /\ currentTask \in Tasks
  BY <1>1, Rows DEF IInv, ExecutionInv
<1>3. currentTask # 0
  BY <1>2 DEF Tasks
<1>. QED  BY <1>1, <1>2, <1>3 DEF IInv, PlanInv, TypeOK

\* Every step that touches the executions, the attempts or the current task
\* either starts an execution or changes the status of the active one.
LEMMA ExecutionMoves ==
    ASSUME IInv, Next
    PROVE  \/ UNCHANGED <<execs, attempts, currentTask>>
           \/ \E w \in Workers : ClaimTask(w)
           \/ \E e \in DOMAIN execs, st \in ExecutionStatus \ {"running"} :
                 /\ Active(e) /\ Becomes(e, st) /\ attempts' = attempts
                 /\ execs[e].status \in {st, "running", "compensation_required"}
                 /\ \/ currentTask' = currentTask
                    \/ currentTask' = 0 /\ st \in ClosedStatus
<1>. DEFINE Moves == \E e \in DOMAIN execs, st \in ExecutionStatus \ {"running"} :
                        /\ Active(e) /\ Becomes(e, st) /\ attempts' = attempts
                        /\ execs[e].status \in {st, "running",
                                                "compensation_required"}
                        /\ \/ currentTask' = currentTask
                           \/ currentTask' = 0 /\ st \in ClosedStatus
<1>. USE DEF planVars, Busy
<1>1. ASSUME NEW w \in Workers, Quiet(w)
      PROVE  UNCHANGED <<execs, attempts, currentTask>>
  BY <1>1
  DEF Quiet, Deliver, ClaimDuplicate, ReadInbox, ClaimTerminal,
      ClaimAlreadyRunning, ClaimConflict, ReportRefused,
      FailCompensationRefused, CompensationRefused, Crash
<1>2. ASSUME NEW w \in Workers, ClaimRecovery(w) \/ ClaimNoRecovery(w)
      PROVE  Moves
  <2>. DEFINE e == LatestExecution(currentTask)
              st == IF execs[e].status = "running"
                    THEN "compensation_required" ELSE execs[e].status
  <2>1. Active(e) /\ Becomes(e, st)
    BY <1>2, ClaimRecoveryType
  <2>2. /\ e \in DOMAIN execs /\ st \in ExecutionStatus \ {"running"}
        /\ execs[e].status \in {st, "running", "compensation_required"}
    BY <2>1 DEF Becomes, Active, ActiveStatus, ExecutionStatus
  <2>3. attempts' = attempts /\ currentTask' = currentTask
    BY <1>2 DEF ClaimRecovery, ClaimNoRecovery
  <2>. QED  BY <2>1, <2>2, <2>3
<1>3. ASSUME NEW w \in Workers, ClaimNoTask(w)
      PROVE  UNCHANGED <<execs, attempts, currentTask>>
  BY <1>3 DEF ClaimNoTask
<1>4. ASSUME NEW w \in Workers, RequireCompensation(w) \/ BeginCompensation(w)
      PROVE  Moves
  <2>1. /\ worker[w].exec \in DOMAIN execs /\ Active(worker[w].exec)
        /\ execs[worker[w].exec].status \in {"running", "compensation_required"}
        /\ attempts' = attempts /\ currentTask' = currentTask
    BY <1>4, TokenActive
    DEF RequireCompensation, BeginCompensation, TokenValid, CompensationTokenValid
  <2>2. Becomes(worker[w].exec, "compensation_required")
    BY <1>4, RequireCompensationType, BeginCompensationType
  <2>. QED  BY <2>1, <2>2 DEF ExecutionStatus
<1>5. ASSUME NEW w \in Workers, Complete(w)
      PROVE  Moves
  <2>1. /\ worker[w].exec \in DOMAIN execs /\ Active(worker[w].exec)
        /\ execs[worker[w].exec].status \in {"running", "compensation_required"}
        /\ attempts' = attempts /\ currentTask' = 0
    BY <1>5, TokenActive
    DEF Complete, TokenValid, CompensationTokenValid
  <2>2. Becomes(worker[w].exec, "succeeded")
    BY <1>5, CompleteType
  <2>. QED  BY <2>1, <2>2 DEF ExecutionStatus, ClosedStatus
<1>6. ASSUME NEW w \in Workers, Fail(w)
      PROVE  Moves
  <2>1. /\ worker[w].exec \in DOMAIN execs /\ Active(worker[w].exec)
        /\ execs[worker[w].exec].status \in {"running", "compensation_required"}
    BY <1>6, TokenActive
    DEF Fail, TokenValid, CompensationTokenValid
  <2>2. Becomes(worker[w].exec, "failed")
    BY <1>6, FailType
  <2>3. attempts' = attempts /\ currentTask' = 0
    BY <1>6, FailType DEF RetryOrReplan
  <2>. QED  BY <2>1, <2>2, <2>3 DEF ExecutionStatus, ClosedStatus
<1>7. ASSUME NEW w \in Workers, FailCompensation(w)
      PROVE  Moves \/ UNCHANGED <<execs, attempts, currentTask>>
  <2>1. /\ worker[w].exec \in DOMAIN execs /\ Active(worker[w].exec)
        /\ execs[worker[w].exec].status \in {"running", "compensation_required"}
        /\ attempts' = attempts /\ currentTask' = currentTask
    BY <1>7, TokenActive
    DEF FailCompensation, TokenValid, CompensationTokenValid
  <2>2. Becomes(worker[w].exec, "compensation_locked") \/ UNCHANGED execs
    BY <1>7, FailCompensationType
  <2>. QED  BY <2>1, <2>2 DEF ExecutionStatus
<1>8. ASSUME NEW w \in Workers, CompleteCompensation(w)
      PROVE  Moves
  <2>1. /\ worker[w].exec \in DOMAIN execs /\ Active(worker[w].exec)
        /\ execs[worker[w].exec].status \in {"running", "compensation_required"}
    BY <1>8, TokenActive
    DEF CompleteCompensation, TokenValid, CompensationTokenValid
  <2>2. Becomes(worker[w].exec, "compensated")
    BY <1>8, CompleteCompensationType
  <2>3. attempts' = attempts /\ currentTask' = 0
    BY <1>8, CompleteCompensationType DEF RetryOrReplan
  <2>. QED  BY <2>1, <2>2, <2>3 DEF ExecutionStatus, ClosedStatus
<1>9. ASSUME NEW i \in DOMAIN outbox, FallDue(i)
      PROVE  UNCHANGED <<execs, attempts, currentTask>>
  BY <1>9 DEF FallDue
<1>. HIDE DEF Moves
<1>10. \/ UNCHANGED <<execs, attempts, currentTask>>
       \/ \E w \in Workers : ClaimTask(w)
       \/ Moves
  BY <1>1, <1>2, <1>3, <1>4, <1>5, <1>6, <1>7, <1>8, <1>9, StepCases
<1>. QED  BY <1>10 DEF Moves

LEMMA ExecutionInvStep ==
    ASSUME IInv, Next
    PROVE  ExecutionInv'
<1>1. TypeOK /\ ExecutionInv /\ PlanInv
  BY DEF IInv
<1>2. CASE UNCHANGED <<execs, attempts, currentTask>>
  BY <1>1, <1>2 DEF ExecutionInv, Active
<1>3. ASSUME NEW w \in Workers, ClaimTask(w)
      PROVE  ExecutionInv'
  <2>. DEFINE n == Len(execs) + 1
  <2>1. PICK t \in Tasks :
           /\ attempts' = [attempts EXCEPT ![t] = @ + 1]
           /\ currentTask' = t
           /\ DOMAIN execs' = DOMAIN execs \cup {n}
           /\ n \notin DOMAIN execs
           /\ \A f \in DOMAIN execs : execs'[f] = execs[f]
           /\ execs'[n].task = t
           /\ execs'[n].attempt = attempts[t] + 1
    BY <1>3, ClaimTaskType DEF Runnable, TasksIn
  <2>2. /\ \A f \in DOMAIN execs : /\ execs[f].task \in Tasks
                                   /\ execs[f].attempt \in Nat
                                   /\ ~Active(f)
        /\ \A u \in Tasks : attempts[u] \in Nat
    <3>1. currentTask = 0 /\ 0 \notin Tasks
      BY <1>3 DEF ClaimTask, MayClaim, Tasks
    <3>. QED  BY <1>1, <3>1, Rows DEF ExecutionInv, TypeOK
  <2>3. \A f \in DOMAIN execs' :
           execs'[f].attempt \in 1 .. attempts'[execs'[f].task]
    BY <1>1, <2>1, <2>2 DEF ExecutionInv, TypeOK
  <2>4. \A e, f \in DOMAIN execs' :
           /\ execs'[e].task = execs'[f].task
           /\ execs'[e].attempt = execs'[f].attempt
           => e = f
    BY <1>1, <2>1, <2>2 DEF ExecutionInv
  <2>5. \A f \in DOMAIN execs' :
           Active(f)' => /\ execs'[f].task = currentTask'
                         /\ execs'[f].attempt = attempts'[currentTask']
    BY <1>1, <2>1, <2>2 DEF Active, TypeOK
  <2>. QED  BY <2>3, <2>4, <2>5 DEF ExecutionInv
<1>4. ASSUME NEW e \in DOMAIN execs, NEW st \in ExecutionStatus,
             Active(e), Becomes(e, st), attempts' = attempts,
             \/ currentTask' = currentTask
             \/ currentTask' = 0 /\ st \in ClosedStatus
      PROVE  ExecutionInv'
  <2>1. /\ DOMAIN execs' = DOMAIN execs
        /\ \A f \in DOMAIN execs : /\ execs'[f].task = execs[f].task
                                   /\ execs'[f].attempt = execs[f].attempt
                                   /\ f # e => Active(f)' = Active(f)
    BY <1>4 DEF Becomes, Active
  <2>2. \A f \in DOMAIN execs : Active(f) => f = e
    BY <1>1, <1>4 DEF ExecutionInv
  <2>3. st \in ClosedStatus => ~Active(e)'
    BY <1>4 DEF Becomes, Active, ClosedStatus, ActiveStatus
  <2>. QED  BY <1>1, <1>4, <2>1, <2>2, <2>3 DEF ExecutionInv
<1>. QED  BY <1>2, <1>3, <1>4, ExecutionMoves

-----------------------------------------------------------------------------
(* The Plan and its tasks *)

\* An execution that is closed with an error leaves the Plan in order.
LEMMA RetryOrReplanPlan ==
    ASSUME IInv, NEW e \in DOMAIN execs, NEW err,
           execs[e].task = currentTask, currentTask \in Tasks,
           taskStatus[currentTask] = "running", planStatus = "running",
           NEW retryStatus \in {"pending", "retry_wait"}, NEW retryKind,
           RetryOrReplan(e, err, retryStatus, retryKind)
    PROVE  PlanInv'
<1>1. /\ TypeOK /\ PlanInv /\ attempts' = attempts
      /\ currentTask' = 0 /\ 0 \notin Tasks
  BY DEF IInv, RetryOrReplan, Tasks
<1>2. CASE /\ attempts[currentTask] < MaxAttempts
           /\ taskStatus' = [taskStatus EXCEPT ![currentTask] = retryStatus]
           /\ planStatus' = planStatus
  <2>1. \A t \in Tasks :
           taskStatus'[t] = IF t = currentTask THEN retryStatus
                                               ELSE taskStatus[t]
    BY <1>1, <1>2 DEF TypeOK
  <2>2. /\ \A t \in Tasks : taskStatus'[t] # "running"
        /\ TasksIn({"failed", "blocked"})' = {}
        /\ currentTask \notin TasksIn({"succeeded"})'
        /\ \A t \in Tasks :
              IF taskStatus'[t] \in {"pending", "retry_wait"}
              THEN attempts[t] < MaxAttempts ELSE attempts[t] <= MaxAttempts
    BY <1>1, <1>2, <2>1 DEF PlanInv, TasksIn, Open
  <2>. QED  BY <1>1, <2>2 DEF PlanInv
<1>3. CASE /\ taskStatus' = [taskStatus EXCEPT ![currentTask] =
                                IF err.blocked THEN "blocked" ELSE "failed"]
           /\ planStatus' = "replan_pending"
  <2>1. PICK st \in {"blocked", "failed"} :
           \A t \in Tasks :
              taskStatus'[t] = IF t = currentTask THEN st ELSE taskStatus[t]
    BY <1>1, <1>3 DEF TypeOK
  <2>2. /\ \A t \in Tasks : taskStatus'[t] # "running"
        /\ \A t \in Tasks :
              IF taskStatus'[t] \in {"pending", "retry_wait"}
              THEN attempts[t] < MaxAttempts ELSE attempts[t] <= MaxAttempts
    <3>1. attempts[currentTask] <= MaxAttempts
      BY DEF IInv, PlanInv
    <3>. QED  BY <1>1, <2>1, <3>1 DEF PlanInv
  <2>3. ~Open'
    BY <1>3 DEF Open
  <2>. QED  BY <1>1, <2>2, <2>3 DEF PlanInv
<1>. QED  BY <1>2, <1>3 DEF RetryOrReplan, MayRetry

LEMMA CompletePlan ==
    ASSUME IInv, NEW w \in Workers, Complete(w)
    PROVE  PlanInv'
<1>1. /\ TypeOK /\ PlanInv /\ attempts' = attempts
      /\ currentTask' = 0 /\ 0 \notin Tasks
      /\ currentTask \in Tasks /\ planStatus = "running"
      /\ execs[worker[w].exec].task = currentTask
      /\ attempts[currentTask] \in Nat /\ attempts[currentTask] <= MaxAttempts
  BY TokenActive DEF IInv, Complete, Tasks, Busy
<1>2. \A t \in Tasks :
         taskStatus'[t] = IF t = currentTask THEN "succeeded"
                                             ELSE taskStatus[t]
  BY <1>1 DEF Complete, TypeOK
<1>3. /\ \A t \in Tasks : taskStatus'[t] # "running"
      /\ TasksIn({"failed", "blocked"})' = {}
      /\ \A t \in Tasks :
            IF taskStatus'[t] \in {"pending", "retry_wait"}
            THEN attempts[t] < MaxAttempts ELSE attempts[t] <= MaxAttempts
  BY <1>1, <1>2 DEF PlanInv, TasksIn, Open
<1>4. Open' => TasksIn({"succeeded"})' # Tasks
  <2>1. ASSUME Open'
        PROVE  \E t \in Tasks : t # currentTask /\ taskStatus[t] # "succeeded"
    <3>1. CASE TasksIn({"pending", "retry_wait"}) # {}
      <4>1. PICK t \in Tasks : taskStatus[t] \in {"pending", "retry_wait"}
        BY <3>1 DEF TasksIn
      <4>. QED  BY <1>1, <4>1 DEF PlanInv
    <3>2. CASE TasksIn({"pending", "retry_wait"}) = {}
      BY <1>1, <2>1, <3>2 DEF Complete, Open
    <3>. QED  BY <3>1, <3>2
  <2>. QED  BY <1>2, <2>1 DEF TasksIn
<1>. QED  BY <1>1, <1>3, <1>4 DEF PlanInv

LEMMA ClaimTaskPlan ==
    ASSUME IInv, NEW w \in Workers, ClaimTask(w)
    PROVE  PlanInv'
<1>1. /\ TypeOK /\ PlanInv /\ currentTask = 0 /\ Open /\ 0 \notin Tasks
      /\ planStatus' = "running"
  BY DEF IInv, ClaimTask, MayClaim, Open, Tasks
<1>2. PICK t \in Tasks :
         /\ taskStatus[t] \in {"pending", "retry_wait"}
         /\ taskStatus' = [RetryWaitToPending EXCEPT ![t] = "running"]
         /\ attempts' = [attempts EXCEPT ![t] = @ + 1]
         /\ currentTask' = t
         /\ Len(execs) + 1 \in DOMAIN execs'
         /\ execs'[Len(execs) + 1].status = "running"
  BY ClaimTaskType DEF Runnable, TasksIn
<1>3. \A u \in Tasks :
         /\ taskStatus'[u] = IF u = t THEN "running"
                             ELSE IF taskStatus[u] = "retry_wait"
                                  THEN "pending" ELSE taskStatus[u]
         /\ attempts'[u] = IF u = t THEN attempts[u] + 1 ELSE attempts[u]
  BY <1>1, <1>2 DEF TypeOK, RetryWaitToPending
<1>4. \E e \in DOMAIN execs' : Active(e)'
  BY <1>2 DEF Active, ActiveStatus
<1>5. \A u \in Tasks : taskStatus'[u] = "running" <=> u = t
  BY <1>1, <1>3 DEF PlanInv
<1>6. /\ TasksIn({"failed", "blocked"})' = {}
      /\ t \notin TasksIn({"succeeded"})'
  BY <1>1, <1>3 DEF PlanInv, TasksIn
<1>7. \A u \in Tasks :
         IF taskStatus'[u] \in {"pending", "retry_wait"}
         THEN attempts'[u] < MaxAttempts ELSE attempts'[u] <= MaxAttempts
  BY <1>1, <1>2, <1>3, CountAssumption DEF PlanInv, TypeOK
<1>. QED  BY <1>1, <1>2, <1>4, <1>5, <1>6, <1>7 DEF PlanInv

LEMMA PlanInvStep ==
    ASSUME IInv, Next
    PROVE  PlanInv'
<1>1. TypeOK /\ PlanInv /\ ExecutionInv
  BY DEF IInv
<1>. USE DEF planVars
<1>2. ASSUME UNCHANGED planVars,
             \/ UNCHANGED execs
             \/ \E e \in DOMAIN execs, st \in ActiveStatus : Becomes(e, st)
      PROVE  PlanInv'
  <2>1. /\ \A S : TasksIn(S)' = TasksIn(S)
        /\ Open' = Open
    BY <1>2 DEF TasksIn, Open
  <2>2. (\E e \in DOMAIN execs : Active(e))
        => \E e \in DOMAIN execs' : Active(e)'
    BY <1>2 DEF Active, Becomes
  <2>. QED  BY <1>1, <1>2, <2>1, <2>2 DEF PlanInv
<1>3. ASSUME NEW w \in Workers, Quiet(w)
      PROVE  UNCHANGED planVars /\ UNCHANGED execs
  BY <1>3
  DEF Quiet, Deliver, ClaimDuplicate, ReadInbox, ClaimTerminal,
      ClaimAlreadyRunning, ClaimConflict, ReportRefused,
      FailCompensationRefused, CompensationRefused, Crash
<1>4. ASSUME NEW w \in Workers, ClaimRecovery(w) \/ ClaimNoRecovery(w)
      PROVE  /\ UNCHANGED planVars
             /\ \E e \in DOMAIN execs, st \in ActiveStatus : Becomes(e, st)
  <2>. DEFINE e == LatestExecution(currentTask)
              st == IF execs[e].status = "running"
                    THEN "compensation_required" ELSE execs[e].status
  <2>1. Active(e) /\ Becomes(e, st)
    BY <1>4, ClaimRecoveryType
  <2>2. e \in DOMAIN execs /\ st \in ActiveStatus
    BY <2>1 DEF Becomes, Active, ActiveStatus
  <2>. QED  BY <1>4, <2>1, <2>2 DEF ClaimRecovery, ClaimNoRecovery
<1>5. ASSUME NEW w \in Workers, ClaimNoTask(w)
      PROVE  PlanInv'
  <2>1. /\ TasksIn({"failed", "blocked"})' = TasksIn({"failed", "blocked"})
        /\ TasksIn({"succeeded"})' = TasksIn({"succeeded"})
    BY <1>5, ClaimNoTaskType
  <2>2. \A t \in Tasks :
           taskStatus'[t] = IF taskStatus[t] = "retry_wait" THEN "pending"
                                                            ELSE taskStatus[t]
    BY <1>5 DEF ClaimNoTask, RetryWaitToPending
  <2>3. UNCHANGED <<planStatus, currentTask, attempts, execs>>
    BY <1>5 DEF ClaimNoTask
  <2>. QED  BY <1>1, <2>1, <2>2, <2>3 DEF PlanInv, Open, Active
<1>6. ASSUME NEW w \in Workers, RequireCompensation(w) \/ BeginCompensation(w)
      PROVE  /\ UNCHANGED planVars
             /\ \E e \in DOMAIN execs, st \in ActiveStatus : Becomes(e, st)
  <2>1. Becomes(worker[w].exec, "compensation_required")
    BY <1>6, RequireCompensationType, BeginCompensationType
  <2>. QED
    BY <1>6, <2>1
    DEF RequireCompensation, BeginCompensation, Becomes, ActiveStatus
<1>7. ASSUME NEW w \in Workers, FailCompensation(w)
      PROVE  /\ UNCHANGED planVars
             /\ \/ UNCHANGED execs
                \/ \E e \in DOMAIN execs, st \in ActiveStatus : Becomes(e, st)
  <2>1. Becomes(worker[w].exec, "compensation_locked") \/ UNCHANGED execs
    BY <1>7, FailCompensationType
  <2>. QED  BY <1>7, <2>1 DEF FailCompensation, Becomes, ActiveStatus
<1>8. ASSUME NEW w \in Workers, Fail(w)
      PROVE  PlanInv'
  <2>1. \E err \in Errors :
           RetryOrReplan(worker[w].exec, err, "retry_wait", "retry")
    BY <1>8, FailType
  <2>. QED  BY <1>8, <2>1, TokenActive, RetryOrReplanPlan DEF Fail, Busy
<1>9. ASSUME NEW w \in Workers, CompleteCompensation(w)
      PROVE  PlanInv'
  BY <1>9, CompleteCompensationType, TokenActive, RetryOrReplanPlan
  DEF CompleteCompensation, Busy
<1>10. ASSUME NEW i \in DOMAIN outbox, FallDue(i)
       PROVE  UNCHANGED planVars /\ UNCHANGED execs
  BY <1>10 DEF FallDue
<1>. QED
  BY <1>2, <1>3, <1>4, <1>5, <1>6, <1>7, <1>8, <1>9, <1>10, StepCases,
     ClaimTaskPlan, CompletePlan

-----------------------------------------------------------------------------
(* The wakeups *)

\* An open Plan with nothing in flight has a task that can be claimed, by a
\* worker that sees all the tasks that have succeeded.
LEMMA SomeRunnable ==
    ASSUME TypeOK, PlanInv, Open, currentTask = 0
    PROVE  Runnable(TasksIn({"succeeded"})) # {}
<1>. DEFINE S == Tasks \ TasksIn({"succeeded"})
<1>1. S \in SUBSET Tasks /\ S # {}
  BY DEF PlanInv, TasksIn
<1>2. PICK t \in S : Deps[t] \cap S = {}
  BY <1>1, DagAssumption DEF IsTaskGraph, Tasks
<1>3. Deps[t] \subseteq TasksIn({"succeeded"})
  BY <1>2, DagAssumption DEF IsTaskGraph, Tasks
<1>4. taskStatus[t] \in {"pending", "retry_wait"}
  <2>1. taskStatus[t] # "running" /\ t \notin TasksIn({"failed", "blocked"})
    BY <1>2 DEF PlanInv, Tasks
  <2>. QED  BY <1>2, <2>1 DEF TypeOK, TaskStatus, TasksIn
<1>. QED  BY <1>2, <1>3, <1>4 DEF Runnable, TasksIn

\* Nothing is in flight when the Plan has no current task.
LEMMA NoneActive ==
    ASSUME IInv, currentTask = 0
    PROVE  \A e \in DOMAIN execs : ~Active(e)
BY Rows DEF IInv, ExecutionInv, Tasks

\* Compensation retries are written for executions that have failed, and an
\* execution that has failed does not run again.
LEMMA CompensateEventStep ==
    ASSUME IInv, Next
    PROVE  \A i \in DOMAIN outbox' :
              outbox'[i].kind = "compensate" =>
                  /\ outbox'[i].exec \in DOMAIN execs'
                  /\ execs'[outbox'[i].exec].status # "running"
<1>1. TypeOK /\ WakeupInv /\ WorkerInv
  BY DEF IInv
<1>2. \A e \in DOMAIN execs :
         /\ e \in DOMAIN execs'
         /\ execs[e].status # "running" => execs'[e].status # "running"
  BY ExecutionMoves, ClaimTaskType DEF Becomes
<1>3. ASSUME NEW i \in DOMAIN outbox, i \in DOMAIN outbox',
             outbox'[i] = outbox[i], outbox'[i].kind = "compensate"
      PROVE  /\ outbox'[i].exec \in DOMAIN execs'
             /\ execs'[outbox'[i].exec].status # "running"
  BY <1>1, <1>2, <1>3 DEF WakeupInv
<1>4. ASSUME NEW w \in Workers, FailCompensation(w),
             Emit("compensate", worker[w].exec),
             NEW i \in DOMAIN outbox', outbox'[i].kind = "compensate"
      PROVE  /\ outbox'[i].exec \in DOMAIN execs'
             /\ execs'[outbox'[i].exec].status # "running"
  <2>. DEFINE e == worker[w].exec
  <2>1. /\ e \in DOMAIN execs /\ e \in Nat
        /\ execs[e].status = "compensation_required"
    BY <1>1, <1>4, Rows
    DEF FailCompensation, WorkerInv, Busy, CompensationTokenValid
  <2>2. CASE i \in DOMAIN outbox
    BY <1>3, <1>4, <2>2, TypeStep DEF Grows
  <2>3. CASE i = Len(outbox) + 1
    <3>1. outbox'[i] = [kind |-> "compensate", exec |-> e]
      BY <1>1, <1>4, <2>1, <2>3, EmitEvent DEF EventKind, WakeupKind
    <3>. QED  BY <1>2, <2>1, <3>1
  <2>4. DOMAIN outbox' = DOMAIN outbox \cup {Len(outbox) + 1}
    BY <1>1, <1>4, <2>1, EmitEvent DEF EventKind, WakeupKind
  <2>. QED  BY <2>2, <2>3, <2>4
<1>5. ASSUME NEW kind \in EventKind \ {"compensate"}, NEW e \in Nat,
             Emit(kind, e),
             NEW i \in DOMAIN outbox', outbox'[i].kind = "compensate"
      PROVE  i \in DOMAIN outbox /\ outbox'[i] = outbox[i]
  <2>1. /\ DOMAIN outbox' = DOMAIN outbox \cup {Len(outbox) + 1}
        /\ outbox'[Len(outbox) + 1].kind = kind
        /\ \A j \in DOMAIN outbox : outbox'[j] = outbox[j]
    <3>1. /\ DOMAIN outbox' = DOMAIN outbox \cup {Len(outbox) + 1}
          /\ outbox'[Len(outbox) + 1] = [kind |-> kind, exec |-> e]
          /\ \A j \in DOMAIN outbox : outbox'[j] = outbox[j]
      BY <1>1, <1>5, EmitEvent
    <3>. QED  BY <3>1
  <2>. QED  BY <1>5, <2>1
<1>6. \/ UNCHANGED outbox
      \/ \E kind \in EventKind \ {"compensate"}, e \in Nat : Emit(kind, e)
      \/ \E w \in Workers : /\ FailCompensation(w)
                            /\ Emit("compensate", worker[w].exec)
  <2>1. ASSUME NEW w \in Workers,
               \/ Quiet(w) \/ ClaimRecovery(w) \/ ClaimNoRecovery(w)
               \/ ClaimNoTask(w) \/ RequireCompensation(w)
               \/ BeginCompensation(w)
        PROVE  UNCHANGED outbox
    BY <2>1
    DEF Quiet, Deliver, ClaimDuplicate, ReadInbox, ClaimTerminal,
        ClaimAlreadyRunning, ClaimNoRecovery, ClaimNoTask, ClaimConflict,
        ReportRefused, FailCompensationRefused, CompensationRefused, Crash,
        ClaimRecovery, RequireCompensation, BeginCompensation, eventVars
  <2>2. ASSUME NEW w \in Workers, ClaimTask(w)
        PROVE  \E kind \in EventKind \ {"compensate"}, e \in Nat : Emit(kind, e)
    BY <1>1, <2>2, ClaimTaskType, Rows DEF EventKind, WakeupKind
  <2>3. ASSUME NEW w \in Workers, Complete(w) \/ Fail(w)
        PROVE  \/ UNCHANGED outbox
               \/ \E kind \in EventKind \ {"compensate"}, e \in Nat :
                     Emit(kind, e)
    <3>0. worker[w].pc = "execute"
      BY <2>3 DEF Complete, Fail
    <3>1. worker[w].exec \in Nat
      BY <1>1, <3>0, Rows DEF WorkerInv, Busy
    <3>2. \/ UNCHANGED outbox
          \/ \E kind \in {"next", "aggregate", "retry", "replan"} :
                Emit(kind, worker[w].exec)
      BY <2>3 DEF Complete, Fail, RetryOrReplan, eventVars
    <3>. QED  BY <3>1, <3>2 DEF EventKind, WakeupKind
  <2>4. ASSUME NEW w \in Workers, CompleteCompensation(w)
        PROVE  \E kind \in EventKind \ {"compensate"}, e \in Nat : Emit(kind, e)
    <3>1. worker[w].exec \in Nat
      BY <1>1, <2>4, Rows DEF CompleteCompensation, WorkerInv, Busy
    <3>2. \E kind \in {"recovered", "retry", "replan"} :
             Emit(kind, worker[w].exec)
      BY <2>4, CompleteCompensationType DEF RetryOrReplan
    <3>. QED  BY <3>1, <3>2 DEF EventKind, WakeupKind
  <2>5. ASSUME NEW w \in Workers, FailCompensation(w)
        PROVE  UNCHANGED outbox \/ Emit("compensate", worker[w].exec)
    BY <2>5 DEF FailCompensation, eventVars
  <2>6. ASSUME NEW i \in DOMAIN outbox, FallDue(i)
        PROVE  UNCHANGED outbox
    BY <2>6 DEF FallDue
  <2>. QED  BY <2>1, <2>2, <2>3, <2>4, <2>5, <2>6, StepCases
<1>. QED  BY <1>3, <1>4, <1>5, <1>6

\* An execution that runs or waits for its compensation keeps an event that
\* brings a worker back to it.
InFlight(e) == execs[e].status \in {"running", "compensation_required"}
Guards(i, e) == outbox[i] \in [kind: {"lease", "compensate"}, exec: {e}]
Guarded(e) == \E i \in DOMAIN outbox \ inbox : Guards(i, e)

\* A guard is lost only when it is recorded in the inbox.
LEMMA GuardKept ==
    ASSUME IInv, Next, NEW e, Guarded(e),
           \A j \in inbox' \ inbox : ~Guards(j, e)
    PROVE  Guarded(e)'
<1>1. PICK i \in DOMAIN outbox \ inbox : Guards(i, e)
  BY DEF Guarded
<1>2. i \in DOMAIN outbox' /\ outbox'[i] = outbox[i]
  BY TypeStep, <1>1 DEF Grows
<1>. QED  BY <1>1, <1>2 DEF Guarded, Guards

LEMMA GuardEmitted ==
    ASSUME IInv, NEW e \in Nat, NEW kind \in {"lease", "compensate"},
           Emit(kind, e), inbox' \subseteq DOMAIN outbox
    PROVE  Guarded(e)'
<1>1. /\ Len(outbox) + 1 \in DOMAIN outbox'
      /\ Len(outbox) + 1 \notin DOMAIN outbox
      /\ outbox'[Len(outbox) + 1] = [kind |-> kind, exec |-> e]
  BY EmitEvent DEF IInv, EventKind, WakeupKind
<1>. QED  BY <1>1 DEF Guarded, Guards

\* An event that a Claim answers with "already running" has fallen due, the
\* lease of the running execution has not; and a Claim consumes a compensation
\* retry only for an execution that is no longer the current one.
LEMMA ClaimSparesGuard ==
    ASSUME IInv, NEW w \in Workers,
           ClaimAlreadyRunning(w) \/ ClaimNoRecovery(w),
           NEW e \in DOMAIN execs, InFlight(e)
    PROVE  ~Guards(worker[w].event, e)
<1>1. /\ TypeOK /\ WakeupInv /\ WorkerInv
      /\ e = LatestExecution(currentTask)
      /\ worker[w].event \in due /\ worker[w].event \in DOMAIN outbox
  BY LatestIsActive
  DEF IInv, InFlight, Active, ActiveStatus, WorkerInv, ClaimAlreadyRunning,
      ClaimNoRecovery, TypeOK
<1>2. CASE ClaimAlreadyRunning(w)
  <2>1. execs[e].status = "running" /\ ~LeaseExpired(e)
    BY <1>1, <1>2 DEF ClaimAlreadyRunning, NeedsRecovery
  <2>2. outbox[worker[w].event] # [kind |-> "lease", exec |-> e]
    BY <1>1, <2>1 DEF LeaseExpired
  <2>3. outbox[worker[w].event] # [kind |-> "compensate", exec |-> e]
    BY <1>1, <2>1 DEF WakeupInv
  <2>. QED  BY <2>2, <2>3 DEF Guards
<1>3. CASE ClaimNoRecovery(w)
  <2>1. Directed(worker[w].event) /\ outbox[worker[w].event].exec # e
    BY <1>1, <1>3 DEF ClaimNoRecovery, RecoveryDue, InFlight
  <2>. QED  BY <2>1 DEF Guards
<1>. QED  BY <1>2, <1>3

LEMMA GuardStep ==
    ASSUME IInv, Next, NEW e \in DOMAIN execs', InFlight(e)'
    PROVE  Guarded(e)'
<1>1. /\ TypeOK /\ WakeupInv /\ WorkerInv /\ ExecutionInv /\ PlanInv
      /\ \A f \in DOMAIN execs :
            InFlight(f) => Guarded(f) /\ Active(f) /\ f \in Nat
      /\ inbox \subseteq DOMAIN outbox /\ due \subseteq DOMAIN outbox
      /\ 0 \notin Tasks
  BY Rows
  DEF IInv, TypeOK, WakeupInv, Guarded, Guards, InFlight, Active, ActiveStatus,
      Tasks
<1>2. currentTask' # 0
  <2>1. execs'[e].task = currentTask' /\ execs'[e].task \in Tasks
    <3>1. ExecutionInv' /\ TypeOK'
      BY ExecutionInvStep, TypeStep
    <3>2. execs'[e] \in Execution
      BY <3>1, LenProperties, ElementOfSeq DEF TypeOK
    <3>. QED  BY <3>1, <3>2 DEF ExecutionInv, InFlight, Active, ActiveStatus,
                                Execution
  <2>. QED  BY <1>1, <2>1
<1>3. CASE \E w \in Workers : ClaimTask(w)
  <2>1. PICK w \in Workers : ClaimTask(w)
    BY <1>3
  <2>2. e = Len(execs) + 1
    <3>1. \A f \in DOMAIN execs : ~InFlight(f)
      BY <2>1, NoneActive
      DEF ClaimTask, MayClaim, InFlight, Active, ActiveStatus
    <3>2. /\ DOMAIN execs' = DOMAIN execs \cup {Len(execs) + 1}
          /\ \A f \in DOMAIN execs : execs'[f] = execs[f]
      BY <2>1, ClaimTaskType
    <3>. QED  BY <3>1, <3>2 DEF InFlight
  <2>3. inbox' \subseteq DOMAIN outbox
    BY <1>1, <2>1 DEF ClaimTask, MayClaim, WorkerInv
  <2>4. Emit("lease", e) /\ e \in Nat
    BY <1>1, <2>1, <2>2, ClaimTaskType, Rows
  <2>. QED  BY <2>3, <2>4, GuardEmitted
<1>4. ASSUME ~ \E w \in Workers : ClaimTask(w)
      PROVE  e \in DOMAIN execs /\ InFlight(e)
  BY <1>4, ExecutionMoves DEF Becomes, InFlight, ClosedStatus
<1>5. ASSUME NEW w \in Workers, Quiet(w), ~ClaimTerminal(w),
             ~ClaimAlreadyRunning(w)
      PROVE  inbox' = inbox
  BY <1>5
  DEF Quiet, Deliver, ClaimDuplicate, ReadInbox, ClaimConflict, ReportRefused,
      FailCompensationRefused, CompensationRefused, Crash
<1>6. ASSUME NEW w \in Workers, ClaimTerminal(w)
      PROVE  FALSE
  BY <1>1, <1>2, <1>6 DEF ClaimTerminal, planVars, PlanInv, TerminalPlanStatus
<1>7. ASSUME NEW w \in Workers, ClaimAlreadyRunning(w) \/ ClaimNoRecovery(w)
      PROVE  e \in DOMAIN execs /\ InFlight(e) => Guarded(e)'
  <2>1. inbox' = inbox \cup {worker[w].event}
    BY <1>7 DEF ClaimAlreadyRunning, ClaimNoRecovery, RecordAndReturn
  <2>. QED  BY <1>1, <1>7, <2>1, ClaimSparesGuard, GuardKept
<1>8. ASSUME NEW w \in Workers,
             ClaimRecovery(w) \/ RequireCompensation(w) \/ BeginCompensation(w)
      PROVE  inbox' = inbox
  BY <1>8 DEF ClaimRecovery, RequireCompensation, BeginCompensation
<1>9. ASSUME NEW w \in Workers,
             \/ ClaimNoTask(w) \/ Complete(w) \/ Fail(w)
             \/ CompleteCompensation(w)
      PROVE  FALSE
  <2>1. CASE ClaimNoTask(w)
    BY <1>2, <2>1 DEF ClaimNoTask, MayClaim
  <2>2. CASE Complete(w)
    BY <1>2, <2>2 DEF Complete
  <2>3. CASE Fail(w)
    BY <1>2, <2>3 DEF Fail, RetryOrReplan
  <2>4. CASE CompleteCompensation(w)
    BY <1>2, <2>4, CompleteCompensationType DEF RetryOrReplan
  <2>. QED  BY <1>9, <2>1, <2>2, <2>3, <2>4
<1>10. ASSUME NEW w \in Workers, FailCompensation(w),
              e \in DOMAIN execs, InFlight(e)
       PROVE  Guarded(e)'
  <2>1. /\ worker[w].exec \in DOMAIN execs /\ Active(worker[w].exec)
        /\ worker[w].event \in DOMAIN outbox
    BY <1>1, <1>10, TokenActive DEF FailCompensation, Busy, WorkerInv
  <2>2. e = worker[w].exec
    BY <1>1, <1>10, <2>1 DEF ExecutionInv
  <2>3. ~Becomes(e, "compensation_locked")
    BY DEF Becomes, InFlight
  <2>4. Emit("compensate", e) /\ e \in Nat
    BY <1>1, <1>10, <2>2, <2>3, FailCompensationType
  <2>5. inbox' \subseteq DOMAIN outbox
    BY <1>1, <1>10, <2>1 DEF FailCompensation, RecordOnce
  <2>. QED  BY <2>4, <2>5, GuardEmitted
<1>11. ASSUME NEW i \in DOMAIN outbox, FallDue(i)
       PROVE  inbox' = inbox
  BY <1>11 DEF FallDue
<1>12. ASSUME inbox' = inbox, e \in DOMAIN execs, InFlight(e)
       PROVE  Guarded(e)'
  BY <1>1, <1>12, GuardKept
<1>. QED
  BY <1>3, <1>4, <1>5, <1>6, <1>7, <1>8, <1>9, <1>10, <1>11, <1>12, StepCases

\* The wakeup of the last release: unrecorded, and handled only by workers
\* that have seen every task that has succeeded.
Fresh(n) ==
    /\ outbox[n].kind \in ReleaseKind
    /\ \A w \in Workers :
          worker[w].pc = "claim" /\ worker[w].event = n
          => worker[w].seen = TasksIn({"succeeded"})

LEMMA FreshEmitted ==
    ASSUME IInv, NEW w \in Workers, worker' = [worker EXCEPT ![w] = Idle],
           NEW kind \in ReleaseKind, NEW e \in Nat, Emit(kind, e),
           inbox' \subseteq DOMAIN outbox
    PROVE  \E n \in DOMAIN outbox' \ inbox' : Fresh(n)'
<1>. DEFINE n == Len(outbox) + 1
<1>1. /\ n \in DOMAIN outbox' /\ n \notin DOMAIN outbox
      /\ outbox'[n] = [kind |-> kind, exec |-> e]
  BY EmitEvent DEF IInv, EventKind, WakeupKind, ReleaseKind
<1>2. \A v \in Workers : ~(worker'[v].pc = "claim" /\ worker'[v].event = n)
  BY <1>1 DEF IInv, TypeOK, WorkerInv, Idle
<1>. QED  BY <1>1, <1>2 DEF Fresh

\* The wakeup is recorded in vain only by a Claim with an outdated snapshot,
\* and no worker has one for this event.
LEMMA FreshKept ==
    ASSUME IInv, Next, NEW n \in DOMAIN outbox \ inbox, Fresh(n),
           n \notin inbox', TasksIn({"succeeded"})' = TasksIn({"succeeded"}),
           ~ \E w \in Workers : ClaimTask(w)
    PROVE  n \in DOMAIN outbox' \ inbox' /\ Fresh(n)'
<1>1. n \in DOMAIN outbox' /\ outbox'[n] = outbox[n]
  BY TypeStep DEF Grows
<1>2. ASSUME NEW v \in Workers, worker'[v].pc = "claim",
             worker'[v].event = n
      PROVE  worker'[v].seen = TasksIn({"succeeded"})
  <2>1. ASSUME worker'[v] = worker[v]
        PROVE  worker'[v].seen = TasksIn({"succeeded"})
    BY <1>2, <2>1 DEF Fresh
  <2>2. ASSUME \E i \in DOMAIN outbox : ReadInbox(v, i)
        PROVE  worker'[v].seen = TasksIn({"succeeded"})
    BY <2>2 DEF IInv, TypeOK, ReadInbox, Idle
  <2>3. worker'[v] # Idle
    BY <1>2 DEF Idle
  <2>4. ~ClaimRecovery(v)
    <3>1. ClaimRecovery(v) => worker'[v].pc = "begin"
      BY DEF ClaimRecovery, IInv, TypeOK, Idle
    <3>. QED  BY <1>2, <3>1
  <2>5. ~(RequireCompensation(v) \/ BeginCompensation(v))
    BY <1>2, CompensationMoves
  <2>. QED  BY <2>1, <2>2, <2>3, <2>4, <2>5, WorkerMoves
<1>. QED  BY <1>1, <1>2 DEF Fresh

LEMMA FreshStep ==
    ASSUME IInv, Next, Open', currentTask' = 0
    PROVE  \E n \in DOMAIN outbox' \ inbox' : Fresh(n)'
<1>1. /\ TypeOK /\ PlanInv /\ WorkerInv /\ 0 \notin Tasks
      /\ inbox \subseteq DOMAIN outbox /\ due \subseteq DOMAIN outbox
      /\ Open /\ currentTask = 0 => \E n \in DOMAIN outbox \ inbox : Fresh(n)
  BY DEF IInv, TypeOK, WakeupInv, Fresh, Tasks
<1>. USE DEF planVars
<1>2. ASSUME NEW w \in Workers, ClaimTask(w)
      PROVE  FALSE
  BY <1>1, <1>2, ClaimTaskType DEF Runnable, TasksIn
<1>3. ASSUME Open, currentTask = 0,
             TasksIn({"succeeded"})' = TasksIn({"succeeded"}),
             \A j \in inbox' \ inbox : ~Fresh(j) \/ outbox[j].kind = "compensate"
      PROVE  \E n \in DOMAIN outbox' \ inbox' : Fresh(n)'
  <2>1. PICK n \in DOMAIN outbox \ inbox : Fresh(n)
    BY <1>1, <1>3
  <2>2. n \notin inbox'
    BY <1>3, <2>1 DEF Fresh, ReleaseKind
  <2>. QED  BY <1>2, <1>3, <2>1, <2>2, FreshKept
<1>4. ASSUME UNCHANGED planVars
      PROVE  /\ Open /\ currentTask = 0
             /\ TasksIn({"succeeded"})' = TasksIn({"succeeded"})
  BY <1>4 DEF Open, TasksIn
<1>5. ASSUME NEW w \in Workers, Quiet(w), ~ClaimTerminal(w)
      PROVE  UNCHANGED planVars /\ (inbox' = inbox \/ currentTask # 0)
  BY <1>5
  DEF Quiet, Deliver, ClaimDuplicate, ReadInbox, ClaimAlreadyRunning,
      ClaimConflict, ReportRefused, FailCompensationRefused,
      CompensationRefused, Crash
<1>6. ASSUME NEW w \in Workers, ClaimTerminal(w)
      PROVE  /\ UNCHANGED planVars
             /\ \A j \in inbox' \ inbox : Open => outbox[j].kind = "compensate"
  BY <1>6
  DEF ClaimTerminal, RecordAndReturn, Open, TerminalPlanStatus, Directed
<1>7. ASSUME NEW w \in Workers,
             \/ ClaimRecovery(w) \/ ClaimNoRecovery(w)
             \/ RequireCompensation(w) \/ BeginCompensation(w)
             \/ FailCompensation(w)
      PROVE  FALSE
  <2>1. UNCHANGED planVars
    BY <1>7
    DEF ClaimRecovery, ClaimNoRecovery, RequireCompensation,
        BeginCompensation, FailCompensation
  <2>2. currentTask # 0
    <3>1. CASE ClaimRecovery(w) \/ ClaimNoRecovery(w)
      BY <3>1 DEF ClaimRecovery, ClaimNoRecovery, RecoveryDue
    <3>2. CASE \/ RequireCompensation(w) \/ BeginCompensation(w)
               \/ FailCompensation(w)
      BY <1>1, <3>2, TokenActive
      DEF RequireCompensation, BeginCompensation, FailCompensation, Busy
    <3>. QED  BY <1>7, <3>1, <3>2
  <2>. QED  BY <1>4, <2>1, <2>2
<1>8. ASSUME NEW w \in Workers, ClaimNoTask(w)
      PROVE  \E n \in DOMAIN outbox' \ inbox' : Fresh(n)'
  <2>1. /\ Open /\ currentTask = 0
        /\ inbox' = inbox \cup {worker[w].event}
    BY <1>8 DEF ClaimNoTask, MayClaim, RecordAndReturn, Open
  <2>2. TasksIn({"succeeded"})' = TasksIn({"succeeded"})
    BY <1>8, ClaimNoTaskType
  <2>3. worker[w].seen # TasksIn({"succeeded"})
    BY <1>1, <1>8, <2>1, SomeRunnable DEF ClaimNoTask
  <2>4. ~Fresh(worker[w].event)
    BY <1>8, <2>3 DEF ClaimNoTask, MayClaim, Fresh
  <2>. QED  BY <1>3, <2>1, <2>2, <2>4
<1>9. ASSUME NEW w \in Workers, Complete(w)
      PROVE  \E n \in DOMAIN outbox' \ inbox' : Fresh(n)'
  <2>1. /\ worker[w].pc = "execute" /\ worker[w].exec \in DOMAIN execs
        /\ execs[worker[w].exec].task = currentTask
        /\ planStatus = "running" /\ worker[w].exec \in Nat
    BY <1>1, <1>9, TokenActive, Rows DEF Complete, Busy
  <2>2. \A u \in Tasks \ {currentTask} :
           taskStatus[u] \in {"pending", "retry_wait", "succeeded"}
    <3>1. Open
      BY <2>1 DEF Open
    <3>. QED  BY <1>1, <3>1 DEF TypeOK, TaskStatus, PlanInv, TasksIn
  <2>3. TasksIn({"pending", "retry_wait"}) = {}
        => \A u \in Tasks \ {currentTask} : taskStatus[u] = "succeeded"
    BY <2>2 DEF TasksIn
  <2>4. planStatus' # "completed"
    BY DEF Open
  <2>5. Emit("next", worker[w].exec)
    BY <1>9, <2>1, <2>3, <2>4 DEF Complete
  <2>6. worker' = [worker EXCEPT ![w] = Idle] /\ inbox' = inbox
    BY <1>9 DEF Complete, Return
  <2>. QED  BY <1>1, <2>1, <2>5, <2>6, FreshEmitted DEF ReleaseKind
<1>10. ASSUME NEW w \in Workers, Fail(w) \/ CompleteCompensation(w)
       PROVE  \E n \in DOMAIN outbox' \ inbox' : Fresh(n)'
  <2>1. worker[w].pc \in Busy
    BY <1>10 DEF Fail, CompleteCompensation, Busy
  <2>2. worker[w].exec \in Nat /\ worker[w].event \in DOMAIN outbox
    BY <1>1, <2>1, Rows DEF WorkerInv
  <2>3. PICK retryKind \in {"recovered", "retry"} :
           \E err, retryStatus :
              RetryOrReplan(worker[w].exec, err, retryStatus, retryKind)
    <3>1. CASE Fail(w)
      <4>1. PICK err : RetryOrReplan(worker[w].exec, err, "retry_wait", "retry")
        BY <3>1, FailType
      <4>. QED  BY <4>1
    <3>2. CASE CompleteCompensation(w)
      BY <3>2, CompleteCompensationType
    <3>. QED  BY <1>10, <3>1, <3>2
  <2>4. planStatus' # "replan_pending"
    BY DEF Open
  <2>5. Emit(retryKind, worker[w].exec)
    BY <2>3, <2>4 DEF RetryOrReplan
  <2>6. worker' = [worker EXCEPT ![w] = Idle]
        /\ inbox' \subseteq inbox \cup {worker[w].event}
    BY <1>10 DEF Fail, CompleteCompensation, Return, RecordOnce
  <2>. QED  BY <1>1, <2>2, <2>5, <2>6, FreshEmitted DEF ReleaseKind
<1>11. ASSUME NEW i \in DOMAIN outbox, FallDue(i)
       PROVE  UNCHANGED planVars /\ inbox' = inbox
  BY <1>11 DEF FallDue
<1>. QED
  BY <1>2, <1>3, <1>4, <1>5, <1>6, <1>7, <1>8, <1>9, <1>10, <1>11, StepCases

LEMMA WakeupInvStep ==
    ASSUME IInv, Next
    PROVE  WakeupInv'
BY CompensateEventStep, GuardStep, FreshStep
DEF WakeupInv, InFlight, Guarded, Guards, Fresh

-----------------------------------------------------------------------------
(* The theorems *)

\* A step that changes nothing.
LEMMA IInvStutter ==
    ASSUME IInv, UNCHANGED vars
    PROVE  IInv'
BY DEF IInv, vars, planVars, eventVars, boundVars, TypeOK, WorkerInv, Busy,
       OwnExecution, AcknowledgedIsRecorded, ExecutionInv, PlanInv, WakeupInv,
       Open, Active, TasksIn

\* The inductive invariant holds in every reachable state: every step of every
\* worker, every redelivery, crash and expired lease preserves it.
THEOREM Invariance == Spec => []IInv
<1>1. IInv /\ [Next]_vars => IInv'
  <2>1. IInv /\ Next => IInv'
    BY TypeStep, WorkerInvStep, OwnExecutionStep, AcknowledgedStep,
       ExecutionInvStep, PlanInvStep, WakeupInvStep DEF IInv
  <2>. QED  BY <2>1, IInvStutter
<1>. QED  BY <1>1, InitIInv, PTL DEF Spec

\* Type correctness.
THEOREM TypeCorrect == Spec => []TypeOK
<1>1. IInv => TypeOK
  BY DEF IInv
<1>. QED  BY <1>1, Invariance, PTL

\* At most one running executor will have its report accepted.
THEOREM OneReporter == Spec => []SingleReporter
<1>1. IInv => SingleReporter
  <2>1. ASSUME IInv, NEW w \in Workers, NEW v \in Workers,
               worker[w].pc = "execute", TokenValid(worker[w].exec),
               worker[v].pc = "execute", TokenValid(worker[v].exec)
        PROVE  w = v
    <3>1. worker[w].exec = worker[v].exec
      BY <2>1, TokenActive DEF IInv, ExecutionInv, Busy
    <3>. QED  BY <2>1, <3>1 DEF IInv, OwnExecution
  <2>. QED  BY <2>1 DEF SingleReporter
<1>. QED  BY <1>1, Invariance, PTL

\* No event is acknowledged before a transaction has recorded it.
THEOREM AcknowledgedAfterCommit == Spec => []AcknowledgedIsRecorded
<1>1. IInv => AcknowledgedIsRecorded
  BY DEF IInv
<1>. QED  BY <1>1, Invariance, PTL

\* The current task is the only running one, and its latest execution the only
\* one not closed.
THEOREM OneOwner == Spec => []SingleOwner
<1>1. IInv => SingleOwner
  <2>1. ASSUME IInv PROVE SingleOwner
    BY <2>1, LatestIsActive DEF IInv, PlanInv, ExecutionInv, SingleOwner
  <2>. QED  BY <2>1
<1>. QED  BY <1>1, Invariance, PTL

\* An open Plan that is not locked has an unrecorded, unacknowledged wakeup
\* that makes it progress.
THEOREM WakeupNotLost == Spec => []NoLostWakeup
<1>1. ASSUME IInv, Open, ~Locked
      PROVE  \E i \in DOMAIN outbox \ (inbox \cup dropped) :
                outbox[i].kind \in WakeupKind /\ Useful(i)
  <2>1. dropped = {}
    BY <1>1 DEF IInv, AcknowledgedIsRecorded
  <2>2. CASE currentTask = 0
    <3>1. PICK n \in DOMAIN outbox \ inbox : outbox[n].kind \in ReleaseKind
      BY <1>1, <2>2 DEF IInv, WakeupInv
    <3>. QED
      BY <2>1, <2>2, <3>1 DEF Useful, Directed, ReleaseKind, WakeupKind
  <2>3. CASE currentTask # 0
    <3>. DEFINE e == LatestExecution(currentTask)
    <3>1. e \in DOMAIN execs /\ InFlight(e)
      BY <1>1, <2>3, LatestIsActive
      DEF IInv, Active, ActiveStatus, Locked, InFlight
    <3>2. PICK i \in DOMAIN outbox \ inbox :
             outbox[i] \in [kind: {"lease", "compensate"}, exec: {e}]
      BY <1>1, <3>1 DEF IInv, WakeupInv, InFlight
    <3>3. \/ outbox[i] = [kind |-> "lease", exec |-> e]
          \/ outbox[i] = [kind |-> "compensate", exec |-> e]
      BY <3>2
    <3>. QED  BY <2>1, <2>3, <3>2, <3>3 DEF Useful, WakeupKind
  <2>. QED  BY <2>2, <2>3
<1>2. IInv => NoLostWakeup
  BY <1>1 DEF NoLostWakeup, Open
<1>. QED  BY <1>2, Invariance, PTL

\* An open Plan with nothing in flight always has a task to claim.
THEOREM AlwaysRunnable == Spec => []NeverStarved
<1>1. IInv => NeverStarved
  BY SomeRunnable DEF IInv, NeverStarved, Open
<1>. QED  BY <1>1, Invariance, PTL

LEMMA DependenciesStep ==
    ASSUME IInv, IInv', Next, DependenciesFirst
    PROVE  DependenciesFirst'
<1>1. TypeOK /\ WorkerInv /\ Grows
  BY TypeStep DEF IInv
<1>2. ASSUME NEW e \in DOMAIN execs'
      PROVE  execs'[e].attempt <= MaxAttempts
  <2>1. /\ execs'[e] \in Execution
        /\ execs'[e].attempt \in 1 .. attempts'[execs'[e].task]
    BY LenProperties, ElementOfSeq DEF IInv, TypeOK, ExecutionInv
  <2>2. execs'[e].task \in Tasks /\ execs'[e].attempt \in Nat
    BY <2>1 DEF Execution
  <2>3. /\ attempts'[execs'[e].task] \in Nat
        /\ attempts'[execs'[e].task] <= MaxAttempts
    BY <2>2, CountAssumption DEF IInv, TypeOK, PlanInv
  <2>. QED  BY <2>1, <2>2, <2>3, CountAssumption
<1>3. ASSUME NEW e \in DOMAIN execs'
      PROVE  Deps[execs'[e].task] \subseteq TasksIn({"succeeded"})'
  <2>1. CASE e \in DOMAIN execs
    BY <1>1, <2>1 DEF Grows, DependenciesFirst
  <2>2. CASE e \notin DOMAIN execs
    <3>1. PICK w \in Workers : ClaimTask(w)
      BY <2>2, ExecutionMoves DEF Becomes
    <3>2. PICK t \in Runnable(worker[w].seen) :
             /\ DOMAIN execs' = DOMAIN execs \cup {Len(execs) + 1}
             /\ execs'[Len(execs) + 1].task = t
      BY <3>1, ClaimTaskType
    <3>3. worker[w].seen \subseteq TasksIn({"succeeded"})
      BY <1>1, <3>1 DEF WorkerInv, ClaimTask, MayClaim
    <3>. QED  BY <1>1, <2>2, <3>2, <3>3 DEF Runnable, Grows
  <2>. QED  BY <2>1, <2>2
<1>. QED  BY <1>2, <1>3 DEF DependenciesFirst

\* An executor runs only for a task whose predecessors have all succeeded, in
\* spite of the outdated snapshot its Claim may have used, and at most
\* MaxAttempts times.
THEOREM DependenciesRespected == Spec => []DependenciesFirst
<1>1. Init => DependenciesFirst
  BY DEF Init, DependenciesFirst
<1>2. IInv /\ IInv' /\ DependenciesFirst /\ [Next]_vars => DependenciesFirst'
  <2>1. ASSUME DependenciesFirst, UNCHANGED vars
        PROVE  DependenciesFirst'
    BY <2>1 DEF DependenciesFirst, TasksIn, vars, planVars
  <2>. QED  BY <2>1, DependenciesStep
<1>. QED  BY <1>1, <1>2, Invariance, PTL DEF Spec

-----------------------------------------------------------------------------
(* How executions are closed *)

\* What an execution that a step does not touch needs to stay properly closed:
\* that nobody takes back a success or starts the task again.
LEMMA UntouchedStaysClosed ==
    ASSUME IInv, Next, ClosureInv, NEW e \in DOMAIN execs,
           execs'[e] = execs[e]
    PROVE  ClosedProperly(e)'
<1>1. TypeOK /\ Grows /\ execs[e].task \in Tasks
  BY TypeStep, Rows DEF IInv
<1>2. execs[e].status = "succeeded"
      => /\ taskStatus'[execs[e].task] = "succeeded"
         /\ attempts'[execs[e].task] = attempts[execs[e].task]
  <2>. SUFFICES ASSUME execs[e].status = "succeeded"
                PROVE  /\ taskStatus'[execs[e].task] = "succeeded"
                       /\ attempts'[execs[e].task] = attempts[execs[e].task]
    OBVIOUS
  <2>1. execs[e].task \in TasksIn({"succeeded"})
    BY <1>1 DEF ClosureInv, ClosedProperly, TasksIn
  <2>2. taskStatus'[execs[e].task] = "succeeded"
    BY <1>1, <2>1 DEF Grows, TasksIn
  <2>3. ASSUME NEW w \in Workers, ClaimTask(w)
        PROVE  attempts'[execs[e].task] = attempts[execs[e].task]
    <3>1. PICK t \in Tasks :
             /\ taskStatus[t] \in {"pending", "retry_wait"}
             /\ attempts' = [attempts EXCEPT ![t] = @ + 1]
      BY <2>3, ClaimTaskType DEF Runnable, TasksIn
    <3>2. t # execs[e].task
      BY <2>1, <3>1 DEF TasksIn
    <3>. QED  BY <1>1, <3>1, <3>2 DEF TypeOK
  <2>. QED  BY <2>2, <2>3, ExecutionMoves
<1>. QED  BY <1>2 DEF ClosureInv, ClosedProperly

\* A step that writes one row, and leaves it properly closed.
LEMMA ClosureByUpdate ==
    ASSUME IInv, Next, ClosureInv, NEW e \in DOMAIN execs,
           DOMAIN execs' = DOMAIN execs,
           \A f \in DOMAIN execs : f # e => execs'[f] = execs[f],
           ClosedProperly(e)'
    PROVE  ClosureInv'
BY UntouchedStaysClosed DEF ClosureInv

LEMMA ClosureStep ==
    ASSUME IInv, Next, ClosureInv
    PROVE  ClosureInv'
<1>1. TypeOK /\ ExecutionInv /\ WorkerInv /\ PlanInv
  BY DEF IInv
<1>2. CASE UNCHANGED execs
  BY <1>2, UntouchedStaysClosed DEF ClosureInv
<1>3. ASSUME NEW w \in Workers, ClaimTask(w)
      PROVE  ClosureInv'
  <2>1. PICK t :
           execs' = Append(execs,
                 [task |-> t, attempt |-> attempts[t] + 1,
                  status |-> "running", retryable |-> FALSE,
                  blocked |-> FALSE, stale |-> FALSE, compensations |-> 0])
    BY <1>3 DEF ClaimTask
  <2>2. /\ DOMAIN execs' = DOMAIN execs \cup {Len(execs) + 1}
        /\ \A f \in DOMAIN execs : execs'[f] = execs[f]
    BY <1>3, ClaimTaskType
  <2>3. /\ execs'[Len(execs) + 1].status = "running"
        /\ ~execs'[Len(execs) + 1].stale
    BY <1>1, <2>1, AppendProperties DEF TypeOK
  <2>4. PICK n : n = Len(execs) + 1
    OBVIOUS
  <2>5. ClosedProperly(n)'
    BY <2>3, <2>4 DEF ClosedProperly
  <2>. QED  BY <2>2, <2>4, <2>5, UntouchedStaysClosed DEF ClosureInv
<1>4. ASSUME NEW w \in Workers, ClaimRecovery(w) \/ ClaimNoRecovery(w)
      PROVE  ClosureInv'
  <2>1. PICK e \in DOMAIN execs :
        /\ execs' = MarkStale(e)
        /\ Becomes(e, IF execs[e].status = "running"
                      THEN "compensation_required" ELSE execs[e].status)
    BY <1>4, ClaimRecoveryType
    DEF ClaimRecovery, ClaimNoRecovery, Becomes
  <2>2. CASE execs[e].status = "running"
    <3>1. execs'[e] = [execs[e] EXCEPT !.status = "compensation_required",
                                       !.retryable = TRUE,
                                       !.blocked = FALSE,
                                       !.stale = TRUE]
      BY <1>1, <2>1, <2>2 DEF MarkStale, TypeOK
    <3>2. execs[e] \in Execution
      BY <1>1, <2>1, Rows
    <3>3. execs'[e].status = "compensation_required" /\ execs'[e].stale
      BY <3>1, <3>2 DEF Execution
    <3>4. ClosedProperly(e)'
      BY <3>3 DEF ClosedProperly
    <3>. QED  BY <2>1, <3>4, ClosureByUpdate DEF Becomes
  <2>3. CASE execs[e].status # "running"
    BY <1>2, <2>1, <2>3 DEF MarkStale
  <2>. QED  BY <2>2, <2>3
<1>5. ASSUME NEW w \in Workers, RequireCompensation(w) \/ Fail(w)
      PROVE  ClosureInv'
  <2>1. PICK e \in DOMAIN execs :
        /\ e = worker[w].exec
        /\ execs[e] \in Execution
        /\ execs[e].status = "running" /\ ~execs[e].stale
        /\ execs[e].task \in Tasks
    BY <1>1, <1>5, Rows
    DEF RequireCompensation, Fail, TokenValid, WorkerInv, Busy, ClosureInv,
        ClosedProperly
  <2>2. PICK err \in Errors,
             st \in {"failed", "compensation_required"} :
           /\ execs' = [execs EXCEPT ![e] = [@ EXCEPT
                            !.status = st, !.retryable = err.retryable,
                            !.blocked = err.blocked]]
           /\ st = "failed" <=> ~NeedsCompensation(e, err)
    BY <1>5, <2>1 DEF RequireCompensation, Fail
  <2>3. /\ DOMAIN execs' = DOMAIN execs
        /\ \A f \in DOMAIN execs : f # e => execs'[f] = execs[f]
        /\ execs'[e] = [execs[e] EXCEPT !.status = st,
                           !.retryable = err.retryable, !.blocked = err.blocked]
    BY <1>1, <2>1, <2>2 DEF TypeOK
  <2>4. /\ execs'[e].status = st /\ execs'[e].stale = execs[e].stale
        /\ execs'[e].task = execs[e].task
    BY <2>1, <2>3 DEF Execution
  <2>5. ClosedProperly(e)'
    BY <2>1, <2>2, <2>4 DEF ClosedProperly, NeedsCompensation
  <2>. QED  BY <2>1, <2>3, <2>5, ClosureByUpdate
<1>6. ASSUME NEW w \in Workers,
             \/ BeginCompensation(w) \/ FailCompensation(w)
             \/ CompleteCompensation(w)
      PROVE  ClosureInv'
  <2>1. PICK e \in DOMAIN execs :
        /\ e = worker[w].exec
        /\ execs[e] \in Execution
        /\ execs[e].status = "compensation_required"
        /\ SideEffect[execs[e].task] \/ execs[e].stale
    BY <1>1, <1>6, Rows
    DEF BeginCompensation, FailCompensation, CompleteCompensation,
        CompensationTokenValid, WorkerInv, Busy, ClosureInv, ClosedProperly
  <2>2. CASE BeginCompensation(w)
    <3>1. execs' = [execs EXCEPT ![e].compensations = @ + 1]
      BY <2>1, <2>2 DEF BeginCompensation
    <3>2. /\ DOMAIN execs' = DOMAIN execs
          /\ \A f \in DOMAIN execs : f # e => execs'[f] = execs[f]
          /\ execs'[e] = [execs[e] EXCEPT !.compensations = @ + 1]
      BY <1>1, <2>1, <3>1 DEF TypeOK
    <3>3. /\ execs'[e].status = "compensation_required"
          /\ execs'[e].stale = execs[e].stale
          /\ execs'[e].task = execs[e].task
      BY <2>1, <3>2 DEF Execution
    <3>. QED  BY <2>1, <3>2, <3>3, ClosureByUpdate DEF ClosedProperly
  <2>3. ASSUME NEW st \in {"compensation_locked", "compensated"},
               execs' = [execs EXCEPT ![e].status = st],
               st = "compensation_locked"
               => execs[e].compensations >= MaxCompensationAttempts
        PROVE  ClosureInv'
    <3>1. /\ DOMAIN execs' = DOMAIN execs
          /\ \A f \in DOMAIN execs : f # e => execs'[f] = execs[f]
          /\ execs'[e] = [execs[e] EXCEPT !.status = st]
      BY <1>1, <2>1, <2>3 DEF TypeOK
    <3>2. /\ execs'[e].status = st
          /\ execs'[e].stale = execs[e].stale
          /\ execs'[e].task = execs[e].task
          /\ execs'[e].compensations = execs[e].compensations
      BY <2>1, <3>1 DEF Execution
    <3>3. ClosedProperly(e)'
      BY <2>1, <2>3, <3>2 DEF ClosedProperly
    <3>. QED  BY <2>1, <3>1, <3>3, ClosureByUpdate
  <2>4. CASE FailCompensation(w)
    <3>1. \/ UNCHANGED execs
          \/ /\ execs' = [execs EXCEPT ![e].status = "compensation_locked"]
             /\ execs[e].compensations >= MaxCompensationAttempts
      BY <2>1, <2>4 DEF FailCompensation, LastAttempt
    <3>. QED  BY <1>2, <2>3, <3>1
  <2>5. CASE CompleteCompensation(w)
    BY <2>1, <2>3, <2>5 DEF CompleteCompensation
  <2>. QED  BY <1>6, <2>2, <2>4, <2>5
<1>7. ASSUME NEW w \in Workers, Complete(w)
      PROVE  ClosureInv'
  <2>1. PICK e \in DOMAIN execs :
        /\ e = worker[w].exec /\ Active(e)
        /\ execs[e].task = currentTask /\ currentTask \in Tasks
        /\ execs[e].attempt = attempts[currentTask]
    BY <1>1, <1>7, TokenActive DEF Complete, Busy, ExecutionInv
  <2>2. /\ Becomes(e, "succeeded") /\ attempts' = attempts
        /\ taskStatus'[currentTask] = "succeeded"
    BY <1>1, <1>7, <2>1, CompleteType DEF Complete, TypeOK
  <2>3. ClosedProperly(e)'
    BY <2>1, <2>2 DEF ClosedProperly, Becomes
  <2>. QED  BY <2>1, <2>2, <2>3, ClosureByUpdate DEF Becomes
<1>8. ASSUME NEW w \in Workers, Quiet(w) \/ ClaimNoTask(w)
      PROVE  UNCHANGED execs
  BY <1>8
  DEF Quiet, Deliver, ClaimDuplicate, ReadInbox, ClaimTerminal,
      ClaimAlreadyRunning, ClaimConflict, ReportRefused, ClaimNoTask,
      FailCompensationRefused, CompensationRefused, Crash
<1>9. ASSUME NEW i \in DOMAIN outbox, FallDue(i)
      PROVE  UNCHANGED execs
  BY <1>9 DEF FallDue
<1>. QED
  BY <1>2, <1>3, <1>4, <1>5, <1>6, <1>7, <1>8, <1>9, StepCases

LEMMA ClosureHolds == Spec => [](IInv /\ ClosureInv)
<1>1. Init => ClosureInv
  BY DEF Init, ClosureInv
<1>2. IInv /\ ClosureInv /\ [Next]_vars => ClosureInv'
  <2>1. ASSUME ClosureInv, UNCHANGED vars
        PROVE  ClosureInv'
    BY <2>1 DEF ClosureInv, ClosedProperly, vars, planVars
  <2>. QED  BY <2>1, ClosureStep
<1>. QED  BY <1>1, <1>2, Invariance, PTL DEF Spec

\* A task is tried again only when its previous attempt has been undone.
THEOREM UndoneBeforeRetry == Spec => []RetryAfterCleanup
<1>1. ASSUME IInv, ClosureInv, NEW e \in DOMAIN execs, NEW f \in DOMAIN execs,
             execs[e].task = execs[f].task,
             execs[e].attempt < execs[f].attempt
      PROVE  execs[e].status =
                IF SideEffect[execs[e].task] \/ execs[e].stale
                THEN "compensated" ELSE "failed"
  <2>1. /\ execs[e].status \in ExecutionStatus /\ execs[e].task \in Tasks
        /\ execs[e].attempt \in Nat /\ execs[f].attempt \in Nat
        /\ attempts[execs[e].task] \in Nat
        /\ execs[f].attempt <= attempts[execs[e].task]
    BY <1>1, Rows DEF IInv, TypeOK, ExecutionInv
  <2>2. execs[e].attempt # attempts[execs[e].task]
    BY <1>1, <2>1
  <2>3. ~Active(e) /\ execs[e].status # "succeeded"
    BY <1>1, <2>2 DEF IInv, ExecutionInv, ClosureInv, ClosedProperly
  <2>4. execs[e].status \in {"compensated", "failed"}
    BY <2>1, <2>3 DEF Active, ActiveStatus, ExecutionStatus
  <2>. QED  BY <1>1, <2>4 DEF ClosureInv, ClosedProperly
<1>2. IInv /\ ClosureInv => RetryAfterCleanup
  BY <1>1 DEF RetryAfterCleanup
<1>. QED  BY <1>2, ClosureHolds, PTL

\* Compensation is locked only after its permitted attempts, and the Plan then
\* stays with the task that could not be undone.
THEOREM LockedAfterAttempts == Spec => []LockedIsExhausted
<1>1. IInv /\ ClosureInv => LockedIsExhausted
  BY DEF IInv, ExecutionInv, ClosureInv, ClosedProperly, LockedIsExhausted,
         Active, ActiveStatus
<1>. QED  BY <1>1, ClosureHolds, PTL

\* An execution that is closed or locked is not written any more, and a task
\* that has succeeded stays so.
Final ==
    /\ \A e \in DOMAIN execs :
          execs[e].status \in ClosedStatus \cup {"compensation_locked"}
          => execs'[e] = execs[e]
    /\ \A t \in Tasks :
          taskStatus[t] = "succeeded" => taskStatus'[t] = "succeeded"

LEMMA FinalStep ==
    ASSUME IInv, Next
    PROVE  Final
<1>1. \A t \in Tasks :
         taskStatus[t] = "succeeded" => taskStatus'[t] = "succeeded"
  BY TypeStep DEF Grows, TasksIn
<1>2. ASSUME NEW e \in DOMAIN execs,
             execs[e].status \in ClosedStatus \cup {"compensation_locked"}
      PROVE  execs'[e] = execs[e]
  <2>1. \/ execs'[e] = execs[e]
        \/ execs[e].status = "compensation_locked" /\ Active(e)
    <3>1. ~Active(e) \/ execs[e].status = "compensation_locked"
      BY <1>2 DEF Active, ActiveStatus, ClosedStatus
    <3>2. ASSUME NEW w \in Workers, ClaimTask(w)
          PROVE  execs'[e] = execs[e]
      BY <3>2, ClaimTaskType
    <3>. QED
      BY <3>1, <3>2, ExecutionMoves DEF Becomes, Active, ActiveStatus
  <2>2. ASSUME execs[e].status = "compensation_locked"
        PROVE  execs'[e] = execs[e]
    <3>1. Active(e) /\ e = LatestExecution(currentTask)
      BY <2>2, LatestIsActive DEF IInv, Active, ActiveStatus
    <3>2. ASSUME NEW w \in Workers,
                 ClaimRecovery(w) \/ ClaimNoRecovery(w)
          PROVE  execs' = execs
      BY <2>2, <3>1, <3>2
      DEF ClaimRecovery, ClaimNoRecovery, MarkStale
    <3>3. ASSUME NEW w \in Workers,
                 \/ Complete(w) \/ Fail(w) \/ RequireCompensation(w)
                 \/ BeginCompensation(w) \/ FailCompensation(w)
                 \/ CompleteCompensation(w)
          PROVE  FALSE
      <4>1. /\ worker[w].exec \in DOMAIN execs /\ Active(worker[w].exec)
            /\ execs[worker[w].exec].status # "compensation_locked"
        BY <3>3, TokenActive
        DEF Complete, Fail, RequireCompensation, BeginCompensation,
            FailCompensation, CompleteCompensation, TokenValid,
            CompensationTokenValid, Busy
      <4>2. worker[w].exec = e
        BY <3>1, <4>1, LatestIsActive DEF IInv
      <4>. QED  BY <2>2, <4>1, <4>2
    <3>4. ASSUME NEW w \in Workers, ClaimTask(w)
          PROVE  execs'[e] = execs[e]
      BY <3>4, ClaimTaskType
    <3>5. ASSUME NEW w \in Workers, Quiet(w) \/ ClaimNoTask(w)
          PROVE  UNCHANGED execs
      BY <3>5
      DEF Quiet, Deliver, ClaimDuplicate, ReadInbox, ClaimTerminal,
          ClaimAlreadyRunning, ClaimConflict, ReportRefused, ClaimNoTask,
          FailCompensationRefused, CompensationRefused, Crash
    <3>6. ASSUME NEW i \in DOMAIN outbox, FallDue(i)
          PROVE  UNCHANGED execs
      BY <3>6 DEF FallDue
    <3>. QED
      BY <3>2, <3>3, <3>4, <3>5, <3>6, StepCases
  <2>. QED  BY <2>1, <2>2
<1>. QED  BY <1>1, <1>2 DEF Final

\* No step rewrites an execution that is closed or locked, or takes back the
\* success of a task.
THEOREM ClosedStaysClosed == Spec => ClosedIsFinal
<1>1. IInv /\ [Next]_vars => [Final]_vars
  BY FinalStep
<1>. QED  BY <1>1, Invariance, PTL DEF Spec, ClosedIsFinal, Final

-----------------------------------------------------------------------------
(* The outcome of the Plan *)

LEMMA EventsOfEmit ==
    ASSUME TypeOK, NEW kind \in EventKind, NEW e \in Nat, Emit(kind, e),
           NEW k
    PROVE  /\ k # kind => EventsOf(k)' = EventsOf(k)
           /\ EventsOf(kind)' = EventsOf(kind) \cup {Len(outbox) + 1}
<1>1. /\ DOMAIN outbox' = DOMAIN outbox \cup {Len(outbox) + 1}
      /\ Len(outbox) + 1 \notin DOMAIN outbox
      /\ outbox'[Len(outbox) + 1].kind = kind
      /\ \A i \in DOMAIN outbox : outbox'[i] = outbox[i]
  <2>1. outbox'[Len(outbox) + 1] = [kind |-> kind, exec |-> e]
    BY EmitEvent
  <2>2. outbox'[Len(outbox) + 1].kind = kind
    BY <2>1
  <2>3. /\ DOMAIN outbox' = DOMAIN outbox \cup {Len(outbox) + 1}
        /\ Len(outbox) + 1 \notin DOMAIN outbox
        /\ \A i \in DOMAIN outbox : outbox'[i] = outbox[i]
    BY EmitEvent
  <2>. QED  BY <2>2, <2>3
<1>2. EventsOf(k)' = {i \in DOMAIN outbox' : outbox'[i].kind = k}
  BY DEF EventsOf
<1>3. EventsOf(kind)' = {i \in DOMAIN outbox' : outbox'[i].kind = kind}
  BY DEF EventsOf
<1>. QED  BY <1>1, <1>2, <1>3 DEF EventsOf

\* The outcome of a Plan that is open before and after a step that writes
\* neither an aggregation nor a replan event.
LEMMA StaysOpen ==
    ASSUME OutcomeInv, Open, Open', TasksIn({"succeeded"})' # Tasks,
           EventsOf("aggregate")' = EventsOf("aggregate"),
           EventsOf("replan")' = EventsOf("replan")
    PROVE  OutcomeInv'
BY DEF OutcomeInv, FailedPlan, OneOutcomeEvent, Open, TasksIn

\* An execution that is closed with an error leaves the Plan open, or ends it
\* with its one replan event.
LEMMA RetryOrReplanOutcome ==
    ASSUME IInv, OutcomeInv, NEW e \in DOMAIN execs, NEW err,
           execs[e].task = currentTask, currentTask \in Tasks,
           taskStatus[currentTask] = "running", planStatus = "running",
           NEW retryStatus \in {"pending", "retry_wait"},
           NEW retryKind \in {"retry", "recovered"},
           RetryOrReplan(e, err, retryStatus, retryKind)
    PROVE  OutcomeInv'
<1>1. /\ TypeOK /\ PlanInv /\ e \in Nat
      /\ EventsOf("aggregate") = {} /\ EventsOf("replan") = {}
  BY Rows DEF IInv, OutcomeInv, OneOutcomeEvent
<1>2. CASE /\ taskStatus' = [taskStatus EXCEPT ![currentTask] = retryStatus]
           /\ planStatus' = planStatus
           /\ Emit(retryKind, e)
  <2>1. /\ EventsOf("aggregate")' = EventsOf("aggregate")
        /\ EventsOf("replan")' = EventsOf("replan")
    BY <1>1, <1>2, EventsOfEmit DEF EventKind, WakeupKind
  <2>2. currentTask \notin TasksIn({"succeeded"})'
    BY <1>1, <1>2 DEF TypeOK, TasksIn
  <2>3. Open /\ Open'
    BY <1>2 DEF Open
  <2>. QED  BY <2>1, <2>2, <2>3, StaysOpen
<1>3. CASE /\ taskStatus' = [taskStatus EXCEPT ![currentTask] =
                                IF err.blocked THEN "blocked" ELSE "failed"]
           /\ planStatus' = "replan_pending"
           /\ Emit("replan", e)
  <2>1. /\ EventsOf("aggregate")' = {}
        /\ EventsOf("replan")' = {Len(outbox) + 1}
    BY <1>1, <1>3, EventsOfEmit DEF EventKind
  <2>2. taskStatus'[currentTask] \in {"failed", "blocked"}
    BY <1>1, <1>3 DEF TypeOK
  <2>3. FailedPlan' /\ ExactlyOne(EventsOf("replan"))'
    BY <2>1, <2>2 DEF FailedPlan, TasksIn, ExactlyOne
  <2>. QED
    BY <1>3, <2>1, <2>2, <2>3 DEF OutcomeInv, OneOutcomeEvent
<1>. QED  BY <1>2, <1>3 DEF RetryOrReplan

LEMMA CompleteOutcome ==
    ASSUME IInv, OutcomeInv, NEW w \in Workers, Complete(w)
    PROVE  OutcomeInv'
<1>. DEFINE e == worker[w].exec
<1>1. /\ TypeOK /\ PlanInv /\ e \in Nat /\ Open /\ planStatus = "running"
      /\ currentTask \in Tasks /\ execs[e].task = currentTask
      /\ EventsOf("aggregate") = {} /\ EventsOf("replan") = {}
  BY TokenActive, Rows
  DEF IInv, OutcomeInv, OneOutcomeEvent, Complete, Busy, Open
<1>2. \A t \in Tasks :
         taskStatus'[t] = IF t = currentTask THEN "succeeded"
                                             ELSE taskStatus[t]
  BY <1>1 DEF Complete, TypeOK
<1>3. CASE planStatus' = "completed" /\ Emit("aggregate", e)
           /\ \A u \in Tasks \ {currentTask} : taskStatus[u] = "succeeded"
  <2>1. /\ EventsOf("aggregate")' = {Len(outbox) + 1}
        /\ EventsOf("replan")' = {}
    BY <1>1, <1>3, EventsOfEmit DEF EventKind
  <2>2. \A t \in Tasks : taskStatus'[t] = "succeeded"
    BY <1>2, <1>3
  <2>3. ExactlyOne(EventsOf("aggregate"))'
    BY <2>1 DEF ExactlyOne
  <2>. QED
    BY <1>3, <2>1, <2>2, <2>3 DEF OutcomeInv, OneOutcomeEvent, FailedPlan
<1>4. CASE /\ planStatus' = planStatus
           /\ Emit("next", e) \/ UNCHANGED eventVars
           /\ \E u \in Tasks : u # currentTask /\ taskStatus[u] # "succeeded"
  <2>1. /\ EventsOf("aggregate")' = EventsOf("aggregate")
        /\ EventsOf("replan")' = EventsOf("replan")
    <3>1. CASE Emit("next", e)
      BY <1>1, <3>1, EventsOfEmit DEF EventKind, WakeupKind
    <3>2. CASE UNCHANGED eventVars
      BY <3>2 DEF eventVars, EventsOf
    <3>. QED  BY <1>4, <3>1, <3>2
  <2>2. TasksIn({"succeeded"})' # Tasks
    BY <1>2, <1>4 DEF TasksIn
  <2>3. Open'
    BY <1>1, <1>4 DEF Open
  <2>. QED  BY <1>1, <2>1, <2>2, <2>3, StaysOpen
<1>5. CASE TasksIn({"pending", "retry_wait"}) # {}
  <2>1. PICK u \in Tasks : taskStatus[u] \in {"pending", "retry_wait"}
    BY <1>5 DEF TasksIn
  <2>2. u # currentTask
    BY <1>1, <2>1 DEF PlanInv
  <2>. QED  BY <1>4, <1>5, <2>1, <2>2 DEF Complete
<1>6. CASE TasksIn({"pending", "retry_wait"}) = {}
  BY <1>1, <1>3, <1>4, <1>6 DEF Complete
<1>. QED  BY <1>5, <1>6

LEMMA OutcomeStep ==
    ASSUME IInv, Next, OutcomeInv
    PROVE  OutcomeInv'
<1>1. TypeOK /\ PlanInv /\ WorkerInv
  BY DEF IInv
<1>2. CASE UNCHANGED <<planStatus, taskStatus, outbox>>
  BY <1>2
  DEF OutcomeInv, FailedPlan, OneOutcomeEvent, EventsOf, ExactlyOne, TasksIn
<1>3. ASSUME NEW w \in Workers,
             \/ Quiet(w) \/ ClaimRecovery(w) \/ ClaimNoRecovery(w)
             \/ RequireCompensation(w) \/ BeginCompensation(w)
      PROVE  UNCHANGED <<planStatus, taskStatus, outbox>>
  <2>1. CASE Quiet(w)
    BY <2>1
    DEF Quiet, Deliver, ClaimDuplicate, ReadInbox, ClaimTerminal,
        ClaimAlreadyRunning, ClaimConflict, ReportRefused,
        FailCompensationRefused, CompensationRefused, Crash, planVars,
        eventVars
  <2>. QED
    BY <1>3, <2>1
    DEF ClaimRecovery, ClaimNoRecovery, RequireCompensation,
        BeginCompensation, planVars, eventVars
<1>4. ASSUME NEW w \in Workers, ClaimNoTask(w)
      PROVE  OutcomeInv'
  <2>1. /\ planStatus' = planStatus /\ outbox' = outbox
        /\ TasksIn({"succeeded"})' = TasksIn({"succeeded"})
        /\ TasksIn({"failed", "blocked"})' = TasksIn({"failed", "blocked"})
    BY <1>4, ClaimNoTaskType DEF ClaimNoTask, eventVars
  <2>2. (\A t \in Tasks : taskStatus'[t] = "succeeded")
        <=> \A t \in Tasks : taskStatus[t] = "succeeded"
    BY <2>1 DEF TasksIn
  <2>. QED
    BY <2>1, <2>2
    DEF OutcomeInv, FailedPlan, OneOutcomeEvent, EventsOf, ExactlyOne
<1>5. ASSUME NEW w \in Workers, ClaimTask(w)
      PROVE  OutcomeInv'
  <2>1. /\ Len(execs) + 1 \in Nat /\ Emit("lease", Len(execs) + 1)
        /\ Open /\ Open'
    <3>1. Len(execs) + 1 \in Nat
      BY <1>1, Rows
    <3>2. Emit("lease", Len(execs) + 1)
      BY <1>5, ClaimTaskType
    <3>. QED  BY <1>5, <3>1, <3>2 DEF ClaimTask, MayClaim, Open
  <2>2. /\ EventsOf("aggregate")' = EventsOf("aggregate")
        /\ EventsOf("replan")' = EventsOf("replan")
    BY <1>1, <2>1, EventsOfEmit DEF EventKind, WakeupKind
  <2>3. PlanInv'
    BY <1>5, ClaimTaskPlan
  <2>. QED  BY <2>1, <2>2, <2>3, StaysOpen DEF PlanInv
<1>6. ASSUME NEW w \in Workers, FailCompensation(w)
      PROVE  OutcomeInv'
  <2>1. /\ planStatus' = planStatus /\ taskStatus' = taskStatus
        /\ worker[w].exec \in Nat
        /\ Emit("compensate", worker[w].exec) \/ UNCHANGED eventVars
    BY <1>1, <1>6, Rows DEF FailCompensation, planVars, WorkerInv, Busy
  <2>2. CASE UNCHANGED eventVars
    BY <1>2, <2>1, <2>2 DEF eventVars
  <2>3. CASE Emit("compensate", worker[w].exec)
    <3>1. /\ EventsOf("aggregate")' = EventsOf("aggregate")
          /\ EventsOf("replan")' = EventsOf("replan")
      BY <1>1, <2>1, <2>3, EventsOfEmit DEF EventKind, WakeupKind
    <3>2. TasksIn({"failed", "blocked"})' = TasksIn({"failed", "blocked"})
      BY <2>1 DEF TasksIn
    <3>. QED
      BY <2>1, <3>1, <3>2 DEF OutcomeInv, FailedPlan, OneOutcomeEvent, ExactlyOne
  <2>. QED  BY <2>1, <2>2, <2>3
<1>7. ASSUME NEW w \in Workers, Fail(w)
      PROVE  OutcomeInv'
  <2>1. \E err \in Errors :
           RetryOrReplan(worker[w].exec, err, "retry_wait", "retry")
    BY <1>7, FailType
  <2>. QED  BY <1>7, <2>1, TokenActive, RetryOrReplanOutcome DEF Fail, Busy
<1>8. ASSUME NEW w \in Workers, CompleteCompensation(w)
      PROVE  OutcomeInv'
  BY <1>8, CompleteCompensationType, TokenActive, RetryOrReplanOutcome
  DEF CompleteCompensation, Busy
<1>9. ASSUME NEW i \in DOMAIN outbox, FallDue(i)
      PROVE  UNCHANGED <<planStatus, taskStatus, outbox>>
  BY <1>9 DEF FallDue, planVars
<1>. QED
  BY <1>2, <1>3, <1>4, <1>5, <1>6, <1>7, <1>8, <1>9, CompleteOutcome,
     StepCases

LEMMA OutcomeInvariance == Spec => []OutcomeInv
<1>1. ASSUME Init
      PROVE  OutcomeInv
  <2>1. 1 \in Tasks
    BY CountAssumption DEF Tasks
  <2>. QED
    BY <1>1, <2>1
    DEF Init, OutcomeInv, FailedPlan, OneOutcomeEvent, EventsOf
<1>2. IInv /\ OutcomeInv /\ [Next]_vars => OutcomeInv'
  <2>1. ASSUME OutcomeInv, UNCHANGED vars
        PROVE  OutcomeInv'
    BY <2>1
    DEF OutcomeInv, FailedPlan, OneOutcomeEvent, EventsOf, ExactlyOne,
        TasksIn, vars, planVars, eventVars
  <2>. QED  BY <2>1, OutcomeStep
<1>. QED  BY <1>1, <1>2, Invariance, PTL DEF Spec

\* A Plan asks for its aggregation exactly once, when all its tasks have
\* succeeded, and for a replan exactly once, when one has failed for good.
THEOREM OutcomeOnce == Spec => []OneOutcomeEvent
<1>1. OutcomeInv => OneOutcomeEvent
  BY DEF OutcomeInv
<1>. QED  BY <1>1, OutcomeInvariance, PTL

-----------------------------------------------------------------------------
(* The Task Runtime implements the life cycle of a Plan *)

\* At most one execution is not closed, so that a Plan with a locked execution
\* has no other one to report on.
LEMMA NotFrozen ==
    ASSUME IInv, NEW w \in Workers, worker[w].pc \in Busy,
           \/ TokenValid(worker[w].exec)
           \/ CompensationTokenValid(worker[w].exec)
    PROVE  ~Locked
<1>1. /\ worker[w].exec \in DOMAIN execs /\ Active(worker[w].exec)
      /\ execs[worker[w].exec].status # "compensation_locked"
  BY TokenActive DEF TokenValid, CompensationTokenValid
<1>2. ASSUME NEW f \in DOMAIN execs, execs[f].status = "compensation_locked"
      PROVE  f = worker[w].exec
  BY <1>1, <1>2 DEF IInv, ExecutionInv, Active, ActiveStatus
<1>. QED  BY <1>1, <1>2 DEF Locked

\* Closing the active execution with an error gives the task back or fails the
\* Plan.
LEMMA RetryOrReplanRefines ==
    ASSUME IInv, NEW w \in Workers, worker[w].pc \in Busy,
           \/ TokenValid(worker[w].exec)
           \/ CompensationTokenValid(worker[w].exec),
           NEW st \in ClosedStatus, Becomes(worker[w].exec, st),
           NEW err,
           NEW retryStatus \in {"pending", "retry_wait"}, NEW retryKind,
           RetryOrReplan(worker[w].exec, err, retryStatus, retryKind)
    PROVE  Lifecycle!Next
<1>. DEFINE e == worker[w].exec
<1>1. /\ TypeOK /\ e \in DOMAIN execs /\ execs[e].task = currentTask
      /\ currentTask \in Tasks /\ planStatus = "running"
      /\ taskStatus[currentTask] = "running" /\ ~Locked
      /\ attempts' = attempts /\ currentTask' = 0 /\ currentTask # 0
  BY TokenActive, NotFrozen DEF IInv, RetryOrReplan, Tasks
<1>2. ~Locked'
  BY <1>1 DEF Becomes, Locked, ClosedStatus
<1>3. /\ Phase = "open" /\ Locked' = Locked
      /\ {currentTask} \ {0} = {currentTask}
      /\ {currentTask'} \ {0} = {}
  BY <1>1, <1>2 DEF Phase, Locked
<1>4. CASE /\ attempts[currentTask] < MaxAttempts
           /\ taskStatus' = [taskStatus EXCEPT ![currentTask] = retryStatus]
           /\ planStatus' = planStatus
  <2>1. TasksIn({"succeeded"})' = TasksIn({"succeeded"})
    BY <1>1, <1>4 DEF TypeOK, TasksIn
  <2>2. Lifecycle!Release(currentTask)
    BY <1>1, <1>2, <1>3, <1>4, <2>1 DEF Lifecycle!Release, Phase
  <2>. QED  BY <1>1, <2>2 DEF Lifecycle!Next
<1>5. CASE /\ taskStatus' = [taskStatus EXCEPT ![currentTask] =
                                IF err.blocked THEN "blocked" ELSE "failed"]
           /\ planStatus' = "replan_pending"
  <2>1. TasksIn({"succeeded"})' = TasksIn({"succeeded"})
    BY <1>1, <1>5 DEF TypeOK, TasksIn
  <2>2. Lifecycle!GiveUp(currentTask)
    BY <1>1, <1>2, <1>3, <1>5, <2>1 DEF Lifecycle!GiveUp, Phase
  <2>. QED  BY <1>1, <2>2 DEF Lifecycle!Next
<1>. QED  BY <1>1, <1>4, <1>5 DEF RetryOrReplan, MayRetry

LEMMA ClaimTaskRefines ==
    ASSUME IInv, NEW w \in Workers, ClaimTask(w)
    PROVE  Lifecycle!Next
<1>1. /\ TypeOK /\ PlanInv /\ WorkerInv /\ currentTask = 0 /\ 0 \notin Tasks
      /\ planStatus \in {"ready", "running"} /\ planStatus' = "running"
      /\ worker[w].seen \subseteq TasksIn({"succeeded"})
  BY DEF IInv, ClaimTask, MayClaim, WorkerInv, Tasks
<1>2. PICK t \in Runnable(worker[w].seen) :
         /\ taskStatus[t] \in {"pending", "retry_wait"}
         /\ taskStatus' = [RetryWaitToPending EXCEPT ![t] = "running"]
         /\ attempts' = [attempts EXCEPT ![t] = @ + 1]
         /\ currentTask' = t
         /\ DOMAIN execs' = DOMAIN execs \cup {Len(execs) + 1}
         /\ \A f \in DOMAIN execs : execs'[f] = execs[f]
         /\ execs'[Len(execs) + 1].status = "running"
  BY ClaimTaskType
<1>3. /\ t \in Tasks /\ t # 0 /\ Deps[t] \subseteq TasksIn({"succeeded"})
      /\ t \notin TasksIn({"succeeded"}) /\ attempts[t] < MaxAttempts
  BY <1>1, <1>2 DEF Runnable, TasksIn, PlanInv
<1>4. TasksIn({"succeeded"})' = TasksIn({"succeeded"})
  BY <1>1, <1>2, <1>3 DEF RetryWaitToPending, TypeOK, TasksIn
<1>5. Locked' <=> Locked
  BY <1>2 DEF Locked
<1>6. Phase = "open" /\ Phase' = "open"
  BY <1>1 DEF Phase
<1>7. Lifecycle!Take(t)
  BY <1>1, <1>2, <1>3, <1>4, <1>5, <1>6 DEF Lifecycle!Take
<1>. QED  BY <1>3, <1>7 DEF Lifecycle!Next

LEMMA CompleteRefines ==
    ASSUME IInv, NEW w \in Workers, Complete(w)
    PROVE  Lifecycle!Next
<1>. DEFINE e == worker[w].exec
<1>1. /\ TypeOK /\ PlanInv /\ e \in DOMAIN execs /\ currentTask \in Tasks
      /\ execs[e].task = currentTask /\ planStatus = "running"
      /\ ~Locked /\ attempts' = attempts /\ currentTask' = 0
      /\ currentTask # 0
  BY TokenActive, NotFrozen DEF IInv, Complete, Busy, Tasks
<1>2. ~Locked'
  BY <1>1, CompleteType DEF Becomes, Locked
<1>3. \A t \in Tasks :
         taskStatus'[t] = IF t = currentTask THEN "succeeded"
                                             ELSE taskStatus[t]
  BY <1>1 DEF Complete, TypeOK
<1>4. TasksIn({"succeeded"})' = TasksIn({"succeeded"}) \cup {currentTask}
  BY <1>1, <1>3 DEF TasksIn
<1>5. Phase' = IF TasksIn({"succeeded"})' = Tasks THEN "completed" ELSE "open"
  <2>1. CASE TasksIn({"pending", "retry_wait"}) # {}
    <3>1. PICK u \in Tasks : taskStatus[u] \in {"pending", "retry_wait"}
      BY <2>1 DEF TasksIn
    <3>2. u # currentTask
      BY <1>1, <3>1 DEF PlanInv
    <3>3. TasksIn({"succeeded"})' # Tasks
      BY <1>3, <3>1, <3>2 DEF TasksIn
    <3>4. planStatus' = planStatus
      BY <2>1 DEF Complete
    <3>. QED  BY <1>1, <3>3, <3>4 DEF Phase
  <2>2. CASE TasksIn({"pending", "retry_wait"}) = {}
    <3>1. (\A u \in Tasks \ {currentTask} : taskStatus[u] = "succeeded")
          <=> TasksIn({"succeeded"})' = Tasks
      BY <1>1, <1>3 DEF TasksIn
    <3>2. IF \A u \in Tasks \ {currentTask} : taskStatus[u] = "succeeded"
          THEN planStatus' = "completed" ELSE planStatus' = planStatus
      BY <1>1, <2>2 DEF Complete
    <3>. QED  BY <1>1, <3>1, <3>2 DEF Phase
  <2>. QED  BY <2>1, <2>2
<1>6. /\ Locked' = Locked /\ {currentTask} \ {0} = {currentTask}
      /\ {currentTask'} \ {0} = {}
  BY <1>1, <1>2 DEF Locked
<1>7. Lifecycle!Succeed(currentTask)
  BY <1>1, <1>4, <1>5, <1>6 DEF Lifecycle!Succeed
<1>. QED  BY <1>1, <1>7 DEF Lifecycle!Next

\* A step that leaves the Plan and its tasks alone is a stutter, or the one that
\* gives up the compensation of the current task.
LEMMA ExecutionStepRefines ==
    ASSUME IInv, Next, UNCHANGED planVars,
           \/ UNCHANGED execs
           \/ \E e \in DOMAIN execs, st \in ActiveStatus :
                 Active(e) /\ Becomes(e, st)
    PROVE  Lifecycle!Next \/ UNCHANGED Lifecycle!vars
<1>1. TypeOK /\ ExecutionInv
  BY DEF IInv
<1>2. /\ Phase' = Phase /\ TasksIn({"succeeded"})' = TasksIn({"succeeded"})
      /\ currentTask' = currentTask /\ attempts' = attempts
  BY DEF planVars, Phase, TasksIn
<1>3. CASE Locked' = Locked
  BY <1>2, <1>3 DEF Lifecycle!vars
<1>4. CASE ~Locked /\ Locked'
  <2>1. PICK e \in DOMAIN execs : Active(e)
    BY <1>4 DEF Locked
  <2>2. currentTask \in Tasks /\ currentTask # 0
    BY <1>1, <2>1, Rows DEF ExecutionInv, Tasks
  <2>3. Lifecycle!Freeze
    BY <1>2, <1>4, <2>2 DEF Lifecycle!Freeze
  <2>. QED  BY <2>3 DEF Lifecycle!Next
<1>5. Locked => Locked'
  BY FinalStep DEF Final, Locked, Becomes
<1>. QED  BY <1>3, <1>4, <1>5 DEF Locked

LEMMA RefinementStep ==
    ASSUME IInv, Next
    PROVE  Lifecycle!Next \/ UNCHANGED Lifecycle!vars
<1>1. TypeOK
  BY DEF IInv
<1>2. ASSUME NEW w \in Workers, Quiet(w)
      PROVE  UNCHANGED planVars /\ UNCHANGED execs
  BY <1>2
  DEF Quiet, Deliver, ClaimDuplicate, ReadInbox, ClaimTerminal,
      ClaimAlreadyRunning, ClaimConflict, ReportRefused,
      FailCompensationRefused, CompensationRefused, Crash
<1>3. ASSUME NEW w \in Workers, ClaimRecovery(w) \/ ClaimNoRecovery(w)
      PROVE  /\ UNCHANGED planVars
             /\ \E e \in DOMAIN execs, st \in ActiveStatus :
                   Active(e) /\ Becomes(e, st)
  <2>. DEFINE e == LatestExecution(currentTask)
              st == IF execs[e].status = "running"
                    THEN "compensation_required" ELSE execs[e].status
  <2>1. Active(e) /\ Becomes(e, st)
    BY <1>3, ClaimRecoveryType
  <2>2. e \in DOMAIN execs /\ st \in ActiveStatus
    BY <2>1 DEF Becomes, Active, ActiveStatus
  <2>. QED  BY <1>3, <2>1, <2>2 DEF ClaimRecovery, ClaimNoRecovery
<1>4. ASSUME NEW w \in Workers, RequireCompensation(w) \/ BeginCompensation(w)
      PROVE  /\ UNCHANGED planVars
             /\ \E e \in DOMAIN execs, st \in ActiveStatus :
                   Active(e) /\ Becomes(e, st)
  <2>1. Becomes(worker[w].exec, "compensation_required")
    BY <1>4, RequireCompensationType, BeginCompensationType
  <2>2. worker[w].exec \in DOMAIN execs /\ Active(worker[w].exec)
    BY <1>4, TokenActive DEF RequireCompensation, BeginCompensation, Busy
  <2>. QED
    BY <1>4, <2>1, <2>2
    DEF RequireCompensation, BeginCompensation, ActiveStatus
<1>5. ASSUME NEW w \in Workers, FailCompensation(w)
      PROVE  /\ UNCHANGED planVars
             /\ \/ UNCHANGED execs
                \/ \E e \in DOMAIN execs, st \in ActiveStatus :
                      Active(e) /\ Becomes(e, st)
  <2>1. Becomes(worker[w].exec, "compensation_locked") \/ UNCHANGED execs
    BY <1>5, FailCompensationType
  <2>2. worker[w].exec \in DOMAIN execs /\ Active(worker[w].exec)
    BY <1>5, TokenActive DEF FailCompensation, Busy
  <2>. QED  BY <1>5, <2>1, <2>2 DEF FailCompensation, ActiveStatus
<1>6. ASSUME NEW i \in DOMAIN outbox, FallDue(i)
      PROVE  UNCHANGED planVars /\ UNCHANGED execs
  BY <1>6 DEF FallDue
<1>7. ASSUME NEW w \in Workers, ClaimNoTask(w)
      PROVE  UNCHANGED Lifecycle!vars
  <2>1. TasksIn({"succeeded"})' = TasksIn({"succeeded"})
    BY <1>7, ClaimNoTaskType
  <2>2. UNCHANGED <<planStatus, currentTask, attempts, execs>>
    BY <1>7 DEF ClaimNoTask
  <2>. QED  BY <2>1, <2>2 DEF Lifecycle!vars, Phase, Locked
<1>8. ASSUME NEW w \in Workers, Fail(w)
      PROVE  Lifecycle!Next
  <2>1. /\ Becomes(worker[w].exec, "failed")
        /\ \E err \in Errors :
              RetryOrReplan(worker[w].exec, err, "retry_wait", "retry")
    BY <1>8, FailType
  <2>. QED
    BY <1>8, <2>1, RetryOrReplanRefines DEF Fail, Busy, ClosedStatus
<1>9. ASSUME NEW w \in Workers, CompleteCompensation(w)
      PROVE  Lifecycle!Next
  BY <1>9, CompleteCompensationType, RetryOrReplanRefines
  DEF CompleteCompensation, Busy, ClosedStatus
<1>. QED
  BY <1>2, <1>3, <1>4, <1>5, <1>6, <1>7, <1>8, <1>9, StepCases,
     ExecutionStepRefines, ClaimTaskRefines, CompleteRefines

\* Seen from outside, workers, redeliveries, leases and compensations do
\* nothing but what the life cycle of a Plan permits.
THEOREM LifecycleImplemented == Spec => ImplementsLifecycle
<1>1. Init => Lifecycle!Init
  BY DEF Init, Lifecycle!Init, Phase, TasksIn, Locked
<1>2. IInv /\ [Next]_vars => [Lifecycle!Next]_(Lifecycle!vars)
  <2>1. ASSUME UNCHANGED vars
        PROVE  UNCHANGED Lifecycle!vars
    BY <2>1 DEF vars, planVars, Lifecycle!vars, Phase, TasksIn, Locked
  <2>. QED  BY <2>1, RefinementStep
<1>. QED
  BY <1>1, <1>2, Invariance, PTL DEF Spec, ImplementsLifecycle, Lifecycle!Spec

-----------------------------------------------------------------------------
(* What the rest of the system sees of the execution *)

\* The events of its outcome follow from the status of the Plan.
LEMMA AskedIs ==
    ASSUME OutcomeInv
    PROVE  Asked = CASE planStatus = "completed"      -> {"aggregate"}
                     [] planStatus = "replan_pending" -> {"replan"}
                     [] OTHER                         -> {}
BY DEF OutcomeInv, OneOutcomeEvent, ExactlyOne, Asked

\* A Plan starts with its first task and ends with an execution of its own.
LEMMA StatusMoves ==
    ASSUME IInv, Next
    PROVE  \/ planStatus' = planStatus
           \/ planStatus = "ready" /\ planStatus' = "running"
           \/ planStatus = "running" /\ planStatus' \in TerminalPlanStatus
<1>1. ASSUME NEW w \in Workers, Quiet(w)
      PROVE  planStatus' = planStatus
  BY <1>1
  DEF Quiet, Deliver, ClaimDuplicate, ReadInbox, ClaimTerminal,
      ClaimAlreadyRunning, ClaimConflict, ReportRefused,
      FailCompensationRefused, CompensationRefused, Crash, planVars
<1>2. ASSUME NEW w \in Workers,
             \/ ClaimRecovery(w) \/ ClaimNoRecovery(w) \/ ClaimNoTask(w)
             \/ RequireCompensation(w) \/ BeginCompensation(w)
             \/ FailCompensation(w)
      PROVE  planStatus' = planStatus
  BY <1>2
  DEF ClaimRecovery, ClaimNoRecovery, ClaimNoTask, RequireCompensation,
      BeginCompensation, FailCompensation, planVars
<1>3. ASSUME NEW w \in Workers, ClaimTask(w)
      PROVE  planStatus \in {"ready", "running"} /\ planStatus' = "running"
  BY <1>3 DEF ClaimTask, MayClaim
<1>4. ASSUME NEW w \in Workers, Complete(w)
      PROVE  planStatus = "running" /\ planStatus' \in {"running", "completed"}
  <2>1. planStatus = "running"
    BY <1>4, TokenActive DEF Complete, Busy
  <2>. QED  BY <1>4, <2>1 DEF Complete
<1>5. ASSUME NEW w \in Workers, Fail(w)
      PROVE  planStatus = "running" /\ planStatus' \in {"running", "replan_pending"}
  <2>1. planStatus = "running"
    BY <1>5, TokenActive DEF Fail, Busy
  <2>2. \E err \in Errors :
           RetryOrReplan(worker[w].exec, err, "retry_wait", "retry")
    BY <1>5, FailType DEF IInv
  <2>. QED  BY <2>1, <2>2 DEF RetryOrReplan
<1>6. ASSUME NEW w \in Workers, CompleteCompensation(w)
      PROVE  planStatus = "running" /\ planStatus' \in {"running", "replan_pending"}
  <2>1. planStatus = "running"
    BY <1>6, TokenActive DEF CompleteCompensation, Busy
  <2>. QED  BY <1>6, <2>1, CompleteCompensationType DEF IInv, RetryOrReplan
<1>7. ASSUME NEW i \in DOMAIN outbox, FallDue(i)
      PROVE  planStatus' = planStatus
  BY <1>7 DEF FallDue, planVars
<1>. QED
  BY <1>1, <1>2, <1>3, <1>4, <1>5, <1>6, <1>7, StepCases DEF TerminalPlanStatus

\* Seen from outside, a Plan starts once, ends once, and asks in the step of
\* its end for its aggregation or for a replan, never for both.
THEOREM ExecutionImplemented == Spec => ImplementsExecution
<1>1. Init => Visible!Init
  BY DEF Init, Visible!Init, Asked, EventsOf
<1>2. IInv /\ OutcomeInv /\ OutcomeInv' /\ [Next]_vars => [Visible!Next]_(Visible!vars)
  <2>. SUFFICES ASSUME IInv, OutcomeInv, OutcomeInv', [Next]_vars
                PROVE  Visible!Next \/ UNCHANGED Visible!vars
    OBVIOUS
  <2>1. Asked' = CASE planStatus' = "completed"      -> {"aggregate"}
                   [] planStatus' = "replan_pending" -> {"replan"}
                   [] OTHER                          -> {}
    BY DEF OutcomeInv, OneOutcomeEvent, ExactlyOne, Asked
  <2>2. CASE planStatus' = planStatus
    BY <2>1, <2>2, AskedIs DEF Visible!vars
  <2>3. CASE planStatus = "ready" /\ planStatus' = "running"
    BY <2>1, <2>3, AskedIs DEF Visible!Next, Visible!Start
  <2>4. CASE planStatus = "running" /\ planStatus' \in TerminalPlanStatus
    BY <2>1, <2>4, AskedIs
    DEF TerminalPlanStatus, Visible!Next, Visible!Complete, Visible!Fail, Visible!End
  <2>5. planStatus' = planStatus \/ Next
    BY DEF vars, planVars
  <2>. QED  BY <2>2, <2>3, <2>4, <2>5, StatusMoves
<1>. QED
  BY <1>1, <1>2, Invariance, OutcomeInvariance, PTL
  DEF Spec, ImplementsExecution, Visible!Spec

-----------------------------------------------------------------------------
(* Every event is accounted for, so the outbox of a Plan is bounded *)

\* Emit adds one event to those of its kind and execution.
LEMMA EventsAboutEmit ==
    ASSUME TypeOK, NEW kind \in EventKind, NEW e \in Nat, Emit(kind, e),
           NEW kinds, NEW f
    PROVE  /\ Len(outbox) + 1 \notin EventsAbout(kinds, f)
           /\ EventsAbout(kinds, f)' =
                 IF kind \in kinds /\ f = e
                 THEN EventsAbout(kinds, f) \cup {Len(outbox) + 1}
                 ELSE EventsAbout(kinds, f)
<1>1. PICK n : n = Len(outbox) + 1
  OBVIOUS
<1>2. /\ DOMAIN outbox' = DOMAIN outbox \cup {n}
      /\ n \notin DOMAIN outbox
      /\ outbox'[n] = [kind |-> kind, exec |-> e]
      /\ \A i \in DOMAIN outbox : outbox'[i] = outbox[i]
  BY <1>1, EmitEvent
<1>3. outbox'[n].kind = kind /\ outbox'[n].exec = e
  BY <1>2
<1>4. EventsAbout(kinds, f)' =
         {i \in DOMAIN outbox' : outbox'[i].kind \in kinds /\ outbox'[i].exec = f}
  BY DEF EventsAbout
<1>5. \A i \in DOMAIN outbox : outbox'[i].kind = outbox[i].kind
                               /\ outbox'[i].exec = outbox[i].exec
  BY <1>2
<1>. QED  BY <1>1, <1>2, <1>3, <1>4, <1>5 DEF EventsAbout

LEMMA RetriesFinite ==
    ASSUME TypeOK, NEW e
    PROVE  IsFiniteSet(Retries(e)) /\ Cardinality(Retries(e)) \in Nat
<1>1. IsFiniteSet(DOMAIN outbox)
  BY Rows, FS_Interval
<1>2. Retries(e) \subseteq DOMAIN outbox
  BY DEF Retries, EventsAbout
<1>3. IsFiniteSet(Retries(e))
  BY <1>1, <1>2, FS_Subset
<1>. QED  BY <1>3, FS_CardinalityType

\* The retries of the executions after a step that emits one event.
LEMMA RetriesEmit ==
    ASSUME TypeOK, NEW kind \in EventKind, NEW e \in Nat, Emit(kind, e)
    PROVE  \A f : Cardinality(Retries(f))' =
                     IF kind = "compensate" /\ f = e
                     THEN Cardinality(Retries(f)) + 1
                     ELSE Cardinality(Retries(f))
<1>. SUFFICES ASSUME NEW f
              PROVE  Cardinality(Retries(f))' =
                        IF kind = "compensate" /\ f = e
                        THEN Cardinality(Retries(f)) + 1
                        ELSE Cardinality(Retries(f))
  OBVIOUS
<1>1. /\ Len(outbox) + 1 \notin Retries(f)
      /\ Retries(f)' = IF kind = "compensate" /\ f = e
                       THEN Retries(f) \cup {Len(outbox) + 1} ELSE Retries(f)
  <2>. DEFINE kinds == {"compensate"}
  <2>1. /\ Len(outbox) + 1 \notin EventsAbout(kinds, f)
        /\ EventsAbout(kinds, f)' = IF kind \in kinds /\ f = e
                                    THEN EventsAbout(kinds, f)
                                         \cup {Len(outbox) + 1}
                                    ELSE EventsAbout(kinds, f)
    <3>. HIDE DEF kinds
    <3>. QED  BY EventsAboutEmit
  <2>. QED  BY <2>1 DEF Retries
<1>2. Cardinality(Retries(f) \cup {Len(outbox) + 1})
         = Cardinality(Retries(f)) + 1
  BY <1>1, RetriesFinite, FS_AddElement
<1>. QED  BY <1>1, <1>2

\* A step writes no event and leaves the executions open or closed as they
\* are; or it writes one event, for an execution it starts, for a compensation
\* that failed, or for the execution it closes.
LEMMA EventMoves ==
    ASSUME IInv, Next
    PROVE  \/ /\ outbox' = outbox /\ DOMAIN execs' = DOMAIN execs
              /\ \A e \in DOMAIN execs : Active(e)' <=> Active(e)
           \/ \E w \in Workers : ClaimTask(w)
           \/ \E w \in Workers : /\ FailCompensation(w) /\ UNCHANGED execs
                                 /\ Emit("compensate", worker[w].exec)
           \/ \E e \in DOMAIN execs, kind \in ClosingKind, st \in ClosedStatus :
                 Active(e) /\ Becomes(e, st) /\ Emit(kind, e)
<1>. DEFINE Silent == /\ outbox' = outbox /\ DOMAIN execs' = DOMAIN execs
                      /\ \A e \in DOMAIN execs : Active(e)' <=> Active(e)
            Closes == \E e \in DOMAIN execs, kind \in ClosingKind,
                         st \in ClosedStatus :
                         Active(e) /\ Becomes(e, st) /\ Emit(kind, e)
<1>. USE DEF Busy
<1>1. ASSUME UNCHANGED <<execs, outbox>>
      PROVE  Silent
  BY <1>1 DEF Active
<1>2. ASSUME NEW e \in DOMAIN execs, NEW st \in ActiveStatus,
             Active(e), Becomes(e, st), outbox' = outbox
      PROVE  Silent
  BY <1>2 DEF Active, Becomes
<1>3. ASSUME NEW w \in Workers, Quiet(w) \/ ClaimNoTask(w)
      PROVE  Silent
  <2>1. UNCHANGED <<execs, outbox>>
    BY <1>3
    DEF Quiet, Deliver, ClaimDuplicate, ReadInbox, ClaimTerminal,
        ClaimAlreadyRunning, ClaimConflict, ReportRefused, ClaimNoTask,
        FailCompensationRefused, CompensationRefused, Crash, eventVars
  <2>. QED  BY <1>1, <2>1
<1>4. ASSUME NEW w \in Workers, ClaimRecovery(w) \/ ClaimNoRecovery(w)
      PROVE  Silent
  <2>. DEFINE e == LatestExecution(currentTask)
              st == IF execs[e].status = "running"
                    THEN "compensation_required" ELSE execs[e].status
  <2>1. Active(e) /\ Becomes(e, st)
    BY <1>4, ClaimRecoveryType
  <2>2. e \in DOMAIN execs /\ st \in ActiveStatus
    BY <2>1 DEF Becomes, Active, ActiveStatus
  <2>3. outbox' = outbox
    BY <1>4 DEF ClaimRecovery, ClaimNoRecovery, eventVars
  <2>. HIDE DEF e, st
  <2>. QED  BY <1>2, <2>1, <2>2, <2>3
<1>5. ASSUME NEW w \in Workers, RequireCompensation(w) \/ BeginCompensation(w)
      PROVE  Silent
  <2>1. worker[w].exec \in DOMAIN execs /\ Active(worker[w].exec)
    BY <1>5, TokenActive DEF RequireCompensation, BeginCompensation
  <2>2. Becomes(worker[w].exec, "compensation_required")
    BY <1>5, RequireCompensationType, BeginCompensationType
  <2>3. outbox' = outbox
    BY <1>5 DEF RequireCompensation, BeginCompensation, eventVars
  <2>4. "compensation_required" \in ActiveStatus
    BY DEF ActiveStatus
  <2>. QED  BY <1>2, <2>1, <2>2, <2>3, <2>4
<1>6. ASSUME NEW w \in Workers, FailCompensation(w)
      PROVE  \/ Silent
             \/ UNCHANGED execs /\ Emit("compensate", worker[w].exec)
  <2>1. worker[w].exec \in DOMAIN execs /\ Active(worker[w].exec)
    BY <1>6, TokenActive DEF FailCompensation
  <2>2. "compensation_locked" \in ActiveStatus
    BY DEF ActiveStatus
  <2>. QED
    BY <1>2, <1>6, <2>1, <2>2, FailCompensationType DEF eventVars
<1>7. ASSUME NEW w \in Workers, Complete(w)
      PROVE  Closes
  <2>1. /\ worker[w].exec \in DOMAIN execs /\ Active(worker[w].exec)
        /\ execs[worker[w].exec].task = currentTask /\ planStatus = "running"
        /\ TypeOK /\ PlanInv
    BY <1>7, TokenActive DEF Complete, IInv
  <2>2. Becomes(worker[w].exec, "succeeded")
    BY <1>7, CompleteType
  <2>3. ASSUME TasksIn({"pending", "retry_wait"}) = {}
        PROVE  \A u \in Tasks \ {currentTask} : taskStatus[u] = "succeeded"
    BY <2>1, <2>3 DEF PlanInv, Open, TasksIn, TypeOK, TaskStatus
  <2>4. Emit("next", worker[w].exec) \/ Emit("aggregate", worker[w].exec)
    BY <1>7, <2>1, <2>3 DEF Complete
  <2>. QED  BY <2>1, <2>2, <2>4 DEF ClosingKind, ClosedStatus
<1>8. ASSUME NEW w \in Workers, Fail(w)
      PROVE  Closes
  <2>1. worker[w].exec \in DOMAIN execs /\ Active(worker[w].exec)
    BY <1>8, TokenActive DEF Fail
  <2>2. /\ Becomes(worker[w].exec, "failed")
        /\ \E kind \in {"retry", "replan"} : Emit(kind, worker[w].exec)
    BY <1>8, FailType DEF RetryOrReplan
  <2>. QED  BY <2>1, <2>2 DEF ClosingKind, ClosedStatus
<1>9. ASSUME NEW w \in Workers, CompleteCompensation(w)
      PROVE  Closes
  <2>1. worker[w].exec \in DOMAIN execs /\ Active(worker[w].exec)
    BY <1>9, TokenActive DEF CompleteCompensation
  <2>2. /\ Becomes(worker[w].exec, "compensated")
        /\ \E kind \in {"retry", "recovered", "replan"} :
              Emit(kind, worker[w].exec)
    BY <1>9, CompleteCompensationType DEF RetryOrReplan
  <2>. QED  BY <2>1, <2>2 DEF ClosingKind, ClosedStatus
<1>10. ASSUME NEW i \in DOMAIN outbox, FallDue(i)
       PROVE  Silent
  <2>1. UNCHANGED <<execs, outbox>>
    BY <1>10 DEF FallDue
  <2>. QED  BY <1>1, <2>1
<1>. HIDE DEF Silent, Closes
<1>11. \/ Silent \/ Closes \/ \E w \in Workers : ClaimTask(w)
       \/ \E w \in Workers : /\ FailCompensation(w) /\ UNCHANGED execs
                             /\ Emit("compensate", worker[w].exec)
  BY <1>3, <1>4, <1>5, <1>6, <1>7, <1>8, <1>9, <1>10, StepCases
<1>. QED  BY <1>11 DEF Silent, Closes

\* Only the beginning of a compensation counts an attempt, and only there does
\* a worker get to the compensator.
LEMMA CountKept ==
    ASSUME IInv, Next, NEW e \in DOMAIN execs
    PROVE  \/ \E w \in Workers : BeginCompensation(w)
           \/ execs'[e].compensations = execs[e].compensations
<1>1. TypeOK /\ WorkerInv /\ execs[e] \in Execution
  BY Rows DEF IInv
<1>2. CASE UNCHANGED execs
  BY <1>2
<1>3. ASSUME NEW w \in Workers, ClaimTask(w)
      PROVE  execs'[e] = execs[e]
  BY <1>3, ClaimTaskType
<1>4. ASSUME NEW w \in Workers, ClaimRecovery(w) \/ ClaimNoRecovery(w)
      PROVE  execs'[e].compensations = execs[e].compensations
  <2>1. PICK f \in DOMAIN execs : execs' = MarkStale(f)
    BY <1>4, ClaimRecoveryType DEF ClaimRecovery, ClaimNoRecovery, Becomes
  <2>2. /\ \A g \in DOMAIN execs : g # f => execs'[g] = execs[g]
        /\ execs'[f].compensations = execs[f].compensations
    BY <1>1, <2>1, MarkStaleExecution
  <2>. QED  BY <2>2
<1>5. ASSUME NEW w \in Workers, RequireCompensation(w) \/ Fail(w)
      PROVE  execs'[e].compensations = execs[e].compensations
  <2>1. PICK f \in DOMAIN execs, err \in Errors, st \in ExecutionStatus :
           execs' = [execs EXCEPT ![f] = [@ EXCEPT
                        !.status = st, !.retryable = err.retryable,
                        !.blocked = err.blocked]]
    <3>1. /\ worker[w].exec \in DOMAIN execs
          /\ {"failed", "compensation_required"} \subseteq ExecutionStatus
      BY <1>1, <1>5
      DEF RequireCompensation, Fail, WorkerInv, Busy, ExecutionStatus
    <3>2. CASE RequireCompensation(w)
      BY <3>1, <3>2, Zenon DEF RequireCompensation
    <3>3. CASE Fail(w)
      BY <3>1, <3>3, Zenon DEF Fail
    <3>. QED  BY <1>5, <3>2, <3>3
  <2>2. execs'[e] = IF e = f THEN [execs[e] EXCEPT
                        !.status = st, !.retryable = err.retryable,
                        !.blocked = err.blocked] ELSE execs[e]
    BY <1>1, <2>1 DEF TypeOK
  <2>. QED  BY <1>1, <2>2 DEF Execution
<1>6. ASSUME NEW w \in Workers,
             Complete(w) \/ FailCompensation(w) \/ CompleteCompensation(w)
      PROVE  execs'[e].compensations = execs[e].compensations
  <2>1. CASE UNCHANGED execs
    BY <2>1
  <2>2. ASSUME NEW f, NEW st, execs' = [execs EXCEPT ![f].status = st]
        PROVE  execs'[e].compensations = execs[e].compensations
    <3>1. execs'[e] = IF e = f THEN [execs[e] EXCEPT !.status = st]
                               ELSE execs[e]
      BY <1>1, <2>2 DEF TypeOK
    <3>. QED  BY <1>1, <3>1 DEF Execution
  <2>3. \/ UNCHANGED execs
        \/ \E f, st : execs' = [execs EXCEPT ![f].status = st]
    <3>1. CASE Complete(w)
      BY <3>1, Zenon DEF Complete
    <3>2. CASE FailCompensation(w)
      BY <3>2, Zenon DEF FailCompensation
    <3>3. CASE CompleteCompensation(w)
      BY <3>3, Zenon DEF CompleteCompensation
    <3>. QED  BY <1>6, <3>1, <3>2, <3>3
  <2>. QED  BY <2>1, <2>2, <2>3
<1>7. ASSUME NEW w \in Workers, Quiet(w) \/ ClaimNoTask(w)
      PROVE  UNCHANGED execs
  BY <1>7
  DEF Quiet, Deliver, ClaimDuplicate, ReadInbox, ClaimTerminal,
      ClaimAlreadyRunning, ClaimConflict, ReportRefused, ClaimNoTask,
      FailCompensationRefused, CompensationRefused, Crash
<1>8. ASSUME NEW i \in DOMAIN outbox, FallDue(i)
      PROVE  UNCHANGED execs
  BY <1>8 DEF FallDue
<1>. QED  BY <1>2, <1>3, <1>4, <1>5, <1>6, <1>7, <1>8, StepCases

LEMMA CompensatorKept ==
    ASSUME IInv, Next
    PROVE  \/ \E w \in Workers : BeginCompensation(w)
           \/ \A v \in Workers :
                 worker'[v].pc = "compensate" => worker'[v] = worker[v]
<1>1. TypeOK
  BY DEF IInv
<1>2. ASSUME NEW w \in Workers,
             \/ worker'[w] = Idle
             \/ \E i \in DOMAIN outbox : ReadInbox(w, i)
             \/ ClaimTask(w)
             \/ ClaimRecovery(w)
             \/ RequireCompensation(w)
      PROVE  worker'[w].pc # "compensate"
  <2>1. CASE worker'[w] = Idle
    BY <2>1 DEF Idle
  <2>2. CASE \E i \in DOMAIN outbox : ReadInbox(w, i)
    <3>1. worker'[w].pc = "claim"
      BY <1>1, <2>2 DEF ReadInbox, Idle, TypeOK
    <3>. QED  BY <3>1
  <2>3. CASE ClaimTask(w)
    <3>1. worker'[w].pc = "execute"
      BY <1>1, <2>3 DEF ClaimTask, Idle, TypeOK
    <3>. QED  BY <3>1
  <2>4. CASE ClaimRecovery(w)
    <3>1. worker'[w].pc = "begin"
      BY <1>1, <2>4 DEF ClaimRecovery, Idle, TypeOK
    <3>. QED  BY <3>1
  <2>5. CASE RequireCompensation(w)
    <3>1. worker'[w] = [worker[w] EXCEPT !.pc = "begin"]
      BY <1>1, <2>5 DEF RequireCompensation, TypeOK
    <3>2. worker'[w].pc = "begin"
      BY <1>1, <3>1 DEF TypeOK, WorkerState
    <3>. QED  BY <3>2
  <2>. QED  BY <1>2, <2>1, <2>2, <2>3, <2>4, <2>5
<1>. QED  BY <1>2, WorkerMoves

AccountInv == EventsAccounted /\ RetryInv

\* The events of an execution that the claim has yet to start.
LEMMA NoEventsYet ==
    ASSUME EventsAccounted, NEW n, n \notin DOMAIN execs,
           NEW kinds, "start" \notin kinds
    PROVE  EventsAbout(kinds, n) = {}
BY DEF EventsAccounted, EventsAbout

\* An attempt that asks for a retry is not the last one, and has asked for none.
LEMMA RetryLeft ==
    ASSUME IInv, RetryInv, NEW w \in Workers, FailCompensation(w),
           Emit("compensate", worker[w].exec)
    PROVE  LET e == worker[w].exec
           IN  /\ e \in DOMAIN execs /\ e \in Nat
               /\ Cardinality(Retries(e)) \in Nat
               /\ execs[e].compensations \in Nat
               /\ execs[e].compensations < MaxCompensationAttempts
               /\ Cardinality(Retries(e)) < execs[e].compensations
<1>. DEFINE e == worker[w].exec
<1>1. /\ TypeOK /\ WorkerInv /\ worker[w].pc = "compensate"
      /\ execs[e].compensations = worker[w].attempt
  BY DEF IInv, FailCompensation
<1>2. e \in DOMAIN execs /\ e \in Nat /\ execs[e].compensations \in Nat
  BY <1>1, Rows DEF WorkerInv, Busy
<1>3. ~LastAttempt(worker[w].attempt)
  <2>1. CASE UNCHANGED eventVars
    <3>1. Len(outbox) + 1 \in DOMAIN outbox' /\ Len(outbox) + 1 \notin DOMAIN outbox
      BY <1>1, <1>2, EmitEvent DEF EventKind, WakeupKind
    <3>. QED  BY <2>1, <3>1 DEF eventVars
  <2>. QED  BY <2>1 DEF FailCompensation
<1>4. Cardinality(Retries(e)) < execs[e].compensations
  BY <1>1 DEF RetryInv
<1>. QED
  BY <1>1, <1>2, <1>3, <1>4, RetriesFinite, CountAssumption DEF LastAttempt

LEMMA AccountedStep ==
    ASSUME IInv, Next, AccountInv
    PROVE  EventsAccounted'
<1>1. TypeOK /\ EventsAccounted /\ RetryInv
  BY DEF IInv, AccountInv
<1>2. CASE /\ outbox' = outbox /\ DOMAIN execs' = DOMAIN execs
           /\ \A e \in DOMAIN execs : Active(e)' <=> Active(e)
  BY <1>1, <1>2 DEF EventsAccounted, EventsAbout, ExactlyOne, Retries
<1>3. ASSUME NEW w \in Workers, ClaimTask(w)
      PROVE  EventsAccounted'
  <2>1. PICK n \in Nat : n = Len(execs) + 1
    BY <1>1, Rows
  <2>2. /\ Emit("lease", n) /\ "lease" \in EventKind
        /\ n \notin DOMAIN execs /\ DOMAIN execs' = DOMAIN execs \cup {n}
        /\ Active(n)' /\ \A f \in DOMAIN execs : Active(f)' <=> Active(f)
    BY <1>3, <2>1, ClaimTaskType
    DEF Active, ActiveStatus, EventKind, WakeupKind
  <2>3. PICK m : /\ DOMAIN outbox' = DOMAIN outbox \cup {m}
                 /\ outbox'[m] = [kind |-> "lease", exec |-> n]
                 /\ \A i \in DOMAIN outbox : outbox'[i] = outbox[i]
                 /\ m = Len(outbox) + 1
    BY <1>1, <2>2, EmitEvent
  <2>4. \A i \in DOMAIN outbox' :
           IF outbox'[i].kind = "start" THEN i = 1
                                        ELSE outbox'[i].exec \in DOMAIN execs'
    <3>1. outbox'[m].kind = "lease" /\ outbox'[m].exec = n
      BY <2>3
    <3>. QED  BY <1>1, <2>2, <2>3, <3>1 DEF EventsAccounted
  <2>5. /\ \A f : EventsAbout({"lease"}, f)' = IF f = n
                     THEN EventsAbout({"lease"}, f) \cup {m}
                     ELSE EventsAbout({"lease"}, f)
        /\ \A f : EventsAbout(ClosingKind, f)' = EventsAbout(ClosingKind, f)
        /\ \A f : Cardinality(Retries(f))' = Cardinality(Retries(f))
    <3>1. \A kinds, f : EventsAbout(kinds, f)' = IF "lease" \in kinds /\ f = n
                           THEN EventsAbout(kinds, f) \cup {m}
                           ELSE EventsAbout(kinds, f)
      BY <1>1, <2>2, <2>3, EventsAboutEmit
    <3>2. "lease" \notin ClosingKind /\ "lease" # "compensate"
      BY DEF ClosingKind
    <3>3. \A f : Cardinality(Retries(f))' = Cardinality(Retries(f))
      BY <1>1, <2>2, <3>2, RetriesEmit
    <3>. QED  BY <3>1, <3>2, <3>3
  <2>6. /\ EventsAbout({"lease"}, n) = {} /\ EventsAbout(ClosingKind, n) = {}
        /\ Cardinality(Retries(n)) = 0
    <3>1. /\ "start" \notin {"lease"} /\ "start" \notin {"compensate"}
          /\ "start" \notin ClosingKind
      BY DEF ClosingKind
    <3>2. /\ EventsAbout({"lease"}, n) = {} /\ EventsAbout(ClosingKind, n) = {}
          /\ Retries(n) = {}
      BY <1>1, <2>2, <3>1, NoEventsYet DEF Retries
    <3>. QED  BY <3>2, FS_EmptySet
  <2>7. /\ ExactlyOne(EventsAbout({"lease"}, n))'
        /\ EventsAbout(ClosingKind, n)' = {}
        /\ Cardinality(Retries(n))' < MaxCompensationAttempts
    <3>1. EventsAbout({"lease"}, n)' = {m}
      BY <2>5, <2>6
    <3>2. ExactlyOne(EventsAbout({"lease"}, n)')
      BY <3>1 DEF ExactlyOne
    <3>3. EventsAbout(ClosingKind, n)' = {} /\ Cardinality(Retries(n))' = 0
      BY <2>5, <2>6
    <3>4. 0 < MaxCompensationAttempts
      BY CountAssumption
    <3>. QED  BY <3>2, <3>3, <3>4 DEF ExactlyOne
  <2>8. ASSUME NEW f \in DOMAIN execs
        PROVE  /\ ExactlyOne(EventsAbout({"lease"}, f))'
               /\ IF Active(f)' THEN EventsAbout(ClosingKind, f)' = {}
                                ELSE ExactlyOne(EventsAbout(ClosingKind, f))'
               /\ Cardinality(Retries(f))' < MaxCompensationAttempts
    <3>1. /\ EventsAbout({"lease"}, f)' = EventsAbout({"lease"}, f)
          /\ EventsAbout(ClosingKind, f)' = EventsAbout(ClosingKind, f)
          /\ Cardinality(Retries(f))' = Cardinality(Retries(f))
          /\ Active(f)' <=> Active(f)
      BY <2>2, <2>5, <2>8
    <3>2. /\ ExactlyOne(EventsAbout({"lease"}, f))
          /\ IF Active(f) THEN EventsAbout(ClosingKind, f) = {}
                          ELSE ExactlyOne(EventsAbout(ClosingKind, f))
          /\ Cardinality(Retries(f)) < MaxCompensationAttempts
      BY <1>1, <2>8 DEF EventsAccounted
    <3>. QED  BY <3>1, <3>2 DEF ExactlyOne
  <2>. QED  BY <2>2, <2>4, <2>7, <2>8 DEF EventsAccounted
<1>4. ASSUME NEW e \in DOMAIN execs, NEW kind \in ClosingKind \cup {"compensate"},
             Emit(kind, e),
             DOMAIN execs' = DOMAIN execs,
             \A f \in DOMAIN execs : f # e \/ kind = "compensate" =>
                                        (Active(f)' <=> Active(f)),
             kind # "compensate" => Active(e) /\ ~Active(e)',
             kind = "compensate" => /\ Cardinality(Retries(e)) \in Nat
                                    /\ Cardinality(Retries(e)) + 1
                                          < MaxCompensationAttempts
      PROVE  EventsAccounted'
  <2>1. /\ e \in Nat /\ kind \in EventKind /\ kind \notin {"start", "lease"}
        /\ kind = "compensate" <=> kind \notin ClosingKind
    BY <1>1, Rows DEF ClosingKind, EventKind, WakeupKind
  <2>2. PICK m : /\ DOMAIN outbox' = DOMAIN outbox \cup {m}
                 /\ outbox'[m] = [kind |-> kind, exec |-> e]
                 /\ \A i \in DOMAIN outbox : outbox'[i] = outbox[i]
                 /\ m = Len(outbox) + 1
    BY <1>1, <1>4, <2>1, EmitEvent
  <2>3. \A i \in DOMAIN outbox' :
           IF outbox'[i].kind = "start" THEN i = 1
                                        ELSE outbox'[i].exec \in DOMAIN execs'
    <3>1. outbox'[m].kind = kind /\ outbox'[m].exec = e
      BY <2>2
    <3>. QED  BY <1>1, <1>4, <2>1, <2>2, <3>1 DEF EventsAccounted
  <2>4. /\ \A f : EventsAbout({"lease"}, f)' = EventsAbout({"lease"}, f)
        /\ \A f : EventsAbout(ClosingKind, f)' =
                     IF kind \in ClosingKind /\ f = e
                     THEN EventsAbout(ClosingKind, f) \cup {m}
                     ELSE EventsAbout(ClosingKind, f)
        /\ \A f : Cardinality(Retries(f))' =
                     IF kind = "compensate" /\ f = e
                     THEN Cardinality(Retries(f)) + 1
                     ELSE Cardinality(Retries(f))
    <3>1. \A kinds, f : EventsAbout(kinds, f)' = IF kind \in kinds /\ f = e
                           THEN EventsAbout(kinds, f) \cup {m}
                           ELSE EventsAbout(kinds, f)
      BY <1>1, <1>4, <2>1, <2>2, EventsAboutEmit
    <3>2. kind \notin {"lease"}
      BY <2>1
    <3>3. \A f : EventsAbout({"lease"}, f)' = EventsAbout({"lease"}, f)
      BY <3>1, <3>2
    <3>. QED  BY <1>1, <1>4, <2>1, <3>1, <3>3, RetriesEmit
  <2>5. ASSUME NEW f \in DOMAIN execs
        PROVE  /\ ExactlyOne(EventsAbout({"lease"}, f))'
               /\ IF Active(f)' THEN EventsAbout(ClosingKind, f)' = {}
                                ELSE ExactlyOne(EventsAbout(ClosingKind, f))'
               /\ Cardinality(Retries(f))' < MaxCompensationAttempts
    <3>1. CASE f # e \/ kind = "compensate"
      BY <1>1, <1>4, <2>1, <2>4, <3>1 DEF EventsAccounted, ExactlyOne
    <3>2. CASE f = e /\ kind # "compensate"
      BY <1>1, <1>4, <2>1, <2>4, <3>2 DEF EventsAccounted, ExactlyOne
    <3>. QED  BY <3>1, <3>2
  <2>. QED  BY <1>4, <2>3, <2>5 DEF EventsAccounted
<1>5. ASSUME NEW w \in Workers, FailCompensation(w), UNCHANGED execs,
             Emit("compensate", worker[w].exec)
      PROVE  EventsAccounted'
  <2>1. PICK e \in DOMAIN execs :
           /\ Emit("compensate", e)
           /\ Cardinality(Retries(e)) \in Nat
           /\ Cardinality(Retries(e)) + 1 < MaxCompensationAttempts
    BY <1>1, <1>5, RetryLeft, CountAssumption
  <2>2. \A f \in DOMAIN execs : Active(f)' <=> Active(f)
    BY <1>5 DEF Active
  <2>. QED  BY <1>4, <1>5, <2>1, <2>2
<1>6. ASSUME NEW e \in DOMAIN execs, NEW kind \in ClosingKind,
             NEW st \in ClosedStatus,
             Active(e), Becomes(e, st), Emit(kind, e)
      PROVE  EventsAccounted'
  <2>1. /\ DOMAIN execs' = DOMAIN execs /\ ~Active(e)'
        /\ \A f \in DOMAIN execs : f # e => (Active(f)' <=> Active(f))
    BY <1>6 DEF Becomes, Active, ActiveStatus, ClosedStatus
  <2>2. kind # "compensate"
    BY DEF ClosingKind
  <2>. QED  BY <1>4, <1>6, <2>1, <2>2
<1>. QED  BY <1>2, <1>3, <1>5, <1>6, EventMoves

\* What RetryInv says of a worker that has called the compensator.
AttemptOf(w) ==
    LET x == execs[worker[w].exec]
    IN  /\ worker[w].attempt <= x.compensations
        /\ worker[w].attempt = x.compensations
           => Cardinality(Retries(worker[w].exec)) < x.compensations

LEMMA RetryBegin ==
    ASSUME IInv, RetryInv, TypeOK', NEW w \in Workers, BeginCompensation(w)
    PROVE  RetryInv'
<1>. DEFINE e == worker[w].exec
            k(f) == execs[f].compensations
            r(f) == Cardinality(Retries(f))
<1>1. /\ TypeOK /\ WorkerInv /\ e \in DOMAIN execs /\ execs[e] \in Execution
      /\ worker[w] \in WorkerState
  BY Rows DEF IInv, WorkerInv, Busy, BeginCompensation, TypeOK
<1>2. /\ \A f \in DOMAIN execs : k(f) \in Nat /\ r(f) \in Nat /\ r(f) <= k(f)
      /\ \A v \in Workers : worker[v].attempt \in Nat
  BY <1>1, Rows, RetriesFinite DEF RetryInv, TypeOK, WorkerState
<1>3. /\ DOMAIN execs' = DOMAIN execs
      /\ \A f \in DOMAIN execs :
            execs'[f].compensations = IF f = e THEN k(f) + 1 ELSE k(f)
  <2>1. /\ DOMAIN execs' = DOMAIN execs
        /\ \A f \in DOMAIN execs : f # e => execs'[f] = execs[f]
        /\ execs'[e] = [execs[e] EXCEPT !.compensations = @ + 1]
    BY <1>1 DEF BeginCompensation, TypeOK
  <2>2. execs'[e].compensations = k(e) + 1
    BY <1>1, <2>1 DEF Execution
  <2>. QED  BY <2>1, <2>2
<1>4. \A f : Cardinality(Retries(f))' = r(f)
  BY DEF BeginCompensation, eventVars, Retries, EventsAbout
<1>5. /\ \A v \in Workers \ {w} : worker'[v] = worker[v]
      /\ worker'[w].exec = e /\ worker'[w].attempt = k(e) + 1
  <2>1. worker'[w] = [worker[w] EXCEPT !.pc = "compensate", !.attempt = k(e) + 1]
    BY <1>1 DEF BeginCompensation, TypeOK
  <2>2. \A v \in Workers \ {w} : worker'[v] = worker[v]
    BY <1>1 DEF BeginCompensation, TypeOK
  <2>. QED  BY <1>1, <2>1, <2>2 DEF WorkerState
<1>6. \A v \in Workers :
         worker[v].pc = "compensate" => /\ worker[v].exec \in DOMAIN execs
                                        /\ worker[v].attempt <= k(worker[v].exec)
                                        /\ AttemptOf(v)
  BY <1>1 DEF WorkerInv, Busy, RetryInv, AttemptOf
<1>7. \A f \in DOMAIN execs' :
         Cardinality(Retries(f))' <= execs'[f].compensations
  BY <1>2, <1>3, <1>4
<1>8. AttemptOf(w)'
  BY <1>1, <1>2, <1>3, <1>4, <1>5 DEF AttemptOf
<1>9. ASSUME NEW v \in Workers \ {w}, worker'[v].pc = "compensate"
      PROVE  AttemptOf(v)' /\ (worker[v].exec = e => worker[v].attempt <= k(e))
  BY <1>2, <1>3, <1>4, <1>5, <1>6, <1>9 DEF AttemptOf
<1>10. \A u, v \in Workers :
          /\ worker'[u].pc = "compensate" /\ worker'[v].pc = "compensate"
          /\ worker'[u].exec = worker'[v].exec
          /\ worker'[u].attempt = worker'[v].attempt
          => u = v
  BY <1>1, <1>2, <1>5, <1>9 DEF RetryInv
<1>. QED  BY <1>7, <1>8, <1>9, <1>10 DEF RetryInv, AttemptOf

LEMMA RetryInvStep ==
    ASSUME IInv, Next, AccountInv
    PROVE  RetryInv'
<1>1. TypeOK /\ WorkerInv /\ TypeOK' /\ EventsAccounted /\ RetryInv
  BY TypeStep DEF IInv, AccountInv
<1>2. CASE \E w \in Workers : BeginCompensation(w)
  BY <1>1, <1>2, RetryBegin
<1>. SUFFICES ASSUME ~\E w \in Workers : BeginCompensation(w)
              PROVE  RetryInv'
  BY <1>2
<1>3. /\ \A e \in DOMAIN execs : execs'[e].compensations = execs[e].compensations
      /\ \A v \in Workers :
            worker'[v].pc = "compensate" =>
                 /\ worker'[v] = worker[v]
                 /\ worker[v].exec \in DOMAIN execs
                 /\ AttemptOf(v)
  BY <1>1, CountKept, CompensatorKept
  DEF WorkerInv, Busy, RetryInv, AttemptOf
<1>4. ASSUME \A f \in DOMAIN execs :
                Cardinality(Retries(f))' = Cardinality(Retries(f)),
             \A f \in DOMAIN execs' \ DOMAIN execs :
                Cardinality(Retries(f))' <= execs'[f].compensations
      PROVE  RetryInv'
  <2>1. \A f \in DOMAIN execs' :
           Cardinality(Retries(f))' <= execs'[f].compensations
    BY <1>1, <1>3, <1>4 DEF RetryInv
  <2>2. \A v \in Workers : worker'[v].pc = "compensate" => AttemptOf(v)'
    BY <1>3, <1>4 DEF AttemptOf
  <2>. QED  BY <1>1, <1>3, <2>1, <2>2 DEF RetryInv, AttemptOf
<1>5. CASE outbox' = outbox /\ DOMAIN execs' = DOMAIN execs
  BY <1>4, <1>5 DEF Retries, EventsAbout
<1>6. ASSUME NEW w \in Workers, ClaimTask(w)
      PROVE  RetryInv'
  <2>1. PICK n \in Nat : n = Len(execs) + 1
    BY <1>1, Rows
  <2>2. /\ Emit("lease", n) /\ "lease" \in EventKind
        /\ n \notin DOMAIN execs /\ DOMAIN execs' = DOMAIN execs \cup {n}
    BY <1>6, <2>1, ClaimTaskType DEF EventKind, WakeupKind
  <2>3. \A f : Cardinality(Retries(f))' = Cardinality(Retries(f))
    BY <1>1, <2>2, RetriesEmit
  <2>4. Cardinality(Retries(n)) = 0
    BY <1>1, <2>2, NoEventsYet, FS_EmptySet DEF Retries
  <2>5. execs'[n].compensations \in Nat
    <3>1. execs' \in Seq(Execution) /\ n \in DOMAIN execs'
      BY <1>1, <2>2 DEF TypeOK
    <3>2. execs'[n] \in Execution
      BY <3>1, LenProperties, ElementOfSeq
    <3>. QED  BY <3>2 DEF Execution
  <2>. QED  BY <1>4, <2>2, <2>3, <2>4, <2>5
<1>7. ASSUME NEW w \in Workers, FailCompensation(w), UNCHANGED execs,
             Emit("compensate", worker[w].exec)
      PROVE  RetryInv'
  <2>. DEFINE e == worker[w].exec
  <2>1. /\ e \in DOMAIN execs /\ e \in Nat /\ "compensate" \in EventKind
        /\ Cardinality(Retries(e)) \in Nat /\ execs[e].compensations \in Nat
        /\ Cardinality(Retries(e)) < execs[e].compensations
    BY <1>1, <1>7, RetryLeft DEF EventKind, WakeupKind
  <2>2. \A f : Cardinality(Retries(f))' = IF f = e
                                          THEN Cardinality(Retries(f)) + 1
                                          ELSE Cardinality(Retries(f))
    BY <1>1, <1>7, <2>1, RetriesEmit
  <2>3. /\ worker'[w].pc = "idle" /\ worker[w].pc = "compensate"
        /\ worker[w].attempt = execs[e].compensations
    BY <1>1, <1>7 DEF FailCompensation, Return, Idle, TypeOK
  <2>4. ASSUME NEW v \in Workers, worker'[v].pc = "compensate"
        PROVE  AttemptOf(v)'
    <3>1. /\ worker'[v] = worker[v] /\ AttemptOf(v) /\ v # w
      BY <1>3, <2>3, <2>4
    <3>2. CASE worker[v].exec = e
      <4>1. worker[v].attempt # execs[e].compensations
        BY <1>1, <2>3, <2>4, <3>1, <3>2 DEF RetryInv
      <4>. QED  BY <1>7, <3>1, <3>2, <4>1 DEF AttemptOf
    <3>3. CASE worker[v].exec # e
      <4>1. Cardinality(Retries(worker[v].exec))'
               = Cardinality(Retries(worker[v].exec))
        BY <2>2, <3>1, <3>3
      <4>. QED  BY <1>7, <3>1, <4>1 DEF AttemptOf
    <3>. QED  BY <3>2, <3>3
  <2>5. \A f \in DOMAIN execs' :
           Cardinality(Retries(f))' <= execs'[f].compensations
    BY <1>1, <1>7, <2>1, <2>2 DEF RetryInv
  <2>. QED  BY <1>1, <1>3, <2>4, <2>5 DEF RetryInv, AttemptOf
<1>8. ASSUME NEW e \in DOMAIN execs, NEW kind \in ClosingKind, NEW st,
             Becomes(e, st), Emit(kind, e)
      PROVE  RetryInv'
  <2>1. e \in Nat /\ kind \in EventKind /\ kind # "compensate"
    BY <1>1, Rows DEF ClosingKind, EventKind, WakeupKind
  <2>2. \A f : Cardinality(Retries(f))' = Cardinality(Retries(f))
    BY <1>1, <1>8, <2>1, RetriesEmit
  <2>. QED  BY <1>4, <1>8, <2>2 DEF Becomes
<1>. QED  BY <1>5, <1>6, <1>7, <1>8, EventMoves

\* What the outbox of a Plan holds, however often its events are delivered and
\* whatever its workers suffer: the starting wakeup, and for each execution one
\* lease, one event that says how it ended, and at most one retry for each of
\* the permitted compensation attempts but the last.
THEOREM EveryEventAccounted == Spec => []EventsAccounted
<1>1. ASSUME Init
      PROVE  AccountInv
  <2>1. /\ DOMAIN outbox = {1} /\ outbox[1].kind = "start"
        /\ DOMAIN execs = {} /\ \A w \in Workers : worker[w].pc = "idle"
    BY <1>1 DEF Init, Idle
  <2>. QED  BY <2>1 DEF AccountInv, EventsAccounted, RetryInv
<1>2. IInv /\ AccountInv /\ [Next]_vars => AccountInv'
  <2>1. ASSUME AccountInv, UNCHANGED vars
        PROVE  AccountInv'
    <3>1. UNCHANGED <<execs, outbox, worker>>
      BY <2>1 DEF vars, eventVars
    <3>2. \A kinds, e : EventsAbout(kinds, e)' = EventsAbout(kinds, e)
      BY <3>1 DEF EventsAbout
    <3>3. \A e : Retries(e)' = Retries(e)
      BY <3>1 DEF Retries, EventsAbout
    <3>4. EventsAccounted'
      BY <2>1, <3>1, <3>2, <3>3 DEF AccountInv, EventsAccounted, Active, ExactlyOne
    <3>5. RetryInv'
      BY <2>1, <3>1, <3>3 DEF AccountInv, RetryInv
    <3>. QED  BY <3>4, <3>5 DEF AccountInv
  <2>. QED  BY <2>1, AccountedStep, RetryInvStep DEF AccountInv
<1>3. AccountInv => EventsAccounted
  BY DEF AccountInv
<1>. QED  BY <1>1, <1>2, <1>3, Invariance, PTL DEF Spec

\* A task and the number of its attempt name an execution.
Claims == Tasks \X (1 .. MaxAttempts)
ClaimOf(e) == <<execs[e].task, execs[e].attempt>>

LEMMA ClaimNames ==
    ASSUME IInv
    PROVE  /\ \A e \in DOMAIN execs : ClaimOf(e) \in Claims
           /\ \A e, f \in DOMAIN execs : ClaimOf(e) = ClaimOf(f) => e = f
           /\ IsFiniteSet(Claims) /\ Cardinality(Claims) = NumTasks * MaxAttempts
<1>1. TypeOK /\ ExecutionInv /\ PlanInv
  BY DEF IInv
<1>2. ASSUME NEW e \in DOMAIN execs
      PROVE  ClaimOf(e) \in Claims
  <2>1. execs[e].task \in Tasks /\ execs[e].attempt \in Nat
    BY <1>1, Rows
  <2>2. /\ attempts[execs[e].task] \in Nat
        /\ attempts[execs[e].task] <= MaxAttempts
    BY <1>1, <2>1, CountAssumption DEF PlanInv, TypeOK
  <2>3. execs[e].attempt \in 1 .. MaxAttempts
    BY <1>1, <2>1, <2>2, CountAssumption DEF ExecutionInv
  <2>. QED  BY <2>1, <2>3 DEF ClaimOf, Claims
<1>3. \A e, f \in DOMAIN execs : ClaimOf(e) = ClaimOf(f) => e = f
  BY <1>1 DEF ExecutionInv, ClaimOf
<1>4. /\ IsFiniteSet(Tasks) /\ Cardinality(Tasks) = NumTasks
      /\ IsFiniteSet(1 .. MaxAttempts) /\ Cardinality(1 .. MaxAttempts) = MaxAttempts
  BY FS_Interval, CountAssumption DEF Tasks
<1>5. IsFiniteSet(Claims) /\ Cardinality(Claims) = NumTasks * MaxAttempts
  BY <1>4, FS_Product DEF Claims
<1>. QED  BY <1>2, <1>3, <1>5

\* No delivery, crash or lost lease makes a task run more often than permitted,
\* so the Plan never has more executions than its tasks have attempts.
THEOREM ExecutionsAreBounded == Spec => []ExecutionsBounded
<1>1. ASSUME IInv
      PROVE  ExecutionsBounded
  <2>. DEFINE f == [e \in DOMAIN execs |-> ClaimOf(e)]
  <2>1. f \in Injection(DOMAIN execs, Claims)
    BY <1>1, ClaimNames DEF Injection, IsInjective
  <2>2. Cardinality(DOMAIN execs) <= NumTasks * MaxAttempts
    <3>. HIDE DEF f
    <3>. QED  BY <1>1, <2>1, ClaimNames, FS_Injection
  <2>3. Len(execs) \in Nat /\ DOMAIN execs = 1 .. Len(execs)
    BY <1>1, Rows DEF IInv
  <2>4. Cardinality(DOMAIN execs) = Len(execs)
    <3>1. Cardinality(1 .. Len(execs)) = IF 1 > Len(execs)
                                         THEN 0 ELSE Len(execs) - 1 + 1
      BY <2>3, FS_Interval
    <3>. QED  BY <2>3, <3>1
  <2>. QED  BY <2>2, <2>4 DEF ExecutionsBounded
<1>. QED  BY <1>1, Invariance, PTL

\* The events of an execution in the order in which they can be told apart:
\* its lease, its end, its first retry, its second retry...
RetriesUpTo(i) == {j \in Retries(outbox[i].exec) : j <= i}
Label(i) == CASE outbox[i].kind = "lease" -> 1
              [] outbox[i].kind = "compensate" -> 2 + Cardinality(RetriesUpTo(i))
              [] OTHER -> 2

\* The retries of an execution are numbered from one.
LEMMA RetryNumbers ==
    ASSUME TypeOK, EventsAccounted, NEW i \in DOMAIN outbox,
           outbox[i].kind = "compensate"
    PROVE  /\ IsFiniteSet(RetriesUpTo(i))
           /\ Cardinality(RetriesUpTo(i)) \in 1 .. MaxCompensationAttempts - 1
<1>. DEFINE e == outbox[i].exec
<1>1. e \in DOMAIN execs /\ i \in RetriesUpTo(i) /\ i \in Nat
  BY Rows DEF EventsAccounted, RetriesUpTo, Retries, EventsAbout
<1>2. /\ IsFiniteSet(Retries(e)) /\ Cardinality(Retries(e)) \in Nat
      /\ Cardinality(Retries(e)) < MaxCompensationAttempts
  BY <1>1, RetriesFinite DEF EventsAccounted
<1>3. /\ IsFiniteSet(RetriesUpTo(i))
      /\ Cardinality(RetriesUpTo(i)) <= Cardinality(Retries(e))
  BY <1>2, FS_Subset DEF RetriesUpTo
<1>4. /\ Cardinality(RetriesUpTo(i)) \in Nat
      /\ Cardinality(RetriesUpTo(i)) # 0
  BY <1>1, <1>3, FS_CardinalityType, FS_EmptySet
<1>. QED  BY <1>2, <1>3, <1>4, CountAssumption

LEMMA RetriesOrdered ==
    ASSUME TypeOK, EventsAccounted,
           NEW i \in DOMAIN outbox, NEW j \in DOMAIN outbox,
           outbox[i].kind = "compensate", outbox[j].kind = "compensate",
           outbox[i].exec = outbox[j].exec, i < j
    PROVE  Cardinality(RetriesUpTo(i)) # Cardinality(RetriesUpTo(j))
<1>1. i \in Nat /\ j \in Nat
  BY Rows
<1>2. RetriesUpTo(i) \subseteq RetriesUpTo(j)
  BY <1>1, Rows DEF RetriesUpTo, Retries, EventsAbout
<1>3. j \in RetriesUpTo(j) /\ j \notin RetriesUpTo(i)
  BY <1>1 DEF RetriesUpTo, Retries, EventsAbout
<1>4. IsFiniteSet(RetriesUpTo(j))
  BY RetryNumbers
<1>. QED  BY <1>2, <1>3, <1>4, FS_Subset

\* A label and an execution name an event.
LEMMA LabelNames ==
    ASSUME TypeOK, EventsAccounted,
           NEW i \in DOMAIN outbox, NEW j \in DOMAIN outbox, i # 1, j # 1
    PROVE  /\ outbox[i].exec \in DOMAIN execs
           /\ Label(i) \in 1 .. MaxCompensationAttempts + 1
           /\ outbox[i].exec = outbox[j].exec /\ Label(i) = Label(j) => i = j
<1>1. /\ outbox[i].kind \in EventKind \ {"start"}
      /\ outbox[j].kind \in EventKind \ {"start"}
      /\ outbox[i].exec \in DOMAIN execs
  BY Rows DEF EventsAccounted, Event
<1>2. ASSUME NEW n \in {i, j}
      PROVE  \/ outbox[n].kind = "lease" /\ Label(n) = 1
             \/ outbox[n].kind \in ClosingKind /\ Label(n) = 2
             \/ /\ outbox[n].kind = "compensate"
                /\ Label(n) = 2 + Cardinality(RetriesUpTo(n))
                /\ Cardinality(RetriesUpTo(n)) \in 1 .. MaxCompensationAttempts - 1
  <2>1. outbox[n].kind \in {"lease", "compensate"} \cup ClosingKind
    BY <1>1 DEF EventKind, WakeupKind, ClosingKind
  <2>2. CASE outbox[n].kind = "compensate"
    BY <2>2, RetryNumbers DEF Label
  <2>3. CASE outbox[n].kind \in {"lease"} \cup ClosingKind
    BY <2>3 DEF Label, ClosingKind
  <2>. QED  BY <2>1, <2>2, <2>3
<1>3. Label(i) \in 1 .. MaxCompensationAttempts + 1
  BY <1>2, CountAssumption
<1>4. ASSUME outbox[i].exec = outbox[j].exec, Label(i) = Label(j)
      PROVE  i = j
  <2>. DEFINE e == outbox[i].exec
  <2>1. CASE outbox[i].kind = "lease"
    <3>1. outbox[j].kind = "lease"
      BY <1>2, <1>4, <2>1 DEF ClosingKind
    <3>2. i \in EventsAbout({"lease"}, e) /\ j \in EventsAbout({"lease"}, e)
      BY <1>4, <2>1, <3>1 DEF EventsAbout
    <3>. QED  BY <1>1, <3>2 DEF EventsAccounted, ExactlyOne
  <2>2. CASE outbox[i].kind \in ClosingKind
    <3>1. outbox[j].kind \in ClosingKind
      BY <1>2, <1>4, <2>2 DEF ClosingKind
    <3>2. i \in EventsAbout(ClosingKind, e) /\ j \in EventsAbout(ClosingKind, e)
      BY <1>4, <2>2, <3>1 DEF EventsAbout
    <3>. QED  BY <1>1, <3>2 DEF EventsAccounted, ExactlyOne
  <2>3. CASE outbox[i].kind = "compensate"
    <3>1. /\ outbox[j].kind = "compensate"
          /\ Cardinality(RetriesUpTo(i)) = Cardinality(RetriesUpTo(j))
      BY <1>2, <1>4, <2>3 DEF ClosingKind
    <3>2. ~(i < j) /\ ~(j < i)
      BY <1>4, <2>3, <3>1, RetriesOrdered
    <3>. QED  BY <3>2, Rows
  <2>. QED  BY <1>2, <2>1, <2>2, <2>3
<1>. QED  BY <1>1, <1>3, <1>4

\* The outbox of a Plan is bounded by its tasks and the permitted attempts:
\* redelivered events, crashed workers and failing compensators cannot make it
\* ask for more and more wakeups.
THEOREM OutboxIsBounded == Spec => []OutboxBounded
<1>1. ASSUME IInv, EventsAccounted
      PROVE  OutboxBounded
  <2>. DEFINE L == Len(outbox)
              S == 2 .. L
              Labels == 1 .. MaxCompensationAttempts + 1
              f == [i \in S |-> <<ClaimOf(outbox[i].exec), Label(i)>>]
  <2>1. TypeOK /\ L \in Nat /\ DOMAIN outbox = 1 .. L
    BY <1>1, Rows DEF IInv
  <2>2. S \subseteq DOMAIN outbox /\ 1 \notin S
    BY <2>1
  <2>3. /\ IsFiniteSet(Labels)
        /\ Cardinality(Labels) = MaxCompensationAttempts + 1
    BY FS_Interval, CountAssumption
  <2>4. /\ IsFiniteSet(Claims \X Labels)
        /\ Cardinality(Claims \X Labels)
              = (NumTasks * MaxAttempts) * (MaxCompensationAttempts + 1)
    BY <1>1, <2>3, ClaimNames, FS_Product
  <2>5. ASSUME NEW i \in S
        PROVE  /\ outbox[i].exec \in DOMAIN execs
               /\ f[i] = <<ClaimOf(outbox[i].exec), Label(i)>>
               /\ f[i] \in Claims \X Labels
    BY <1>1, <2>1, <2>2, LabelNames, ClaimNames
  <2>6. ASSUME NEW i \in S, NEW j \in S, f[i] = f[j]
        PROVE  i = j
    <3>1. /\ ClaimOf(outbox[i].exec) = ClaimOf(outbox[j].exec)
          /\ Label(i) = Label(j)
      BY <2>5, <2>6
    <3>2. outbox[i].exec = outbox[j].exec
      BY <1>1, <2>5, <3>1, ClaimNames
    <3>. QED  BY <1>1, <2>1, <2>2, <3>1, <3>2, LabelNames
  <2>7. f \in Injection(S, Claims \X Labels)
    <3>1. f \in [S -> Claims \X Labels]
      BY <2>5
    <3>. QED  BY <2>6, <3>1 DEF Injection, IsInjective
  <2>8. Cardinality(S)
           <= (NumTasks * MaxAttempts) * (MaxCompensationAttempts + 1)
    <3>. HIDE DEF f, S, Labels
    <3>. QED  BY <2>4, <2>7, FS_Injection
  <2>9. Cardinality(S) = IF 2 > L THEN 0 ELSE L - 2 + 1
    BY <2>1, FS_Interval
  <2>10. (NumTasks * MaxAttempts) * (MaxCompensationAttempts + 1) \in Nat
    <3>1. /\ Cardinality(Claims \X Labels) \in Nat
      BY <2>4, FS_CardinalityType
    <3>. QED  BY <2>4, <3>1
  <2>. HIDE DEF f, S, Labels
  <2>11. PICK B \in Nat :
            B = (NumTasks * MaxAttempts) * (MaxCompensationAttempts + 1)
    BY <2>10
  <2>12. L <= 1 + B
    BY <2>1, <2>8, <2>9, <2>11
  <2>. QED  BY <2>11, <2>12 DEF OutboxBounded
<1>. QED  BY <1>1, Invariance, EveryEventAccounted, PTL
=============================================================================
