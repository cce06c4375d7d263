---------------------------- MODULE TaskRuntime ----------------------------
(***************************************************************************)
(* The Task Runtime of one Plan (app/modules/task_runtime/application/     *)
(* runtime.py): several worker processes receive the Plan's wakeup events  *)
(* from a Redis consumer group and advance it with a short Claim           *)
(* transaction, an Executor that runs outside any transaction, and a short *)
(* Completion or Compensation transaction.                                 *)
(*                                                                         *)
(* A transaction takes the row lock of the Plan first                      *)
(* (plans.get_by_id_for_update), so each one is a single atomic step; only *)
(* the Claim reads its inbox before it has the lock, and that is a step of *)
(* its own.  Between the steps of a worker anything may happen: another    *)
(* worker may receive the same event (XAUTOCLAIM after 60 s idle, a double *)
(* publish), the lease of the execution may expire, the worker may crash.  *)
(*                                                                         *)
(* Time is abstracted to the set "due" of outbox events whose available_at *)
(* has passed.  The lease of an execution ends when its own timed wakeup   *)
(* falls due: both are started_at + timeout_seconds of the same claim.     *)
(***************************************************************************)
EXTENDS Integers, Sequences, TaskGraph

CONSTANTS
    Workers,                 \* worker processes (app/workers/runtime_main.py)
    NumTasks,                \* tasks of the Plan, named by their sequence
    Deps,                    \* task |-> the tasks it depends on
    SideEffect,              \* task |-> CapabilityDefinition.side_effect
    MaxAttempts,             \* CapabilityDefinition.max_attempts
    MaxCompensationAttempts, \* TaskRuntimeService.max_compensation_attempts
    MaxCrashes,              \* bound: worker crashes in one behaviour
    MaxCompensatorFailures   \* bound: exceptions raised by compensators

Tasks == 1 .. NumTasks

ASSUME CountAssumption ==
    /\ NumTasks \in Nat \ {0}
    /\ MaxAttempts \in Nat \ {0}
    /\ MaxCompensationAttempts \in Nat \ {0}
    /\ MaxCrashes \in Nat
    /\ MaxCompensatorFailures \in Nat

\* What FinalizePlan has validated before the first wakeup.
ASSUME DagAssumption == IsTaskGraph(NumTasks, Deps)

ASSUME SideEffectAssumption == SideEffect \in [Tasks -> BOOLEAN]

VARIABLES
    planStatus,    \* Plan.status
    currentTask,   \* Plan.current_task_id, 0 for None
    taskStatus,    \* Task.status
    attempts,      \* Task.attempt_count
    execs,         \* TaskExecution rows in the order of their creation
    outbox,        \* OutboxEvent rows in the order of their creation
    due,           \* outbox rows with available_at <= now
    inbox,         \* events recorded by the consumer "task_runtime"
    dropped,       \* events acknowledged with XACK but never recorded
    worker,        \* what each worker process is doing
    crashes,       \* worker crashes so far
    compFailures   \* compensator exceptions so far

planVars == <<planStatus, currentTask, taskStatus, attempts>>
eventVars == <<outbox, due>>
boundVars == <<crashes, compFailures>>
vars == <<planVars, execs, eventVars, inbox, dropped, worker, boundVars>>

-----------------------------------------------------------------------------
(* Types *)

\* Statuses between FinalizePlan and the outcome.  What a replan makes of
\* replan_pending later (superseded, failed) is as terminal to this module.
PlanStatus == {"ready", "running", "completed", "replan_pending"}
TerminalPlanStatus == {"completed", "replan_pending"}
TaskStatus == {"pending", "running", "retry_wait", "succeeded", "failed",
               "blocked"}
ExecutionStatus == {"running", "compensation_required", "compensation_locked",
                    "compensated", "succeeded", "failed"}

\* An executor failure: TaskExecutionError(retryable, blocked).  A payload or
\* an answer outside the task's document and a rejected command block the task,
\* an agent run without an answer and a timeout are retryable, a failed command
\* is what its tool says.
Errors == {err \in [retryable: BOOLEAN, blocked: BOOLEAN] :
              ~(err.retryable /\ err.blocked)}

Execution == [task: Tasks, attempt: Nat, status: ExecutionStatus,
              retryable: BOOLEAN, blocked: BOOLEAN,
              stale: BOOLEAN,      \* error_code = "execution_lease_expired"
              compensations: Nat]  \* compensation_attempt_count

\* Outbox events.  "start" is the wakeup written by FinalizePlan; "lease",
\* "retry", "recovered", "next" and "compensate" are the wakeups this module
\* writes on account of execution exec; only "compensate" carries the
\* execution's identifiers in its payload.
WakeupKind == {"start", "lease", "retry", "recovered", "next", "compensate"}
EventKind == WakeupKind \cup {"replan", "aggregate"}
DelayedKind == {"lease", "retry", "compensate"}
Event == [kind: EventKind, exec: Nat]

Idle == [pc |-> "idle", event |-> 0, seen |-> {}, exec |-> 0, attempt |-> 0,
         byEvent |-> FALSE]
WorkerState == [pc: {"idle", "claim", "execute", "begin", "compensate"},
                event: Nat,        \* the message being handled
                seen: SUBSET Tasks, \* succeeded tasks in the claim's snapshot
                exec: Nat,         \* the execution of its snapshot
                attempt: Nat,      \* the compensation attempt it began
                byEvent: BOOLEAN]  \* event_id passed to the compensation

TypeOK ==
    /\ planStatus \in PlanStatus
    /\ currentTask \in Tasks \cup {0}
    /\ taskStatus \in [Tasks -> TaskStatus]
    /\ attempts \in [Tasks -> Nat]
    /\ execs \in Seq(Execution)
    /\ outbox \in Seq(Event)
    /\ due \subseteq DOMAIN outbox
    /\ inbox \subseteq DOMAIN outbox
    /\ dropped \subseteq DOMAIN outbox
    /\ worker \in [Workers -> WorkerState]
    /\ crashes \in Nat
    /\ compFailures \in Nat

-----------------------------------------------------------------------------
(* Queries *)

TasksIn(S) == {t \in Tasks : taskStatus[t] \in S}

\* Faulty variant of the definition that follows, which the properties must
\* tell apart from it: one that ignores the dependencies.
RunnableAnyOrder(seen) == TasksIn({"pending", "retry_wait"})

\* The candidates of get_next_runnable_for_update, once every retry_wait task
\* has been put back to pending: waiting tasks whose predecessors are all among
\* the succeeded tasks that the transaction sees.
Runnable(seen) == {t \in TasksIn({"pending", "retry_wait"}) :
                      Deps[t] \subseteq seen}

\* get_latest_by_task_for_update: the execution with the highest attempt.
LatestExecution(t) ==
    CHOOSE e \in DOMAIN execs :
        /\ execs[e].task = t
        /\ \A f \in DOMAIN execs :
              execs[f].task = t => execs[f].attempt <= execs[e].attempt

\* now >= started_at + timeout_seconds
LeaseExpired(e) == \E i \in due : outbox[i] = [kind |-> "lease", exec |-> e]

\* Faulty variant: a report is accepted as long as the task is in progress.
TokenOfTask(e) == currentTask = execs[e].task

\* _lock_execution: the token of an executor that wants to report.
TokenValid(e) ==
    /\ currentTask = execs[e].task
    /\ taskStatus[execs[e].task] = "running"
    /\ execs[e].status = "running"

\* Faulty variants: the token is not checked, or its execution is not.
AnyCompensationToken(e) == TRUE
CompensationTokenOfTask(e) ==
    /\ currentTask = execs[e].task
    /\ taskStatus[execs[e].task] = "running"

\* _assert_compensation_token
CompensationTokenValid(e) ==
    /\ currentTask = execs[e].task
    /\ taskStatus[execs[e].task] = "running"
    /\ execs[e].status = "compensation_required"

Directed(i) == outbox[i].kind = "compensate"

\* Faulty variant: a failure that will be retried is not compensated.
CompensatesFinalOnly(e, err) == SideEffect[execs[e].task] /\ ~err.retryable

\* _handle_failure: a capability with side effects has to be compensated.
NeedsCompensation(e, err) == SideEffect[execs[e].task]

\* Faulty variant: off by one.
AlmostLastAttempt(n) == n >= MaxCompensationAttempts - 1

\* _handle_compensation_failure: no further attempt is permitted.
LastAttempt(n) == n >= MaxCompensationAttempts

\* Faulty variant: off by one.
RetriesOnceMore(e, err) ==
    err.retryable /\ attempts[execs[e].task] <= MaxAttempts

\* A failed task gets another attempt.
MayRetry(e, err) == err.retryable /\ attempts[execs[e].task] < MaxAttempts

-----------------------------------------------------------------------------
(* Pieces of the actions *)

Emit(kind, e) ==
    /\ outbox' = Append(outbox, [kind |-> kind, exec |-> e])
    /\ due' = IF kind \in DelayedKind THEN due ELSE due \cup {Len(outbox) + 1}

\* A redelivered or new message reaches worker w, which is not busy.  Messages
\* already acknowledged may come again: a second copy in the stream, or a
\* batch read before another worker took the message over.
Delivered(w, i) ==
    /\ worker[w].pc = "idle"
    /\ i \in due
    /\ outbox[i].kind \in WakeupKind

\* The handler returns and the message is acknowledged (XACK): it will not be
\* delivered again, unless a second copy exists.  Acknowledging a recorded
\* event changes nothing, since a later delivery finds it in the inbox.
Return(w, i) ==
    /\ worker' = [worker EXCEPT ![w] = Idle]
    /\ dropped' = dropped \cup ({i} \ inbox')

\* The handler raises: the message stays in the pending entries list.
Raise(w) ==
    /\ worker' = [worker EXCEPT ![w] = Idle]
    /\ UNCHANGED dropped

\* The claim ends without a task: the event is recorded, which its unique key
\* permits once, and acknowledged.
RecordAndReturn(w) ==
    /\ worker[w].event \notin inbox
    /\ inbox' = inbox \cup {worker[w].event}
    /\ Return(w, worker[w].event)
    /\ UNCHANGED boundVars

\* _recover_stale_execution marks an expired execution for compensation.
MarkStale(e) ==
    IF execs[e].status = "running"
    THEN [execs EXCEPT ![e] = [@ EXCEPT !.status = "compensation_required",
                                        !.retryable = TRUE,
                                        !.blocked = FALSE,
                                        !.stale = TRUE]]
    ELSE execs

\* The current execution needs a look: its lease is over, or it is already
\* waiting for compensation, or it is locked.
NeedsRecovery(e) == execs[e].status = "running" => LeaseExpired(e)

-----------------------------------------------------------------------------
(* Claim: _claim_next for a wakeup event *)

Init ==
    /\ planStatus = "ready"
    /\ currentTask = 0
    /\ taskStatus = [t \in Tasks |-> "pending"]
    /\ attempts = [t \in Tasks |-> 0]
    /\ execs = <<>>
    /\ outbox = <<[kind |-> "start", exec |-> 0]>>
    /\ due = {1}
    /\ inbox = {}
    /\ dropped = {}
    /\ worker = [w \in Workers |-> Idle]
    /\ crashes = 0
    /\ compFailures = 0

\* inbox.exists: the effects of the event are already committed.
ClaimDuplicate(w, i) ==
    /\ Delivered(w, i)
    /\ i \in inbox
    /\ UNCHANGED inbox
    /\ Return(w, i)
    /\ UNCHANGED <<planVars, execs, eventVars, boundVars>>

\* inbox.exists finds nothing.  This first plain read of the transaction fixes
\* its snapshot (REPEATABLE READ), before it waits for the lock of the Plan.
ReadInbox(w, i) ==
    /\ Delivered(w, i)
    /\ i \notin inbox
    /\ worker' = [worker EXCEPT ![w] =
                     [Idle EXCEPT !.pc = "claim", !.event = i,
                                  !.seen = TasksIn({"succeeded"})]]
    /\ UNCHANGED <<planVars, execs, eventVars, inbox, dropped, boundVars>>

\* With the Plan locked: its current execution is to be compensated.
RecoveryDue(i) ==
    /\ planStatus \notin TerminalPlanStatus
    /\ currentTask # 0
    /\ LET e == LatestExecution(currentTask)
       IN  /\ NeedsRecovery(e)
           /\ execs[e].status # "compensation_locked"
           /\ Directed(i) => outbox[i].exec = e

\* The Plan has ended, or a compensation retry finds nothing in progress.
ClaimTerminal(w) ==
    /\ worker[w].pc = "claim"
    /\ \/ planStatus \in TerminalPlanStatus
       \/ currentTask = 0 /\ Directed(worker[w].event)
    /\ RecordAndReturn(w)
    /\ UNCHANGED <<planVars, execs, eventVars>>

\* A task is running within its lease.
ClaimAlreadyRunning(w) ==
    /\ worker[w].pc = "claim"
    /\ planStatus \notin TerminalPlanStatus
    /\ currentTask # 0
    /\ ~NeedsRecovery(LatestExecution(currentTask))
    /\ RecordAndReturn(w)
    /\ UNCHANGED <<planVars, execs, eventVars>>

\* A compensation retry of an older execution, or any event once compensation
\* is locked.  The commit that records the event also saves the mark that
\* _recover_stale_execution has put on an expired execution.
ClaimNoRecovery(w) ==
    /\ worker[w].pc = "claim"
    /\ planStatus \notin TerminalPlanStatus
    /\ currentTask # 0
    /\ NeedsRecovery(LatestExecution(currentTask))
    /\ ~RecoveryDue(worker[w].event)
    /\ execs' = MarkStale(LatestExecution(currentTask))
    /\ RecordAndReturn(w)
    /\ UNCHANGED <<planVars, eventVars>>

\* Faulty variant: the event is recorded like in every other branch.
ClaimRecoveryRecording(w) ==
    /\ worker[w].pc = "claim"
    /\ RecoveryDue(worker[w].event)
    /\ execs' = MarkStale(LatestExecution(currentTask))
    /\ worker' = [worker EXCEPT ![w] =
                     [Idle EXCEPT !.pc = "begin", !.event = worker[w].event,
                                  !.exec = LatestExecution(currentTask)]]
    /\ inbox' = inbox \cup {worker[w].event}
    /\ UNCHANGED <<planVars, eventVars, dropped, boundVars>>

\* An expired or failed execution is handed to this worker for compensation.
\* The event is not recorded: only the end of the compensation does that.
ClaimRecovery(w) ==
    /\ worker[w].pc = "claim"
    /\ RecoveryDue(worker[w].event)
    /\ execs' = MarkStale(LatestExecution(currentTask))
    /\ worker' = [worker EXCEPT ![w] =
                     [Idle EXCEPT !.pc = "begin", !.event = worker[w].event,
                                  !.exec = LatestExecution(currentTask),
                                  !.byEvent = TRUE]]
    /\ UNCHANGED <<planVars, eventVars, inbox, dropped, boundVars>>

MayClaim(w) ==
    /\ worker[w].pc = "claim"
    /\ planStatus \in {"ready", "running"}
    /\ currentTask = 0
    /\ ~Directed(worker[w].event)

RetryWaitToPending ==
    [t \in Tasks |-> IF taskStatus[t] = "retry_wait" THEN "pending"
                                                     ELSE taskStatus[t]]

\* The first runnable task gets a fresh execution, whose lease is guarded by a
\* wakeup that falls due when it expires.
ClaimTask(w) ==
    /\ MayClaim(w)
    /\ worker[w].event \notin inbox
    /\ \E t \in Runnable(worker[w].seen) :
          /\ \A u \in Runnable(worker[w].seen) : t <= u
          /\ taskStatus' = [RetryWaitToPending EXCEPT ![t] = "running"]
          /\ attempts' = [attempts EXCEPT ![t] = @ + 1]
          /\ currentTask' = t
          /\ execs' = Append(execs,
                 [task |-> t, attempt |-> attempts[t] + 1,
                  status |-> "running", retryable |-> FALSE,
                  blocked |-> FALSE, stale |-> FALSE, compensations |-> 0])
    /\ planStatus' = "running"
    /\ Emit("lease", Len(execs) + 1)
    /\ inbox' = inbox \cup {worker[w].event}
    /\ worker' = [worker EXCEPT ![w] =
                     [Idle EXCEPT !.pc = "execute", !.event = worker[w].event,
                                  !.exec = Len(execs) + 1]]
    /\ UNCHANGED <<dropped, boundVars>>

\* "no_task": in the snapshot no waiting task has all its predecessors
\* succeeded.  The event is consumed all the same.
ClaimNoTask(w) ==
    /\ MayClaim(w)
    /\ Runnable(worker[w].seen) = {}
    /\ taskStatus' = RetryWaitToPending
    /\ RecordAndReturn(w)
    /\ UNCHANGED <<planStatus, currentTask, attempts, execs, eventVars>>

\* Another worker has recorded the same event since the snapshot: the unique
\* key (consumer_name, event_id) makes the whole transaction fail.
ClaimConflict(w) ==
    /\ worker[w].pc = "claim"
    /\ worker[w].event \in inbox
    /\ ~RecoveryDue(worker[w].event)
    /\ Raise(w)
    /\ UNCHANGED <<planVars, execs, eventVars, inbox, boundVars>>

-----------------------------------------------------------------------------
(* Completion: the executor of worker w has returned *)

\* _complete: the task succeeded; wake the Plan for the next task, or ask for
\* the aggregation of a Plan whose tasks have all succeeded.
Complete(w) ==
    LET e == worker[w].exec
        t == execs[e].task
        waiting == TasksIn({"pending", "retry_wait"})
    IN  /\ worker[w].pc = "execute"
        /\ TokenValid(e)
        /\ taskStatus' = [taskStatus EXCEPT ![t] = "succeeded"]
        /\ execs' = [execs EXCEPT ![e].status = "succeeded"]
        /\ currentTask' = 0
        /\ \/ /\ waiting # {}
              /\ Emit("next", e)
              /\ UNCHANGED planStatus
           \/ /\ waiting = {}
              /\ IF \A u \in Tasks \ {t} : taskStatus[u] = "succeeded"
                 THEN planStatus' = "completed" /\ Emit("aggregate", e)
                 ELSE UNCHANGED <<planStatus, eventVars>>
        /\ UNCHANGED <<attempts, inbox, boundVars>>
        /\ Return(w, worker[w].event)

\* What happens to a task whose execution e has been closed with error err:
\* another attempt while there are any left, otherwise a replan.
RetryOrReplan(e, err, retryStatus, retryKind) ==
    LET t == execs[e].task
    IN  /\ currentTask' = 0
        /\ \/ /\ MayRetry(e, err)
              /\ taskStatus' = [taskStatus EXCEPT ![t] = retryStatus]
              /\ Emit(retryKind, e)
              /\ UNCHANGED planStatus
           \/ /\ ~MayRetry(e, err)
              /\ taskStatus' = [taskStatus EXCEPT ![t] =
                                   IF err.blocked THEN "blocked" ELSE "failed"]
              /\ planStatus' = "replan_pending"
              /\ Emit("replan", e)
        /\ UNCHANGED attempts

\* _fail: a capability without side effects needs no compensation.
Fail(w) ==
    LET e == worker[w].exec
    IN  /\ worker[w].pc = "execute"
        /\ TokenValid(e)
        /\ \E err \in Errors :
              /\ ~NeedsCompensation(e, err)
              /\ execs' = [execs EXCEPT ![e] =
                              [@ EXCEPT !.status = "failed",
                                        !.retryable = err.retryable,
                                        !.blocked = err.blocked]]
              /\ RetryOrReplan(e, err, "retry_wait", "retry")
        /\ UNCHANGED <<inbox, boundVars>>
        /\ Return(w, worker[w].event)

\* _require_compensation: the failure is saved before the compensator runs.
\* The compensation that follows is not tied to the event (event_id = None).
RequireCompensation(w) ==
    LET e == worker[w].exec
    IN  /\ worker[w].pc = "execute"
        /\ TokenValid(e)
        /\ \E err \in Errors :
              /\ NeedsCompensation(e, err)
              /\ execs' = [execs EXCEPT ![e] =
                              [@ EXCEPT !.status = "compensation_required",
                                        !.retryable = err.retryable,
                                        !.blocked = err.blocked]]
        /\ worker' = [worker EXCEPT ![w].pc = "begin"]
        /\ UNCHANGED <<planVars, eventVars, inbox, dropped, boundVars>>

\* The execution was taken over while the executor was running: whatever it
\* reports is refused.
ReportRefused(w) ==
    /\ worker[w].pc = "execute"
    /\ ~TokenValid(worker[w].exec)
    /\ Raise(w)
    /\ UNCHANGED <<planVars, execs, eventVars, inbox, boundVars>>

-----------------------------------------------------------------------------
(* Compensation *)

\* _begin_compensation_attempt: the attempt is counted before it is made.
BeginCompensation(w) ==
    LET e == worker[w].exec
    IN  /\ worker[w].pc = "begin"
        /\ CompensationTokenValid(e)
        /\ execs' = [execs EXCEPT ![e].compensations = @ + 1]
        /\ worker' = [worker EXCEPT ![w].pc = "compensate",
                                    ![w].attempt = execs[e].compensations + 1]
        /\ UNCHANGED <<planVars, eventVars, inbox, dropped, boundVars>>

\* inbox.exists is checked before the event is recorded.
RecordOnce(w) ==
    inbox' = IF worker[w].byEvent THEN inbox \cup {worker[w].event} ELSE inbox

\* _handle_compensation_failure: the compensator raised.  The last permitted
\* attempt locks the execution, an earlier one schedules the next attempt.
FailCompensation(w) ==
    LET e == worker[w].exec
    IN  /\ worker[w].pc = "compensate"
        /\ SideEffect[execs[e].task]
        /\ compFailures < MaxCompensatorFailures
        /\ compFailures' = compFailures + 1
        /\ CompensationTokenValid(e)
        /\ execs[e].compensations = worker[w].attempt
        /\ \/ /\ LastAttempt(worker[w].attempt)
              /\ execs' = [execs EXCEPT ![e].status = "compensation_locked"]
              /\ UNCHANGED eventVars
           \/ /\ ~LastAttempt(worker[w].attempt)
              /\ Emit("compensate", e)
              /\ UNCHANGED execs
        /\ RecordOnce(w)
        /\ Return(w, worker[w].event)
        /\ UNCHANGED <<planVars, crashes>>

\* The compensator raised, and another worker has closed the execution or
\* begun a later attempt in the meantime: the failure is not recorded.
FailCompensationRefused(w) ==
    LET e == worker[w].exec
    IN  /\ worker[w].pc = "compensate"
        /\ SideEffect[execs[e].task]
        /\ compFailures < MaxCompensatorFailures
        /\ compFailures' = compFailures + 1
        /\ \/ ~CompensationTokenValid(e)
           \/ execs[e].compensations # worker[w].attempt
        /\ Raise(w)
        /\ UNCHANGED <<planVars, execs, eventVars, inbox, crashes>>

\* _complete_compensation: the task gives up its execution and is retried, at
\* once when a lease expired and after a delay otherwise, or the Plan goes to
\* a replan.  Recording an event twice would break the inbox's unique key.
CompleteCompensation(w) ==
    LET e == worker[w].exec
        err == [retryable |-> execs[e].retryable, blocked |-> execs[e].blocked]
    IN  /\ worker[w].pc = "compensate"
        /\ CompensationTokenValid(e)
        /\ worker[w].byEvent => worker[w].event \notin inbox
        /\ execs' = [execs EXCEPT ![e].status = "compensated"]
        /\ IF execs[e].stale
           THEN RetryOrReplan(e, err, "pending", "recovered")
           ELSE RetryOrReplan(e, err, "retry_wait", "retry")
        /\ RecordOnce(w)
        /\ Return(w, worker[w].event)
        /\ UNCHANGED boundVars

\* The compensation token is no longer valid, or the event was recorded by
\* another worker: the transaction fails and leaves everything as it was.
CompensationRefused(w) ==
    /\ \/ /\ worker[w].pc \in {"begin", "compensate"}
          /\ ~CompensationTokenValid(worker[w].exec)
       \/ /\ worker[w].pc = "compensate"
          /\ worker[w].byEvent /\ worker[w].event \in inbox
    /\ Raise(w)
    /\ UNCHANGED <<planVars, execs, eventVars, inbox, boundVars>>

-----------------------------------------------------------------------------
(* Environment *)

\* The process dies: its local state is gone, its message stays unacknowledged.
\* Before the claim commits there is nothing to lose.
Crash(w) ==
    /\ worker[w].pc \notin {"idle", "claim"}
    /\ crashes < MaxCrashes
    /\ crashes' = crashes + 1
    /\ Raise(w)
    /\ UNCHANGED <<planVars, execs, eventVars, inbox, compFailures>>

\* available_at of a delayed event passes.
FallDue(i) ==
    /\ i \in DOMAIN outbox \ due
    /\ due' = due \cup {i}
    /\ UNCHANGED <<planVars, execs, outbox, inbox, dropped, worker, boundVars>>

-----------------------------------------------------------------------------

Deliver(w, i) == ClaimDuplicate(w, i) \/ ReadInbox(w, i)

Proceed(w) ==
    \/ ClaimTerminal(w)
    \/ ClaimAlreadyRunning(w)
    \/ ClaimNoRecovery(w)
    \/ ClaimRecovery(w)
    \/ ClaimTask(w)
    \/ ClaimNoTask(w)
    \/ ClaimConflict(w)
    \/ Complete(w)
    \/ Fail(w)
    \/ RequireCompensation(w)
    \/ ReportRefused(w)
    \/ BeginCompensation(w)
    \/ FailCompensation(w)
    \/ FailCompensationRefused(w)
    \/ CompleteCompensation(w)
    \/ CompensationRefused(w)

Next ==
    \/ \E w \in Workers, i \in DOMAIN outbox : Deliver(w, i)
    \/ \E w \in Workers : Proceed(w) \/ Crash(w)
    \/ \E i \in DOMAIN outbox : FallDue(i)

Spec == Init /\ [][Next]_vars

\* What keeps the system moving.  The delays are finite, so every delayed event
\* falls due.  A worker that is alive finishes what it does: wait_for bounds an
\* executor and the transactions end.  Its stream loop takes over messages left
\* unacknowledged (XAUTOCLAIM) before it reads new ones, so an event that was
\* never recorded and never acknowledged is delivered again and again.
Fairness ==
    /\ WF_vars(\E i \in DOMAIN outbox : FallDue(i))
    /\ \A w \in Workers :
          /\ WF_vars(Proceed(w))
          /\ WF_vars(\E i \in DOMAIN outbox \ (inbox \cup dropped) :
                        Deliver(w, i))

FairSpec == Spec /\ Fairness

-----------------------------------------------------------------------------
(* Safety *)

ActiveStatus == {"running", "compensation_required", "compensation_locked"}
ClosedStatus == {"compensated", "succeeded", "failed"}
Active(e) == execs[e].status \in ActiveStatus
Locked == \E e \in DOMAIN execs : execs[e].status = "compensation_locked"

\* A Plan has concurrency one: its current task is the only running one, and
\* the latest execution of that task is the only execution not closed.  This
\* is what lets recovery look at current_task_id alone.
SingleOwner ==
    /\ \A t \in Tasks : taskStatus[t] = "running" <=> t = currentTask
    /\ currentTask # 0 => /\ planStatus = "running"
                          /\ \E e \in DOMAIN execs : execs[e].task = currentTask
                          /\ Active(LatestExecution(currentTask))
    /\ \A e \in DOMAIN execs :
          Active(e) => /\ execs[e].task = currentTask
                       /\ e = LatestExecution(currentTask)

\* However often an event is delivered and whatever leases expire, at most one
\* worker is running an executor whose report will be accepted.
SingleReporter ==
    \A w, v \in Workers :
        /\ worker[w].pc = "execute" /\ TokenValid(worker[w].exec)
        /\ worker[v].pc = "execute" /\ TokenValid(worker[v].exec)
        => w = v

\* Event i still makes the Plan progress when it is handled.
Useful(i) ==
    LET e == LatestExecution(currentTask)
    IN  IF currentTask = 0
        THEN ~Directed(i)
        ELSE \/ outbox[i] = [kind |-> "lease", exec |-> e]
             \/ outbox[i] = [kind |-> "compensate", exec |-> e]

\* No wakeup is lost: a Plan that has work left and is not locked has a wakeup
\* event that no transaction has consumed and no worker has acknowledged.
NoLostWakeup ==
    planStatus \in {"ready", "running"} /\ ~Locked
    => \E i \in DOMAIN outbox \ (inbox \cup dropped) :
          outbox[i].kind \in WakeupKind /\ Useful(i)

\* An acknowledged event has been recorded: XACK never overtakes the commit.
AcknowledgedIsRecorded == dropped = {}

\* A Plan with work left and nothing in flight has a runnable task: "no_task"
\* is only ever the answer of an outdated snapshot, and consumes a wakeup the
\* Plan can do without (NoLostWakeup).
NeverStarved ==
    planStatus \in {"ready", "running"} /\ currentTask = 0
    => Runnable(TasksIn({"succeeded"})) # {}

\* An executor runs for a task only after all its predecessors succeeded, and
\* within max_attempts.
DependenciesFirst ==
    \A e \in DOMAIN execs :
        /\ Deps[execs[e].task] \subseteq TasksIn({"succeeded"})
        /\ execs[e].attempt <= MaxAttempts

\* A new attempt of a task starts only when the one before has been undone:
\* compensated if the capability has side effects or the lease expired, failed
\* if the executor reported an error that left nothing to undo.
RetryAfterCleanup ==
    \A e, f \in DOMAIN execs :
        /\ execs[e].task = execs[f].task
        /\ execs[e].attempt < execs[f].attempt
        => execs[e].status =
              IF SideEffect[execs[e].task] \/ execs[e].stale
              THEN "compensated" ELSE "failed"

EventsOf(kind) == {i \in DOMAIN outbox : outbox[i].kind = kind}
ExactlyOne(S) == S # {} /\ \A i, j \in S : i = j

\* The Plan asks for its aggregation once, when every task has succeeded, and
\* for a replan once, when a task has finally failed; never for both.
OneOutcomeEvent ==
    /\ IF planStatus = "completed"
       THEN ExactlyOne(EventsOf("aggregate")) ELSE EventsOf("aggregate") = {}
    /\ IF planStatus = "replan_pending"
       THEN ExactlyOne(EventsOf("replan")) ELSE EventsOf("replan") = {}
    /\ planStatus = "completed" <=> \A t \in Tasks : taskStatus[t] = "succeeded"

\* Compensation is given up only after the permitted attempts were all made,
\* and a locked Plan keeps its ownership.
LockedIsExhausted ==
    \A e \in DOMAIN execs :
        execs[e].status = "compensation_locked"
        => /\ execs[e].compensations >= MaxCompensationAttempts
           /\ currentTask = execs[e].task

\* A late report or a second compensation never rewrites a closed or locked
\* execution, nor the status of a task that has succeeded.
ClosedIsFinal ==
    [][/\ \A e \in DOMAIN execs :
             execs[e].status \in ClosedStatus \cup {"compensation_locked"}
             => execs'[e] = execs[e]
       /\ \A t \in Tasks :
             taskStatus[t] = "succeeded" => taskStatus'[t] = "succeeded"]_vars

-----------------------------------------------------------------------------
(* Liveness *)

\* The Plan completes, asks for a replan, or is left locked for an operator,
\* in spite of crashes, redeliveries and failing compensators.
PlanSettles == <>(planStatus \in TerminalPlanStatus \/ Locked)
=============================================================================
