--------------------------- MODULE TaskRuntimeInv ---------------------------
(***************************************************************************)
(* The inductive invariant of TaskRuntime: why its safety properties hold. *)
(***************************************************************************)
EXTENDS TaskRuntime, FiniteSets

Open == planStatus \in {"ready", "running"}
Busy == {"execute", "begin", "compensate"}
ReleaseKind == {"start", "retry", "recovered", "next"}

\* A worker handles an event that exists and was due; what it has seen succeed
\* stays so; and it holds an event that it may acknowledge: either recorded
\* already, or to be recorded by the transaction that ends its compensation.
WorkerInv ==
    \A w \in Workers :
        /\ worker[w].pc = "claim" =>
              /\ worker[w].event \in due
              /\ outbox[worker[w].event].kind \in WakeupKind
              /\ worker[w].seen \subseteq TasksIn({"succeeded"})
        /\ worker[w].pc \in Busy =>
              /\ worker[w].event \in due
              /\ worker[w].exec \in DOMAIN execs
              /\ worker[w].byEvent \/ worker[w].event \in inbox
        /\ worker[w].pc = "execute" => ~worker[w].byEvent

\* Attempts number the executions of a task, and an execution that is not
\* closed is the last attempt of the current task.
ExecutionInv ==
    /\ \A e \in DOMAIN execs :
          execs[e].attempt \in 1 .. attempts[execs[e].task]
    /\ \A e, f \in DOMAIN execs :
          /\ execs[e].task = execs[f].task
          /\ execs[e].attempt = execs[f].attempt
          => e = f
    /\ \A e \in DOMAIN execs :
          Active(e) => /\ execs[e].task = currentTask
                       /\ execs[e].attempt = attempts[currentTask]

\* A Plan that is open has no failed task, and one to go if none is in flight.
PlanInv ==
    /\ \A t \in Tasks : taskStatus[t] = "running" <=> t = currentTask
    /\ currentTask # 0 => /\ planStatus = "running"
                          /\ \E e \in DOMAIN execs : Active(e)
    /\ Open => TasksIn({"failed", "blocked"}) = {}
    /\ Open => TasksIn({"succeeded"}) # Tasks
    /\ \A t \in Tasks :
          IF taskStatus[t] \in {"pending", "retry_wait"}
          THEN attempts[t] < MaxAttempts ELSE attempts[t] <= MaxAttempts

\* An execution in flight is guarded by its lease or by a compensation retry;
\* a Plan with nothing in flight by the wakeup of the last release, of which
\* no worker has an outdated view.
WakeupInv ==
    /\ \A i \in DOMAIN outbox :
          outbox[i].kind = "compensate" =>
              /\ outbox[i].exec \in DOMAIN execs
              /\ execs[outbox[i].exec].status # "running"
    /\ \A e \in DOMAIN execs :
          execs[e].status \in {"running", "compensation_required"} =>
              \E i \in DOMAIN outbox \ inbox :
                  outbox[i] \in [kind: {"lease", "compensate"}, exec: {e}]
    /\ Open /\ currentTask = 0 =>
          \E n \in DOMAIN outbox \ inbox :
              /\ outbox[n].kind \in ReleaseKind
              /\ \A w \in Workers :
                    worker[w].pc = "claim" /\ worker[w].event = n
                    => worker[w].seen = TasksIn({"succeeded"})

\* An execution is run by the worker that claimed it.
OwnExecution ==
    \A w, v \in Workers :
        /\ worker[w].pc = "execute"
        /\ worker[v].pc = "execute"
        /\ worker[w].exec = worker[v].exec
        => w = v

IInv ==
    /\ TypeOK
    /\ WorkerInv
    /\ OwnExecution
    /\ AcknowledgedIsRecorded
    /\ ExecutionInv
    /\ PlanInv
    /\ WakeupInv

\* An execution is closed in the way its task and its error demand; only the
\* last one of a task succeeds; a locked one has used up its compensations.
ClosedProperly(e) ==
    LET x == execs[e]
        undo == SideEffect[x.task] \/ x.stale
    IN  /\ x.status = "running" => ~x.stale
        /\ x.status = "succeeded" => /\ taskStatus[x.task] = "succeeded"
                                     /\ x.attempt = attempts[x.task]
        /\ x.status = "failed" => ~undo
        /\ x.status \in {"compensation_required", "compensation_locked",
                          "compensated"} => undo
        /\ x.status = "compensation_locked"
           => x.compensations >= MaxCompensationAttempts

ClosureInv == \A e \in DOMAIN execs : ClosedProperly(e)

\* A Plan that waits for a replan has a task that failed for good.
FailedPlan ==
    planStatus = "replan_pending" => TasksIn({"failed", "blocked"}) # {}

OutcomeInv == FailedPlan /\ OneOutcomeEvent
\* The events written on account of execution e.
EventsAbout(kinds, e) ==
    {i \in DOMAIN outbox : outbox[i].kind \in kinds /\ outbox[i].exec = e}
ClosingKind == {"retry", "recovered", "next", "replan", "aggregate"}
Retries(e) == EventsAbout({"compensate"}, e)

\* Every event but the first tells of one execution: its lease when it starts,
\* what follows when it is closed, and in between a retry for each of its
\* compensations but the last.  Deliveries and crashes write nothing.
EventsAccounted ==
    /\ \A i \in DOMAIN outbox :
          IF outbox[i].kind = "start" THEN i = 1
                                      ELSE outbox[i].exec \in DOMAIN execs
    /\ \A e \in DOMAIN execs :
          /\ ExactlyOne(EventsAbout({"lease"}, e))
          /\ IF Active(e) THEN EventsAbout(ClosingKind, e) = {}
                          ELSE ExactlyOne(EventsAbout(ClosingKind, e))
          /\ Cardinality(Retries(e)) < MaxCompensationAttempts

\* A compensation attempt asks for at most one retry, when its worker fails;
\* an attempt that has been overtaken asks for none.
RetryInv ==
    /\ \A e \in DOMAIN execs : Cardinality(Retries(e)) <= execs[e].compensations
    /\ \A w \in Workers :
          worker[w].pc = "compensate" =>
              LET x == execs[worker[w].exec]
              IN  /\ worker[w].attempt <= x.compensations
                  /\ worker[w].attempt = x.compensations
                     => Cardinality(Retries(worker[w].exec)) < x.compensations
    /\ \A w, v \in Workers :
          /\ worker[w].pc = "compensate"
          /\ worker[v].pc = "compensate"
          /\ worker[w].exec = worker[v].exec
          /\ worker[w].attempt = worker[v].attempt
          => w = v

\* The Plan never has more rows than its tasks and attempts account for.
ExecutionsBounded == Len(execs) <= NumTasks * MaxAttempts
OutboxBounded ==
    Len(outbox) <= 1 + (NumTasks * MaxAttempts) * (MaxCompensationAttempts + 1)

=============================================================================
