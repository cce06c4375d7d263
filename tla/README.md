# Verification of DocFlow Agent

TLA+ models of the DocFlow Agent backend (`src/app`), model-checked with TLC and
proved about with TLAPS. The models are translated from the source; names of
variables, states and operators are those of the code where TLA+ permits it.

## 1. The system

DocFlow Agent answers messages of a conversation. A message becomes a *Turn*;
a context agent selects the history it concerns; a planner writes a *Plan* of at
most ten *Tasks* with dependencies; background workers execute the tasks against
a document knowledge base, retry and compensate them; when a task has finally
failed a new revision of the Plan is made, when all have succeeded the answers are
aggregated and the Turn is completed. State lives in MySQL (repeatable-read
transactions with row locks), in Redis (streams, locks, a cache), in Qdrant
(vectors) and in a directory tree (raw and cleaned files).

    POST message        +----------------+     outbox      +-----------------+
    ------------------> | conversation   | --------------> | outbox publisher|
                        | context        |   (MySQL)       +-----------------+
                        | planning       |                      | XADD
                        +----------------+                      v
                              ^   |  Plan, Tasks        Redis stream + group
                 complete_turn|   v                             |
                        +----------------+    XREADGROUP /      v
                        | MySQL          | <-- XAUTOCLAIM -- workers:
                        +----------------+   task runtime, replan, aggregation
                                                     |
                                                     v  executors, compensators
                                          document pipeline: files, chunks, Qdrant

### 1.1 Inventory

| Component (source) | State it keeps | Operations | What makes it correct |
|---|---|---|---|
| **task_runtime** (`modules/task_runtime`, `workers/runtime_main.py`) | Plan.status, Plan.current_task_id, Task.status and attempt_count, TaskExecution rows, its entries of the inbox and the outbox | claim, complete, fail, require/begin/complete/fail compensation, recover an expired lease | one execution in progress per Plan; a late report changes nothing; no Plan is left without a wakeup; a task is retried only after its side effects are undone; one aggregation or one replan per Plan |
| **messaging** (`modules/messaging`) | outbox_events (PENDING, PUBLISHED, DEAD_LETTER, attempts, available_at), inbox, the Redis stream with its pending entries | load and publish a batch, mark published/failed, read, reclaim, dispatch, acknowledge | every committed event is handled at least once, an effect recorded with its event is committed once, XACK never precedes the commit |
| **planning** (`modules/planning`) | Plan revisions and their status, draft tasks, clarification marks | create, add draft tasks, finalise (DAG, numbering, depth), mark as unsupported / waiting / retry-pending / failed, replan | at most one live revision per Turn, a finalised Plan is an acyclic graph of 1..10 tasks, at most three revisions |
| **clarification** (`modules/clarification`) | ClarificationRequest (open, answered, resolved, expired) | ask, answer, resolve, expire | one request per Turn; an answer leads to exactly one replan; a request is resolved only by the Turn that used the answer |
| **aggregation** (`modules/aggregation`) | none of its own; completes the Turn | load the snapshot of a completed Plan, write the answer, complete the Turn | a Turn is completed once and only from a Plan whose tasks have all succeeded |
| **conversation** (`modules/conversation`) | none of its own | `send_message` drives context selection and planning, or answers a clarification; `get_turn_status` | no Turn is left without somebody who continues it |
| **context** (`modules/context`) | ConversationTurn, ContextChain and its resource_version, nodes, selections, resources; Redis: a lock per conversation and a bounded queue of recent resources per chain | select the context, complete a Turn, warm up / refresh / invalidate the resource queue, archive | completion is idempotent; the cached queue of a version is what the database had at that version; expired locks do not corrupt chains |
| **document** (`modules/document`) | Document (status, current operation, lifecycle_status, storage_status, active_content_hash), artifacts, parent/child chunks, vector status, files, staging directories, Qdrant points | upload, process, build chunks, index vectors, a compensator for each processing step, deactivate / replace | nothing an execution did outside the database outlives its operation; a late compensation removes nothing that is published; nobody owns a document for ever; replacements form no circle and lead to an indexed document; files and rows agree |
| **operations** (`modules/operations`) | none of its own; reads the JSONL log files | pages with a cursor, time lines of documents, failures and tool calls | a reader of all pages has seen every event once; a time line says nothing that is not so |
| **agents** (`agents`) | the state of one planner run: evidence, gap decision | collect evidence, judge gaps, draft and publish tasks, hand over to the user | no verdict without its evidence; what is published can be executed; the Plan is handed on |
| **agent_runtime** (`agent_runtime`) | audit log | tool registry, permissions, audit around each call | an audited end is the end the call had |
| **infrastructure** (`infrastructure`) | connection pools | unit of work, MySQL named locks, Redis, Qdrant and model clients | a named lock excludes a second holder as long as its connection lives |
| **shared** (`shared`) | JSONL files | the JSONL writer, stage loggers, clocks, tracing | an event is stamped before it is written; a line that got its line feed is never changed by a later write |
| **bootstrap**, **api**, **config** | – | wiring, settings | – |

### 1.2 How the components interact

* `send_message` (conversation) calls context and planning in sequence, each in
  short transactions; `FinalizePlan` writes the first wakeup of the Plan to the
  outbox in the transaction that makes it `ready`.
* The outbox publisher moves events to a Redis stream. Workers read them in a
  consumer group; messages left unacknowledged for 60 s are taken over with
  XAUTOCLAIM. The dispatcher routes wakeups to the task runtime, replan requests
  to planning and aggregation requests to aggregation.
* The task runtime calls executors of the document module outside any
  transaction, and their compensators after a failure.
* The task runtime ends a Plan by writing `AGGREGATION_REQUESTED` or
  `REPLAN_REQUESTED` to the outbox with the state change. Replan supersedes the
  Plan and its unfinished tasks with a new revision; aggregation completes the Turn.

### 1.3 What is hard

*Interleaving*: any number of workers, the same event at two workers, a lease that
expires while its executor is still running, a compensator beside a draining
executor, two planner runs on one Plan, two replacements in opposite directions.
*Delivery*: duplicates, reordering, delays, publications whose answer is lost, failing
handlers. *Crashes* between claim, execution, completion and compensation, between a
file and its row, in the middle of a line of a log. *Stale reads*: the inbox is read
before the lock of the Plan is held, and that read fixes the repeatable-read snapshot;
ownership of a document is checked before the fence is entered. *Limits*: attempts,
compensation attempts, plan revisions, publication attempts, tasks and depth of a
Plan. `PROJECT.json` lists each of these as a hazard at its line.

## 2. Modules

| Module | Contents |
|---|---|
| `TaskRuntime` | the Task Runtime of one Plan with its workers, leases, events and compensations; safety and liveness properties; faulty variants |
| `TaskGraph` | the graph of the tasks of a Plan, as planning publishes it and the Task Runtime assumes it |
| `PlanLifecycle` | what the Task Runtime promises: the abstract state machine of a Plan and its tasks, with one action for each way a task can go |
| `PlanExecution` | what the rest of the system sees of the execution of a Plan: its status, and what it asks for when it ends; the interface between TaskRuntime and TurnWorkflow |
| `TaskRuntimeRefinement` | the mappings under which TaskRuntime implements PlanLifecycle and PlanExecution |
| `TaskRuntimeInv` | the inductive invariant `IInv`; the accounting of executions and events |
| `TaskRuntimeProofs` | theorems and proofs, the refinement among them |
| `ResourceQueue` | the cached queue of recent resources of a context chain: MySQL facts, Redis scripts, lock, failures |
| `ResourceQueueInv`, `ResourceQueueProofs` | its inductive invariant; theorems and proofs |
| `Sorting` | the sorted sequence of a finite set, defined without recursion |
| `TurnWorkflow` | one Turn from its message to its answer: routing, planning, clarification, revisions, aggregation, redelivery and crashes |
| `TurnWorkflowInv` | its inductive invariant; the mapping of each revision to PlanExecution |
| `TurnWorkflowProofs` | theorems and proofs about a Turn |
| `EventDelivery` | outbox, publisher loops, stream and consumer group, dispatcher and inbox |
| `EventDeliveryInv`, `EventDeliveryProofs` | its inductive invariant; theorems and proofs |
| `ReliableDelivery` | what the transport promises: accepted events are consumed or become dead letters |
| `DocumentPipeline` | one document from the upload to the vector store: executors, compensators, ownership, named locks, files and vectors |
| `DocumentPipelineInv`, `DocumentPipelineProofs` | its inductive invariants; theorems and proofs |
| `DocumentLibrary` | the documents from the outside: uploads, duplicates, expiry, replacement, raw files |
| `DocumentLibraryInv`, `DocumentLibraryProofs` | its inductive invariant; theorems and proofs |
| `PlannerRun` | the planner at work on one Plan: evidence, gap decisions, draft tasks, validation of their graph |
| `PlannerRunInv`, `PlannerRunProofs` | its inductive invariant; theorems and proofs |
| `EventLog` | the JSONL logs: writers, torn lines, pages and time lines |
| `EventLogInv`, `EventLogProofs` | its inductive invariant; theorems and proofs |
| `MC...` | instances of the modules above for TLC |

The modules meet where one takes the outcome of another for granted:
`TaskRuntime` and `TurnWorkflow` let any committed event reach any idle worker, again and
again, until it is recorded, which is what `EventDelivery` shows of the transport;
`TurnWorkflow` reduces the Task Runtime to `PlanExecution`, which `TaskRuntime` implements
(theorem `ExecutionImplemented`) and which is what happens to every revision of a Turn
(`EachIsExecuted`, `ExecutionIsAllowed`), and takes from `TaskRuntime` that a Plan settles; `TurnWorkflow` reduces a draft to "has tasks",
`PlannerRun` opens that up, and what it publishes is what `DagAssumption` of
`TaskRuntime` asks for: both are `IsTaskGraph`, and theorem `GraphHandedOn` proves it; `TaskRuntime` lets a compensator run beside a draining executor,
and `DocumentPipeline` shows what the document module makes of it.

An operator whose comment begins with *Mutant* or names a mistake, and that no action
uses, is not part of the specification. It states the mistake that a property is
there to exclude and stands beside the definition it distorts.

### 2.1 TaskRuntime and the code

One Plan is modelled: the row lock of the Plan serialises its transactions, and
different Plans share nothing but the workers. The correspondence:

| Code (`task_runtime/application/runtime.py` unless named) | Model |
|---|---|
| `_claim_next`: `inbox.exists` | `ClaimDuplicate`, `ReadInbox` (a step of its own, see below) |
| `_claim_next`: branches under the lock | `ClaimTerminal`, `ClaimAlreadyRunning`, `ClaimNoRecovery`, `ClaimRecovery`, `ClaimTask`, `ClaimNoTask`, `ClaimConflict` |
| `_recover_stale_execution` | `MarkStale`, `NeedsRecovery`, `RecoveryDue` |
| executor outside any transaction | the states between `ClaimTask` and the report; the outcome is any of success and `Errors` |
| `_complete`, `_fail`, `_require_compensation` | `Complete`, `Fail`, `RequireCompensation`; `ReportRefused` when `_lock_execution` raises |
| `_begin_compensation_attempt`, `_complete_compensation`, `_handle_compensation_failure` | `BeginCompensation`, `CompleteCompensation`, `FailCompensation`, and the refused forms |
| `_lock_execution`, `_assert_compensation_token` | `TokenValid`, `CompensationTokenValid` |
| outbox rows, `available_at` | `outbox`, `due`; `FallDue` |
| inbox rows of the consumer `task_runtime`, unique per event | `inbox` |
| Redis consumer group | `Delivered`: any event that is due may reach any idle worker, again and again, until it is acknowledged, and also afterwards (a second copy in the stream, a batch read before a take-over) |
| XACK after the handler returns | `Return`; an event acknowledged without having been recorded would enter `dropped` |
| an exception leaves the message pending | `Raise` |
| end of a worker process | `Crash` |

*Atomicity.* Every transaction locks the Plan row first
(`plans.get_by_id_for_update`) and is one step. The exception is the claim: its
plain read of the inbox comes before the lock and, under MySQL's repeatable-read
isolation, fixes the snapshot for the plain reads that follow, the one of the
predecessors' status among them. So `ReadInbox` is a step, and `seen` is the set of
succeeded tasks of that snapshot. Locking reads see the present state.

*Time.* Absolute time is abstracted to the set of events that have fallen due.
The lease of an execution and its timed wakeup are computed from the same
instant and the same timeout, so that `LeaseExpired` is "the lease wakeup is
due". All workers share one clock; skew between them is out of the model (it
is listed as a hazard).

*Executors.* `asyncio.wait_for` cancels an executor at the timeout and waits for
it to drain. The model lets an executor run for any finite time, which includes
the drain. An executor ends in success or in any of the errors that
`_handle_failure` distinguishes.

*Crashes.* A worker may crash whenever it holds something: while it executes,
before and during a compensation. Before its claim commits there is nothing a crash
could lose that a duplicate delivery does not also show.

### 2.2 PlanLifecycle

The abstract specification knows neither workers nor events, executions or
leases: a Plan with a current task, tasks that start when their predecessors have
succeeded, that succeed, wait for a retry or fail, and an outcome. It is what the
users of the Task Runtime (replan, aggregation, turn status) rely on.

### 2.3 ResourceQueue and the code

One chain of one conversation: chains share nothing but the lock. `history` keeps
the facts of each `resource_version`, so that the reference definition is
"what `Warmup` would make of version v". `version`, `queue` and `data` are the
three Redis keys.

| Code | Model |
|---|---|
| `ConversationRouteLockManager.hold` around `send_message` and `complete_turn` | `Acquire`, `Release`, `Expire`; `expired` remembers that it happened |
| `RunPlanningUseCase._load_plannable_input` (`run_planning.py:276`), which takes no lock | `Plan`; from there a planner takes the same steps as a selection, with `locked` FALSE |
| `_create_turn_and_load_chains`, `_load_plannable_snapshot` | `Load` |
| `get_queue`, `ContextResourceQueueRepository.get` (three commands) | `GetVersion`, `GetList`, `GetData`, `GetFails` |
| `_load_resources_for_warmup`, `replace` | `LoadForWarmup`, `WarmupRefused`, `ReplaceQueue`, `ReplaceFails` |
| `apply_in_transaction` with the commit around it | `Commit`, `CommitNothing` |
| `refresh_after_commit`, `REFRESH_QUEUE_LUA` | `RefreshQueue`, `RefreshRefused`, `Continues`, `Refreshed` |
| `_best_effort_invalidate` | `Invalidate` |

A request is in `proc`: where it is, whether it works under the lock (`locked`), and what it
has read. `overtaken` is a history variable: the readers behind whose GET a queue of an
older version was put in place (`ReplaceQueue` by a planner that had read that version
before, or by a holder whose lock has expired).

The contents of a resource are reduced to the Turn that used it last. Redis calls may
fail before or after their effect. `last_seen_at` is a DATETIME column with whole
seconds, hence `clock` may stand still between two commits; hosts share one
clock. The rest of `complete_turn` (attribution, nodes) and of `send_message` (the
Turn) is not in this module.

### 2.4 TurnWorkflow and the code

One Turn with the revisions of its Plan. Two kinds of process run planners: the API
request that carries the message (`Api`, revision 1 only) and the workers (later
revisions). `runner[x]` is the position of a process in the chain of transactions below;
`leaseOver` is the comparison of `Plan.updated_at` with the planner lease.

| Code | Model |
|---|---|
| `ContextService.send_message` | `SelectContext`, `RoutingFails` |
| `RunPlanningUseCase.execute`, `execute_existing` | `LoadInput`, then `CreatePlan` or `ValidateExistingPlan` |
| tools of the planner's agents | `CreateDocumentTask`, `FinalizePlan`, `MarkPlanUnsupported`, `MarkPlanNeedsClarification`, in any order the graph allows; `PlannerEnds` when it ends without a decision |
| `set_clarification_question` | `SetClarificationQuestion` |
| `_finish_from_database` | `ReadResult`, `MarkPlanRetryPending` or `MarkRefused`, `ReadResultAgain` |
| dispatch in `SendConversationMessageUseCase.execute` | `Conclude`, `ReplyTo`, `CompleteUnsupported` |
| `AnswerClarificationUseCase.execute` | `AnswerClarification` |
| `ReplanUseCase._prepare_revision` | `ReplanSeen`, `ReplanExhausted`, `ReplanJoins`, `ReplanCreates` |
| `RuntimeEventDispatcher.handle`, `AggregatePlanUseCase.execute` | `AggregationTaken`, `AggregationCompletes`, `ResolveClarification`, `RecordProcessed` |
| XACK after the handler has returned | `Acknowledge` |
| any exception, end of a process | `Fault` |
| the endpoint `POST /turns/{turn_id}/complete` | `ClientCompletes` |

*Atomicity.* One transaction is one step; each locks the rows it decides on. The
exception is the check for an existing revision, a plain read: when two handlers
make the same revision at once, the unique key (workflow, revision) aborts the second
one, which is a `Fault` followed by a redelivery. Deadlocks of two transactions are
`Fault`s too.

*Events* are identified by Plan and cause, since none is written twice for the
same Plan and cause. Any event that was written may reach any idle worker at
any time and again (publisher, stream and take-over are in `TaskRuntime`'s model of
delivery).

*Abstractions.* The Task Runtime is reduced to what it does to Plan.status
(`RuntimeStarts`, `RuntimeCompletes`, `RuntimeFails`); a Plan frozen by a locked
compensation stays `running` and is left out. The tasks of a draft are reduced to
"has some"; the validation of the graph is a refusal like any other.

### 2.5 EventDelivery, ReliableDelivery and the code

Every worker process runs a publisher loop and a stream loop. `row` is the outbox,
`stream` the entries of the Redis stream in the order of their ids, `last` the last id
delivered to the group, `pel` the pending entries with owner and idle time.

| Code | Model |
|---|---|
| `OutboxPublisher._load_batch` (`outbox.py:93`), `SELECT ... SKIP LOCKED` | `LoadBatch`: a snapshot; the row locks end before anything is sent |
| `publish` (XADD), its error | `Publish`, `PublishFails` (the entry was added or was not) |
| `_mark_published`, `_mark_failed`, their errors | `MarkPublished`, `MarkFailed`, `MarkRaises` |
| rounds of `RedisStreamWorker.run_once`: XAUTOCLAIM, own backlog, new messages | `ClaimIdle`, `ReadOwn`, `ReadNew` |
| `RuntimeEventDispatcher.handle`, business transactions, unique key of the inbox | `Check`, `Execute`, `Record`; the events in `Separate` (aggregations) are recorded in a transaction of their own |
| XACK | `Ack` |
| an exception aborts the batch; the end of a process | `HandlerFails`, `Crash` (the consumer's name dies with it) |
| sixty seconds pass | `AgeAbandoned`, and `LongHandler` for a message still in work |

`ReliableDelivery` has three sets: accepted, consumed and put aside. The mapping is
accepted = rows of the outbox, consumed = inbox, put aside = dead letters.

### 2.6 DocumentPipeline and the code

One document. An operation is one attempt of one task; `ex[o]` is its executor, `co[c]` a
compensator call, and several calls of one operation may be under way. `doc.op` is
`active_operation_id`, the ownership token. `task[o]` is what the Task Runtime knows of the
operation: it runs, is to be compensated, is closed, or its compensation is locked.
`calls[o]` counts the compensator calls as far as the limit; `latest` of a call says that no
later one has been counted, which is what `_assert_compensation_token` compares. `late` and
`twice` are history variables that the properties name as exceptions: operations that
claimed the document when their compensation had begun, and indexings for which two
compensator calls were prepared at once.

| Code (`document/application/use_cases`) | Model |
|---|---|
| first transaction of `process_document`, `build_chunks`, `index_vectors` | `Claim`, `ClaimRefused` with `MayProcess`, `MayChunk`, `MayIndex` |
| `MySQLNamedLockManager.hold` | `EnterFence`, `FenceTimeout`, `CompensatorEnters`, `CompensatorTimeout`; `LoseFence` for a lost connection |
| ownership checks behind the lock | `AssertOwned` |
| staging directory, the two promotions | `WriteStaging`, `PromoteCleaned`, `PromoteSecondary` |
| upserts of the embedding batches, each behind the lock of its own | `Upsert`, `UpsertFails` |
| last transaction of the three executors | `CompleteProcessing`, `CompleteChunking`, `CompleteIndexing`, `CompleteRefused` |
| the three compensators | `FailProcessing`, `Verify`, `RemoveFiles`, `FreeDocument`; `FailChunking`; `Prepare`, `PrepareNothing`, `DeletePoints`, `FreeChunks` |
| the Task Runtime around them | `Begin`, `Report`, `StartCompensation`, `Return`, `Crash` |
| failing call, `_max_compensation_attempts` (`runtime.py:610-707`) | `GiveUp` in `CompensatorFails` and `CompensatorTimeout`: the latest call that fails at the limit locks the compensation, and the operation keeps what it owns; every other failure is followed by another call |
| expiry, replacement, deletion | `Deactivate` |

The text, its chunks and the vectors are abstracted to who made them. `Early` names the
calls that surprise an executor or another call: a lease that ends while its executor
runs or has not yet claimed, and a recovery beside a call that takes long. Nothing excludes
them; `MaxEarly` bounds their number in the runs, and the theorems hold for any number.

### 2.7 DocumentLibrary and the code

| Code | Model |
|---|---|
| `UploadDocumentUseCase.execute`: file, hash, duplicate check, insert, commit, answer | `Receive`, `FindDuplicate`, `Insert`, `Commit`, `Answer`; `Insert` waits at the unique key (knowledge base, active content hash) |
| its error paths and the clean-up | `Refuse`, `WriteFails`, `CommitFails`, `CommitUnknown`, `CloseFails`, `Cleanup` |
| a cancelled request, the end of the process | `Vanish` |
| `ChangeDocumentLifecycleUseCase`: two documents are locked in the order of their codes | `Request`, `LockRow`, `AnswerNow`, `Validate`, `Deactivate`, `RollBack` |
| clock, end of the pipeline | `Tick`, `Index` |

### 2.8 PlannerRun and the code

`TurnWorkflow` lets the tools of a planner be called in any order. This module takes one
Plan, opens up the planner and keeps what TurnWorkflow abstracts: evidence, gap
decisions and the tasks themselves.

| Code | Model |
|---|---|
| nodes of `agents/planner.py` | `CollectInitialEvidence`, `AssessInitialGap`, `CollectFollowUpEvidence`, `AssessFinalGap`, and the `Resolve...` actions |
| `validate_gap_decision` (`gap_handler.py:178`) | `Supported`, `DecisionRefused` |
| planning tools of the commit agent | `CreateTask`, `FinalizePlan`, `FinalizeRefused`, `CommitUnsupported`, `ClarificationHandoff` |
| `_validate_dag` | `ValidDag`, with the depth as a recursive function cut off at its limit |
| `set_clarification_question`, `_finish_from_database` | `SetClarificationQuestion`, `ReadResult`, `MarkRetryPending`, `MarkRefused` |
| the endpoint that completes a Turn | `CloseTurn` |

What the models answer is an input: any evidence in `Rounds`, any decision, any task.

### 2.9 EventLog and the code

| Code | Model |
|---|---|
| `DocumentStageLogger`, audit of tool calls | `Stamp` (the time is taken), then `Write`; `Operate` lies between the two events of a call: its transactions are committed, none or some or all, and `Verdicts` is what the audit may call its end |
| `JsonlEventWriter.write` | `Appended`: what is written after a line without a line feed is glued to it (`Joined`); `WriteTorn`, `WriteFails`, `Dies` |
| `jsonl_repository.py` scan of one source | `ReadSource`, `ReadFails`; sources are read one after the other while others write |
| order, cursor, limit | `Key`, `Before`, `Beyond`, `Order`, `Remaining`, `Page`, `HasMore`, `NextPage` |
| queries of `query_service.py` | `QueryDocumentBusinessLogs`, `GetDocumentTimeline`, `GetDocumentExecutionTimeline`, `GetDocumentFailureTimeline`, `QueryAgentToolAudits`, `GetToolTimeline` |
| summaries of a time line | `Invocations`, `Outcome` |

An event is its call, its kind and its time; `EventId` gives the order of the random
event ids, which break ties. A line is its text and whether it has got its line feed. A
torn write leaves a text that is no JSON, or no UTF-8, or the whole event without its line
feed: such an event can be read until the next write to the file is glued to it.
`rejected` says nothing about effects: `classify_tool_error` audits any 4xx so, and a
use case may have committed its claim before it raises one
(`process_document.py:319-352`, `index_vectors.py:340-352`). A query keeps, as history,
what could be read when it was asked (`existed`) and which of it had no line feed
(`loose`).

## 3. Runs

| Run | Instance | Shows |
|---|---|---|
| `recovery` | TaskRuntime: one task with side effects, 2 workers, 2 attempts, 2 compensation attempts, 1 crash, 1 compensator failure; fair | one accepted reporter, no lost wakeup, locking only after exhaustion, closed executions stay closed; a Plan completes, asks for a replan or is locked |
| `graph` | TaskRuntime: two tasks, the lower number depending on the higher, one with side effects | order of the tasks, cleanup before retry, one outcome event, and the refinement of `PlanLifecycle` |
| `queue_cache` | ResourceQueue: 2 requests that select, complete or plan without a lock, 3 keys, capacity 2, 3 versions, 2 updates, with Redis failures, crashes, expiring locks | a cached queue shows exactly the facts of its version, newest first up to ties; an agent is shown facts of one version, and under a lock that has not expired those of the moment, unless a planner put an older queue in between |
| `turn_disturbed` | TurnWorkflow: 2 workers, 3 revisions, faults, expired planner leases, a client that closes the Turn itself | one live revision; Turn, Plan, request and reply agree; no replan is lost; a closed Turn stays closed |
| `turn_live` | the same without disturbances, fair | the Turn is completed, fails or waits for its user, unless a worker found it unsupported |
| `delivery_faults` | EventDelivery: 2 workers, 2 events, one of them recorded separately, 1 failed publication makes a dead letter, 3 entries, 1 fault | no committed event is lost on its way; an effect recorded with its event is committed once |
| `delivery_live` | EventDelivery: 1 event, 2 workers, 2 attempts, 4 entries, 2 faults, fair | implements `ReliableDelivery`: an accepted event is consumed or becomes a dead letter |
| `pipeline` | DocumentPipeline: 2 processes, 1 chunking, 2 indexings, 2 batches, 2 compensator calls at once and 2 per operation, 2 operations open at once, two disturbances of which one may be a lost lock and one an early call | effects outside the database have an owner; what is published stays, and the owner of the document is known, each with the exceptions that the property names |
| `pipeline_live` | DocumentPipeline: one operation of each kind, 1 batch, 2 compensator calls at once and 2 per operation, 1 lost lock, 1 early call, 1 fault, fair | every attempt is completed, or compensated and gives the document back, or is locked after its last compensation |
| `library` | DocumentLibrary: 2 uploads, 2 knowledge bases, 2 contents, 2 calls that may replace in both directions or expire, 1 fault | replacements form no circle and lead to an indexed document; files and rows agree |
| `planner` | PlannerRun: 2 runs on one Plan, 3 task names, 3 tasks, depth 2, four kinds of evidence | what is published can be executed, verdicts have their evidence, the Plan is handed on |
| `event_log` | EventLog: 2 calls of two stages or two tools, 1 event per page, 3 per time line, 2 faults | pages are complete and ordered, time lines true, but for lines whose missing line feed a later write has met |

*Bounds.* `MaxAttempts = 2` has a first, a last and a retried attempt;
`MaxCompensationAttempts = 2` has an attempt that may be followed by another and one
that locks; a crash and a compensator failure bound the environment only. Events of
the Task Runtime are not bounded separately: each attempt writes a bounded number of
them. Two workers are enough for each hazard listed, all of which are races of two.

For the queue, capacity 2 with three keys evicts, two requests give every race of
a reader, with the lock or without, with a writer and of two writers, and three versions
let a late refresh meet a queue that is older, equal or newer than the one it continues. The
two updates are one that uses two keys and removes the third, and one that uses the third
again, which drives another out. `overtaken` needs one planner beside one selection.

For the Turn, three revisions are the constant `MAX_PLAN_REVISIONS` of the code, and two
workers beside the API give each race of two planners, two events or two
aggregations. Faults are not bounded.

For the transport, two events and reads of two make batches with a head and a rest, the
one recorded with its effect and the other after it; three entries admit a second
copy beside both; `MaxAttempts = 1` turns the first failure into a dead letter,
`MaxAttempts = 2` in the live run has one that is tried again. For the pipeline, two
processes and two indexings are an attempt and its retry, chunking lies between
them, and two open operations overlap an executor with the compensation of
another; a third would only wait. Two compensator calls are what overlaps, and
`MaxCompensations = 2` has a failure that is followed by another call and one that locks.
`MaxEarly = 1` gives one early or overlapping call, each operation may be the one, and
`TwoDisturbances` bounds crashes, errors, lost locks and early calls together. In the library two uploads and two calls are what a duplicate and a
circle of replacements need. In the planner two runs are what a redelivered replan
request gives; three tasks with depth 2 contain a chain that is too long, a circle of
two and of three, and a gap in the numbers. In the log a page of one event makes
every order of two neighbours a page boundary, and a time line of three cuts the
four events of two calls. A line that is destroyed takes two writes, the second of which
may be torn too, hence two faults; of the pairs of faults, `FaultsMeet` keeps those that meet
in one file, one of them a torn line. All filters begin with time 0, because a later
beginning only takes events away. The instance ends with the last answer
(`UntilAnswered`), because later writes change nothing that is checked.

*Deadlock* is checked for `queue_cache`, `library` (which ends in `Finished`),
`delivery_faults` and `delivery_live`. It is not checked for the Task Runtime, the
Turn, the pipeline, the planner and the log: a Plan that has ended or is locked stays so, a
Turn that waits for its user or is closed too, an instance stops when every event
is recorded, every operation closed, every run over.

*Fairness.* `recovery`: weak fairness of `FallDue` (delays are finite and the publisher
polls), of `Proceed(w)` for each worker (an executor is bounded by `wait_for`, a
transaction ends, a compensator returns or raises), and, for each worker, of the
delivery of an event that is neither recorded nor acknowledged (a stream loop reclaims
before it reads, `redis_streams.py` `run_once`). `Crash` and a failing compensator are
not fair and are bounded. That a due event is delivered is what `delivery_live`
shows; it leaves out dead letters, after ten failed publications.

`turn_live`: weak fairness of what the API or a worker has begun; strong fairness of
the delivery of an unacknowledged event of each Plan, because Redis keeps it pending
and a worker becomes idle again and again without being idle all the time; weak
fairness of the execution of a Plan, which is what `PlanSettles` shows. It includes
no faults: a request that dies while it plans leaves its Turn open, see below.

`delivery_live`: weak fairness of the two loops of each process, which run until it is
stopped, and of time (`AgeAbandoned`). Nothing is assumed of emissions and faults.

`pipeline_live`: weak fairness of executors and compensators, which end; strong fairness of
the call of a compensator for an operation whose executor has failed or died, or that is
to be compensated already (`Recover`): the Task Runtime always has a wakeup on its way for
such an operation (`NoLostWakeup` of `TaskRuntime`), and its compensators are busy with
others now and then. This is no retry without end: at the limit `GiveUp` locks the
compensation, `Recover` is disabled, and `AttemptsEnd` has that as one of its ends. Nothing
is assumed of the start of attempts, and an early call may happen but need not.

## 4. Proofs

Every safety property of the runs is also a theorem, for every value of the constants
that the assumptions of its module admit. The eight `...Proofs` modules extend the
`...Inv` modules, which state the inductive invariants in named parts; each `IInv` was
checked with TLC on the instances of section 3 before it was proved.

| Module | Theorem | States |
|---|---|---|
| `TaskRuntimeProofs` | `Invariance`, `TypeCorrect` | `IInv`, `TypeOK` |
| | `OneOwner`, `OneReporter`, `WakeupNotLost`, `AcknowledgedAfterCommit`, `AlwaysRunnable`, `DependenciesRespected` | `SingleOwner`, `SingleReporter`, `NoLostWakeup`, `AcknowledgedIsRecorded`, `NeverStarved`, `DependenciesFirst` |
| | `UndoneBeforeRetry`, `LockedAfterAttempts`, `ClosedStaysClosed`, `OutcomeOnce` | `RetryAfterCleanup`, `LockedIsExhausted`, `ClosedIsFinal`, `OneOutcomeEvent` |
| | `EveryEventAccounted`, `ExecutionsAreBounded`, `OutboxIsBounded` | `EventsAccounted`, `ExecutionsBounded`, `OutboxBounded` of `TaskRuntimeInv` |
| | `LifecycleImplemented`, `ExecutionImplemented` | `ImplementsLifecycle`, `ImplementsExecution` of `TaskRuntimeRefinement` |
| `TurnWorkflowProofs` | `Inductive`, `Follows`, `TypeCorrect` | `IInv`, `FollowInv`, `TypeOK` |
| | `OnePlanLives`, `PromiseKept`, `TurnAgrees` | `OneLivePlan`, `ReplanPromised`, `TurnFollowsPlan` |
| | `ReplyHoldsGood`, `ResolvedRightly`, `ClosedIsFinal` | `ReplyIsTrue`, `ResolvedByItsPlan`, `ClosedTurnIsFinal` |
| | `AggregationAsked`, `EachIsExecuted`, `ExecutionIsAllowed` | `AskedWhenCompleted`, `RevisionsAreExecuted` of `TurnWorkflowInv`; steps of `PlanExecution` |
| `EventDeliveryProofs` | `TypeCorrect`, `NothingIsLost`, `EffectCommittedOnce` | `TypeOK`, `NothingLost`, `EffectOnce` |
| | `OnlyEmittedHandled`, `EntriesLeaveRecorded` | `HandledIsEmitted`, `LeavesRecorded` of `EventDeliveryInv` |
| | `DeliveryImplemented` | initial state and steps of `ReliableDelivery` |
| `DocumentPipelineProofs` | `Invariance`, `TypeCorrect`, `EffectsOwned` | `BaseInv`, `TypeOK`, `EffectsHaveOwner` |
| | `OwnerPursued`, `PublishedStays`, `ArtifactsStay` | `OwnerIsPursued`, `PublishedIsThere`, files of artifact rows |
| `DocumentLibraryProofs` | `Invariance`, `TypeCorrect`, `FilesHaveRows`, `ReplacementsEnd` | `IInv`, `TypeOK`, `FilesAndRows`, `ReplacementsLead` |
| `PlannerRunProofs` | `Invariance`, `TypeCorrect`, `Published`, `VerdictsBacked`, `PlanHandedOn` | `IInv`, `TypeOK`, `PublishedIsRunnable`, `VerdictIsBacked`, `PlanIsHandedOn` |
| | `GraphHandedOn`, `PublishedForGood` | `PublishedIsGraph` of `PlannerRunInv`; the step formula of the theorem |
| `ResourceQueueProofs` | `Invariance`, `TypeCorrect`, `ShowsItsVersion`, `HoldsTheNewest`, `OneVersionShown`, `SelectionCurrent` | `IInv`, `TypeOK`, `CacheShowsItsVersion`, `CacheHoldsTheNewest`, `ShowsOneVersion`, `SelectionIsCurrent` |
| `EventLogProofs` | `Invariance`, `TypeCorrect`, `PagesAreComplete`, `TimelinesAreTrue` | `IInv`, `TypeOK`, `PagesComplete`, `TimelineTellsTheTruth` |

The proof of an inductive step has one lemma for each part of the invariant and, in it,
one step for each action that the part can be disturbed by. Where many actions leave a
part alone, a lemma first sorts them by what they touch.

### 4.1 TaskRuntime

*Assumptions*: `CountAssumption` (bounds are natural numbers, at least one task and one
attempt), `DagAssumption` (`IsTaskGraph`, what `FinalizePlan` validates: dependencies inside
the Plan and without a cycle, stated as "every nonempty set of tasks has a member that
depends on no other member"; of the Plans that `PlannerRun` publishes it is a theorem)
and `SideEffectAssumption`.

*The inductive invariant.* None of the properties is inductive by itself. `IInv`
joins four groups of facts:

* `PlanInv`: how Plan.status, current_task_id and the task statuses go together;
  a terminal Plan has no current task, a failed task only exists in a Plan waiting
  for a replan;
* `ExecutionInv`: executions of a task are numbered by attempts, at most
  `attempts[t]`; the latest execution of the current task is the only one that
  is not closed;
* `WorkerInv`: what a worker holds in its local state is still true of the shared one: an
  executing worker's execution is either running and its own, or no longer
  running; the snapshot `seen` is a subset of the succeeded tasks, which is why a stale
  snapshot can only refuse a task and never start one early;
* `WakeupInv`: an execution in flight has a guard outside the inbox, its lease
  wakeup or one of its compensation retries; an open Plan with nothing in flight
  has the wakeup of the last release outside the inbox, and no worker that
  handles that wakeup has an outdated view of the succeeded tasks. The second part
  is what makes "no_task" harmless: a stale snapshot may consume a wakeup and
  start nothing, but a snapshot is stale only if a task has succeeded since, and
  then the wakeup of that success is still there with nobody stale on it.

`OwnExecution` adds that an execution is run by the worker that claimed it, and
`AcknowledgedIsRecorded` is inductive given the rest. On top of `IInv`, `ClosureInv` says
how each execution was closed: by compensation exactly if its task has side effects or it
went stale, locked only with its attempts used up, as a success only as the last of its
task. With the numbering of attempts this gives `RetryAfterCleanup` and
`LockedIsExhausted`; `ClosedIsFinal` follows step by step, because every transaction that
writes an execution has found it active. `OutcomeInv` ties the events of an outcome
to the status of the Plan; `FailedPlan` in it is what keeps a Plan that waits for a
replan from reporting twice.

*The accounting of events.* A wakeup can be delivered any number of times and workers crash
anywhere, so it is not obvious that a Plan stops writing. `EventsAccounted` says where each
row of the outbox comes from: the start, the one lease of an execution, the one event
that closes it, and fewer than `MaxCompensationAttempts` retries of its compensation. Its
inductive part is `RetryInv`: an execution has at most as many retries as it had compensation
attempts, strictly fewer while the worker of the latest attempt is still at it, and two
workers never hold the same attempt; without the last one, a worker that was overtaken
could ask for a retry its successor asks for too. The count of executions follows because
their pairs of task and attempt differ (`LabelNames`), and with the shares of each
execution the outbox is at most `1 + NumTasks * MaxAttempts * (MaxCompensationAttempts + 1)`
long. These three are stated by theorems and by no run of the list; TLC has checked each
of them, `RetryInv` included, on the instances of `recovery` and `graph` before the proof.

The refinement maps each step to the action of `PlanLifecycle` of its kind or to a
stutter (`RefinementStep`), the executions being mapped to phases of their task.
The second refinement, into `PlanExecution`, needs `OutcomeInv`: the events of an outcome
are a function of the status of the Plan, and the status moves only from ready to running
and from there to one of its two ends (`StatusMoves`).

### 4.2 TurnWorkflow

*Assumption*: `WorkflowAssumption` (at least one revision; the API request is no worker).
The disturbances may be any.

*The inductive invariant.* `OneLivePlan` speaks of neighbouring revisions; that a handler
of an old event meets only superseded Plans needs it for every pair (`LineOfPlans`), and
the step from neighbours to pairs would be an induction. `EventInv` says that an event is
about an existing Plan and that a recorded replan event has been carried out, so that
whatever is written for an open Plan is not in the inbox yet: this carries
`ReplanPromised` through every redelivery. `RunnerInv` ties the position of a process to the
event it holds (recorded for a planner, not yet for an aggregation), which is what an
acknowledgement relies on. `RoutingFirst` excludes that `SelectContext`, which
overwrites the status of the Turn, meets a Turn that waits for its user.

`FollowInv` is inductive together with `IInv`. `Agrees` is `TurnFollowsPlan` said of the one
Plan that lives (`LatestLives`: it is the latest). It would not survive a late handler
without `Outstanding` (an unrecorded replan event is about a Plan that still waits, or
has been revised) and `AggregationInv` (an aggregation is about a completed Plan, and
the Turn is completed before the request is resolved and the event recorded). What the
API process believes of its own Plan (`ApiInv`, `Beginning`) makes its last two
writes harmless. `Asked`, `RequestPlan` and `ClosedByPlan` tie the clarification to its
revisions, from which `ResolvedByItsPlan` and `ClosedTurnIsFinal` follow.

*The Task Runtime as an interface.* Two models may each be right and not fit together. Here
the fit is stated twice. `EachIsExecuted` says that in a Turn nothing but the Task Runtime
touches a revision from the moment it is published until it waits for a replan, and that it is
published with no request of its own outstanding, as `TaskRuntime` begins: a late planner,
a duplicate event or a client cannot mark, supersede or publish a Plan that runs. It
rests on `OthersLeave` (what every other step may do to a Plan) and `AskedWhenCompleted`.
`ExecutionIsAllowed` says the converse: whatever `TaskRuntime` does to its Plan, seen as
a step of `PlanExecution`, is an action that `TurnWorkflow` has. Both properties, and
`ImplementsExecution`, were checked by TLC on the instances of `turn_disturbed` and `graph`
before they were proved; when `PlanExecution` is given another end or beginning, TLC finds
`RevisionsAreExecuted` violated.

### 4.3 EventDelivery

*Assumptions*: events are a finite set of numbers (ids), the bounds are natural numbers, and
`Gone` is the name of no worker. `PublisherInv`
says that a publisher holds the result "sent" only of an event that has an entry;
so a row is marked as published only when it does (`RowInv`). `StreamInv` says that
an entry that was delivered is pending or its event is recorded; only `LoopInv` (who
acknowledges has recorded) lets an entry leave the pending ones. Together they are
`NothingLost`: neither a crash between XADD and the mark, which makes a second entry,
nor one between the commit and XACK can break them. `EffectInv` is the joint commit
of effect and inbox row.

What the consumers assume of a delivery follows from the same invariant: the event that is
handled was emitted (`OnlyEmittedHandled`: `Delivered` of `TaskRuntime` and `Takes` of
`TurnWorkflow` take their events from the outbox), and it stops being deliverable only
when it is recorded, although `Ack` removes an entry whoever owns it by then
(`EntriesLeaveRecorded`: `Return` and `Acknowledge` there). TLC has checked both on the
instance of `delivery_faults` before the proof.

`DeliveryImplemented` is the safety part of `DeliversReliably`; `Settled` stays with TLC.

### 4.4 DocumentPipeline

*Assumptions*: the three kinds of operations and the compensators are different things, one
batch and one compensator call at least. The theorems assume nothing else: claims may be
late, calls may overlap in any number, locks may be lost.

In `BaseInv`, `OwnerInv` says who may own the document, `CallInv` that a compensator behind
its check undoes an operation whose claim is over (`Past`: it has claimed, and does not own
the document or owns it as failed), `ArtifactInv` and `ChunkInv` what the owner may rely on.
Each of the three hard properties has its part:

* `OwnerPursued` rests on `PursuedInv`: an operation that is closed and still owns has claimed
  when its compensation had begun. Its inductive step is that of a compensator that
  returns: either it has freed the document, or the executor claimed behind its back, and
  then it is in `late`;
* `PublishedStays` rests on `VectorInv`: a call that is prepared to delete vectors belongs to
  the owner, which has failed, unless another call for the same indexing was prepared
  with it (`OverlapInv`, `twice`). The first of two such calls frees the document, the
  second deletes the vectors of whoever has indexed the chunks since;
* `EffectsHaveOwner` speaks itself of the time until a named lock is lost. `FenceInv` says
  what the locks give: who is behind a fence holds it, an executor that was checked there
  stays the owner, hence nothing of an operation is left when its compensator frees the
  document (`UndoneInv`).

`ArtifactsStay` has no exception: files of an artifact row are never removed again. The
type invariant of this module is proved and is part of no run.

### 4.5 DocumentLibrary

*Assumptions*: a finite set of documents, requests and times of the right type.
`UploadInv` says what an upload has left behind at each of its points, which is
`FilesAndRows` from the inside. `CheckedInv` says that what a call has checked stays so
until it writes, because it holds both locks. Freedom from circles is then a short
argument, and all that is needed of order: the replacement of a document is in force when
the document is taken out, so it has not been replaced itself and no set of replaced
documents contains it. In each set that the document joins, it is the member whose
replacement lies outside; the other sets are as before.

### 4.6 PlannerRun

*Assumptions*: limits are at least one, rounds are rounds, and there is a run.
`EvidenceInv` fixes for each node of the workflow how many rounds a run has seen and
which decision it carries, `HandInv` that the first run to end leaves the Plan to
somebody, `DraftInv` that drafts have numbers and references of their own. That a published
graph has no circle and no long chain rests on the rounds of `Depths`: in each round a task is
deeper than what it depends on was in the round before (`DepthGrows`), so on a circle every
task is at least as deep as the number of the round (`CircleIsDeep`), and the first task of
a chain as deep as the chain is long (`ChainIsDeep`); either exceeds the limit in
round `MaxDepth + 1`. `Recursion` justifies
the recursive function: it constructs, for any first value and step, a function on the
numbers that solves the equations, so that the CHOOSE behind `Depths` has a value.

`GraphHandedOn` is where planning and execution meet: each published task is one row by its
number as by its reference (`TasksInv`), so the rows of dependencies, taken over from
references to tasks (`Dependencies`), are a graph on 1 to the number of tasks in the sense
of `IsTaskGraph`. `PublishedForGood` is the other half: a second run or a late tool call
never touches a published Plan, so the graph the Task Runtime starts with is the one
it ends with.

### 4.7 ResourceQueue

*Assumptions*: a capacity of at least one, `NoProc` is no process, and
updates as `_validate_chain_updates` admits them. History only grows, so what a
request has read of a version stays true of it (`HistoryInv`, `ProcInv`); it is the
compare-and-set of the scripts that ties the cache to such a version. The heart is
that a refresh of a queue that suits its version gives a queue that suits the next: the
keys used by the new Turn come first, the rest keeps its order, and what falls off the
end would not have been chosen by a warm-up either.

`AnswerInv` is what makes `OneVersionShown` true although GET, LRANGE and HMGET are three
commands: a key of a list belongs to it under the version of that list, and the hash, read
later, either has the data of all its keys or answers with a miss; what the data are then
are facts of the version at which the hash was last written. `LockInv` says that only
requests under the lock change facts, `AloneInv` what holds for them until a lock runs
out: the holder is alone among those with a lock, so the version it has read is the
present one, and the queue it found is still there, has been dropped, or was replaced by
a planner with an older one, which `overtaken` records.

The warm-up sorts. `Sorting` defines the sorted sequence of a finite set by places, without
recursion: each member goes to the place given by the number of members before it. `Places`
proves that with a strict total order these places are exactly 1 to the number of
members (an injection of a finite set into an interval of its size is onto), and `SortedIs`
that the result is the one sequence that is in order and has these members.

### 4.8 EventLog

*Assumptions*: finitely many calls, ids that are numbers, sources that differ. Finiteness
is what a type needs here: a file has at most two lines for each call (`Spent`),
so every scan is finite. `SeenInv` says that a line with its line feed stays, and that a
line without holds the event it held or none any more, so that what a query has found it
would find again or has been destroyed, and no place ever holds two events; `PageInv` that a
scan misses nothing of what existed when the first page was asked for and still stands,
and that the pages leave nothing of it behind: it is returned, or comes after the last event
returned. A page is the beginning of
the sorted rest (`Places`, `SortedIs`, stated again here), so the next cursor keeps this true,
and the last page, which leaves no rest, returns all. `CallInv` and `FileInv`
carry the end of a call from its last transaction into the file, from where a time line
reads it. Of effects only one thing is claimed: a call that is said to have succeeded had its
effect; "rejected" and "failed" leave open how much was committed.

### 4.9 What is not proved

* Liveness under fairness: `PlanSettles`, `TurnSettles`, the part `Settled` of
  `DeliversReliably`, `AttemptsEnd`. They depend on ENABLED and stay with TLC.
* The theorems that induction over the numbers would give are proved through least
  members of sets of numbers; the theorems of the library that take an operator as
  parameter are not used.
* Of the assumptions, those about inputs (`DagAssumption`, `UpdatesAssumption`) are what the
  code validates before; `GraphHandedOn` proves the first of what the planner publishes.

`OneOwner`, `AcknowledgedAfterCommit`, `AlwaysRunnable`, `ArtifactsStay` and `TypeCorrect` of
the pipeline state properties that are part of no run: TLC has checked them on the
instances of section 3 before they were proved.

## 5. Behaviour worth knowing

The models contain the following behaviour of the code. No property excludes it, and
where a document or a comment says otherwise, its line is quoted.

Task Runtime:

* compensation may run beside the executor (`runtime.py:5` "等待内部副作用完全静默后才进入补偿"). Within one
  worker this holds. Across workers the lease ends at the same instant as `wait_for`
  at the latest, and recovery does not wait for the other worker's drain. The document
  module defends itself with named locks and ownership checks (`pipeline`);
* retry delays are cut short (`runtime.py:330` "将到期的 RETRY_WAIT 任务恢复为 PENDING"). The claim restores
  all waiting tasks, due or not; a lease wakeup of the failed attempt or a duplicate of
  an earlier event starts the retry at once;
* the count of compensation attempts is compared with its limit only when a
  failure is recorded, so that a crash in the last attempt is followed by another one
  (`runtime.py:604`).

Transport:

* two publishers may send the same rows (`messaging/infrastructure/persistence/repository.py:54`
  "不会产生行锁阻塞或重复投递"): the locks of SKIP LOCKED end with the transaction of the
  SELECT. The inbox makes it harmless;
* a message whose handler always fails is read again at the head of its consumer's
  backlog and blocks what is behind it (`redis_streams.py:211`); `delivery_live` covers
  handlers that fail a bounded number of times.

Resource queue:

* a cached queue may mix two versions (`redis_resource_queue.py:155` "版本一致且
  List/Hash 完整时返回热队列"). The version, the list and the hash are three reads. The
  conversation lock keeps completions of Turns out while it lasts, but planners load the
  queue without it (`run_planning.py:276`): a planner that read the chain's version long ago
  may replace the queue by an older one between the GET and the HMGET of a selection, which is
  then shown the older facts. What is shown are still facts of one version
  (`ShowsOneVersion`).

Turn and planning:

* a running Plan is reported as failed (`send_message.py:175` "结果分派 5：规划失败终态（FAILED）").
  `FinalizePlan` publishes the wakeup before the request reads the result, and the last
  branch of the dispatch answers "failed" for every status it does not know;
* the lease does not mean that somebody plans (`replan.py:144` "说明正在执行中"). When a replan
  worker fails, the event comes back after 60 s, within the lease of 1800 s, and is
  acknowledged. The revision stays in `planning`;
* an unsupported revision leaves the Turn open (`replan.py:106`): only the API request
  completes the Turn of an unsupported Plan, a worker ignores the outcome of planning;
* an API process that ends while it routes or plans leaves no event that continues the
  first revision (`send_message.py:110`);
* two events may ask for one revision (an answer after the clarification agent has failed,
  and the retry that follows); the second runs the planner on it whatever the
  lease says (`replan.py:200`), and two planners work on one Plan. A published Plan may
  then join tasks that the two runs have drafted: `PublishedIsRunnable` holds, its
  meaning is the models' affair;
* that retry expires the request although it was answered (`use_cases.py:584`), and a request
  whose answer was used by a revision that had to be replanned stays `answered` after
  the Turn is completed (`aggregate_plan.py:231`);
* a Turn closed by its client while it is planned is opened again by the retry of its
  planner (`use_cases.py:595`);
* the run of the commit agent stops at `finalize_plan` also when the tool has rejected the
  drafts, although its prompt (`planner.py:544` "不得在 finalize_plan 或
  mark_plan_unsupported 成功前结束运行") tells the model to go on: the Plan is then
  planned anew by its next revision.

Documents:

* an executor that is slower to start than its lease may claim the document after its own
  compensation has succeeded (`process_document.py:254`): then it owns the document until it
  completes, and for ever if it dies. `late` in `OwnerIsPursued` and `AttemptsEnd` is this
  exception; without it TLC finds both violated;
* a compensation that has failed `_max_compensation_attempts` times is locked
  (`runtime.py:636`): the document stays owned by the operation, and refuses every other
  one, until somebody repairs it by hand;
* a lost connection releases a named lock while its holder goes on (`named_lock.py:47`):
  files and vectors may then be left without an owner. `PublishedIsThere` holds all the same;
* the compensator of an indexing deletes the points of the snapshot it took before it waited
  for the lock (`index_vectors.py:754`), although its docstring says that it checks the
  document again behind the lock (`:704` "在命名锁围栏内复核 Document 后按稳定 Chunk ID 删除 Qdrant
  Point"). The Task Runtime may have two calls of one indexing under way, when a call
  outlasts its lease: the second may delete the vectors that a later indexing has published
  meanwhile. `twice` in `PublishedIsThere` is this exception; without it TLC finds the
  property violated;
* cleaning holds its lock for the whole conversion while a compensator waits 30 s for it:
  compensation attempts fail, and count, while the executor drains;
* a crash after the commit and before the report is answered by a retry that the claim
  refuses with 409, though the document is ready;
* nothing makes a `SCHEDULED` document `ACTIVE`, and `ChangeDocumentLifecycleUseCase` has no
  caller in the application: `DocumentLibrary` models it as its tests use it;
* a commit whose answer is lost leaves a row whose raw file has been removed, and a cancelled
  upload leaves a file without a row (`upload_document.py:378`); `FilesAndRows` says exactly
  when.

Logs:

* an event whose line feed was not written is found by queries until the next event is
  appended, which makes both unreadable (`jsonl_writer.py:54-60`); pages and time lines may
  then miss an event that an earlier page has shown to exist;
* "rejected" does not mean "without effect" (`errors.py:80` maps every 4xx to it): a
  refused stage may have committed its claim and its failure mark before;
* half a UTF-8 character in a torn line makes every query of that source fail
  (`jsonl_repository.py:241` catches `OSError` only), until the file is repaired;
* a time line that is cut by its limit may show calls without their end; it says so.

## 6. Plan

All modules of the plan are written, and every safety property of the runs is proved.
What would say more:

1. `EventDelivery` under the Task Runtime: what is assumed of a delivery is proved of
   `EventDelivery` action by action; one module in which the events of a Plan go through
   its stream would join the two;
2. the choice of a context chain by the router and the nodes of a chain, which no module has.
