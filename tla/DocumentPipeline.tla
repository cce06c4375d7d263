-------------------------- MODULE DocumentPipeline --------------------------
(***************************************************************************)
(* One document on its way from the upload to the vector store: cleaning   *)
(* (process), chunking and indexing.  Every attempt of a task is an        *)
(* operation with an executor; the Task Runtime may start the compensator  *)
(* of an operation as soon as its lease has expired, also while the        *)
(* executor still runs or has not even claimed, and calls it again, maybe  *)
(* while an earlier call still runs, until one has succeeded or the        *)
(* attempts are used up.  The operation id stored in the document is the   *)
(* ownership token; named locks fence the effects outside the database.    *)
(***************************************************************************)
EXTENDS Naturals, FiniteSets

CONSTANTS
  Processes, Chunkings, Indexings,  \* operation ids, by kind
  Compensators,  \* compensator calls that can be under way at once
  Batches,       \* embedding batches of the chunks of the document
  MaxCompensations,  \* calls after which a failing compensation is given up
  MaxLost,       \* bound: named locks lost with their connection
  MaxOpen,       \* bound: operations that are pursued at once
  MaxEarly,      \* bound: leases that expire early, and calls that overlap
  MaxFaults,     \* bound: crashes and errors
  NoOne

Ops == Processes \cup Chunkings \cup Indexings

ASSUME OpsAssumption == /\ Processes \cap (Chunkings \cup Indexings) = {}
                        /\ Chunkings \cap Indexings = {}
                        /\ Ops \cap Compensators = {} /\ NoOne \notin Ops \cup Compensators
ASSUME BoundsAssumption == /\ Batches \in Nat \ {0} /\ MaxCompensations \in Nat \ {0}
                           /\ {MaxLost, MaxOpen, MaxEarly, MaxFaults} \subseteq Nat

VARIABLES
  doc,      \* row of the document
  rows,     \* processes whose artifacts have rows
  chunks,   \* rows of its child chunks: who built them, their vector status
  files,    \* directories of the processes that hold files
  points,   \* vectors in the store, by chunking and batch
  fence,    \* holder of the two named locks
  ex,       \* executors: where they are, next batch, chunks they index
  co,       \* compensators: where they are, their operation, snapshot of chunks
  task,     \* what the Task Runtime knows of an operation
  calls,    \* compensator calls it has counted, as far as the limit
  lost,     \* named locks lost so far
  early,    \* compensator calls begun while an executor or another call runs
  faults,
  late,     \* history: operations that claimed when their compensation had begun
  twice     \* history: indexings with two prepared compensator calls at once

vars == <<doc, rows, chunks, files, points, fence, ex, co, task, calls, lost, early,
          faults, late, twice>>
world == <<rows, chunks, files, points>>
runtime == <<task, calls, early>>
history == <<late, twice>>

Status == {"uploaded", "processing", "processed", "chunking", "chunked",
           "indexing", "indexed", "failed"}
Areas == {"staging", "cleaned", "secondary"}
Fences == {"process", "index"}
ExecutorSteps == {"new", "start", "fence", "check", "work", "promote", "tidy",
                  "finalize", "done", "failed", "dead"}
CompensatorSteps == {"idle", "fail", "fence", "verify", "undo", "free"}
TaskStates == {"running", "compensate", "closed", "locked"}

\* live: in force and in the active storage; op: the ownership token.
Document == [status : Status, op : Ops \cup {NoOne}, live : BOOLEAN,
             cleaned : Processes \cup {NoOne}]
ChunkRows == [by : Chunkings \cup {NoOne},
              vector : {"pending", "indexing", "indexed", "failed"}]
Directories == Processes \X Areas
Points == Chunkings \X (1 .. Batches)
Executor == [at : ExecutorSteps, batch : 1 .. Batches, of : Chunkings \cup {NoOne}]
\* latest: no later call for the operation has been counted.
Compensator == [at : CompensatorSteps, op : Ops \cup {NoOne}, of : Chunkings \cup {NoOne},
                latest : BOOLEAN]

TypeOK ==
  /\ doc \in Document /\ rows \subseteq Processes /\ chunks \in ChunkRows
  /\ files \subseteq Directories /\ points \subseteq Points
  /\ fence \in [Fences -> Ops \cup Compensators \cup {NoOne}]
  /\ ex \in [Ops -> Executor] /\ co \in [Compensators -> Compensator]
  /\ task \in [Ops -> TaskStates] /\ calls \in [Ops -> 0 .. MaxCompensations]
  /\ lost \in 0 .. MaxLost /\ early \in 0 .. MaxEarly /\ faults \in 0 .. MaxFaults
  /\ late \subseteq Ops /\ twice \subseteq Indexings

IdleCompensator == [at |-> "idle", op |-> NoOne, of |-> NoOne, latest |-> FALSE]

\* The document as its upload leaves it.
Init ==
  /\ doc = [status |-> "uploaded", op |-> NoOne, live |-> TRUE, cleaned |-> NoOne]
  /\ rows = {} /\ files = {} /\ points = {}
  /\ chunks = [by |-> NoOne, vector |-> "pending"]
  /\ fence = [f \in Fences |-> NoOne]
  /\ ex = [o \in Ops |-> [at |-> "new", batch |-> 1, of |-> NoOne]]
  /\ co = [c \in Compensators |-> IdleCompensator]
  /\ task = [o \in Ops |-> "running"] /\ calls = [o \in Ops |-> 0]
  /\ lost = 0 /\ early = 0 /\ faults = 0 /\ late = {} /\ twice = {}

Fault == faults < MaxFaults /\ faults' = faults + 1
Working(o) == IF o \in Processes THEN "processing"
              ELSE IF o \in Chunkings THEN "chunking" ELSE "indexing"
FenceOf(o) == IF o \in Processes THEN "process" ELSE "index"
At(o, step) == ex[o].at = step
Go(o, step) == ex' = [ex EXCEPT ![o].at = step]
Released(p) == [f \in Fences |-> IF fence[f] = p THEN NoOne ELSE fence[f]]
Release(p) == fence' = Released(p)

\* The Task Runtime is not done with the operation.
Pursued(o) == task[o] \in {"running", "compensate"}
Owns(o) == doc.status = Working(o) /\ doc.op = o
SetDoc(status, op) == doc' = [doc EXCEPT !.status = status, !.op = op]

(***************************************************************************)
(* Claims: one transaction under the row lock of the document.             *)
(***************************************************************************)
\* The Task Runtime calls the executor of a new attempt; Plans of several
\* conversations may work on the same document.
Begin(o) ==
  /\ At(o, "new")
  /\ Cardinality({p \in Ops : Pursued(p) /\ ~At(p, "new")}) < MaxOpen
  /\ Go(o, "start")
  /\ UNCHANGED <<doc, world, fence, co, runtime, lost, faults, history>>

Claimable(statuses) == doc.op = NoOne /\ doc.live /\ doc.status \in statuses
MayProcess == Claimable({"uploaded", "failed"})
\* The active artifact: the one of the last process that has completed.
CleanedArtifact == doc.cleaned
MayChunk == /\ Claimable({"processed", "failed"})
            /\ doc.status = "failed" => chunks.by = NoOne
            /\ CleanedArtifact /= NoOne
MayIndex == /\ Claimable({"chunked", "failed"})
            /\ chunks.by /= NoOne
            /\ chunks.vector \in {"pending", "failed"}
MayClaim(o) == \/ o \in Processes /\ MayProcess
               \/ o \in Chunkings /\ MayChunk
               \/ o \in Indexings /\ MayIndex

Marked(vector) == [chunks EXCEPT !.vector = vector]

Claim(o) ==
  /\ At(o, "start") /\ MayClaim(o)
  /\ SetDoc(Working(o), o)
  /\ ex' = [ex EXCEPT ![o] = [at |-> IF o \in Chunkings THEN "work" ELSE "fence", batch |-> 1,
                              of |-> IF o \in Indexings THEN chunks.by ELSE NoOne]]
  /\ chunks' = IF o \in Indexings THEN Marked("indexing") ELSE chunks
  /\ late' = IF task[o] = "running" THEN late ELSE late \cup {o}
  /\ UNCHANGED <<rows, files, points, fence, co, runtime, lost, faults, twice>>

ClaimRefused(o) ==
  /\ At(o, "start") /\ ~MayClaim(o)
  /\ Go(o, "failed")
  /\ UNCHANGED <<doc, world, fence, co, runtime, lost, faults, history>>

(***************************************************************************)
(* Effects behind a fence.                                                 *)
(***************************************************************************)
EnterFence(o) ==
  /\ At(o, "fence") /\ fence[FenceOf(o)] = NoOne
  /\ fence' = [fence EXCEPT ![FenceOf(o)] = o]
  /\ Go(o, "check")
  /\ UNCHANGED <<doc, world, co, runtime, lost, faults, history>>

\* GET_LOCK gives up after timeout_seconds.
FenceTimeout(o) ==
  /\ At(o, "fence") /\ fence[FenceOf(o)] /= NoOne
  /\ Go(o, "failed")
  /\ UNCHANGED <<doc, world, fence, co, runtime, lost, faults, history>>

\* Inside the fence the ownership is read again; cleaning also looks at the
\* life cycle of the document.
\* Mutant: the ownership is only checked by the claim.
OwnedSinceClaim(o) == doc.live
StillProcessing(o) == Owns(o) /\ doc.live
StillIndexing(o) == Owns(o)
StillOwned(o) == IF o \in Processes THEN StillProcessing(o) ELSE StillIndexing(o)

AssertOwned(o) ==
  /\ At(o, "check")
  /\ IF StillOwned(o) THEN Go(o, "work") /\ UNCHANGED fence
                      ELSE Go(o, "failed") /\ Release(o)
  /\ UNCHANGED <<doc, world, co, runtime, lost, faults, history>>

\* Conversion and cleaning write below staging/{operation_id}.
WriteStaging(o) ==
  /\ o \in Processes /\ At(o, "work")
  /\ files' = files \cup {<<o, "staging">>}
  /\ Go(o, "promote")
  /\ UNCHANGED <<doc, rows, chunks, points, fence, co, runtime, lost, faults, history>>

PromoteCleaned(o) ==
  /\ At(o, "promote")
  /\ files' = files \cup {<<o, "cleaned">>}
  /\ Go(o, "tidy")
  /\ UNCHANGED <<doc, rows, chunks, points, fence, co, runtime, lost, faults, history>>

PromoteSecondary(o) ==
  /\ At(o, "tidy")
  /\ files' = (files \cup {<<o, "secondary">>}) \ {<<o, "staging">>}
  /\ Go(o, "finalize") /\ Release(o)
  /\ UNCHANGED <<doc, rows, chunks, points, co, runtime, lost, faults, history>>

\* The chunks are built in memory.
BuildChunks(o) ==
  /\ o \in Chunkings /\ At(o, "work")
  /\ Go(o, "finalize")
  /\ UNCHANGED <<doc, world, fence, co, runtime, lost, faults, history>>

Batch(o) == <<ex[o].of, ex[o].batch>>

\* Mutant: off by one, a batch behind the last one.
UpsertOneMore(o) ==
  /\ o \in Indexings /\ At(o, "work")
  /\ points' = points \cup {Batch(o)}
  /\ IF ex[o].batch <= Batches
     THEN ex' = [ex EXCEPT ![o].at = "fence", ![o].batch = @ + 1]
     ELSE Go(o, "finalize")
  /\ Release(o)
  /\ UNCHANGED <<doc, rows, chunks, files, co, runtime, lost, faults, history>>

\* One fenced upsert per batch.
Upsert(o) ==
  /\ o \in Indexings /\ At(o, "work")
  /\ points' = points \cup {Batch(o)}
  /\ IF ex[o].batch < Batches
     THEN ex' = [ex EXCEPT ![o].at = "fence", ![o].batch = @ + 1]
     ELSE Go(o, "finalize")
  /\ Release(o)
  /\ UNCHANGED <<doc, rows, chunks, files, co, runtime, lost, faults, history>>

\* The store answers with an error: the points were not written, or were.
UpsertFails(o) ==
  /\ o \in Indexings /\ At(o, "work")
  /\ Fault
  /\ points' \in {points, points \cup {Batch(o)}}
  /\ Go(o, "failed") /\ Release(o)
  /\ UNCHANGED <<doc, rows, chunks, files, co, runtime, lost, history>>

(***************************************************************************)
(* Completion: one transaction, outside the fence.                         *)
(***************************************************************************)
MayComplete(o) ==
  /\ Owns(o) /\ doc.live
  /\ o \in Indexings => chunks = [by |-> ex[o].of, vector |-> "indexing"]

\* The rows of the artifacts that one transaction adds; those they supersede
\* stay, as do their files.
Persisted(o) == rows \cup {o}

CompleteProcessing(o) ==
  /\ o \in Processes /\ At(o, "finalize") /\ MayComplete(o)
  /\ doc' = [doc EXCEPT !.status = "processed", !.op = NoOne, !.cleaned = o]
  /\ rows' = Persisted(o)
  /\ Go(o, "done")
  /\ UNCHANGED <<chunks, files, points, fence, co, runtime, lost, faults, history>>

\* Parents and children, written anew with their vectors pending.
Built(o) == [by |-> o, vector |-> "pending"]

\* The rows of an earlier chunking are deleted.
CompleteChunking(o) ==
  /\ o \in Chunkings /\ At(o, "finalize") /\ MayComplete(o)
  /\ SetDoc("chunked", NoOne)
  /\ chunks' = Built(o)
  /\ Go(o, "done")
  /\ UNCHANGED <<rows, files, points, fence, co, runtime, lost, faults, history>>

CompleteIndexing(o) ==
  /\ o \in Indexings /\ At(o, "finalize") /\ MayComplete(o)
  /\ SetDoc("indexed", NoOne)
  /\ chunks' = Marked("indexed")
  /\ Go(o, "done")
  /\ UNCHANGED <<rows, files, points, fence, co, runtime, lost, faults, history>>

CompleteRefused(o) ==
  /\ At(o, "finalize") /\ ~MayComplete(o)
  /\ Go(o, "failed")
  /\ UNCHANGED <<doc, world, fence, co, runtime, lost, faults, history>>

Become(o, state) == task' = [task EXCEPT ![o] = state]

\* The Task Runtime records the success, unless it has asked for compensation.
Report(o) ==
  /\ At(o, "done") /\ task[o] = "running"
  /\ Become(o, "closed")
  /\ UNCHANGED <<doc, world, fence, ex, co, calls, lost, early, faults, history>>

\* An exception ends the executor, whose locks are released; it changes no
\* state of the document.  A crash also loses the report of a success.
Abort(o) ==
  /\ ex[o].at \in {"start", "fence", "check", "work", "promote", "tidy", "finalize"}
  /\ Fault
  /\ Go(o, "failed") /\ Release(o)
  /\ UNCHANGED <<doc, world, co, runtime, lost, history>>

Crash(o) ==
  /\ ex[o].at \notin {"new", "failed", "dead"}
  /\ ~(At(o, "done") /\ task[o] = "closed")
  /\ Fault
  /\ Go(o, "dead") /\ Release(o)
  /\ UNCHANGED <<doc, world, co, runtime, lost, history>>

(***************************************************************************)
(* Compensators.                                                           *)
(***************************************************************************)
Stands(c, step) == co[c].at = step
Step(c, step) == co' = [co EXCEPT ![c].at = step]
OpOf(c) == co[c].op

\* The attempt has failed, or its lease has expired whatever its executor does, or
\* an earlier call has failed or takes long.  The call is counted before it is made.
Early(o) == \/ task[o] = "running" /\ ex[o].at \notin {"failed", "dead"}
            \/ \E d \in Compensators : OpOf(d) = o

StartCompensation(c, o) ==
  /\ Stands(c, "idle")
  /\ ~At(o, "new") /\ Pursued(o)
  /\ IF Early(o) THEN early < MaxEarly /\ early' = early + 1 ELSE UNCHANGED early
  /\ Become(o, "compensate")
  /\ calls' = [calls EXCEPT ![o] = IF @ < MaxCompensations THEN @ + 1 ELSE @]
  /\ co' = [d \in Compensators |->
              IF d = c THEN [at |-> "fail", op |-> o, of |-> NoOne, latest |-> TRUE]
              ELSE [co[d] EXCEPT !.latest = @ /\ OpOf(d) /= o]]
  /\ UNCHANGED <<doc, world, fence, ex, lost, faults, history>>

\* The compensator returns; its success is recorded, unless the operation is no
\* more to be compensated, or that is lost.
Return(c) ==
  /\ co' = [co EXCEPT ![c] = IdleCompensator]
  /\ Release(c)
  /\ \/ /\ IF task[OpOf(c)] = "compensate" THEN Become(OpOf(c), "closed") ELSE UNCHANGED task
        /\ UNCHANGED faults
     \/ Fault /\ UNCHANGED task
  /\ UNCHANGED <<calls, early>>

\* The call raises.  It will be repeated unless it was the last one: then the
\* compensation is locked, and the operation keeps what it owns.  A call that is
\* not the latest decides nothing.
GiveUp(c) ==
  IF /\ task[OpOf(c)] = "compensate" /\ co[c].latest
     /\ calls[OpOf(c)] = MaxCompensations
  THEN Become(OpOf(c), "locked")
  ELSE UNCHANGED task

\* Mutant: the document is not marked before the fence.
FailProcessingLater(c) ==
  /\ Stands(c, "fail") /\ OpOf(c) \in Processes
  /\ Step(c, "fence")
  /\ UNCHANGED <<doc, world, fence, ex, runtime, lost, faults, history>>

FailProcessing(c) ==
  /\ Stands(c, "fail") /\ OpOf(c) \in Processes
  /\ IF Owns(OpOf(c)) THEN SetDoc("failed", doc.op) ELSE UNCHANGED doc
  /\ Step(c, "fence")
  /\ UNCHANGED <<world, fence, ex, runtime, lost, faults, history>>

\* Mutant: the failed document keeps its owner, as the other kinds do until
\* their effects are undone.
FailChunkingOwned(c) ==
  /\ Stands(c, "fail") /\ OpOf(c) \in Chunkings
  /\ IF Owns(OpOf(c)) THEN SetDoc("failed", doc.op) ELSE UNCHANGED doc
  /\ Return(c)
  /\ UNCHANGED <<world, ex, lost, history>>

FailChunking(c) ==
  /\ Stands(c, "fail") /\ OpOf(c) \in Chunkings
  /\ IF Owns(OpOf(c)) THEN SetDoc("failed", NoOne) ELSE UNCHANGED doc
  /\ Return(c)
  /\ UNCHANGED <<world, ex, lost, history>>

\* Another call for the indexing is past its preparation.
Overlaps(c) ==
  twice' = IF \E d \in Compensators \ {c} :
                OpOf(d) = OpOf(c) /\ co[d].at \in {"fence", "undo", "free"}
           THEN twice \cup {OpOf(c)} ELSE twice

\* Mutant: chunks are taken into the snapshot whatever their vector status, and
\* without asking who owns the document.
PrepareAnyway(c) ==
  /\ Stands(c, "fail") /\ OpOf(c) \in Indexings
  /\ IF doc.status = "indexing" THEN SetDoc("failed", doc.op) ELSE UNCHANGED doc
  /\ co' = [co EXCEPT ![c].at = "fence", ![c].of = chunks.by]
  /\ Overlaps(c)
  /\ UNCHANGED <<world, fence, ex, runtime, lost, faults, late>>

Prepare(c) ==
  /\ Stands(c, "fail") /\ OpOf(c) \in Indexings
  /\ doc.op = OpOf(c) /\ doc.status \in {"indexing", "failed"}
  /\ SetDoc("failed", doc.op)
  /\ co' = [co EXCEPT ![c].at = "fence",
                      ![c].of = IF chunks.vector = "indexing" THEN chunks.by ELSE NoOne]
  /\ Overlaps(c)
  /\ UNCHANGED <<world, fence, ex, runtime, lost, faults, late>>

PrepareNothing(c) ==
  /\ Stands(c, "fail") /\ OpOf(c) \in Indexings
  /\ ~(doc.op = OpOf(c) /\ doc.status \in {"indexing", "failed"})
  /\ Return(c)
  /\ UNCHANGED <<doc, world, ex, lost, history>>

CompensatorEnters(c) ==
  /\ Stands(c, "fence") /\ fence[FenceOf(OpOf(c))] = NoOne
  /\ fence' = [fence EXCEPT ![FenceOf(OpOf(c))] = c]
  /\ Step(c, IF OpOf(c) \in Processes THEN "verify" ELSE "undo")
  /\ UNCHANGED <<doc, world, ex, runtime, lost, faults, history>>

CompensatorTimeout(c) ==
  /\ Stands(c, "fence") /\ fence[FenceOf(OpOf(c))] /= NoOne
  /\ co' = [co EXCEPT ![c] = IdleCompensator]
  /\ GiveUp(c)
  /\ UNCHANGED <<doc, world, fence, ex, calls, lost, early, faults, history>>

Verified(c) == doc.op = OpOf(c) /\ doc.status = "failed"

Verify(c) ==
  /\ Stands(c, "verify") /\ Verified(c)
  /\ Step(c, "undo")
  /\ UNCHANGED <<doc, world, fence, ex, runtime, lost, faults, history>>

VerifyRefused(c) ==
  /\ Stands(c, "verify") /\ ~Verified(c)
  /\ Return(c)
  /\ UNCHANGED <<doc, world, ex, lost, history>>

RemoveFiles(c) ==
  /\ Stands(c, "undo") /\ OpOf(c) \in Processes
  /\ files' = {f \in files : f[1] /= OpOf(c)}
  /\ Step(c, "free")
  /\ UNCHANGED <<doc, rows, chunks, points, fence, ex, runtime, lost, faults, history>>

\* The points of the snapshot that Prepare has taken; the document is not read
\* again before.
DeletePoints(c) ==
  /\ Stands(c, "undo") /\ OpOf(c) \in Indexings
  /\ points' = {p \in points : p[1] /= co[c].of}
  /\ Step(c, "free")
  /\ UNCHANGED <<doc, rows, chunks, files, fence, ex, runtime, lost, faults, history>>

FreeDocument(c) ==
  /\ Stands(c, "free") /\ OpOf(c) \in Processes
  /\ IF doc.op = OpOf(c) THEN SetDoc(doc.status, NoOne) ELSE UNCHANGED doc
  /\ Return(c)
  /\ UNCHANGED <<world, ex, lost, history>>

FreeChunks(c) ==
  /\ Stands(c, "free") /\ OpOf(c) \in Indexings
  /\ IF Verified(c)
     THEN /\ SetDoc("failed", NoOne)
          /\ chunks' = IF chunks.by = co[c].of THEN Marked("failed") ELSE chunks
     ELSE UNCHANGED <<doc, chunks>>
  /\ Return(c)
  /\ UNCHANGED <<rows, files, points, ex, lost, history>>

\* A database, file system or store error; or the process ends, and nothing is
\* recorded.
CompensatorFails(c) ==
  /\ ~Stands(c, "idle")
  /\ Fault
  /\ co' = [co EXCEPT ![c] = IdleCompensator] /\ Release(c)
  /\ GiveUp(c) \/ UNCHANGED task
  /\ UNCHANGED <<doc, world, ex, calls, lost, early, history>>

(***************************************************************************)
(* The rest of the system.                                                 *)
(***************************************************************************)
\* The connection that holds a named lock is lost; the holder goes on.
LoseFence(f) ==
  /\ fence[f] /= NoOne /\ lost < MaxLost
  /\ fence' = [fence EXCEPT ![f] = NoOne] /\ lost' = lost + 1
  /\ UNCHANGED <<doc, world, ex, co, runtime, faults, history>>

\* The document expires, is replaced or deleted.
Deactivate ==
  /\ doc.live
  /\ doc' = [doc EXCEPT !.live = FALSE]
  /\ UNCHANGED <<world, fence, ex, co, runtime, lost, faults, history>>

ProcessStep(o) == \/ EnterFence(o) \/ FenceTimeout(o) \/ AssertOwned(o)
                  \/ WriteStaging(o) \/ PromoteCleaned(o) \/ PromoteSecondary(o)
                  \/ CompleteProcessing(o)
ChunkStep(o) == BuildChunks(o) \/ CompleteChunking(o)
IndexStep(o) == \/ EnterFence(o) \/ FenceTimeout(o) \/ AssertOwned(o)
                \/ Upsert(o) \/ CompleteIndexing(o)

ExecutorStep(o) ==
  \/ Claim(o) \/ ClaimRefused(o)
  \/ o \in Processes /\ ProcessStep(o)
  \/ o \in Chunkings /\ ChunkStep(o)
  \/ o \in Indexings /\ IndexStep(o)
  \/ CompleteRefused(o) \/ Report(o)

CompensatorStep(c) ==
  \/ FailProcessing(c) \/ FailChunking(c) \/ Prepare(c) \/ PrepareNothing(c)
  \/ CompensatorEnters(c) \/ CompensatorTimeout(c)
  \/ Verify(c) \/ VerifyRefused(c)
  \/ RemoveFiles(c) \/ DeletePoints(c) \/ FreeDocument(c) \/ FreeChunks(c)

Next ==
  \/ \E o \in Ops : Begin(o) \/ ExecutorStep(o)
  \/ \E o \in Ops : UpsertFails(o) \/ Abort(o) \/ Crash(o)
  \/ \E c \in Compensators, o \in Ops : StartCompensation(c, o)
  \/ \E c \in Compensators : CompensatorStep(c) \/ CompensatorFails(c)
  \/ \E f \in Fences : LoseFence(f)
  \/ Deactivate

Spec == Init /\ [][Next]_vars

\* Threads run on.  As long as an operation has to be compensated, a wakeup of its
\* Plan is on the way, whatever calls have failed (NoLostWakeup of TaskRuntime).
Recover(o) == /\ ex[o].at \in {"failed", "dead"} \/ task[o] = "compensate"
              /\ \E c \in Compensators : StartCompensation(c, o)
Fairness == /\ \A o \in Ops : WF_vars(ExecutorStep(o)) /\ SF_vars(Recover(o))
            /\ \A c \in Compensators : WF_vars(CompensatorStep(c))

LiveSpec == Spec /\ Fairness

(***************************************************************************)
(* Properties.                                                             *)
(***************************************************************************)
\* Nothing is left behind outside the database by a crash between an effect and
\* its commit, nor written by an executor whose operation was compensated in
\* the meantime, unless a lock was lost before: a directory with files belongs
\* to a process with artifact rows or to the owner of the document
\* (process_document.py:488), a vector to a chunk that exists and is indexed or
\* being indexed (index_vectors.py:606).
EffectsHaveOwner ==
  lost = 0 =>
    /\ \A f \in files : f[1] \in rows \/ doc.op = f[1]
    /\ \A p \in points : p[1] = chunks.by /\ chunks.vector \in {"indexing", "indexed"}

\* No late compensation removes what a completed operation has published: the
\* files of an artifact row exist (process_document.py:655), and all chunks of
\* an indexed document have their vector in the store (index_vectors.py:754),
\* unless two calls had been prepared at once for one indexing of these chunks:
\* the later of them deletes without reading the document again.
PublishedIsThere ==
  /\ \A o \in rows : {<<o, "cleaned">>, <<o, "secondary">>} \subseteq files
  /\ (doc.status = "indexed" /\ \A i \in twice : ex[i].of /= chunks.by)
       => {chunks.by} \X (1 .. Batches) \subseteq points

\* Whoever owns the document, which refuses all other attempts, is still at work
\* on it, or will be compensated, or is known as one whose compensation was given
\* up (runtime.py:636); only an executor that is so late that it claims when the
\* compensation of its operation has begun may own it with nobody knowing.
OwnerIsPursued ==
  doc.op /= NoOne => Pursued(doc.op) \/ task[doc.op] = "locked" \/ doc.op \in late

\* Every attempt ends: completed or compensated, and without ownership unless it
\* has claimed too late; or its compensation is given up after its last call.
AttemptsEnd ==
  \A o \in Ops :
    At(o, "start") ~> \/ task[o] = "closed" /\ (doc.op = o => o \in late)
                      \/ task[o] = "locked" /\ calls[o] = MaxCompensations
=============================================================================
