------------------------ MODULE DocumentPipelineProofs ------------------------
(***************************************************************************)
(* What DocumentPipeline guarantees for any number of operations,          *)
(* compensator calls, batches, faults and lost locks.                      *)
(***************************************************************************)
EXTENDS DocumentPipelineInv, TLAPS

\* The kinds of operations exclude one another.
LEMMA Kinds ==
  /\ \A o \in Processes : o \in Ops /\ o \notin Chunkings /\ o \notin Indexings
  /\ \A o \in Chunkings : o \in Ops /\ o \notin Processes /\ o \notin Indexings
  /\ \A o \in Indexings : o \in Ops /\ o \notin Processes /\ o \notin Chunkings
  /\ \A o \in Ops : o \notin Compensators /\ o /= NoOne
  /\ \A o \in Ops : o \in Processes \/ o \in Chunkings \/ o \in Indexings
  /\ \A c \in Compensators : c /= NoOne
  /\ \A o \in Ops : FenceOf(o) \in Fences /\ Working(o) \in {"processing", "chunking", "indexing"}
  BY OpsAssumption DEF Ops, FenceOf, Fences, Working

-----------------------------------------------------------------------------
(* The pieces of a step.                                                   *)

LEMMA Gone ==
  ASSUME TypeOK, NEW o \in Ops, NEW s \in ExecutorSteps, Go(o, s)
  PROVE  /\ ex' \in [Ops -> Executor]
         /\ ex'[o].at = s /\ ex'[o].of = ex[o].of /\ ex'[o].batch = ex[o].batch
         /\ \A p \in Ops : p /= o => ex'[p] = ex[p]
<1>1. ex \in [Ops -> Executor]
  BY DEF TypeOK
<1>2. ex' = [ex EXCEPT ![o] = [ex[o] EXCEPT !.at = s]]
  BY DEF Go
<1>3. [ex[o] EXCEPT !.at = s] \in Executor
  BY <1>1 DEF Executor
<1>. QED  BY <1>1, <1>2, <1>3 DEF Executor

LEMMA Stepped ==
  ASSUME TypeOK, NEW c \in Compensators, NEW s \in CompensatorSteps, Step(c, s)
  PROVE  /\ co' \in [Compensators -> Compensator]
         /\ co'[c].at = s /\ co'[c].op = co[c].op /\ co'[c].of = co[c].of
         /\ \A d \in Compensators : d /= c => co'[d] = co[d]
<1>1. co \in [Compensators -> Compensator]
  BY DEF TypeOK
<1>2. co' = [co EXCEPT ![c] = [co[c] EXCEPT !.at = s]]
  BY DEF Step
<1>3. [co[c] EXCEPT !.at = s] \in Compensator
  BY <1>1 DEF Compensator
<1>. QED  BY <1>1, <1>2, <1>3 DEF Compensator

LEMMA Rested ==
  ASSUME TypeOK, NEW c \in Compensators, co' = [co EXCEPT ![c] = IdleCompensator]
  PROVE  /\ co' \in [Compensators -> Compensator]
         /\ co'[c].at = "idle"
         /\ \A d \in Compensators : d /= c => co'[d] = co[d]
<1>1. co \in [Compensators -> Compensator]
  BY DEF TypeOK
<1>2. IdleCompensator \in Compensator /\ IdleCompensator.at = "idle"
  BY DEF IdleCompensator, Compensator, CompensatorSteps
<1>. QED  BY <1>1, <1>2

LEMMA FenceFreed ==
  ASSUME TypeOK, NEW p, Release(p)
  PROVE  /\ fence' \in [Fences -> Ops \cup Compensators \cup {NoOne}]
         /\ \A f \in Fences : fence[f] /= p => fence'[f] = fence[f]
  BY DEF TypeOK, Release, Released

LEMMA DocSet ==
  ASSUME TypeOK, NEW s \in Status, NEW o \in Ops \cup {NoOne}, SetDoc(s, o)
  PROVE  /\ doc' \in Document
         /\ doc'.status = s /\ doc'.op = o
  BY DEF TypeOK, SetDoc, Document

LEMMA Marks ==
  ASSUME TypeOK, NEW v \in {"pending", "indexing", "indexed", "failed"}
  PROVE  /\ Marked(v) \in ChunkRows
         /\ Marked(v).by = chunks.by /\ Marked(v).vector = v
  BY DEF TypeOK, Marked, ChunkRows

LEMMA Became ==
  ASSUME TypeOK, NEW o, NEW state \in TaskStates, Become(o, state)
  PROVE  /\ task' \in [Ops -> TaskStates]
         /\ \A p \in Ops : task'[p] = IF p = o THEN state ELSE task[p]
  BY DEF Become, TypeOK

LEMMA Returned ==
  ASSUME TypeOK, NEW c \in Compensators, Return(c)
  PROVE  /\ co' \in [Compensators -> Compensator]
         /\ co'[c].at = "idle"
         /\ \A d \in Compensators : d /= c => co'[d] = co[d]
         /\ fence' \in [Fences -> Ops \cup Compensators \cup {NoOne}]
         /\ \A f \in Fences : fence[f] /= c => fence'[f] = fence[f]
         /\ task' \in [Ops -> TaskStates] /\ calls' = calls /\ early' = early
         /\ \A o \in Ops : \/ task'[o] = task[o]
                           \/ o = OpOf(c) /\ task[o] = "compensate" /\ task'[o] = "closed"
         /\ faults' \in 0 .. MaxFaults
<1>1. faults' \in 0 .. MaxFaults
  BY BoundsAssumption DEF Return, Fault, TypeOK
<1>2. /\ task' \in [Ops -> TaskStates]
      /\ \A o \in Ops : \/ task'[o] = task[o]
                        \/ o = OpOf(c) /\ task[o] = "compensate" /\ task'[o] = "closed"
  <2>1. CASE task[OpOf(c)] = "compensate" /\ Become(OpOf(c), "closed")
    <3>1. "closed" \in TaskStates
      BY DEF TaskStates
    <3>. QED  BY <2>1, <3>1, Became
  <2>2. CASE task' = task
    <3>1. task \in [Ops -> TaskStates]
      BY DEF TypeOK
    <3>. QED  BY <2>2, <3>1
  <2>. QED  BY <2>1, <2>2 DEF Return
<1>3. calls' = calls /\ early' = early
  BY DEF Return
<1>. QED  BY <1>1, <1>2, <1>3, Rested, FenceFreed DEF Return

\* A compensation that is given up.
LEMMA GivenUp ==
  ASSUME TypeOK, NEW c \in Compensators, GiveUp(c) \/ task' = task
  PROVE  /\ task' \in [Ops -> TaskStates]
         /\ \A o \in Ops : \/ task'[o] = task[o]
                           \/ o = OpOf(c) /\ task[o] = "compensate" /\ task'[o] = "locked"
<1>1. CASE task[OpOf(c)] = "compensate" /\ Become(OpOf(c), "locked")
  <2>1. "locked" \in TaskStates
    BY DEF TaskStates
  <2>. QED  BY <1>1, <2>1, Became
<1>2. CASE task' = task
  <2>1. task \in [Ops -> TaskStates]
    BY DEF TypeOK
  <2>. QED  BY <1>2, <2>1
<1>. QED  BY <1>1, <1>2 DEF GiveUp

\* A call that begins, beside others.
LEMMA Started ==
  ASSUME TypeOK, NEW c \in Compensators, NEW o \in Ops, StartCompensation(c, o)
  PROVE  /\ co' \in [Compensators -> Compensator]
         /\ co'[c].at = "fail" /\ co'[c].op = o
         /\ \A d \in Compensators : d /= c =>
              co'[d].at = co[d].at /\ co'[d].op = co[d].op /\ co'[d].of = co[d].of
         /\ task' \in [Ops -> TaskStates]
         /\ task[o] \in {"running", "compensate"} /\ task'[o] = "compensate"
         /\ \A p \in Ops : p /= o => task'[p] = task[p]
         /\ calls' \in [Ops -> 0 .. MaxCompensations]
         /\ early' \in 0 .. MaxEarly
<1>0. /\ co \in [Compensators -> Compensator]
      /\ task \in [Ops -> TaskStates] /\ calls \in [Ops -> 0 .. MaxCompensations]
      /\ early \in 0 .. MaxEarly
  BY DEF TypeOK
<1>1. co' = [d \in Compensators |->
              IF d = c THEN [at |-> "fail", op |-> o, of |-> NoOne, latest |-> TRUE]
              ELSE [co[d] EXCEPT !.latest = @ /\ OpOf(d) /= o]]
  BY DEF StartCompensation
<1>2. [at |-> "fail", op |-> o, of |-> NoOne, latest |-> TRUE] \in Compensator
  BY DEF Compensator, CompensatorSteps
<1>3. ASSUME NEW d \in Compensators
      PROVE  /\ [co[d] EXCEPT !.latest = @ /\ OpOf(d) /= o] \in Compensator
             /\ [co[d] EXCEPT !.latest = @ /\ OpOf(d) /= o].at = co[d].at
             /\ [co[d] EXCEPT !.latest = @ /\ OpOf(d) /= o].op = co[d].op
             /\ [co[d] EXCEPT !.latest = @ /\ OpOf(d) /= o].of = co[d].of
  BY <1>0 DEF Compensator
<1>4. /\ co' \in [Compensators -> Compensator]
      /\ co'[c].at = "fail" /\ co'[c].op = o
      /\ \A d \in Compensators : d /= c =>
           co'[d].at = co[d].at /\ co'[d].op = co[d].op /\ co'[d].of = co[d].of
  BY <1>1, <1>2, <1>3
<1>5. /\ task' \in [Ops -> TaskStates]
      /\ task[o] \in {"running", "compensate"} /\ task'[o] = "compensate"
      /\ \A p \in Ops : p /= o => task'[p] = task[p]
  BY <1>0 DEF StartCompensation, Become, Pursued, TaskStates
<1>6. calls' \in [Ops -> 0 .. MaxCompensations]
  <2>1. calls[o] < MaxCompensations => calls[o] + 1 \in 0 .. MaxCompensations
    BY <1>0, BoundsAssumption
  <2>. QED  BY <1>0, <2>1 DEF StartCompensation
<1>7. early' \in 0 .. MaxEarly
  BY <1>0, BoundsAssumption DEF StartCompensation
<1>. QED  BY <1>4, <1>5, <1>6, <1>7

\* A claim takes a document nobody owns.
LEMMA ClaimMoves ==
  ASSUME TypeOK, NEW o \in Ops, Claim(o)
  PROVE  /\ At(o, "start") /\ doc.op = NoOne /\ doc.live
         /\ doc' \in Document /\ doc'.status = Working(o) /\ doc'.op = o
         /\ doc.status \in {"uploaded", "processed", "chunked", "failed"}
         /\ ex' \in [Ops -> Executor]
         /\ ex'[o].at = IF o \in Chunkings THEN "work" ELSE "fence"
         /\ ex'[o].batch = 1
         /\ \A p \in Ops : p /= o => ex'[p] = ex[p]
         /\ o \notin Indexings => chunks' = chunks
         /\ o \in Indexings =>
              /\ chunks.by /= NoOne /\ chunks.vector \in {"pending", "failed"}
              /\ chunks' = [by |-> chunks.by, vector |-> "indexing"]
              /\ ex'[o].of = chunks.by
         /\ late' \subseteq Ops /\ late \subseteq late'
         /\ task[o] /= "running" => o \in late'
         /\ task' = task
<1>1. doc.op = NoOne /\ doc.live /\ doc.status \in {"uploaded", "processed", "chunked", "failed"}
  BY DEF Claim, MayClaim, MayProcess, MayChunk, MayIndex, Claimable
<1>2. doc' \in Document /\ doc'.status = Working(o) /\ doc'.op = o
  <2>1. Working(o) \in Status
    BY Kinds DEF Status
  <2>. QED  BY <2>1, DocSet DEF Claim
<1>3. o \in Indexings => chunks.by /= NoOne /\ chunks.vector \in {"pending", "failed"}
  BY Kinds DEF Claim, MayClaim, MayIndex
<1>4. chunks.by \in Chunkings \cup {NoOne} /\ chunks \in ChunkRows
  BY DEF TypeOK, ChunkRows
<1>5. [at |-> IF o \in Chunkings THEN "work" ELSE "fence", batch |-> 1,
       of |-> IF o \in Indexings THEN chunks.by ELSE NoOne] \in Executor
  BY <1>4, BoundsAssumption DEF Executor, ExecutorSteps
<1>6. ex \in [Ops -> Executor]
  BY DEF TypeOK
<1>7. o \in Indexings => chunks' = [by |-> chunks.by, vector |-> "indexing"]
  BY <1>4 DEF Claim, Marked, ChunkRows
<1>8. late' \subseteq Ops /\ late \subseteq late' /\ (task[o] /= "running" => o \in late')
  BY DEF Claim, TypeOK
<1>9. task' = task
  BY DEF Claim, runtime
<1>. QED  BY <1>1, <1>2, <1>3, <1>5, <1>6, <1>7, <1>8, <1>9 DEF Claim

-----------------------------------------------------------------------------
(* Types.                                                                  *)

\* A step of an executor that has claimed.
Enter(o) == EnterFence(o) \/ FenceTimeout(o) \/ AssertOwned(o)
Write(o) == WriteStaging(o) \/ PromoteCleaned(o) \/ PromoteSecondary(o)
Store(o) == Upsert(o) \/ UpsertFails(o)
Complete(o) ==
  \/ o \in Processes /\ CompleteProcessing(o)
  \/ o \in Chunkings /\ CompleteChunking(o)
  \/ o \in Indexings /\ CompleteIndexing(o)
Stop(o) == CompleteRefused(o) \/ Abort(o) \/ Crash(o)
Wait(c) == CompensatorEnters(c) \/ CompensatorTimeout(c) \/ Verify(c) \/ VerifyRefused(c)
Undo(c) == RemoveFiles(c) \/ DeletePoints(c)
Environment == (\E f \in Fences : LoseFence(f)) \/ Deactivate

LEMMA Cases ==
  ASSUME [Next]_vars
  PROVE  \/ \E o \in Ops : Begin(o) \/ Claim(o) \/ ClaimRefused(o) \/ Report(o)
         \/ \E o \in Ops : Complete(o) \/ Stop(o)
         \/ \E o \in Ops : o \notin Chunkings /\ Enter(o)
         \/ \E o \in Processes : Write(o)
         \/ \E o \in Chunkings : BuildChunks(o)
         \/ \E o \in Indexings : Store(o)
         \/ \E c \in Compensators : \E o \in Ops : StartCompensation(c, o)
         \/ \E c \in Compensators : FailProcessing(c) \/ FailChunking(c) \/ Prepare(c)
                                     \/ PrepareNothing(c)
         \/ \E c \in Compensators : Wait(c) \/ Undo(c) \/ CompensatorFails(c)
         \/ \E c \in Compensators : FreeDocument(c) \/ FreeChunks(c)
         \/ Environment
         \/ UNCHANGED vars
<1>1. ASSUME NEW o \in Ops, ExecutorStep(o) \/ UpsertFails(o) \/ Abort(o) \/ Crash(o)
      PROVE  \/ Claim(o) \/ ClaimRefused(o) \/ Report(o) \/ Complete(o) \/ Stop(o)
             \/ o \notin Chunkings /\ Enter(o)
             \/ o \in Processes /\ Write(o)
             \/ o \in Chunkings /\ BuildChunks(o)
             \/ o \in Indexings /\ Store(o)
  <2>1. CASE o \in Processes
    BY <1>1, <2>1, Kinds
    DEF ExecutorStep, ProcessStep, UpsertFails, Complete, Stop, Enter, Write
  <2>2. CASE o \in Chunkings
    BY <1>1, <2>2, Kinds DEF ExecutorStep, ChunkStep, UpsertFails, Complete, Stop
  <2>3. CASE o \in Indexings
    BY <1>1, <2>3, Kinds DEF ExecutorStep, IndexStep, Complete, Stop, Enter, Store
  <2>. QED  BY <2>1, <2>2, <2>3, Kinds
<1>2. ASSUME NEW c \in Compensators, CompensatorStep(c) \/ CompensatorFails(c)
      PROVE  \/ FailProcessing(c) \/ FailChunking(c) \/ Prepare(c) \/ PrepareNothing(c)
             \/ Wait(c) \/ Undo(c) \/ CompensatorFails(c)
             \/ FreeDocument(c) \/ FreeChunks(c)
  BY <1>2 DEF CompensatorStep, Wait, Undo
<1>3. /\ Processes \subseteq Ops /\ Chunkings \subseteq Ops /\ Indexings \subseteq Ops
  BY DEF Ops
<1>. QED  BY <1>1, <1>2, <1>3 DEF Next, Environment

LEMMA TypeStep ==
  ASSUME TypeOK, MarkedInv, CallInv, [Next]_vars
  PROVE  TypeOK'
<1>. USE DEF world, runtime, history
<1>0. /\ doc \in Document /\ rows \subseteq Processes /\ chunks \in ChunkRows
      /\ files \subseteq Directories /\ points \subseteq Points
      /\ fence \in [Fences -> Ops \cup Compensators \cup {NoOne}]
      /\ ex \in [Ops -> Executor] /\ co \in [Compensators -> Compensator]
      /\ task \in [Ops -> TaskStates] /\ calls \in [Ops -> 0 .. MaxCompensations]
      /\ lost \in 0 .. MaxLost /\ early \in 0 .. MaxEarly /\ faults \in 0 .. MaxFaults
      /\ late \subseteq Ops /\ twice \subseteq Indexings
  BY DEF TypeOK
<1>1. ASSUME NEW o \in Ops, NEW s \in ExecutorSteps, Go(o, s)
      PROVE  ex' \in [Ops -> Executor]
  BY <1>1, Gone
<1>2. ASSUME NEW p, Release(p)
      PROVE  fence' \in [Fences -> Ops \cup Compensators \cup {NoOne}]
  BY <1>2, FenceFreed
<1>3. Fault => faults' \in 0 .. MaxFaults
  BY <1>0, BoundsAssumption DEF Fault
<1>4. ASSUME NEW o \in Ops, Begin(o) \/ Claim(o) \/ ClaimRefused(o) \/ Report(o)
      PROVE  TypeOK'
  <2>1. CASE Begin(o) \/ ClaimRefused(o) \/ Report(o)
    BY <1>0, <1>1, <2>1 DEF Begin, ClaimRefused, Report, Become, TaskStates, ExecutorSteps, TypeOK
  <2>2. CASE Claim(o)
    <3>1. doc' \in Document /\ ex' \in [Ops -> Executor] /\ late' \subseteq Ops
      BY <2>2, ClaimMoves
    <3>2. chunks' \in ChunkRows
      BY <1>0, <2>2, Marks DEF Claim
    <3>. QED  BY <1>0, <2>2, <3>1, <3>2 DEF Claim, TypeOK
  <2>. QED  BY <1>4, <2>1, <2>2
<1>5. ASSUME NEW o \in Ops, Enter(o) \/ BuildChunks(o) \/ Stop(o)
      PROVE  TypeOK'
  <2>1. ex' \in [Ops -> Executor]
    BY <1>1, <1>5 DEF Enter, EnterFence, FenceTimeout, AssertOwned, BuildChunks, Stop,
       CompleteRefused, Abort, Crash, ExecutorSteps
  <2>2. fence' \in [Fences -> Ops \cup Compensators \cup {NoOne}]
    BY <1>0, <1>2, <1>5, Kinds DEF Enter, EnterFence, FenceTimeout, AssertOwned,
       BuildChunks, Stop, CompleteRefused, Abort, Crash
  <2>3. faults' \in 0 .. MaxFaults
    BY <1>0, <1>3, <1>5 DEF Enter, EnterFence, FenceTimeout, AssertOwned, BuildChunks,
       Stop, CompleteRefused, Abort, Crash
  <2>. QED
    BY <1>0, <1>5, <2>1, <2>2, <2>3 DEF Enter, EnterFence, FenceTimeout, AssertOwned,
       BuildChunks, Stop, CompleteRefused, Abort, Crash, TypeOK
<1>6. ASSUME NEW o \in Processes, Write(o)
      PROVE  TypeOK'
  <2>1. ex' \in [Ops -> Executor]
        /\ fence' \in [Fences -> Ops \cup Compensators \cup {NoOne}]
    BY <1>0, <1>1, <1>2, <1>6, Kinds
    DEF Write, WriteStaging, PromoteCleaned, PromoteSecondary, ExecutorSteps
  <2>2. files' \subseteq Directories
    BY <1>0, <1>6
    DEF Write, WriteStaging, PromoteCleaned, PromoteSecondary, Directories, Areas
  <2>. QED
    BY <1>0, <1>6, <2>1, <2>2 DEF Write, WriteStaging, PromoteCleaned, PromoteSecondary, TypeOK
<1>7. ASSUME NEW o \in Indexings, Store(o)
      PROVE  TypeOK'
  <2>0. o \in Ops /\ At(o, "work")
    BY <1>7, Kinds DEF Store, Upsert, UpsertFails
  <2>1. Batch(o) \in Points
    <3>1. ex[o].of \in Chunkings /\ ex[o].batch \in 1 .. Batches
      BY <1>0, <2>0 DEF Executor, MarkedInv, At
    <3>. QED  BY <3>1 DEF Batch, Points
  <2>2. points' \subseteq Points
    BY <1>0, <1>7, <2>1 DEF Store, Upsert, UpsertFails
  <2>3. ex' \in [Ops -> Executor]
    <3>1. ASSUME ex[o].batch < Batches, ex' = [ex EXCEPT ![o].at = "fence", ![o].batch = @ + 1]
          PROVE  ex' \in [Ops -> Executor]
      <4>1. ex[o] \in Executor /\ ex[o].batch + 1 \in 1 .. Batches
        BY <1>0, <2>0, <3>1, BoundsAssumption DEF Executor
      <4>2. [[ex[o] EXCEPT !.at = "fence"] EXCEPT !.batch = ex[o].batch + 1] \in Executor
        BY <4>1 DEF Executor, ExecutorSteps
      <4>3. ex' = [ex EXCEPT ![o] = [[ex[o] EXCEPT !.at = "fence"] EXCEPT !.batch = ex[o].batch + 1]]
        BY <1>0, <2>0, <3>1 DEF Executor
      <4>. QED  BY <1>0, <2>0, <4>2, <4>3
    <3>. QED  BY <1>1, <1>7, <2>0, <3>1 DEF Store, Upsert, UpsertFails, ExecutorSteps
  <2>4. fence' \in [Fences -> Ops \cup Compensators \cup {NoOne}] /\ faults' \in 0 .. MaxFaults
    BY <1>0, <1>2, <1>3, <1>7 DEF Store, Upsert, UpsertFails
  <2>. QED  BY <1>0, <1>7, <2>2, <2>3, <2>4 DEF Store, Upsert, UpsertFails, TypeOK
<1>8. ASSUME NEW o \in Ops, Complete(o)
      PROVE  TypeOK'
  <2>1. ex' \in [Ops -> Executor]
    BY <1>1, <1>8 DEF Complete, CompleteProcessing, CompleteChunking, CompleteIndexing, ExecutorSteps
  <2>2. doc' \in Document /\ rows' \subseteq Processes
    BY <1>0, <1>8 DEF Complete, CompleteProcessing, CompleteChunking, CompleteIndexing,
       Persisted, SetDoc, Document, Status
  <2>3. chunks' \in ChunkRows
    BY <1>0, <1>8, Marks DEF Complete, CompleteProcessing, CompleteChunking, CompleteIndexing,
       Built, ChunkRows
  <2>. QED
    BY <1>0, <1>8, <2>1, <2>2, <2>3
    DEF Complete, CompleteProcessing, CompleteChunking, CompleteIndexing, TypeOK
<1>9. ASSUME NEW c \in Compensators, NEW o \in Ops, StartCompensation(c, o)
      PROVE  TypeOK'
  BY <1>0, <1>9, Started DEF StartCompensation, TypeOK
<1>10. ASSUME NEW c \in Compensators, NEW s \in CompensatorSteps, Step(c, s)
       PROVE  co' \in [Compensators -> Compensator]
  BY <1>10, Stepped
<1>11. ASSUME NEW c \in Compensators, Return(c), OpOf(c) \in Ops
       PROVE  /\ co' \in [Compensators -> Compensator]
              /\ fence' \in [Fences -> Ops \cup Compensators \cup {NoOne}]
              /\ task' \in [Ops -> TaskStates] /\ calls' = calls /\ early' = early /\ faults' \in 0 .. MaxFaults
  BY <1>0, <1>11, Returned
<1>12. doc.op \in Ops \cup {NoOne} /\ doc.status \in Status /\ "failed" \in Status
  BY <1>0 DEF Document, Status
<1>13. ASSUME NEW c \in Compensators,
              FailProcessing(c) \/ FailChunking(c) \/ Prepare(c) \/ PrepareNothing(c)
       PROVE  TypeOK'
  <2>0. OpOf(c) \in Ops
    BY <1>13, Kinds DEF FailProcessing, FailChunking, Prepare, PrepareNothing
  <2>1. doc' \in Document
    BY <1>0, <1>12, <1>13, DocSet DEF FailProcessing, FailChunking, Prepare, PrepareNothing
  <2>2. CASE FailProcessing(c)
    BY <1>0, <1>10, <2>1, <2>2 DEF FailProcessing, TypeOK, CompensatorSteps
  <2>3. CASE FailChunking(c) \/ PrepareNothing(c)
    BY <1>0, <1>11, <2>0, <2>1, <2>3 DEF FailChunking, PrepareNothing, TypeOK
  <2>4. CASE Prepare(c)
    <3>1. chunks.by \in Chunkings \cup {NoOne} /\ co[c] \in Compensator
      BY <1>0 DEF ChunkRows
    <3>2. PICK k \in Chunkings \cup {NoOne} :
            co' = [co EXCEPT ![c].at = "fence", ![c].of = k]
      BY <2>4, <3>1 DEF Prepare
    <3>3. [[co[c] EXCEPT !.at = "fence"] EXCEPT !.of = k] \in Compensator
      BY <3>1 DEF Compensator, CompensatorSteps
    <3>4. co' = [co EXCEPT ![c] = [[co[c] EXCEPT !.at = "fence"] EXCEPT !.of = k]]
      BY <1>0, <3>2 DEF Compensator
    <3>5. twice' \subseteq Indexings
      BY <1>0, <2>4 DEF Prepare, Overlaps
    <3>. QED  BY <1>0, <2>1, <2>4, <3>3, <3>4, <3>5 DEF Prepare, TypeOK
  <2>. QED  BY <1>13, <2>2, <2>3, <2>4
<1>14. ASSUME NEW c \in Compensators, Wait(c) \/ Undo(c) \/ CompensatorFails(c)
       PROVE  TypeOK'
  <2>0. OpOf(c) \in Ops
    BY <1>14 DEF Wait, CompensatorEnters, CompensatorTimeout, Verify, VerifyRefused, Undo,
       RemoveFiles, DeletePoints, CompensatorFails, Stands, CallInv
  <2>1. CASE Wait(c)
    <3>1. co' \in [Compensators -> Compensator]
      BY <1>0, <1>10, <1>11, <2>0, <2>1, Rested DEF Wait, CompensatorEnters,
         CompensatorTimeout, Verify, VerifyRefused, CompensatorSteps
    <3>2. /\ fence' \in [Fences -> Ops \cup Compensators \cup {NoOne}]
          /\ task' \in [Ops -> TaskStates] /\ calls' = calls /\ early' = early /\ faults' \in 0 .. MaxFaults
      BY <1>0, <1>11, <2>0, <2>1, GivenUp, Kinds DEF Wait, CompensatorEnters,
         CompensatorTimeout, Verify, VerifyRefused
    <3>. QED  BY <1>0, <2>1, <3>1, <3>2 DEF Wait, CompensatorEnters, CompensatorTimeout,
              Verify, VerifyRefused, TypeOK
  <2>2. CASE Undo(c)
    BY <1>0, <1>10, <2>2 DEF Undo, RemoveFiles, DeletePoints, TypeOK, CompensatorSteps
  <2>3. CASE CompensatorFails(c)
    BY <1>0, <1>2, <1>3, <2>3, Rested, GivenUp DEF CompensatorFails, TypeOK
  <2>. QED  BY <1>14, <2>1, <2>2, <2>3
<1>15. ASSUME NEW c \in Compensators, FreeDocument(c) \/ FreeChunks(c)
       PROVE  TypeOK'
  <2>0. OpOf(c) \in Ops
    BY <1>15, Kinds DEF FreeDocument, FreeChunks
  <2>1. doc' \in Document
    BY <1>0, <1>12, <1>15, DocSet DEF FreeDocument, FreeChunks
  <2>2. chunks' \in ChunkRows
    BY <1>0, <1>15, Marks DEF FreeDocument, FreeChunks
  <2>. QED  BY <1>0, <1>11, <1>15, <2>0, <2>1, <2>2 DEF FreeDocument, FreeChunks, TypeOK
<1>16. CASE Environment
  <2>1. ASSUME NEW f \in Fences, LoseFence(f)
        PROVE  TypeOK'
    <3>1. lost' \in 0 .. MaxLost
      BY <1>0, <2>1, BoundsAssumption DEF LoseFence
    <3>. QED  BY <1>0, <2>1, <3>1 DEF LoseFence, TypeOK
  <2>2. CASE Deactivate
    <3>1. doc' \in Document
      BY <1>0, <2>2 DEF Deactivate, Document
    <3>. QED  BY <1>0, <2>2, <3>1 DEF Deactivate, TypeOK
  <2>. QED  BY <1>16, <2>1, <2>2 DEF Environment
<1>17. CASE UNCHANGED vars
  BY <1>0, <1>17 DEF vars, TypeOK
<1>. QED
  BY <1>4, <1>5, <1>6, <1>7, <1>8, <1>9, <1>13, <1>14, <1>15, <1>16, <1>17, Cases, Kinds

-----------------------------------------------------------------------------
(* How the parts of the state move.                                        *)

Same(o) == ex'[o].of = ex[o].of /\ ex'[o].batch = ex[o].batch

ExMove(o) ==
  \/ ex'[o] = ex[o]
  \/ Claim(o)
  \/ At(o, "new") /\ ex'[o].at = "start"
  \/ ~At(o, "new") /\ ex'[o].at \in {"failed", "dead"} /\ Same(o)
  \/ o \notin Chunkings /\ EnterFence(o) /\ ex'[o].at = "check" /\ Same(o)
  \/ o \notin Chunkings /\ AssertOwned(o) /\ StillOwned(o) /\ ex'[o].at = "work" /\ Same(o)
  \/ o \in Processes /\ WriteStaging(o) /\ ex'[o].at = "promote" /\ Same(o)
  \/ o \in Processes /\ PromoteCleaned(o) /\ ex'[o].at = "tidy" /\ Same(o)
  \/ o \in Processes /\ PromoteSecondary(o) /\ ex'[o].at = "finalize" /\ Same(o)
  \/ o \in Chunkings /\ BuildChunks(o) /\ ex'[o].at = "finalize" /\ Same(o)
  \/ o \in Indexings /\ Upsert(o) /\ ex'[o].at = "finalize" /\ Same(o)
       /\ ex[o].batch = Batches
  \/ o \in Indexings /\ Upsert(o) /\ ex'[o].at = "fence"
       /\ ex'[o].of = ex[o].of /\ ex'[o].batch = ex[o].batch + 1
  \/ Complete(o) /\ At(o, "finalize") /\ ex'[o].at = "done" /\ Same(o)

LEMMA ExecutorMoves ==
  ASSUME TypeOK, [Next]_vars, NEW o \in Ops
  PROVE  ExMove(o)
<1>. USE DEF Same
<1>1. ASSUME NEW p \in Ops, NEW s \in ExecutorSteps, Go(p, s)
      PROVE  \/ p /= o /\ ex'[o] = ex[o]
             \/ p = o /\ ex'[o].at = s /\ Same(o)
  BY <1>1, Gone
<1>2. ASSUME NEW p \in Ops, Begin(p) \/ Claim(p) \/ ClaimRefused(p) \/ Report(p)
      PROVE  ExMove(o)
  <2>1. CASE Claim(p)
    BY <2>1, ClaimMoves DEF ExMove
  <2>2. CASE Begin(p)
    BY <1>1, <2>2 DEF Begin, ExMove, ExecutorSteps
  <2>3. CASE ClaimRefused(p)
    BY <1>1, <2>3 DEF ClaimRefused, ExMove, ExecutorSteps, At
  <2>4. CASE Report(p)
    BY <2>4 DEF Report, ExMove
  <2>. QED  BY <1>2, <2>1, <2>2, <2>3, <2>4
<1>3. ASSUME NEW p \in Ops, Complete(p) \/ Stop(p)
      PROVE  ExMove(o)
  <2>1. CASE Complete(p)
    BY <1>1, <2>1 DEF Complete, CompleteProcessing, CompleteChunking, CompleteIndexing,
       ExMove, ExecutorSteps
  <2>2. CASE Stop(p)
    BY <1>1, <2>2 DEF Stop, CompleteRefused, Abort, Crash, ExMove, ExecutorSteps, At
  <2>. QED  BY <1>3, <2>1, <2>2
<1>4. ASSUME NEW p \in Ops, p \notin Chunkings, Enter(p)
      PROVE  ExMove(o)
  <2>1. CASE EnterFence(p)
    BY <1>1, <1>4, <2>1 DEF EnterFence, ExMove, ExecutorSteps
  <2>2. CASE FenceTimeout(p)
    BY <1>1, <2>2 DEF FenceTimeout, ExMove, ExecutorSteps, At
  <2>3. CASE AssertOwned(p)
    BY <1>1, <1>4, <2>3 DEF AssertOwned, ExMove, ExecutorSteps, At
  <2>. QED  BY <1>4, <2>1, <2>2, <2>3 DEF Enter
<1>5. ASSUME NEW p \in Processes, Write(p)
      PROVE  ExMove(o)
  BY <1>1, <1>5, Kinds DEF Write, WriteStaging, PromoteCleaned, PromoteSecondary, ExMove,
     ExecutorSteps
<1>6. ASSUME NEW p \in Chunkings, BuildChunks(p)
      PROVE  ExMove(o)
  BY <1>1, <1>6, Kinds DEF BuildChunks, ExMove, ExecutorSteps
<1>7. ASSUME NEW p \in Indexings, Store(p)
      PROVE  ExMove(o)
  <2>1. p \in Ops /\ ex[p].batch \in 1 .. Batches /\ ex \in [Ops -> Executor]
    BY Kinds DEF TypeOK, Executor
  <2>2. CASE UpsertFails(p)
    BY <1>1, <2>1, <2>2 DEF UpsertFails, ExMove, ExecutorSteps, At
  <2>3. CASE Upsert(p) /\ ex[p].batch < Batches
    <3>1. ex' = [ex EXCEPT ![p].at = "fence", ![p].batch = @ + 1]
      BY <2>3 DEF Upsert
    <3>2. p /= o => ex'[o] = ex[o]
      BY <2>1, <3>1
    <3>3. p = o => ex'[o].at = "fence" /\ ex'[o].of = ex[o].of /\ ex'[o].batch = ex[o].batch + 1
      BY <2>1, <3>1 DEF Executor
    <3>. QED  BY <1>7, <2>3, <3>2, <3>3 DEF ExMove
  <2>4. CASE Upsert(p) /\ ~(ex[p].batch < Batches)
    <3>1. ex[p].batch = Batches
      BY <2>1, <2>4, BoundsAssumption
    <3>. QED  BY <1>1, <1>7, <2>1, <2>4, <3>1 DEF Upsert, ExMove, ExecutorSteps
  <2>. QED  BY <1>7, <2>2, <2>3, <2>4 DEF Store
<1>8. CASE ex' = ex
  BY <1>8 DEF ExMove
<1>9. ASSUME NEW c \in Compensators, \/ Wait(c) \/ Undo(c) \/ CompensatorFails(c)
                                     \/ FailProcessing(c) \/ FailChunking(c) \/ Prepare(c)
                                     \/ PrepareNothing(c) \/ FreeDocument(c) \/ FreeChunks(c)
      PROVE  ex' = ex
  BY <1>9 DEF Wait, CompensatorEnters, CompensatorTimeout, Verify, VerifyRefused, Undo,
     RemoveFiles, DeletePoints, CompensatorFails, FailProcessing, FailChunking, Prepare,
     PrepareNothing, FreeDocument, FreeChunks
<1>10. ASSUME NEW c \in Compensators, NEW p \in Ops, StartCompensation(c, p)
       PROVE  ex' = ex
  BY <1>10 DEF StartCompensation
<1>11. CASE Environment \/ UNCHANGED vars
  BY <1>8, <1>11 DEF Environment, LoseFence, Deactivate, vars
<1>. QED  BY <1>2, <1>3, <1>4, <1>5, <1>6, <1>7, <1>8, <1>9, <1>10, <1>11, Cases

\* A claim is made once, and an indexing keeps the chunks it has marked.
LEMMA ClaimedStays ==
  ASSUME TypeOK, [Next]_vars, NEW o \in Ops, Claimed(o)
  PROVE  Claimed(o)' /\ ex'[o].of = ex[o].of
  BY ExecutorMoves DEF ExMove, Claimed, Claim, At, Same

Still(c) == co'[c].at = co[c].at /\ co'[c].op = OpOf(c) /\ co'[c].of = co[c].of

CoMove(c) ==
  \/ Still(c)
  \/ co'[c].at = "idle"
  \/ /\ Stands(c, "idle") /\ co'[c].at = "fail"
     /\ co'[c].op \in Ops /\ ~At(co'[c].op, "new") /\ task'[co'[c].op] = "compensate"
  \/ FailProcessing(c) /\ co'[c].at = "fence" /\ co'[c].op = OpOf(c) /\ co'[c].of = co[c].of
  \/ Prepare(c) /\ co'[c].at = "fence" /\ co'[c].op = OpOf(c)
       /\ (chunks.vector = "indexing" => co'[c].of = chunks.by)
  \/ CompensatorEnters(c) /\ co'[c].op = OpOf(c) /\ co'[c].of = co[c].of
       /\ co'[c].at = IF OpOf(c) \in Processes THEN "verify" ELSE "undo"
  \/ Verify(c) /\ co'[c].at = "undo" /\ co'[c].op = OpOf(c) /\ co'[c].of = co[c].of
  \/ Undo(c) /\ co'[c].at = "free" /\ co'[c].op = OpOf(c) /\ co'[c].of = co[c].of

LEMMA CompensatorMoves ==
  ASSUME TypeOK, [Next]_vars, NEW c \in Compensators
  PROVE  CoMove(c)
<1>1. ASSUME NEW d \in Compensators, NEW s \in CompensatorSteps, Step(d, s)
      PROVE  \/ d /= c /\ Still(c)
             \/ d = c /\ co'[c].at = s /\ co'[c].op = OpOf(c) /\ co'[c].of = co[c].of
  BY <1>1, Stepped DEF OpOf, Still
<1>2. ASSUME NEW d \in Compensators, Return(d) \/ co' = [co EXCEPT ![d] = IdleCompensator]
      PROVE  CoMove(c)
  BY <1>2, Returned, Rested DEF CoMove, Still, OpOf
<1>3. ASSUME NEW d \in Compensators, NEW o \in Ops, StartCompensation(d, o)
      PROVE  CoMove(c)
  <2>1. d = c => Stands(c, "idle") /\ ~At(o, "new")
    BY <1>3 DEF StartCompensation
  <2>2. d = c => co'[c].at = "fail" /\ co'[c].op = o /\ task'[o] = "compensate"
    BY <1>3, Started
  <2>3. d /= c => Still(c)
    BY <1>3, Started DEF Still, OpOf
  <2>. QED  BY <2>1, <2>2, <2>3 DEF CoMove
<1>4. ASSUME NEW d \in Compensators,
             FailProcessing(d) \/ FailChunking(d) \/ Prepare(d) \/ PrepareNothing(d)
      PROVE  CoMove(c)
  <2>1. CASE FailProcessing(d)
    BY <1>1, <2>1 DEF FailProcessing, CoMove, CompensatorSteps
  <2>2. CASE FailChunking(d) \/ PrepareNothing(d)
    BY <1>2, <2>2 DEF FailChunking, PrepareNothing
  <2>3. CASE Prepare(d)
    <3>1. co \in [Compensators -> Compensator]
      BY DEF TypeOK
    <3>2. d /= c => Still(c)
      BY <2>3, <3>1 DEF Prepare, Still, OpOf
    <3>3. d = c => /\ co'[c].at = "fence" /\ co'[c].op = OpOf(c)
                   /\ (chunks.vector = "indexing" => co'[c].of = chunks.by)
      BY <2>3, <3>1 DEF Prepare, OpOf, Compensator
    <3>. QED  BY <2>3, <3>2, <3>3 DEF CoMove
  <2>. QED  BY <1>4, <2>1, <2>2, <2>3
<1>5. ASSUME NEW d \in Compensators, Wait(d)
      PROVE  CoMove(c)
  <2>1. CASE CompensatorEnters(d)
    BY <1>1, <2>1 DEF CompensatorEnters, CoMove, CompensatorSteps
  <2>2. CASE Verify(d)
    BY <1>1, <2>2 DEF Verify, CoMove, CompensatorSteps
  <2>3. CASE CompensatorTimeout(d) \/ VerifyRefused(d)
    BY <1>2, <2>3 DEF CompensatorTimeout, VerifyRefused
  <2>. QED  BY <1>5, <2>1, <2>2, <2>3 DEF Wait
<1>6. ASSUME NEW d \in Compensators, Undo(d)
      PROVE  CoMove(c)
  BY <1>1, <1>6 DEF Undo, RemoveFiles, DeletePoints, CoMove, CompensatorSteps
<1>7. ASSUME NEW d \in Compensators, CompensatorFails(d) \/ FreeDocument(d) \/ FreeChunks(d)
      PROVE  CoMove(c)
  BY <1>2, <1>7 DEF CompensatorFails, FreeDocument, FreeChunks
<1>8. CASE co' = co
  BY <1>8 DEF CoMove, Still, OpOf
<1>9. ASSUME NEW o \in Ops, \/ Begin(o) \/ Claim(o) \/ ClaimRefused(o) \/ Report(o)
                            \/ Complete(o) \/ Stop(o) \/ Enter(o) \/ Write(o)
                            \/ BuildChunks(o) \/ Store(o)
      PROVE  co' = co
  BY <1>9 DEF Begin, Claim, ClaimRefused, Report, Complete, CompleteProcessing,
     CompleteChunking, CompleteIndexing, Stop, CompleteRefused, Abort, Crash, Enter,
     EnterFence, FenceTimeout, AssertOwned, Write, WriteStaging, PromoteCleaned,
     PromoteSecondary, BuildChunks, Store, Upsert, UpsertFails
<1>10. CASE Environment \/ UNCHANGED vars
  BY <1>8, <1>10 DEF Environment, LoseFence, Deactivate, vars
<1>. QED
  BY <1>3, <1>4, <1>5, <1>6, <1>7, <1>8, <1>9, <1>10, Cases, Kinds

DocMove ==
  \/ doc'.op = doc.op /\ doc'.status = doc.status
  \/ \E o \in Ops : Claim(o)
  \/ \E o \in Ops :
       /\ Complete(o) /\ At(o, "finalize") /\ MayComplete(o) /\ doc'.op = NoOne
       /\ doc'.status = IF o \in Processes THEN "processed"
                        ELSE IF o \in Chunkings THEN "chunked" ELSE "indexed"
  \/ \E c \in Compensators :
       /\ Stands(c, "fail") /\ OpOf(c) \in Ops \ Chunkings
       /\ doc.op = OpOf(c) /\ doc.status \in {Working(doc.op), "failed"}
       /\ doc'.op = doc.op /\ doc'.status = "failed"
  \/ \E c \in Compensators :
       /\ FailChunking(c) /\ OpOf(c) \in Chunkings /\ Owns(OpOf(c))
       /\ doc'.op = NoOne /\ doc'.status = "failed"
  \/ \E c \in Compensators :
       /\ Stands(c, "free") /\ doc.op = OpOf(c)
       /\ doc'.op = NoOne /\ doc'.status = doc.status
       /\ \/ OpOf(c) \in Processes /\ FreeDocument(c)
          \/ OpOf(c) \in Indexings /\ FreeChunks(c) /\ doc.status = "failed"

LEMMA DocMoves ==
  ASSUME TypeOK, [Next]_vars
  PROVE  DocMove
<1>0. doc \in Document /\ doc.op \in Ops \cup {NoOne} /\ doc.status \in Status
      /\ "failed" \in Status
  BY DEF TypeOK, Document, Status
<1>1. ASSUME NEW o \in Ops, Claim(o)
      PROVE  DocMove
  BY <1>1 DEF DocMove
<1>2. ASSUME NEW o \in Ops, Complete(o)
      PROVE  DocMove
  <2>1. MayComplete(o) /\ At(o, "finalize")
    BY <1>2 DEF Complete, CompleteProcessing, CompleteChunking, CompleteIndexing
  <2>2. /\ doc'.op = NoOne
        /\ doc'.status = IF o \in Processes THEN "processed"
                         ELSE IF o \in Chunkings THEN "chunked" ELSE "indexed"
    BY <1>0, <1>2, Kinds, DocSet DEF Complete, CompleteProcessing, CompleteChunking,
       CompleteIndexing, SetDoc, Document
  <2>. QED  BY <1>2, <2>1, <2>2 DEF DocMove
<1>3. ASSUME NEW c \in Compensators, FailProcessing(c) \/ Prepare(c)
      PROVE  DocMove
  <2>1. CASE doc' = doc
    BY <2>1 DEF DocMove
  <2>2. CASE /\ Stands(c, "fail") /\ OpOf(c) \in Ops \ Chunkings
             /\ doc.op = OpOf(c) /\ doc.status \in {Working(doc.op), "failed"}
             /\ SetDoc("failed", doc.op)
    BY <1>0, <2>2, DocSet DEF DocMove
  <2>. QED
    BY <1>3, <2>1, <2>2, Kinds DEF FailProcessing, Prepare, Owns, Working
<1>4. ASSUME NEW c \in Compensators, FailChunking(c)
      PROVE  DocMove
  BY <1>0, <1>4, DocSet DEF FailChunking, DocMove
<1>5. ASSUME NEW c \in Compensators, FreeDocument(c)
      PROVE  DocMove
  BY <1>0, <1>5, DocSet DEF FreeDocument, DocMove
<1>6. ASSUME NEW c \in Compensators, FreeChunks(c)
      PROVE  DocMove
  BY <1>0, <1>6, DocSet DEF FreeChunks, Verified, DocMove
<1>7. CASE doc' = doc
  BY <1>7 DEF DocMove
<1>8. ASSUME NEW o \in Ops, \/ Begin(o) \/ ClaimRefused(o) \/ Report(o) \/ Stop(o)
                            \/ Enter(o) \/ Write(o) \/ BuildChunks(o) \/ Store(o)
      PROVE  doc' = doc
  BY <1>8 DEF Begin, ClaimRefused, Report, Stop, CompleteRefused, Abort, Crash, Enter,
     EnterFence, FenceTimeout, AssertOwned, Write, WriteStaging, PromoteCleaned,
     PromoteSecondary, BuildChunks, Store, Upsert, UpsertFails
<1>9. ASSUME NEW c \in Compensators, PrepareNothing(c) \/ Wait(c) \/ Undo(c) \/ CompensatorFails(c)
      PROVE  doc' = doc
  BY <1>9 DEF PrepareNothing, Wait, CompensatorEnters, CompensatorTimeout, Verify,
     VerifyRefused, Undo, RemoveFiles, DeletePoints, CompensatorFails
<1>10. ASSUME NEW c \in Compensators, NEW o \in Ops, StartCompensation(c, o)
       PROVE  doc' = doc
  BY <1>10 DEF StartCompensation
<1>11. CASE Environment \/ UNCHANGED vars
  BY <1>0, <1>11 DEF Environment, LoseFence, Deactivate, vars, DocMove, Document
<1>. QED
  BY <1>1, <1>2, <1>3, <1>4, <1>5, <1>6, <1>7, <1>8, <1>9, <1>10, <1>11, Cases, Kinds

-----------------------------------------------------------------------------
(* Who owns the document.                                                  *)

LEMMA MarkedStep ==
  ASSUME TypeOK, MarkedInv, [Next]_vars
  PROVE  MarkedInv'
<1>. SUFFICES ASSUME NEW o \in Indexings,
                     ex'[o].at \in {"fence", "check", "work", "finalize"}
              PROVE  ex'[o].of /= NoOne
  BY DEF MarkedInv
<1>1. o \in Ops /\ o \notin Processes /\ o \notin Chunkings
  BY Kinds
<1>2. ExMove(o)
  BY <1>1, ExecutorMoves
<1>3. CASE Claim(o)
  BY <1>1, <1>3, ClaimMoves
<1>4. CASE ~Claim(o)
  <2>1. ex[o].at \in {"fence", "check", "work", "finalize"} /\ ex'[o].of = ex[o].of
    BY <1>1, <1>2, <1>4 DEF ExMove, EnterFence, AssertOwned, Upsert, Complete,
       At, Same
  <2>. QED  BY <2>1 DEF MarkedInv
<1>. QED  BY <1>3, <1>4

\* An operation that has lost the document does not get it back.
LEMMA PastStays ==
  ASSUME TypeOK, [Next]_vars, NEW o \in Ops, Past(o)
  PROVE  Past(o)'
<1>1. Claimed(o)' /\ Claimed(o)
  BY ClaimedStays DEF Past
<1>2. ~Owns(o) /\ o /= NoOne
  BY Kinds DEF Past
<1>3. ASSUME NEW p \in Ops, Claim(p)
      PROVE  ~Owns(o)'
  BY <1>1, <1>3, ClaimMoves DEF Claimed, At, Owns
<1>4. ~Owns(o)'
  <2>1. Working(o) /= "failed"
    BY Kinds
  <2>. QED  BY <1>2, <1>3, <2>1, DocMoves DEF DocMove, Owns
<1>. QED  BY <1>1, <1>4 DEF Past

LEMMA OwnerStep ==
  ASSUME TypeOK, OwnerInv, [Next]_vars
  PROVE  OwnerInv'
<1>. SUFFICES ASSUME doc'.op /= NoOne
              PROVE  /\ ex'[doc'.op].at \notin {"new", "start", "done"}
                     /\ \/ doc'.status = Working(doc'.op)
                        \/ doc'.op \notin Chunkings /\ doc'.status = "failed"
  BY DEF OwnerInv, Claimed, At
<1>1. ASSUME NEW o \in Ops, Claim(o)
      PROVE  /\ ex'[doc'.op].at \notin {"new", "start", "done"}
             /\ doc'.status = Working(doc'.op)
  BY <1>1, ClaimMoves DEF Claimed, At
<1>2. ASSUME doc'.op = doc.op, ~(\E o \in Ops : Claim(o))
      PROVE  ex'[doc'.op].at \notin {"new", "start", "done"}
  <2>1. PICK o \in Ops : o = doc.op
    BY <1>2 DEF TypeOK, Document
  <2>2. Claimed(o) /\ ~At(o, "done") /\ o /= NoOne
    BY <2>1, Kinds DEF OwnerInv
  <2>3. ~Complete(o)
    BY <1>2, <2>1, <2>2, DocSet DEF Complete, CompleteProcessing, CompleteChunking,
       CompleteIndexing, TypeOK, Document, Status, SetDoc
  <2>4. Claimed(o)' /\ ex'[o].at /= "done"
    BY <2>2, <2>3, ClaimedStays, ExecutorMoves DEF ExMove, Claimed, Claim, At
  <2>. QED  BY <1>2, <2>1, <2>4 DEF At, Claimed
<1>3. CASE doc'.op = doc.op /\ doc'.status = doc.status /\ ~(\E o \in Ops : Claim(o))
  BY <1>2, <1>3 DEF OwnerInv
<1>4. CASE \E c \in Compensators :
             /\ OpOf(c) \in Ops \ Chunkings /\ doc.op = OpOf(c)
             /\ doc'.op = doc.op /\ doc'.status = "failed"
  <2>1. ~(\E o \in Ops : Claim(o))
    BY <1>4, ClaimMoves, Kinds
  <2>. QED  BY <1>2, <1>4, <2>1
<1>. QED  BY <1>1, <1>3, <1>4, DocMoves DEF DocMove

\* Who changes what.
LEMMA WorldMoves ==
  ASSUME [Next]_vars
  PROVE  /\ rows' = rows \/ \E o \in Processes : CompleteProcessing(o)
         /\ \/ files' = files
            \/ \E o \in Processes : Write(o)
            \/ \E c \in Compensators : RemoveFiles(c)
         /\ \/ points' = points
            \/ \E o \in Indexings : Store(o)
            \/ \E c \in Compensators : DeletePoints(c)
         /\ \/ chunks' = chunks
            \/ \E o \in Indexings : Claim(o) \/ CompleteIndexing(o)
            \/ \E o \in Chunkings : CompleteChunking(o)
            \/ \E c \in Compensators : FreeChunks(c)
         /\ lost' = lost \/ \E f \in Fences : LoseFence(f)
         /\ late' = late \/ \E o \in Ops : Claim(o)
         /\ twice' = twice \/ \E c \in Compensators : Prepare(c)
<1>. USE DEF world, history
<1>1. ASSUME NEW o \in Ops, \/ Begin(o) \/ ClaimRefused(o) \/ Stop(o) \/ Enter(o) \/ BuildChunks(o)
      PROVE  UNCHANGED <<rows, files, points, chunks, lost, late, twice>>
  BY <1>1 DEF Begin, ClaimRefused, Stop, CompleteRefused, Abort, Crash, Enter,
     EnterFence, FenceTimeout, AssertOwned, BuildChunks
<1>2. ASSUME NEW o \in Ops, Claim(o) \/ Report(o)
      PROVE  /\ UNCHANGED <<rows, files, points, lost, twice>>
             /\ late' = late \/ Claim(o)
             /\ chunks' = chunks \/ (o \in Indexings /\ Claim(o))
  BY <1>2 DEF Claim, Report
<1>3. ASSUME NEW o \in Ops, Complete(o)
      PROVE  /\ UNCHANGED <<files, points, lost, late, twice>>
             /\ rows' = rows \/ (o \in Processes /\ CompleteProcessing(o))
             /\ \/ chunks' = chunks
                \/ o \in Indexings /\ CompleteIndexing(o)
                \/ o \in Chunkings /\ CompleteChunking(o)
  BY <1>3 DEF Complete, CompleteProcessing, CompleteChunking, CompleteIndexing
<1>4. ASSUME NEW o \in Ops, Write(o)
      PROVE  UNCHANGED <<rows, points, chunks, lost, late, twice>>
  BY <1>4 DEF Write, WriteStaging, PromoteCleaned, PromoteSecondary
<1>5. ASSUME NEW o \in Ops, Store(o)
      PROVE  UNCHANGED <<rows, files, chunks, lost, late, twice>>
  BY <1>5 DEF Store, Upsert, UpsertFails
<1>6. ASSUME NEW c \in Compensators, \/ FailProcessing(c) \/ Prepare(c) \/ CompensatorFails(c)
                                     \/ CompensatorEnters(c) \/ CompensatorTimeout(c) \/ Verify(c)
      PROVE  /\ UNCHANGED <<rows, files, points, chunks, lost, late>>
             /\ twice' = twice \/ Prepare(c)
  BY <1>6 DEF FailProcessing, Prepare, CompensatorFails, CompensatorEnters,
     CompensatorTimeout, Verify
<1>7. ASSUME NEW c \in Compensators, \/ FailChunking(c) \/ PrepareNothing(c)
                                     \/ VerifyRefused(c) \/ FreeDocument(c)
      PROVE  UNCHANGED <<rows, files, points, chunks, lost, late, twice>>
  BY <1>7 DEF FailChunking, PrepareNothing, VerifyRefused, FreeDocument
<1>8. ASSUME NEW c \in Compensators, RemoveFiles(c) \/ DeletePoints(c)
      PROVE  /\ UNCHANGED <<rows, chunks, lost, late, twice>>
             /\ files' = files \/ RemoveFiles(c)
             /\ points' = points \/ DeletePoints(c)
  BY <1>8 DEF RemoveFiles, DeletePoints
<1>9. ASSUME NEW c \in Compensators, FreeChunks(c)
      PROVE  UNCHANGED <<rows, files, points, lost, late, twice>>
  BY <1>9 DEF FreeChunks
<1>10. ASSUME NEW c \in Compensators, NEW o \in Ops, StartCompensation(c, o)
       PROVE  UNCHANGED <<rows, files, points, chunks, lost, late, twice>>
  BY <1>10 DEF StartCompensation
<1>11. CASE Environment
  BY <1>11 DEF Environment, LoseFence, Deactivate
<1>12. CASE UNCHANGED vars
  BY <1>12 DEF vars
<1>13. CASE \/ \E o \in Ops : \/ Begin(o) \/ Claim(o) \/ ClaimRefused(o) \/ Report(o)
                              \/ Complete(o) \/ Stop(o) \/ Enter(o)
            \/ \E o \in Chunkings : BuildChunks(o)
  BY <1>1, <1>2, <1>3, <1>13, Kinds
<1>14. CASE \/ \E o \in Processes : Write(o)
            \/ \E o \in Indexings : Store(o)
  BY <1>4, <1>5, <1>14, Kinds
<1>15. CASE \E c \in Compensators : \/ FailProcessing(c) \/ FailChunking(c) \/ Prepare(c)
                                    \/ PrepareNothing(c) \/ Wait(c) \/ Undo(c)
                                    \/ CompensatorFails(c) \/ FreeDocument(c) \/ FreeChunks(c)
  BY <1>6, <1>7, <1>8, <1>9, <1>15 DEF Wait, Undo
<1>16. CASE \E c \in Compensators : \E o \in Ops : StartCompensation(c, o)
  BY <1>10, <1>16
<1>. QED  BY <1>11, <1>12, <1>13, <1>14, <1>15, <1>16, Cases

\* What the Task Runtime learns of an operation.
Returning(c) ==
  \/ PrepareNothing(c) \/ VerifyRefused(c)
  \/ FailChunking(c) \/ FreeDocument(c) \/ FreeChunks(c)

TaskMove(o) ==
  \/ task'[o] = task[o]
  \/ Report(o)
  \/ task'[o] = "compensate"
  \/ task[o] /= "running" /\ task'[o] = "locked"
  \/ /\ task[o] /= "running" /\ task'[o] = "closed"
     /\ \E c \in Compensators : OpOf(c) = o /\ Returning(c)

LEMMA TaskMoves ==
  ASSUME TypeOK, [Next]_vars, NEW o \in Ops
  PROVE  TaskMove(o) /\ (task[o] /= "running" => task'[o] /= "running")
<1>. USE DEF TaskMove
<1>1. CASE task' = task
  BY <1>1
<1>2. ASSUME NEW p \in Ops, Report(p)
      PROVE  TaskMove(o) /\ (task[o] /= "running" => task'[o] /= "running")
  BY <1>2 DEF Report, Become, TypeOK
<1>3. ASSUME NEW p \in Ops, NEW c \in Compensators, StartCompensation(c, p)
      PROVE  TaskMove(o) /\ (task[o] /= "running" => task'[o] /= "running")
  BY <1>3, Started
<1>4. ASSUME NEW c \in Compensators, CompensatorFails(c) \/ CompensatorTimeout(c)
      PROVE  TaskMove(o) /\ (task[o] /= "running" => task'[o] /= "running")
  BY <1>4, GivenUp DEF CompensatorFails, CompensatorTimeout
<1>5. ASSUME NEW c \in Compensators, Returning(c)
      PROVE  TaskMove(o) /\ (task[o] /= "running" => task'[o] /= "running")
  <2>1. Return(c)
    BY <1>5 DEF Returning, PrepareNothing, VerifyRefused, FailChunking, FreeDocument, FreeChunks
  <2>. QED  BY <1>5, <2>1, Returned
<1>6. ASSUME NEW p \in Ops, \/ Begin(p) \/ Claim(p) \/ ClaimRefused(p) \/ Complete(p) \/ Stop(p)
                            \/ Enter(p) \/ Write(p) \/ BuildChunks(p) \/ Store(p)
      PROVE  task' = task
  BY <1>6 DEF runtime, Begin, Claim, ClaimRefused, Complete, CompleteProcessing,
     CompleteChunking, CompleteIndexing, Stop, CompleteRefused, Abort, Crash, Enter,
     EnterFence, FenceTimeout, AssertOwned, Write, WriteStaging, PromoteCleaned,
     PromoteSecondary, BuildChunks, Store, Upsert, UpsertFails
<1>7. ASSUME NEW c \in Compensators, \/ FailProcessing(c) \/ Prepare(c) \/ CompensatorEnters(c)
                                     \/ Verify(c) \/ Undo(c)
      PROVE  task' = task
  BY <1>7 DEF runtime, FailProcessing, Prepare, CompensatorEnters, Verify, Undo, RemoveFiles,
     DeletePoints
<1>8. CASE Environment \/ UNCHANGED vars
  BY <1>1, <1>8 DEF Environment, LoseFence, Deactivate, vars, runtime
<1>9. CASE \E c \in Compensators : \/ FailProcessing(c) \/ FailChunking(c) \/ Prepare(c)
                                   \/ PrepareNothing(c) \/ Wait(c) \/ Undo(c)
                                   \/ CompensatorFails(c) \/ FreeDocument(c) \/ FreeChunks(c)
  BY <1>1, <1>4, <1>5, <1>7, <1>9 DEF Wait, Returning
<1>. QED  BY <1>1, <1>2, <1>3, <1>6, <1>8, <1>9, Cases, Kinds

LEMMA CallStep ==
  ASSUME TypeOK, MarkedInv, OwnerInv, CallInv, [Next]_vars
  PROVE  CallInv'
<1>. SUFFICES ASSUME NEW c \in Compensators
              PROVE  /\ co'[c].at /= "idle" => /\ co'[c].op \in Ops /\ ex'[co'[c].op].at /= "new"
                                               /\ task'[co'[c].op] /= "running"
                     /\ co'[c].at \in {"fence", "verify", "undo", "free"} =>
                          co'[c].op \notin Chunkings
                     /\ co'[c].at = "verify" => co'[c].op \in Processes
                     /\ (\/ co'[c].at \in {"undo", "free"}
                         \/ co'[c].at = "fence" /\ co'[c].op \in Indexings)
                          => ex'[co'[c].op].at \notin {"new", "start"}
                             /\ ~(doc'.status = Working(co'[c].op) /\ doc'.op = co'[c].op)
                     /\ (co'[c].at \in {"fence", "verify"} /\ co'[c].op \notin late')
                          => ~(doc'.status = Working(co'[c].op) /\ doc'.op = co'[c].op)
  BY DEF CallInv, OpOf, Past, Claimed, Owns, At
<1>0. CoMove(c)
  BY CompensatorMoves
<1>1. CASE co'[c].at = "idle"
  BY <1>1
<1>2. CASE co'[c].at = "fail"
  <2>1. PICK o \in Ops : o = co'[c].op /\ ~At(o, "new") /\ task'[o] /= "running"
    <3>1. CASE Still(c)
      BY <1>2, <3>1, TaskMoves DEF Still, CallInv, OpOf
    <3>. QED  BY <1>0, <1>2, <3>1 DEF CoMove
  <2>2. ex'[o].at /= "new"
    BY <2>1, ExecutorMoves, ClaimMoves DEF ExMove, At
  <2>. QED  BY <1>2, <2>1, <2>2
<1>3. CASE co'[c].at \in {"fence", "verify", "undo", "free"}
  <2>1. PICK o \in Ops :
          /\ o = OpOf(c) /\ o = co'[c].op /\ co[c].at /= "idle" /\ ~At(o, "new")
          /\ task[o] /= "running"
    BY <1>0, <1>3, Kinds DEF CoMove, Still, CallInv, OpOf, FailProcessing, Prepare,
       CompensatorEnters, Verify, Undo, RemoveFiles, DeletePoints, Stands
  <2>2. o \notin Chunkings /\ (co'[c].at = "verify" => o \in Processes)
    BY <1>0, <1>3, <2>1, Kinds DEF CoMove, Still, CallInv, OpOf, FailProcessing, Prepare,
       CompensatorEnters, Verify, Undo, RemoveFiles, DeletePoints, Stands
  <2>3. ex'[o].at /= "new" /\ task'[o] /= "running"
    BY <2>1, ExecutorMoves, ClaimMoves, TaskMoves DEF ExMove, At
  <2>4. Working(o) /= "failed" /\ o /= NoOne /\ doc \in Document
    BY Kinds DEF TypeOK
  <2>5. ASSUME \/ co'[c].at \in {"undo", "free"}
               \/ co'[c].at = "fence" /\ o \in Indexings
        PROVE  Past(o)'
    <3>1. CASE Past(o)
      BY <3>1, PastStays
    <3>2. CASE ~Past(o)
      <4>1. Prepare(c) \/ Verify(c)
        BY <1>0, <1>3, <2>1, <2>5, <3>2, Kinds
        DEF CoMove, Still, CallInv, OpOf, FailProcessing, CompensatorEnters, Undo,
            RemoveFiles, DeletePoints, Stands
      <4>2. Claimed(o)'
        BY <2>1, <4>1, ClaimedStays, Kinds DEF Prepare, Verify, Verified, OwnerInv
      <4>3. ~Owns(o)'
        BY <2>1, <2>4, <4>1 DEF Prepare, Verify, Verified, SetDoc, Owns, Document
      <4>. QED  BY <4>2, <4>3 DEF Past
    <3>. QED  BY <3>1, <3>2
  <2>6. ASSUME co'[c].at \in {"fence", "verify"}, o \notin late'
        PROVE  ~Owns(o)'
    <3>1. CASE ~Owns(o)
      <4>1. ~Claim(o)
        BY <2>1, <2>6, ClaimMoves
      <4>2. ASSUME NEW p \in Ops, Claim(p)
            PROVE  ~Owns(o)'
        BY <2>4, <4>1, <4>2, ClaimMoves DEF Owns
      <4>. QED  BY <2>4, <3>1, <4>2, DocMoves DEF DocMove, Owns
    <3>2. CASE Owns(o)
      <4>1. o \notin late
        BY <2>6, WorldMoves, ClaimMoves
      <4>2. FailProcessing(c) \/ Prepare(c)
        BY <1>0, <1>3, <2>1, <2>6, <3>2, <4>1, Kinds
        DEF CoMove, Still, CallInv, OpOf, CompensatorEnters, Undo, Verify,
            RemoveFiles, DeletePoints, Stands
      <4>3. SetDoc("failed", doc.op)
        BY <2>1, <3>2, <4>2 DEF FailProcessing, Prepare
      <4>. QED  BY <2>4, <4>3 DEF SetDoc, Owns, Document
    <3>. QED  BY <3>1, <3>2
  <2>. QED  BY <1>3, <2>1, <2>2, <2>3, <2>5, <2>6 DEF Past, Claimed, Owns
<1>4. co'[c].at \in CompensatorSteps
  BY TypeStep DEF TypeOK, Compensator
<1>. QED  BY <1>1, <1>2, <1>3, <1>4 DEF CompensatorSteps

LEMMA PursuedStep ==
  ASSUME TypeOK, OwnerInv, CallInv, PursuedInv, [Next]_vars
  PROVE  PursuedInv'
<1>. SUFFICES ASSUME NEW o \in Ops, doc'.op = o, task'[o] = "closed", o \notin late'
              PROVE  FALSE
  BY DEF PursuedInv
<1>0. doc \in Document /\ o /= NoOne /\ o \notin late
  BY WorldMoves, ClaimMoves, Kinds DEF TypeOK
<1>1. ASSUME NEW p \in Ops, Claim(p)
      PROVE  FALSE
  BY <1>1, ClaimMoves
<1>2. doc'.op = doc.op
  BY <1>0, <1>1, DocMoves DEF DocMove
<1>3. task[o] /= "closed"
  BY <1>0, <1>2 DEF PursuedInv
<1>4. ~Report(o)
  BY <1>0, <1>2 DEF Report, OwnerInv
<1>5. PICK c \in Compensators : OpOf(c) = o /\ Returning(c)
  BY <1>3, <1>4, TaskMoves DEF TaskMove
<1>6. doc.op = o /\ doc.status \in {Working(o), "failed"} /\ (o \in Chunkings => doc.status /= "failed")
  BY <1>0, <1>2, Kinds DEF OwnerInv
<1>7. CASE PrepareNothing(c)
  BY <1>5, <1>6, <1>7, Kinds DEF PrepareNothing, Working
<1>8. CASE VerifyRefused(c)
  BY <1>0, <1>5, <1>6, <1>8 DEF VerifyRefused, Verified, CallInv, Owns, Stands
<1>9. CASE FailChunking(c)
  BY <1>0, <1>2, <1>5, <1>6, <1>9 DEF FailChunking, SetDoc, Owns, Document
<1>10. CASE FreeDocument(c)
  BY <1>0, <1>2, <1>5, <1>6, <1>10 DEF FreeDocument, SetDoc, Document
<1>11. CASE FreeChunks(c)
  <2>1. Verified(c)
    BY <1>5, <1>6, <1>11 DEF FreeChunks, Verified, CallInv, Past, Owns, Stands
  <2>. QED  BY <1>0, <1>2, <1>6, <1>11, <2>1 DEF FreeChunks, SetDoc, Document
<1>. QED  BY <1>5, <1>7, <1>8, <1>9, <1>10, <1>11 DEF Returning

-----------------------------------------------------------------------------
(* Files and artifact rows.                                                *)

\* Only the files of an operation under compensation are removed, but for the
\* staging of the process itself.
LEMMA FilesStay ==
  ASSUME TypeOK, [Next]_vars, NEW f \in files, f \notin files'
  PROVE  \/ \E c \in Compensators : RemoveFiles(c) /\ f[1] = OpOf(c)
         \/ \E o \in Processes : PromoteSecondary(o) /\ f = <<o, "staging">>
  BY WorldMoves DEF Write, WriteStaging, PromoteCleaned, PromoteSecondary, RemoveFiles

LEMMA ArtifactStep ==
  ASSUME TypeOK, CallInv, ArtifactInv, [Next]_vars
  PROVE  ArtifactInv'
<1>0. /\ doc \in Document /\ rows \subseteq Processes /\ rows' \subseteq Processes
      /\ ex \in [Ops -> Executor] /\ co \in [Compensators -> Compensator]
  <2>1. ASSUME NEW o \in Processes, CompleteProcessing(o)
        PROVE  rows' \subseteq Processes
    BY <2>1 DEF CompleteProcessing, Persisted, TypeOK
  <2>. QED  BY <2>1, WorldMoves DEF TypeOK
<1>1. ASSUME NEW o \in rows', o \notin rows
      PROVE  CompleteProcessing(o) /\ Owns(o) /\ At(o, "finalize") /\ o \in Ops
  <2>1. PICK p \in Processes : CompleteProcessing(p)
    BY <1>1, WorldMoves
  <2>2. o = p
    BY <1>1, <2>1 DEF CompleteProcessing, Persisted
  <2>. QED  BY <2>1, <2>2, Kinds DEF CompleteProcessing, MayComplete
<1>2. ASSUME NEW o \in rows'
      PROVE  /\ Claimed(o)' /\ doc'.op /= o
             /\ {<<o, "cleaned">>, <<o, "secondary">>} \subseteq files'
  <2>1. CASE o \notin rows
    <3>1. doc'.op = NoOne /\ o /= NoOne /\ files' = files
      BY <1>0, <1>1, <1>2, <2>1, Kinds DEF CompleteProcessing, Document
    <3>2. Claimed(o)'
      BY <1>1, <1>2, <2>1, ClaimedStays DEF Claimed, At
    <3>3. {<<o, "cleaned">>, <<o, "secondary">>} \subseteq files
      BY <1>0, <1>1, <1>2, <2>1 DEF ArtifactInv
    <3>. QED  BY <3>1, <3>2, <3>3
  <2>2. CASE o \in rows
    <3>0. o \in Ops /\ Claimed(o) /\ doc.op /= o /\ o /= NoOne
      BY <1>0, <2>2, Kinds DEF ArtifactInv
    <3>1. Claimed(o)'
      BY <3>0, ClaimedStays
    <3>2. ASSUME NEW p \in Ops, Claim(p)
          PROVE  doc'.op /= o
      BY <3>0, <3>2, ClaimMoves DEF Claimed, At
    <3>3. doc'.op /= o
      BY <3>0, <3>2, DocMoves DEF DocMove
    <3>4. ASSUME NEW c \in Compensators, RemoveFiles(c)
          PROVE  OpOf(c) /= o
      BY <2>2, <3>4 DEF RemoveFiles, Stands, ArtifactInv
    <3>5. ASSUME NEW a \in {"cleaned", "secondary"}
          PROVE  <<o, a>> \in files'
      <4>1. <<o, a>> \in files
        BY <2>2 DEF ArtifactInv
      <4>. QED  BY <3>4, <4>1, FilesStay
    <3>. QED  BY <3>1, <3>3, <3>5
  <2>. QED  BY <2>1, <2>2
<1>3. ASSUME NEW o \in Processes, Owns(o)'
      PROVE  /\ ex'[o].at = "tidy" => <<o, "cleaned">> \in files'
             /\ ex'[o].at = "finalize" =>
                  {<<o, "cleaned">>, <<o, "secondary">>} \subseteq files'
  <2>0. o \in Ops /\ o \notin Chunkings /\ o \notin Indexings /\ ~Past(o)
    BY <1>3, PastStays, Kinds DEF Past
  <2>1. ASSUME NEW a \in {"cleaned", "secondary"}, <<o, a>> \in files
        PROVE  <<o, a>> \in files'
    <3>1. ASSUME NEW c \in Compensators, RemoveFiles(c)
          PROVE  OpOf(c) /= o
      BY <2>0, <3>1 DEF RemoveFiles, Stands, CallInv
    <3>. QED  BY <2>1, <3>1, FilesStay
  <2>2. CASE ex'[o].at = "tidy"
    <3>1. PromoteCleaned(o) \/ ex[o].at = "tidy"
      BY <2>0, <2>2, ExecutorMoves, ClaimMoves DEF ExMove
    <3>2. CASE PromoteCleaned(o)
      BY <2>2, <3>2 DEF PromoteCleaned
    <3>3. CASE ex[o].at = "tidy"
      BY <2>0, <2>1, <2>2, <3>3 DEF ArtifactInv, Past, Claimed, At
    <3>. QED  BY <3>1, <3>2, <3>3
  <2>3. CASE ex'[o].at = "finalize"
    <3>1. PromoteSecondary(o) \/ ex[o].at = "finalize"
      BY <2>0, <2>3, ExecutorMoves, ClaimMoves DEF ExMove
    <3>2. CASE PromoteSecondary(o)
      <4>1. <<o, "cleaned">> \in files
        BY <2>0, <3>2 DEF PromoteSecondary, ArtifactInv, Past, Claimed, At
      <4>. QED  BY <2>3, <3>2, <4>1 DEF PromoteSecondary
    <3>3. CASE ex[o].at = "finalize"
      BY <2>0, <2>1, <2>3, <3>3 DEF ArtifactInv, Past, Claimed, At
    <3>. QED  BY <3>1, <3>2, <3>3
  <2>. QED  BY <2>2, <2>3
<1>4. ASSUME NEW c \in Compensators, co'[c].at \in {"undo", "free"}
      PROVE  co'[c].op \notin rows'
  <2>1. /\ co'[c].op \notin rows
        /\ co'[c].op \notin Processes \/ ~Owns(co'[c].op)
    <3>0. CoMove(c)
      BY CompensatorMoves
    <3>1. CASE co[c].at \in {"undo", "free"} /\ co'[c].op = OpOf(c)
      BY <3>1 DEF ArtifactInv, CallInv, Past
    <3>2. CASE CompensatorEnters(c) /\ co'[c].op = OpOf(c)
      BY <1>0, <1>4, <3>0, <3>2
      DEF CoMove, Still, CompensatorEnters, Stands, FailProcessing, Prepare, Verify, Undo,
          RemoveFiles, DeletePoints
    <3>3. CASE Verify(c) /\ co'[c].op = OpOf(c)
      <4>1. OpOf(c) \in Processes /\ doc.op = OpOf(c) /\ doc.status = "failed"
        BY <3>3 DEF Verify, Verified, Stands, CallInv
      <4>. QED  BY <3>3, <4>1, Kinds DEF ArtifactInv, Owns
    <3>. QED
      BY <1>4, <3>0, <3>1, <3>2, <3>3
      DEF CoMove, Still, Undo, RemoveFiles, DeletePoints, Stands, OpOf
  <2>. QED  BY <1>0, <1>1, <2>1
<1>. QED  BY <1>2, <1>3, <1>4 DEF ArtifactInv, At, OpOf

-----------------------------------------------------------------------------
(* Chunk rows.                                                             *)

LEMMA ChunkInvStep ==
  ASSUME TypeOK, OwnerInv, CallInv, ChunkInv, [Next]_vars
  PROVE  ChunkInv'
<1>0. /\ doc \in Document /\ chunks \in ChunkRows
      /\ ex \in [Ops -> Executor] /\ co \in [Compensators -> Compensator]
  BY DEF TypeOK
<1>. DEFINE One(d, k, e) == d.op \in Indexings => k = [by |-> e[d.op].of, vector |-> "indexing"]
            Two(d, k) == k.vector = "indexing" => d.op \in Indexings
            Three(d, k) == k.vector = "indexed" <=> d.status = "indexed"
<1>1. One(doc, chunks, ex) /\ Two(doc, chunks) /\ Three(doc, chunks)
  BY DEF ChunkInv
<1>2. ASSUME NEW o \in Ops, Claim(o)
      PROVE  One(doc', chunks', ex') /\ Two(doc', chunks') /\ Three(doc', chunks')
  <2>1. /\ doc.op = NoOne /\ doc'.op = o /\ doc'.status = Working(o) /\ doc.status /= "indexed"
        /\ o \notin Indexings => chunks' = chunks
        /\ o \in Indexings => chunks' = [by |-> chunks.by, vector |-> "indexing"]
                              /\ ex'[o].of = chunks.by
    BY <1>2, ClaimMoves
  <2>2. Working(o) /= "indexed" /\ NoOne \notin Indexings
    BY Kinds
  <2>. QED  BY <1>1, <2>1, <2>2
<1>3. ASSUME NEW o \in Ops, Complete(o)
      PROVE  One(doc', chunks', ex') /\ Two(doc', chunks') /\ Three(doc', chunks')
  <2>1. Owns(o) /\ doc'.op = NoOne /\ NoOne \notin Indexings /\ Working(o) /= "indexed"
    BY <1>0, <1>3, Kinds DEF Complete, CompleteProcessing, CompleteChunking, CompleteIndexing,
       MayComplete, SetDoc, Document
  <2>2. CASE o \in Indexings /\ CompleteIndexing(o)
    BY <1>0, <2>1, <2>2, Marks DEF CompleteIndexing, SetDoc, Document
  <2>3. CASE o \in Chunkings /\ CompleteChunking(o)
    BY <1>0, <2>1, <2>3 DEF CompleteChunking, SetDoc, Document, Built
  <2>4. CASE o \in Processes /\ CompleteProcessing(o)
    BY <1>0, <1>1, <2>1, <2>4, Kinds DEF CompleteProcessing, Document, Owns
  <2>. QED  BY <1>3, <2>2, <2>3, <2>4 DEF Complete
<1>4. ASSUME NEW c \in Compensators, FreeChunks(c)
      PROVE  One(doc', chunks', ex') /\ Two(doc', chunks') /\ Three(doc', chunks')
  <2>1. CASE Verified(c)
    <3>1. OpOf(c) \in Indexings /\ doc.op = OpOf(c) /\ doc.status = "failed"
      BY <1>4, <2>1 DEF FreeChunks, Verified
    <3>2. chunks.by = co[c].of
      BY <1>1, <1>4, <3>1 DEF ChunkInv, FreeChunks, Stands
    <3>3. doc'.op = NoOne /\ doc'.status = "failed" /\ chunks'.vector = "failed"
      BY <1>0, <1>4, <2>1, <3>2, Marks DEF FreeChunks, SetDoc, Document
    <3>. QED  BY <3>3, Kinds
  <2>2. CASE ~Verified(c)
    <3>1. UNCHANGED <<doc, chunks, ex>>
      BY <1>4, <2>2 DEF FreeChunks
    <3>. QED  BY <1>1, <3>1
  <2>. QED  BY <2>1, <2>2
<1>5. ASSUME ~(\E o \in Ops : Claim(o) \/ Complete(o)), ~(\E c \in Compensators : FreeChunks(c))
      PROVE  One(doc', chunks', ex') /\ Two(doc', chunks') /\ Three(doc', chunks')
  <2>1. chunks' = chunks
    BY <1>5, WorldMoves, Kinds DEF Complete
  <2>2. \/ doc'.op = doc.op /\ doc'.status = doc.status
        \/ doc'.op = doc.op /\ doc'.status = "failed" /\ doc.status /= "indexed"
        \/ doc'.op = NoOne /\ doc'.status /= "indexed" /\ doc.status /= "indexed"
             /\ doc.op \notin Indexings
    <3>1. ASSUME NEW c \in Compensators, doc.op = OpOf(c), OpOf(c) \in Processes
          PROVE  doc.status /= "indexed" /\ doc.op \notin Indexings
      BY <3>1, Kinds DEF OwnerInv
    <3>. QED  BY <1>5, <3>1, DocMoves, Kinds DEF DocMove, Owns
  <2>3. doc.op \in Indexings => ex'[doc.op].of = ex[doc.op].of
    BY ClaimedStays, Kinds DEF OwnerInv
  <2>. QED  BY <1>1, <2>1, <2>2, <2>3, Kinds
<1>6. ASSUME NEW c \in Compensators, co'[c].at \in {"fence", "undo", "free"},
             co'[c].op \in Indexings
      PROVE  co'[c].of = ex'[co'[c].op].of
  <2>0. CoMove(c)
    BY CompensatorMoves
  <2>1. PICK o \in Indexings : o = co'[c].op
    BY <1>6
  <2>2. o = OpOf(c) /\ co[c].at /= "idle" /\ Claimed(o) /\ co'[c].of = ex[o].of
    <3>1. CASE Still(c)
      BY <1>6, <2>1, <3>1 DEF Still, ChunkInv, CallInv, Past, OpOf
    <3>2. CASE Prepare(c)
      <4>1. doc.op = o /\ o = OpOf(c)
        BY <1>6, <2>0, <2>1, <3>2
        DEF CoMove, Still, Prepare, FailProcessing, CompensatorEnters, Verify, Undo,
            RemoveFiles, DeletePoints, Stands, OpOf
      <4>2. chunks.vector = "indexing" /\ chunks.by = ex[o].of
        BY <1>1, <2>1, <4>1
      <4>3. Claimed(o)
        BY <2>1, <4>1, Kinds DEF OwnerInv
      <4>4. co[c].at = "fail"
        BY <3>2 DEF Prepare, Stands
      <4>. QED
        BY <1>6, <2>0, <2>1, <3>2, <4>1, <4>2, <4>3, <4>4, Kinds
        DEF CoMove, Still, OpOf, FailProcessing, CompensatorEnters, Verify, Undo, RemoveFiles,
            DeletePoints, Stands
    <3>3. CASE CompensatorEnters(c) \/ Undo(c)
      <4>1. co[c].at \in {"fence", "undo"} /\ o = OpOf(c) /\ co'[c].of = co[c].of
        BY <1>6, <2>0, <2>1, <3>3
        DEF CoMove, Still, CompensatorEnters, Prepare, FailProcessing, Verify, Undo,
            RemoveFiles, DeletePoints, Stands, OpOf
      <4>. QED  BY <2>1, <4>1 DEF ChunkInv, CallInv, Past
    <3>4. CASE FailProcessing(c) \/ Verify(c)
      BY <1>6, <2>0, <2>1, <3>4, Kinds
      DEF CoMove, Still, CompensatorEnters, Prepare, FailProcessing, Verify, Undo,
          RemoveFiles, DeletePoints, Stands, OpOf, CallInv
    <3>. QED  BY <1>6, <2>0, <3>1, <3>2, <3>3, <3>4 DEF CoMove, Still
  <2>. QED  BY <2>1, <2>2, ClaimedStays, Kinds
<1>7. One(doc', chunks', ex') /\ Two(doc', chunks') /\ Three(doc', chunks')
  <2>. HIDE DEF One, Two, Three
  <2>. QED  BY <1>2, <1>3, <1>4, <1>5
<1>. QED  BY <1>6, <1>7 DEF ChunkInv, OpOf

-----------------------------------------------------------------------------
(* What the fences are for.                                                *)

\* A fence is left by its holder, or lost with its connection.
LEMMA FenceMoves ==
  ASSUME TypeOK, [Next]_vars, NEW f \in Fences, fence[f] /= NoOne
  PROVE  \/ fence'[f] = fence[f]
         \/ \E g \in Fences : LoseFence(g)
         \/ \E o \in Ops : fence[f] = o /\ ex'[o].at \in {"failed", "dead", "finalize", "fence"}
         \/ \E c \in Compensators : fence[f] = c /\ co'[c].at = "idle"
<1>1. ASSUME NEW p, Release(p)
      PROVE  fence'[f] = fence[f] \/ fence[f] = p
  BY <1>1, FenceFreed
<1>2. ASSUME NEW o \in Ops, Stop(o) \/ Enter(o)
      PROVE  fence'[f] = fence[f] \/ (fence[f] = o /\ ex'[o].at \in {"failed", "dead"})
  <2>1. CASE Stop(o)
    BY <1>1, <2>1, Gone DEF Stop, CompleteRefused, Abort, Crash, ExecutorSteps
  <2>2. CASE EnterFence(o)
    BY <2>2, Kinds DEF EnterFence, TypeOK
  <2>3. CASE FenceTimeout(o) \/ AssertOwned(o)
    BY <1>1, <2>3, Gone DEF FenceTimeout, AssertOwned, ExecutorSteps
  <2>. QED  BY <1>2, <2>1, <2>2, <2>3 DEF Enter
<1>3. ASSUME NEW o \in Processes, Write(o)
      PROVE  fence'[f] = fence[f] \/ (fence[f] = o /\ ex'[o].at = "finalize")
  BY <1>1, <1>3, Gone, Kinds
  DEF Write, WriteStaging, PromoteCleaned, PromoteSecondary, ExecutorSteps
<1>4. ASSUME NEW o \in Indexings, Store(o)
      PROVE  fence'[f] = fence[f]
             \/ (fence[f] = o /\ ex'[o].at \in {"failed", "finalize", "fence"})
  <2>1. o \in Ops /\ Release(o) /\ At(o, "work")
    BY <1>4, Kinds DEF Store, Upsert, UpsertFails
  <2>2. ex'[o].at \in {"failed", "finalize", "fence"}
    <3>1. CASE Upsert(o) /\ ex[o].batch < Batches
      BY <2>1, <3>1 DEF Upsert, TypeOK, Executor
    <3>2. CASE Upsert(o) /\ ~(ex[o].batch < Batches)
      BY <2>1, <3>2, Gone DEF Upsert, ExecutorSteps
    <3>3. CASE UpsertFails(o)
      BY <2>1, <3>3, Gone DEF UpsertFails, ExecutorSteps
    <3>. QED  BY <1>4, <3>1, <3>2, <3>3 DEF Store
  <2>. QED  BY <1>1, <2>1, <2>2
<1>5. ASSUME NEW c \in Compensators,
             Return(c) \/ (Release(c) /\ co' = [co EXCEPT ![c] = IdleCompensator])
      PROVE  fence'[f] = fence[f] \/ (fence[f] = c /\ co'[c].at = "idle")
  BY <1>1, <1>5, Returned, Rested
<1>6. ASSUME NEW c \in Compensators,
             \/ FailProcessing(c) \/ FailChunking(c) \/ Prepare(c) \/ PrepareNothing(c)
             \/ Wait(c) \/ Undo(c) \/ CompensatorFails(c) \/ FreeDocument(c) \/ FreeChunks(c)
      PROVE  fence'[f] = fence[f] \/ (fence[f] = c /\ co'[c].at = "idle")
  <2>1. CASE FailProcessing(c) \/ Prepare(c) \/ Undo(c)
    BY <2>1 DEF FailProcessing, Prepare, Undo, RemoveFiles, DeletePoints
  <2>2. CASE \/ FailChunking(c) \/ PrepareNothing(c) \/ CompensatorFails(c)
             \/ FreeDocument(c) \/ FreeChunks(c)
    BY <1>5, <2>2 DEF FailChunking, PrepareNothing, CompensatorFails, FreeDocument, FreeChunks
  <2>3. CASE Wait(c)
    BY <1>5, <2>3 DEF Wait, CompensatorEnters, CompensatorTimeout, Verify, VerifyRefused, TypeOK
  <2>. QED  BY <1>6, <2>1, <2>2, <2>3
<1>7. ASSUME NEW o \in Ops, \/ Begin(o) \/ Claim(o) \/ ClaimRefused(o) \/ Report(o)
                            \/ Complete(o) \/ BuildChunks(o)
      PROVE  fence' = fence
  BY <1>7 DEF Begin, Claim, ClaimRefused, Report, Complete, CompleteProcessing,
     CompleteChunking, CompleteIndexing, BuildChunks
<1>8. ASSUME NEW c \in Compensators, NEW o \in Ops, StartCompensation(c, o)
      PROVE  fence' = fence
  BY <1>8 DEF StartCompensation
<1>9. CASE Environment \/ UNCHANGED vars
  BY <1>9 DEF Environment, Deactivate, vars
<1>. QED  BY <1>2, <1>3, <1>4, <1>6, <1>7, <1>8, <1>9, Cases, Kinds

\* No lock is lost by a step after which none is lost.
LEMMA NoLoss ==
  ASSUME TypeOK, [Next]_vars, lost' = 0
  PROVE  lost = 0 /\ ~(\E f \in Fences : LoseFence(f))
  BY WorldMoves, BoundsAssumption DEF LoseFence, TypeOK

LEMMA FenceStep ==
  ASSUME TypeOK, FenceInv, [Next]_vars
  PROVE  FenceInv'
<1>. SUFFICES ASSUME lost' = 0
              PROVE  /\ \A o \in Ops :
                          (o \notin Chunkings /\ ex'[o].at \in {"check", "work", "promote", "tidy"})
                            => /\ fence'[FenceOf(o)] = o
                               /\ ex'[o].at /= "check" => doc'.op = o
                     /\ \A c \in Compensators :
                          co'[c].at \in {"verify", "undo", "free"}
                            => fence'[FenceOf(co'[c].op)] = c
  BY DEF FenceInv, Fenced, At, OpOf, FenceOf
<1>0. /\ lost = 0 /\ ~(\E f \in Fences : LoseFence(f))
      /\ fence \in [Fences -> Ops \cup Compensators \cup {NoOne}]
  BY NoLoss DEF TypeOK
<1>1. ASSUME NEW o \in Ops, o \notin Chunkings,
             ex'[o].at \in {"check", "work", "promote", "tidy"}
      PROVE  /\ fence'[FenceOf(o)] = o
             /\ ex'[o].at /= "check" => doc'.op = o
  <2>0. ExMove(o) /\ FenceOf(o) \in Fences /\ o /= NoOne
    BY ExecutorMoves, Kinds
  <2>1. CASE EnterFence(o) /\ ex'[o].at = "check"
    BY <1>0, <2>0, <2>1 DEF EnterFence
  <2>2. CASE Fenced(o) /\ (ex'[o].at /= "check" => ~At(o, "check") \/ (AssertOwned(o) /\ StillOwned(o)))
    <3>1. fence[FenceOf(o)] = o
      BY <1>0, <2>2 DEF FenceInv
    <3>2. fence'[FenceOf(o)] = o
      BY <1>0, <1>1, <2>0, <3>1, FenceMoves, Kinds
    <3>3. ASSUME AssertOwned(o), StillOwned(o)
          PROVE  doc'.op = o
      BY <3>3 DEF AssertOwned, StillOwned, StillProcessing, StillIndexing, Owns
    <3>4. ASSUME ~At(o, "check")
          PROVE  doc'.op = o
      <4>1. doc.op = o
        BY <1>0, <2>2, <3>4 DEF FenceInv
      <4>2. ASSUME NEW p \in Ops, Claim(p)
            PROVE  FALSE
        BY <2>0, <4>1, <4>2, ClaimMoves
      <4>3. ASSUME NEW p \in Ops, At(p, "finalize"), MayComplete(p)
            PROVE  FALSE
        BY <2>2, <4>1, <4>3 DEF MayComplete, Owns, Fenced, At
      <4>4. ASSUME NEW c \in Compensators, Stands(c, "free"), doc.op = OpOf(c)
            PROVE  FALSE
        BY <1>0, <3>1, <4>1, <4>4, Kinds DEF FenceInv, Stands
      <4>5. ASSUME NEW c \in Compensators, OpOf(c) \in Chunkings, Owns(OpOf(c))
            PROVE  FALSE
        BY <1>1, <4>1, <4>5 DEF Owns
      <4>. QED  BY <4>1, <4>2, <4>3, <4>4, <4>5, DocMoves DEF DocMove
    <3>. QED  BY <2>2, <3>2, <3>3, <3>4
  <2>3. CASE ex'[o] = ex[o]
    BY <1>1, <2>2, <2>3 DEF Fenced, At
  <2>4. CASE \/ AssertOwned(o) /\ StillOwned(o)
             \/ WriteStaging(o) \/ PromoteCleaned(o)
    BY <1>1, <2>2, <2>4 DEF Fenced, At, AssertOwned, WriteStaging, PromoteCleaned
  <2>. QED  BY <1>1, <2>0, <2>1, <2>3, <2>4, ClaimMoves DEF ExMove
<1>2. ASSUME NEW c \in Compensators, co'[c].at \in {"verify", "undo", "free"}
      PROVE  fence'[FenceOf(co'[c].op)] = c
  <2>0. CoMove(c) /\ \A f \in {"process", "index"} : f \in Fences
    BY CompensatorMoves DEF Fences
  <2>1. CASE CompensatorEnters(c) /\ co'[c].op = OpOf(c)
    BY <1>0, <2>0, <2>1 DEF CompensatorEnters, FenceOf
  <2>2. CASE co[c].at \in {"verify", "undo", "free"} /\ co'[c].op = OpOf(c)
    <3>1. fence[FenceOf(OpOf(c))] = c
      BY <1>0, <2>2 DEF FenceInv
    <3>. QED  BY <1>0, <1>2, <2>0, <2>2, <3>1, FenceMoves, Kinds DEF FenceOf
  <2>. QED
    BY <1>2, <2>0, <2>1, <2>2
    DEF CoMove, Still, Verify, Undo, RemoveFiles, DeletePoints, Stands, OpOf
<1>. QED  BY <1>1, <1>2

LEMMA UndoneStep ==
  ASSUME TypeOK, CallInv, FenceInv, UndoneInv, [Next]_vars
  PROVE  UndoneInv'
<1>. SUFFICES ASSUME lost' = 0, NEW c \in Compensators, co'[c].at = "free"
              PROVE  /\ co'[c].op \in Processes => \A f \in files' : f[1] /= co'[c].op
                     /\ co'[c].op \in Indexings => \A p \in points' : p[1] /= co'[c].of
  BY DEF UndoneInv, OpOf
<1>0. /\ lost = 0 /\ CoMove(c)
      /\ \A f \in files : f \in Directories
      /\ \A p \in points : p \in Points
  BY NoLoss, CompensatorMoves DEF TypeOK
<1>1. CASE Undo(c) /\ co'[c].op = OpOf(c) /\ co'[c].of = co[c].of
  BY <1>0, <1>1, Kinds DEF Undo, RemoveFiles, DeletePoints
<1>2. CASE co[c].at = "free" /\ co'[c].op = OpOf(c) /\ co'[c].of = co[c].of
  <2>1. PICK o \in Ops : o = OpOf(c) /\ fence[FenceOf(o)] = c
    BY <1>0, <1>2 DEF CallInv, FenceInv
  <2>2. ASSUME o \in Processes, NEW f \in files', f[1] = o
        PROVE  FALSE
    <3>1. f \notin files
      BY <1>0, <1>2, <2>1, <2>2 DEF UndoneInv
    <3>2. PICK p \in Processes : Write(p) /\ f[1] = p
      BY <2>2, <3>1, WorldMoves
      DEF RemoveFiles, Write, WriteStaging, PromoteCleaned, PromoteSecondary
    <3>3. fence[FenceOf(p)] = p
      BY <1>0, <3>2, Kinds
      DEF Write, WriteStaging, PromoteCleaned, PromoteSecondary, FenceInv, Fenced, At
    <3>. QED  BY <2>1, <2>2, <3>2, <3>3, Kinds
  <2>3. ASSUME o \in Indexings, NEW p \in points', p[1] = co[c].of
        PROVE  FALSE
    <3>1. p \notin points
      BY <1>0, <1>2, <2>1, <2>3 DEF UndoneInv
    <3>2. PICK i \in Indexings : Store(i)
      BY <2>3, <3>1, WorldMoves DEF DeletePoints
    <3>3. fence[FenceOf(i)] = i
      BY <1>0, <3>2, Kinds DEF Store, Upsert, UpsertFails, FenceInv, Fenced, At
    <3>. QED  BY <2>1, <2>3, <3>2, <3>3, Kinds DEF FenceOf
  <2>. QED  BY <1>2, <2>1, <2>2, <2>3 DEF OpOf
<1>. QED  BY <1>0, <1>1, <1>2 DEF CoMove, Still

LEMMA EffectsStep ==
  ASSUME TypeOK, CallInv, ChunkInv, FenceInv, UndoneInv, EffectsHaveOwner, [Next]_vars
  PROVE  EffectsHaveOwner'
<1>. SUFFICES ASSUME lost' = 0
              PROVE  /\ \A f \in files' : f[1] \in rows' \/ doc'.op = f[1]
                     /\ \A p \in points' : /\ p[1] = chunks'.by
                                           /\ chunks'.vector \in {"indexing", "indexed"}
  BY DEF EffectsHaveOwner
<1>0. /\ lost = 0 /\ doc \in Document /\ chunks \in ChunkRows
      /\ \A f \in files : f \in Directories
  BY NoLoss DEF TypeOK
<1>1. \A o \in rows : o \in rows'
  BY WorldMoves DEF CompleteProcessing, Persisted
<1>2. ASSUME NEW f \in files', f \notin files
      PROVE  doc'.op = f[1]
  <2>1. PICK o \in Processes : Write(o) /\ f[1] = o
    BY <1>2, WorldMoves
    DEF RemoveFiles, Write, WriteStaging, PromoteCleaned, PromoteSecondary
  <2>2. doc.op = o /\ doc' = doc
    BY <1>0, <2>1, Kinds
    DEF Write, WriteStaging, PromoteCleaned, PromoteSecondary, FenceInv, Fenced, At
  <2>. QED  BY <2>1, <2>2
<1>3. ASSUME NEW f \in files', f \in files
      PROVE  f[1] \in rows' \/ doc'.op = f[1]
  <2>1. CASE f[1] \in rows
    BY <1>1, <2>1
  <2>2. CASE doc.op = f[1]
    <3>1. PICK o \in Processes : o = f[1] /\ doc.op = o
      BY <1>0, <1>3, <2>2 DEF Directories
    <3>2. ASSUME NEW p \in Ops, Claim(p)
          PROVE  FALSE
      BY <3>1, <3>2, ClaimMoves, Kinds
    <3>3. ASSUME NEW p \in Ops, Complete(p), MayComplete(p)
          PROVE  o \in rows'
      BY <3>1, <3>3, Kinds DEF MayComplete, Owns, Complete, CompleteProcessing, Persisted
    <3>4. ASSUME NEW c \in Compensators, Stands(c, "free"), doc.op = OpOf(c)
          PROVE  FALSE
      BY <1>0, <1>3, <3>1, <3>4 DEF UndoneInv, Stands
    <3>5. ASSUME NEW c \in Compensators, OpOf(c) \in Chunkings, Owns(OpOf(c))
          PROVE  FALSE
      BY <3>1, <3>5, Kinds DEF Owns
    <3>. QED  BY <3>1, <3>2, <3>3, <3>4, <3>5, DocMoves DEF DocMove
  <2>. QED  BY <1>0, <1>3, <2>1, <2>2 DEF EffectsHaveOwner
<1>4. ASSUME NEW p \in points', p \notin points
      PROVE  p[1] = chunks'.by /\ chunks'.vector \in {"indexing", "indexed"}
  <2>1. PICK i \in Indexings : Store(i)
    BY <1>4, WorldMoves DEF DeletePoints
  <2>2. p = Batch(i) /\ chunks' = chunks
    BY <1>4, <2>1 DEF Store, Upsert, UpsertFails
  <2>3. doc.op = i
    BY <1>0, <2>1, Kinds DEF Store, Upsert, UpsertFails, FenceInv, Fenced, At
  <2>. QED  BY <2>2, <2>3 DEF ChunkInv, Batch
<1>5. ASSUME NEW p \in points', p \in points
      PROVE  p[1] = chunks'.by /\ chunks'.vector \in {"indexing", "indexed"}
  <2>1. p[1] = chunks.by /\ chunks.vector \in {"indexing", "indexed"}
    BY <1>0, <1>5 DEF EffectsHaveOwner
  <2>2. CASE chunks' = chunks
    BY <2>1, <2>2
  <2>3. ASSUME NEW o \in Indexings, Claim(o)
        PROVE  FALSE
    BY <2>1, <2>3, ClaimMoves, Kinds
  <2>4. ASSUME NEW o \in Indexings, CompleteIndexing(o)
        PROVE  p[1] = chunks'.by /\ chunks'.vector \in {"indexing", "indexed"}
    BY <2>1, <2>4, Marks DEF CompleteIndexing
  <2>5. ASSUME NEW o \in Chunkings, CompleteChunking(o)
        PROVE  FALSE
    <3>1. doc.op = o /\ doc.status = "chunking"
      BY <2>5, Kinds DEF CompleteChunking, MayComplete, Owns, Working
    <3>. QED  BY <2>1, <2>5, <3>1, Kinds DEF ChunkInv
  <2>6. ASSUME NEW c \in Compensators, FreeChunks(c), Verified(c)
        PROVE  FALSE
    <3>1. OpOf(c) \in Indexings /\ doc.op = OpOf(c) /\ co[c].at = "free"
      BY <2>6 DEF FreeChunks, Verified, Stands
    <3>2. chunks.by = co[c].of
      BY <3>1 DEF ChunkInv
    <3>. QED  BY <1>0, <1>5, <2>1, <3>1, <3>2 DEF UndoneInv
  <2>7. ASSUME NEW c \in Compensators, FreeChunks(c), ~Verified(c)
        PROVE  chunks' = chunks
    BY <2>7 DEF FreeChunks
  <2>. QED  BY <2>2, <2>3, <2>4, <2>5, <2>6, <2>7, WorldMoves
<1>. QED  BY <1>2, <1>3, <1>4, <1>5

-----------------------------------------------------------------------------
(* What an indexed document needs.                                         *)

\* What two calls may spoil stays so.
LEMMA SpoiltStays ==
  ASSUME TypeOK, OverlapInv, [Next]_vars, NEW i \in twice
  PROVE  i \in twice' /\ i \in Ops /\ Claimed(i)' /\ ex'[i].of = ex[i].of
<1>1. i \in Ops /\ Claimed(i)
  BY Kinds DEF OverlapInv, TypeOK
<1>2. i \in twice'
  BY WorldMoves DEF Prepare, Overlaps
<1>. QED  BY <1>1, <1>2, ClaimedStays

\* A vector is only deleted by a compensator of an indexing behind its fence.
LEMMA PointsStay ==
  ASSUME TypeOK, ChunkInv, [Next]_vars, NEW k, NEW n, Vectors(k, n) \subseteq points,
         ~Spoilt(k), \A c \in Compensators : DeletePoints(c) => OpOf(c) \in twice
  PROVE  Vectors(k, n) \subseteq points'
<1>1. ASSUME NEW c \in Compensators, DeletePoints(c)
      PROVE  Vectors(k, n) \subseteq points'
  <2>1. OpOf(c) \in twice /\ OpOf(c) \in Indexings /\ co[c].at = "undo"
    BY <1>1 DEF DeletePoints, Stands
  <2>2. co[c].of /= k
    BY <2>1 DEF ChunkInv, Spoilt
  <2>3. \A p \in Vectors(k, n) : p[1] = k
    BY DEF Vectors
  <2>. QED  BY <1>1, <2>2, <2>3 DEF DeletePoints
<1>. QED  BY <1>1, WorldMoves DEF Store, Upsert, UpsertFails

LEMMA OverlapStep ==
  ASSUME TypeOK, OwnerInv, CallInv, OverlapInv, [Next]_vars
  PROVE  OverlapInv'
<1>1. ASSUME NEW i \in twice'
      PROVE  Claimed(i)'
  <2>1. CASE i \in twice
    BY <2>1, SpoiltStays
  <2>2. CASE i \notin twice
    <3>1. PICK c \in Compensators : Prepare(c) /\ i = OpOf(c)
      BY <1>1, <2>2, WorldMoves DEF Prepare, Overlaps
    <3>2. i \in Ops /\ Claimed(i)
      BY <3>1, Kinds DEF Prepare, OwnerInv
    <3>. QED  BY <3>2, ClaimedStays
  <2>. QED  BY <2>1, <2>2
<1>2. ASSUME NEW c \in Compensators, NEW d \in Compensators, c /= d,
             co'[c].at \in {"fence", "undo", "free"}, co'[d].at \in {"fence", "undo", "free"},
             co'[c].op = co'[d].op, co'[c].op \in Indexings
      PROVE  co'[c].op \in twice'
  <2>1. ASSUME NEW e \in Compensators, co'[e].at \in {"fence", "undo", "free"},
               co'[e].op \in Indexings
        PROVE  /\ co'[e].op = OpOf(e)
               /\ co[e].at \in {"fence", "undo", "free"} \/ Prepare(e)
    BY <2>1, CompensatorMoves, Kinds
    DEF CoMove, Still, FailProcessing, Prepare, CompensatorEnters, Verify, Undo, RemoveFiles,
        DeletePoints, Stands, OpOf, CallInv
  <2>2. OpOf(c) = OpOf(d) /\ co'[c].op = OpOf(c) /\ OpOf(c) \in Indexings
    BY <1>2, <2>1
  <2>3. CASE co[c].at \in {"fence", "undo", "free"} /\ co[d].at \in {"fence", "undo", "free"}
    <3>1. OpOf(c) \in twice
      BY <1>2, <2>2, <2>3 DEF OverlapInv
    <3>. QED  BY <2>2, <3>1, SpoiltStays
  <2>4. ASSUME NEW e \in Compensators, NEW f \in Compensators, e /= f, Prepare(e),
               OpOf(e) = OpOf(f), co[f].at \in {"fence", "undo", "free"}
        PROVE  OpOf(e) \in twice'
    BY <2>4 DEF Prepare, Overlaps
  <2>5. ASSUME Prepare(c), Prepare(d)
        PROVE  FALSE
    <3>1. co'[c].at = "fence" /\ co[c].at = "fail" /\ co[d].at = "fail" /\ co'[d].at = "fence"
      BY <1>2, <2>5 DEF Prepare, Stands, TypeOK
    <3>2. co'[c] = co[c]
      BY <1>2, <2>5 DEF Prepare, TypeOK
    <3>. QED  BY <3>1, <3>2
  <2>. QED  BY <1>2, <2>1, <2>2, <2>3, <2>4, <2>5
<1>. QED  BY <1>1, <1>2 DEF OverlapInv, OpOf

LEMMA VectorStep ==
  ASSUME TypeOK, MarkedInv, OwnerInv, CallInv, ChunkInv, VectorInv, OverlapInv, [Next]_vars
  PROVE  VectorInv'
<1>0. doc \in Document /\ chunks \in ChunkRows /\ ex \in [Ops -> Executor]
  BY DEF TypeOK
<1>k. ASSUME NEW k, ~(\E i \in twice' : ex'[i].of = k)
      PROVE  ~Spoilt(k)
  BY <1>k, SpoiltStays DEF Spoilt
<1>1. ASSUME NEW c \in Compensators, DeletePoints(c), OpOf(c) \notin twice
      PROVE  OpOf(c) \in Indexings /\ doc.op = OpOf(c) /\ doc.status = "failed" /\ doc' = doc
  BY <1>1 DEF DeletePoints, Stands, VectorInv
<1>2. ASSUME doc'.status = "indexed", ~(\E i \in twice' : ex'[i].of = chunks'.by)
      PROVE  Vectors(chunks'.by, Batches) \subseteq points'
  <2>0. ~Spoilt(chunks'.by)
    BY <1>2, <1>k
  <2>1. ASSUME doc.status = "indexed"
        PROVE  Vectors(chunks'.by, Batches) \subseteq points'
    <3>1. ASSUME NEW o \in Ops, Claim(o) \/ (Complete(o) /\ MayComplete(o))
          PROVE  FALSE
      BY <2>1, <3>1, ClaimMoves, Kinds DEF MayComplete, Owns
    <3>2. ASSUME NEW c \in Compensators, FreeChunks(c)
          PROVE  chunks' = chunks
      BY <2>1, <3>2 DEF FreeChunks, Verified
    <3>3. chunks' = chunks
      BY <3>1, <3>2, WorldMoves, Kinds DEF Complete, CompleteIndexing, CompleteChunking
    <3>4. Vectors(chunks.by, Batches) \subseteq points
      BY <2>0, <2>1, <3>3 DEF VectorInv
    <3>5. ASSUME NEW c \in Compensators, DeletePoints(c)
          PROVE  OpOf(c) \in twice
      BY <1>1, <2>1, <3>5
    <3>. QED  BY <2>0, <3>3, <3>4, <3>5, PointsStay
  <2>2. ASSUME doc.status /= "indexed"
        PROVE  Vectors(chunks'.by, Batches) \subseteq points'
    <3>1. ASSUME NEW p \in Ops, Claim(p)
          PROVE  FALSE
      BY <1>2, <2>2, <3>1, ClaimMoves, Kinds
    <3>2. PICK o \in Ops : Complete(o) /\ At(o, "finalize") /\ MayComplete(o) /\ o \in Indexings
      BY <1>2, <2>2, <3>1, DocMoves, Kinds DEF DocMove
    <3>3. chunks'.by = chunks.by /\ points' = points
      BY <3>2, Marks, Kinds DEF Complete, CompleteIndexing
    <3>4. chunks.by = ex[o].of
      BY <3>2 DEF MayComplete
    <3>5. Vectors(ex[o].of, Batches) \subseteq points
      BY <2>0, <3>2, <3>3, <3>4 DEF VectorInv, MayComplete
    <3>. QED  BY <3>3, <3>4, <3>5
  <2>. QED  BY <2>1, <2>2
<1>3. ASSUME NEW o \in Indexings, Owns(o)', ~(\E i \in twice' : ex'[i].of = ex'[o].of)
      PROVE  /\ Vectors(ex'[o].of, ex'[o].batch - 1) \subseteq points'
             /\ ex'[o].at = "finalize" => Vectors(ex'[o].of, Batches) \subseteq points'
  <2>0. /\ o \in Ops /\ o \notin Processes /\ o \notin Chunkings /\ ExMove(o) /\ o /= NoOne
        /\ Working(o) /= "failed"
    BY Kinds, ExecutorMoves
  <2>1. CASE Claim(o)
    <3>1. ex'[o].at = "fence" /\ ex'[o].batch = 1
      BY <2>0, <2>1, ClaimMoves
    <3>. QED  BY <3>1 DEF Vectors
  <2>2. CASE ~Claim(o)
    <3>1. doc'.op = o /\ doc'.status = Working(o)
      BY <1>3 DEF Owns
    <3>2. ~(\E p \in Ops : Claim(p))
      BY <2>2, <3>1, ClaimMoves
    <3>3. Owns(o)
      BY <2>0, <3>1, <3>2, DocMoves DEF DocMove, Owns
    <3>4. ASSUME NEW c \in Compensators, DeletePoints(c)
          PROVE  OpOf(c) \in twice
      BY <1>1, <2>0, <3>3, <3>4 DEF Owns
    <3>5. Claimed(o) /\ ex[o].batch \in 1 .. Batches
      BY <1>0, <2>0, <3>3 DEF OwnerInv, Owns, Executor
    <3>s. ~Spoilt(ex[o].of)
      BY <1>3, <1>k, <2>0, <3>5, ClaimedStays
    <3>6. /\ Vectors(ex[o].of, ex[o].batch - 1) \subseteq points'
          /\ At(o, "finalize") => Vectors(ex[o].of, Batches) \subseteq points'
      BY <3>3, <3>4, <3>s, PointsStay DEF VectorInv
    <3>7. CASE ex'[o].of = ex[o].of /\ ex'[o].batch = ex[o].batch
               /\ (ex'[o].at = "finalize" => At(o, "finalize"))
      BY <3>6, <3>7
    <3>8. CASE Upsert(o) /\ ex'[o].of = ex[o].of
               /\ \/ ex'[o].at = "finalize" /\ ex[o].batch = Batches /\ ex'[o].batch = ex[o].batch
                  \/ ex'[o].at = "fence" /\ ex'[o].batch = ex[o].batch + 1
      <4>1. <<ex[o].of, ex[o].batch>> \in points'
        BY <3>8 DEF Upsert, Batch
      <4>2. Vectors(ex[o].of, ex[o].batch) \subseteq points'
        <5>1. ASSUME NEW n \in 1 .. ex[o].batch
              PROVE  <<ex[o].of, n>> \in points'
          <6>1. n = ex[o].batch \/ n \in 1 .. (ex[o].batch - 1)
            BY <3>5, BoundsAssumption
          <6>. QED  BY <3>6, <4>1, <6>1 DEF Vectors
        <5>. QED  BY <5>1 DEF Vectors
      <4>3. (ex[o].batch + 1) - 1 = ex[o].batch
        BY <3>5, BoundsAssumption
      <4>4. CASE ex'[o].at = "finalize" /\ ex[o].batch = Batches /\ ex'[o].batch = ex[o].batch
        BY <3>6, <3>8, <4>2, <4>4
      <4>5. CASE ex'[o].at = "fence" /\ ex'[o].batch = ex[o].batch + 1
        BY <3>8, <4>2, <4>3, <4>5
      <4>. QED  BY <3>8, <4>4, <4>5
    <3>. QED  BY <2>0, <2>2, <3>5, <3>7, <3>8 DEF ExMove, Same, Claimed, At
  <2>. QED  BY <2>1, <2>2
<1>4. ASSUME NEW c \in Compensators, co'[c].at \in {"fence", "undo", "free"},
             co'[c].op \in Indexings, co'[c].op \notin twice'
      PROVE  doc'.op = co'[c].op /\ doc'.status = "failed"
  <2>0. CoMove(c)
    BY CompensatorMoves
  <2>1. CASE Prepare(c) /\ co'[c].op = OpOf(c)
    BY <1>0, <2>1 DEF Prepare, SetDoc, Document
  <2>2. CASE co[c].at \in {"fence", "undo", "free"} /\ co'[c].op = OpOf(c)
    <3>0. OpOf(c) \notin twice
      BY <1>4, <2>2, SpoiltStays
    <3>1. PICK o \in Indexings : o = OpOf(c) /\ doc.op = o /\ doc.status = "failed" /\ o \in Ops
      BY <1>4, <2>2, <3>0, Kinds DEF VectorInv
    <3>2. ASSUME NEW p \in Ops, Claim(p) \/ MayComplete(p)
          PROVE  FALSE
      BY <3>1, <3>2, ClaimMoves, Kinds DEF MayComplete, Owns
    <3>3. ASSUME NEW d \in Compensators, FreeChunks(d), doc.op = OpOf(d)
          PROVE  FALSE
      <4>1. co'[d].at = "idle" /\ co[d].at = "free"
        BY <3>3, Returned DEF FreeChunks, Stands
      <4>2. d = c
        BY <2>2, <3>0, <3>1, <3>3, <4>1 DEF OverlapInv
      <4>. QED  BY <1>4, <4>1, <4>2
    <3>4. ASSUME NEW d \in Compensators, OpOf(d) \in Processes \/ OpOf(d) \in Chunkings,
                 doc.op = OpOf(d)
          PROVE  FALSE
      BY <3>1, <3>4, Kinds
    <3>. QED  BY <2>2, <3>1, <3>2, <3>3, <3>4, DocMoves DEF DocMove, Owns
  <2>. QED
    BY <1>4, <2>0, <2>1, <2>2, Kinds
    DEF CoMove, Still, FailProcessing, CompensatorEnters, Verify, Undo, RemoveFiles, DeletePoints,
        Stands, OpOf, CallInv
<1>. QED  BY <1>2, <1>3, <1>4 DEF VectorInv, Spoilt, OpOf, At

-----------------------------------------------------------------------------
(* Theorems.                                                               *)

LEMMA InitInv ==
  ASSUME Init
  PROVE  /\ BaseInv
         /\ FenceInv /\ UndoneInv /\ EffectsHaveOwner
         /\ OverlapInv /\ VectorInv
<1>1. TypeOK
  BY BoundsAssumption
  DEF Init, TypeOK, Document, Status, ChunkRows, Executor, ExecutorSteps, Compensator,
      CompensatorSteps, IdleCompensator, TaskStates
<1>2. /\ \A o \in Ops : ex[o].at = "new"
      /\ \A c \in Compensators : co[c].at = "idle"
      /\ doc.op = NoOne /\ doc.status = "uploaded" /\ chunks.vector = "pending"
  BY DEF Init, IdleCompensator
<1>3. MarkedInv /\ OwnerInv /\ CallInv /\ PursuedInv
  BY <1>2, Kinds DEF Init, MarkedInv, OwnerInv, CallInv, PursuedInv, OpOf
<1>4. ArtifactInv /\ ChunkInv
  BY <1>2, Kinds DEF Init, ArtifactInv, ChunkInv, Owns
<1>5. FenceInv /\ UndoneInv /\ EffectsHaveOwner
  BY <1>2 DEF Init, FenceInv, Fenced, UndoneInv, EffectsHaveOwner
<1>6. OverlapInv /\ VectorInv
  BY <1>2, Kinds DEF Init, OverlapInv, VectorInv, Owns
<1>. QED  BY <1>1, <1>3, <1>4, <1>5, <1>6 DEF BaseInv

\* Ownership, compensator calls, artifacts and chunk rows stay consistent:
\* BaseInv is inductive.
THEOREM Invariance == Spec => []BaseInv
<1>1. ASSUME BaseInv, [Next]_vars
      PROVE  BaseInv'
  BY <1>1, TypeStep, MarkedStep, OwnerStep, CallStep, PursuedStep, ArtifactStep, ChunkInvStep
  DEF BaseInv
<1>. QED  BY <1>1, InitInv, PTL DEF Spec

\* The fields of the rows, files, vectors, locks and calls keep their types.
THEOREM TypeCorrect == Spec => []TypeOK
<1>1. BaseInv => TypeOK
  BY DEF BaseInv
<1>. QED  BY <1>1, Invariance, PTL

\* Whoever owns the document, so that _validate_processing_retry and its like
\* refuse every attempt, is at work, or will be compensated, or has used up its
\* compensations (runtime.py:636), or has claimed when its compensation had begun.
THEOREM OwnerPursued == Spec => []OwnerIsPursued
<1>1. BaseInv => OwnerIsPursued
  BY DEF BaseInv, PursuedInv, TypeOK, Document, TaskStates, OwnerIsPursued, Pursued
<1>. QED  BY <1>1, Invariance, PTL

\* Whatever crashes, fails or is compensated while its executor still runs: as
\* long as no named lock is lost, files belong to the owner of the document or
\* to an artifact row, and vectors to the chunks that are indexed or being indexed.
THEOREM EffectsOwned == Spec => []EffectsHaveOwner
<1>1. ASSUME BaseInv, FenceInv, UndoneInv, EffectsHaveOwner, [Next]_vars
      PROVE  FenceInv' /\ UndoneInv' /\ EffectsHaveOwner'
  BY <1>1, FenceStep, UndoneStep, EffectsStep DEF BaseInv
<1>. QED  BY <1>1, Invariance, InitInv, PTL DEF Spec

\* The files of an artifact row are never removed again, also when locks are
\* lost and whatever compensator calls overlap.
THEOREM ArtifactsStay ==
  Spec => [](\A o \in rows : {<<o, "cleaned">>, <<o, "secondary">>} \subseteq files)
<1>1. BaseInv => \A o \in rows : {<<o, "cleaned">>, <<o, "secondary">>} \subseteq files
  BY DEF BaseInv, ArtifactInv
<1>. QED  BY <1>1, Invariance, PTL

\* An indexed document has every vector in the store, also when locks are lost and
\* whatever is compensated, unless two calls had been prepared at once for one
\* indexing of its chunks; and the files of its artifact rows are there.
THEOREM PublishedStays == Spec => []PublishedIsThere
<1>1. ASSUME BaseInv, OverlapInv, VectorInv, [Next]_vars
      PROVE  OverlapInv' /\ VectorInv'
  BY <1>1, OverlapStep, VectorStep DEF BaseInv
<1>2. BaseInv /\ VectorInv => PublishedIsThere
  BY DEF BaseInv, ArtifactInv, VectorInv, PublishedIsThere, Vectors, Spoilt
<1>. QED  BY <1>1, <1>2, Invariance, InitInv, PTL DEF Spec
=============================================================================
