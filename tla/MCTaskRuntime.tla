--------------------------- MODULE MCTaskRuntime ---------------------------
(***************************************************************************)
(* Small instances of TaskRuntime for TLC.                                 *)
(***************************************************************************)
EXTENDS TaskRuntimeRefinement, TaskRuntimeInv, TLC

CONSTANTS w1, w2

WorkerSet == {w1, w2}
WorkerSymmetry == Permutations(WorkerSet)

\* Two tasks, with a dependency on a later sequence number: 1 waits for 2.
BackwardDeps == <<{2}, {}>>
MixedSideEffects == <<TRUE, FALSE>>
SingleDeps == <<{}>>
SingleSideEffect == <<TRUE>>
=============================================================================
