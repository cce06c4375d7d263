-------------------------- MODULE PlannerRunProofs --------------------------
(***************************************************************************)
(* What PlannerRun guarantees for any number of runs and of tasks, any     *)
(* evidence and any limits.                                                *)
(***************************************************************************)
EXTENDS PlannerRunInv, SequenceTheorems, FiniteSetTheorems, WellFoundedInduction, TLAPS

-----------------------------------------------------------------------------
(* The pieces of a step.                                                   *)

LEMMA Collecting ==
  ASSUME NEW x \in Round
  PROVE  /\ << >> \in [1 .. 0 -> Round]
         /\ <<x>> \in [1 .. 1 -> Round] /\ <<x>>[1] = x
         /\ \A e \in [1 .. 1 -> Round] : Append(e, x) \in [1 .. 2 -> Round]
<1>1. ASSUME NEW e \in [1 .. 1 -> Round]
      PROVE  Append(e, x) \in [1 .. 2 -> Round]
  <2>1. 1 \in Nat /\ e \in [1 .. 1 -> Round]
    BY <1>1
  <2>2. e \in Seq(Round)
    BY <2>1, SeqDef, Zenon
  <2>3. Len(e) = 1
    BY <2>1, <2>2, LenProperties
  <2>4. Append(e, x) \in Seq(Round) /\ Len(Append(e, x)) = Len(e) + 1
    BY <2>2, AppendProperties, Zenon
  <2>5. Append(e, x) \in [1 .. Len(e) + 1 -> Round]
    BY <2>4, LenProperties
  <2>. QED  BY <2>3, <2>5
<1>. QED  BY <1>1

Collected == UNION {[1 .. n -> Round] : n \in 0 .. 2}

Gather(r, x, node) == run' = [run EXCEPT ![r].evidence = x, ![r].at = node]
Judge(r, x, node) == run' = [run EXCEPT ![r].decision = x, ![r].at = node]

\* A run has collected a round.
LEMMA Gathered ==
  ASSUME TypeOK, NEW r \in Runs, NEW node \in Nodes, NEW x \in Collected,
         Gather(r, x, node)
  PROVE  /\ run' \in [Runs -> Run]
         /\ run'[r].at = node /\ run'[r].evidence = x /\ run'[r].decision = run[r].decision
         /\ \A q \in Runs : q /= r => run'[q] = run[q]
<1>1. run \in [Runs -> Run]
  BY DEF TypeOK
<1>2. [[run[r] EXCEPT !.evidence = x] EXCEPT !.at = node] \in Run
  BY <1>1 DEF Run, Collected
<1>3. run' = [run EXCEPT ![r] = [[run[r] EXCEPT !.evidence = x] EXCEPT !.at = node]]
  BY <1>1 DEF Gather
<1>. QED  BY <1>1, <1>2, <1>3 DEF Run

\* The gap handler has decided.
LEMMA Judged ==
  ASSUME TypeOK, NEW r \in Runs, NEW node \in Nodes, NEW x \in Actions,
         Judge(r, x, node)
  PROVE  /\ run' \in [Runs -> Run]
         /\ run'[r].at = node /\ run'[r].decision = x /\ run'[r].evidence = run[r].evidence
         /\ \A q \in Runs : q /= r => run'[q] = run[q]
<1>1. run \in [Runs -> Run]
  BY DEF TypeOK
<1>2. [[run[r] EXCEPT !.decision = x] EXCEPT !.at = node] \in Run
  BY <1>1 DEF Run
<1>3. run' = [run EXCEPT ![r] = [[run[r] EXCEPT !.decision = x] EXCEPT !.at = node]]
  BY <1>1 DEF Judge
<1>. QED  BY <1>1, <1>2, <1>3 DEF Run

LEMMA Went ==
  ASSUME TypeOK, NEW r \in Runs, NEW node \in Nodes, Goto(r, node)
  PROVE  /\ run' \in [Runs -> Run]
         /\ run'[r].at = node
         /\ run'[r].evidence = run[r].evidence /\ run'[r].decision = run[r].decision
         /\ \A q \in Runs : q /= r => run'[q] = run[q]
<1>1. run \in [Runs -> Run]
  BY DEF TypeOK
<1>2. run' = [run EXCEPT ![r] = [run[r] EXCEPT !.at = node]]
  BY DEF Goto
<1>3. [run[r] EXCEPT !.at = node] \in Run
  BY <1>1 DEF Run
<1>. QED  BY <1>1, <1>2, <1>3 DEF Run

LEMMA Departed ==
  ASSUME TypeOK, NEW r \in Runs, NEW node \in Nodes, Leave(r, node)
  PROVE  /\ run' \in [Runs -> Run]
         /\ run'[r].at = node
         /\ run'[r].evidence = << >> /\ run'[r].decision = "none"
         /\ \A q \in Runs : q /= r => run'[q] = run[q]
<1>1. run \in [Runs -> Run]
  BY DEF TypeOK
<1>2. << >> \in [1 .. 0 -> Round]
  OBVIOUS
<1>3. [Starting EXCEPT !.at = node] = [at |-> node, evidence |-> << >>, decision |-> "none"]
  BY DEF Starting
<1>4. [at |-> node, evidence |-> << >>, decision |-> "none"] \in Run
  BY <1>2 DEF Run
<1>. QED  BY <1>1, <1>3, <1>4 DEF Leave

-----------------------------------------------------------------------------
(* Evidence and gap decisions.                                             *)

Finished(r) == SetQuestionRefused(r) \/ MarkRetryPending(r) \/ MarkRefused(r)

\* The next step of a run, by what it does to the run.
LEMMA RunCases ==
  ASSUME [Next]_vars
  PROVE  \/ \E r \in Runs, x \in Rounds :
              CollectInitialEvidence(r, x) \/ CollectFollowUpEvidence(r, x)
         \/ \E r \in Runs, action \in Actions :
              AssessInitialGap(r, action) \/ AssessFinalGap(r, action)
         \/ \E r \in Runs : ResolveCommit(r) \/ ResolveClarification(r)
                            \/ ClarificationHandoff(r) \/ ReadResult(r)
         \/ \E r \in Runs : Leave(r, "ended") \/ Finished(r)
         \/ run' = run
<1>1. ASSUME NEW r \in Runs, EvidenceStep(r)
      PROVE  \/ \E x \in Rounds : CollectInitialEvidence(r, x) \/ CollectFollowUpEvidence(r, x)
             \/ \E action \in Actions : AssessInitialGap(r, action) \/ AssessFinalGap(r, action)
             \/ Leave(r, "ended")
  BY <1>1 DEF EvidenceStep, DecisionRefused
<1>2. ASSUME NEW r \in Runs, ResolveStep(r) \/ CommitStep(r) \/ FinishStep(r) \/ AgentFails(r)
      PROVE  \/ ResolveCommit(r) \/ ResolveClarification(r) \/ ClarificationHandoff(r) \/ ReadResult(r)
             \/ Leave(r, "ended") \/ Finished(r) \/ run' = run
  BY <1>2 DEF ResolveStep, ResolveByRaising, ResolveUnsupported, ResolveRefused, CommitStep,
     CreateTask, FinalizePlan, FinalizeRefused, CommitUnsupported, CommitUnsupportedRefused,
     FinishStep, SetClarificationQuestion, SetQuestionRefused, Finished, AgentFails
<1>3. CloseTurn \/ UNCHANGED vars => run' = run
  BY DEF CloseTurn, vars
<1>. QED  BY <1>1, <1>2, <1>3 DEF Next

\* What is known of a run stays true while it does nothing.
LEMMA FitsStays ==
  ASSUME NEW r \in Runs, Fits(r), run'[r] = run[r]
  PROVE  Fits(r)'
  BY DEF Fits, Blank, RoundsSeen, At, Supported, Failures, ReadyForCommit

LEMMA RunStep ==
  ASSUME TypeOK, EvidenceInv, [Next]_vars
  PROVE  run' \in [Runs -> Run] /\ EvidenceInv'
<1>0. run \in [Runs -> Run] /\ \A r \in Runs : Fits(r)
  BY DEF TypeOK, EvidenceInv
<1>1. ASSUME NEW r \in Runs, Fits(r)', \A q \in Runs : q /= r => run'[q] = run[q]
      PROVE  EvidenceInv'
  BY <1>0, <1>1, FitsStays DEF EvidenceInv
<1>2. ASSUME NEW r \in Runs, NEW node \in {"ended", "over"}, Leave(r, node)
      PROVE  run' \in [Runs -> Run] /\ EvidenceInv'
  <2>1. node \in Nodes
    BY DEF Nodes
  <2>2. Fits(r)'
    BY <1>2, <2>1, Departed DEF Fits, Blank, At
  <2>. QED  BY <1>1, <1>2, <2>1, <2>2, Departed
<1>3. ASSUME NEW r \in Runs, NEW x \in Rounds, CollectInitialEvidence(r, x)
      PROVE  run' \in [Runs -> Run] /\ EvidenceInv'
  <2>1. run[r].decision = "none"
    BY <1>0, <1>3 DEF CollectInitialEvidence, Fits, Blank, At
  <2>2. <<x>> \in [1 .. 1 -> Round] /\ <<x>>[1] = x
    BY Collecting, PlannerAssumption
  <2>3. PICK node \in {"commit_plan", "assess_initial_gap"} :
          /\ node = "commit_plan" => ReadyForCommit(x)
          /\ Gather(r, <<x>>, node)
    BY <1>3 DEF CollectInitialEvidence, Gather
  <2>4. node \in Nodes /\ <<x>> \in Collected
    BY <2>2 DEF Nodes, Collected
  <2>5. /\ run' \in [Runs -> Run]
        /\ run'[r].at = node /\ run'[r].evidence = <<x>> /\ run'[r].decision = "none"
        /\ \A q \in Runs : q /= r => run'[q] = run[q]
    BY <2>1, <2>3, <2>4, Gathered
  <2>6. Fits(r)'
    BY <2>2, <2>3, <2>5 DEF Fits, RoundsSeen, At
  <2>. QED  BY <1>1, <2>5, <2>6
<1>4. ASSUME NEW r \in Runs, NEW x \in Rounds, CollectFollowUpEvidence(r, x)
      PROVE  run' \in [Runs -> Run] /\ EvidenceInv'
  <2>1. run[r].decision = "COLLECT_MORE" /\ run[r].evidence \in [1 .. 1 -> Round]
    BY <1>0, <1>4 DEF CollectFollowUpEvidence, Fits, RoundsSeen, At
  <2>2. Append(run[r].evidence, x) \in [1 .. 2 -> Round]
    BY <2>1, Collecting, PlannerAssumption
  <2>. DEFINE seen == Append(run[r].evidence, x)
  <2>3. Gather(r, seen, "assess_final_gap")
    BY <1>0, <1>4 DEF CollectFollowUpEvidence, Gather
  <2>4. seen \in [1 .. 2 -> Round] /\ seen \in Collected
        /\ "assess_final_gap" \in Nodes
    BY <2>2 DEF Nodes, Collected
  <2>. HIDE DEF seen
  <2>5. /\ run' \in [Runs -> Run]
        /\ run'[r].at = "assess_final_gap" /\ run'[r].decision = "COLLECT_MORE"
        /\ run'[r].evidence = seen
        /\ \A q \in Runs : q /= r => run'[q] = run[q]
    BY <2>1, <2>3, <2>4, Gathered
  <2>6. Fits(r)'
    BY <2>4, <2>5 DEF Fits, RoundsSeen, At
  <2>. QED  BY <1>1, <2>5, <2>6
<1>5. ASSUME NEW r \in Runs, NEW action \in Actions,
             AssessInitialGap(r, action) \/ AssessFinalGap(r, action)
      PROVE  run' \in [Runs -> Run] /\ EvidenceInv'
  <2>1. PICK node \in {"collect_follow_up_evidence", "resolve_gap"} :
          /\ Judge(r, action, node)
          /\ node = "resolve_gap" => Supported(r, action, FALSE)
          /\ node = "collect_follow_up_evidence" =>
               action = "COLLECT_MORE" /\ run[r].evidence \in [1 .. 1 -> Round]
    <3>1. CASE AssessInitialGap(r, action)
      BY <1>0, <3>1 DEF AssessInitialGap, Judge, Supported, Fits, RoundsSeen
    <3>2. CASE AssessFinalGap(r, action)
      BY <3>2 DEF AssessFinalGap, Judge
    <3>. QED  BY <1>5, <3>1, <3>2
  <2>2. node \in Nodes /\ run[r].evidence \in Collected
    BY <1>0 DEF Run, Nodes, Collected
  <2>3. /\ run' \in [Runs -> Run]
        /\ run'[r].at = node /\ run'[r].decision = action
        /\ run'[r].evidence = run[r].evidence
        /\ \A q \in Runs : q /= r => run'[q] = run[q]
    BY <2>1, <2>2, Judged
  <2>4. Supported(r, action, FALSE) => Supported(r, action, FALSE)'
    BY <2>3 DEF Supported, Failures
  <2>5. Fits(r)'
    BY <2>1, <2>3, <2>4 DEF Fits, RoundsSeen, At, Actions
  <2>. QED  BY <1>1, <2>3, <2>5
<1>6. ASSUME NEW r \in Runs, \/ ResolveCommit(r) \/ ResolveClarification(r)
                             \/ ClarificationHandoff(r) \/ ReadResult(r)
      PROVE  run' \in [Runs -> Run] /\ EvidenceInv'
  <2>1. PICK node \in {"commit_plan", "asking", "marking", "over"} :
          /\ Goto(r, node)
          /\ node = "commit_plan" => run[r].decision = "COMMIT"
          /\ node = "asking" => run[r].decision \in {"none", "COMMIT", "CLARIFICATION"}
          /\ node \in {"marking", "over"} => Blank(r)
    BY <1>0, <1>6
    DEF ResolveCommit, ResolveClarification, ClarificationHandoff, ReadResult, Decided,
        Fits, At
  <2>2. node \in Nodes
    BY DEF Nodes
  <2>3. Fits(r)'
    BY <2>1, <2>2, Went DEF Fits, Blank, At
  <2>. QED  BY <1>1, <2>1, <2>2, <2>3, Went
<1>7. CASE run' = run
  BY <1>0, <1>7, FitsStays DEF EvidenceInv
<1>8. \A r \in Runs : Finished(r) => Leave(r, "over")
  BY DEF Finished, SetQuestionRefused, MarkRetryPending, MarkRefused
<1>. QED  BY <1>2, <1>3, <1>4, <1>5, <1>6, <1>7, <1>8, RunCases

-----------------------------------------------------------------------------
(* The database.                                                           *)

LEMMA DatabaseMoves ==
  ASSUME [Next]_vars
  PROVE  \/ database' = database
         \/ \E r \in Runs, t \in Task : CreateTask(r, t)
         \/ \E r \in Runs : FinalizePlan(r)
         \/ MarkUnsupported
         \/ MarkNeedsClarification
         \/ \E r \in Runs : SetClarificationQuestion(r) \/ MarkRetryPending(r)
         \/ CloseTurn
<1>1. ASSUME NEW r \in Runs, EvidenceStep(r) \/ ResolveStep(r) \/ AgentFails(r)
      PROVE  database' = database \/ MarkUnsupported \/ MarkNeedsClarification
  BY <1>1 DEF EvidenceStep, CollectInitialEvidence, CollectFollowUpEvidence, AssessInitialGap,
     AssessFinalGap, DecisionRefused, ResolveStep, ResolveCommit, ResolveByRaising,
     ResolveUnsupported, ResolveClarification, ResolveRefused, AgentFails
<1>2. ASSUME NEW r \in Runs, CommitStep(r)
      PROVE  \/ database' = database \/ MarkUnsupported \/ MarkNeedsClarification
             \/ (\E t \in Task : CreateTask(r, t)) \/ FinalizePlan(r)
  BY <1>2 DEF CommitStep, FinalizeRefused, CommitUnsupported, CommitUnsupportedRefused,
     ClarificationHandoff
<1>3. ASSUME NEW r \in Runs, FinishStep(r)
      PROVE  \/ database' = database
             \/ SetClarificationQuestion(r) \/ MarkRetryPending(r)
  BY <1>3 DEF FinishStep, SetQuestionRefused, ReadResult, MarkRefused
<1>4. CASE UNCHANGED vars
  BY <1>4 DEF vars
<1>. QED  BY <1>1, <1>2, <1>3, <1>4 DEF Next

LEMMA TypeStep ==
  ASSUME TypeOK, EvidenceInv, [Next]_vars
  PROVE  TypeOK'
<1>1. /\ plan \in PlanStatus /\ turn \in {"open", "waiting", "closed"} /\ question \in BOOLEAN
      /\ drafts \subseteq Task /\ tasks \subseteq Task /\ named \subseteq Refs
  BY DEF TypeOK
<1>2. {t.ref : t \in drafts} \subseteq Refs
  BY <1>1 DEF Task
<1>3. /\ plan' \in PlanStatus /\ turn' \in {"open", "waiting", "closed"} /\ question' \in BOOLEAN
      /\ drafts' \subseteq Task /\ tasks' \subseteq Task /\ named' \subseteq Refs
  BY <1>1, <1>2, DatabaseMoves
  DEF database, CreateTask, FinalizePlan, MarkUnsupported, MarkNeedsClarification,
      SetClarificationQuestion, MarkRetryPending, CloseTurn, PlanStatus
<1>. QED  BY <1>3, RunStep DEF TypeOK

-----------------------------------------------------------------------------
(* Handing on.                                                             *)

LEMMA HandedOnStays ==
  ASSUME [Next]_vars, HandedOn
  PROVE  HandedOn'
BY DatabaseMoves
DEF HandedOn, database, CreateTask, FinalizePlan, MarkUnsupported, MarkNeedsClarification,
    SetClarificationQuestion, MarkRetryPending, CloseTurn

\* How a run comes to ask, and to its end.
LEMMA RunMoves ==
  ASSUME TypeOK, [Next]_vars, NEW r \in Runs
  PROVE  \/ run'[r] = run[r]
         \/ run'[r].at \notin {"asking", "over"}
         \/ run'[r].at = "asking" /\ MarkNeedsClarification
         \/ run'[r].at = "over" /\ (Finished(r) \/ (ReadResult(r) /\ ~NeedsRetry))
<1>0. run \in [Runs -> Run] /\ {"commit_plan", "asking", "marking", "over", "ended"} \subseteq Nodes
  BY DEF TypeOK, Nodes
<1>1. ASSUME NEW q \in Runs, NEW x \in Rounds,
             CollectInitialEvidence(q, x) \/ CollectFollowUpEvidence(q, x)
      PROVE  run'[r] = run[r] \/ run'[r].at \notin {"asking", "over"}
  BY <1>0, <1>1 DEF CollectInitialEvidence, CollectFollowUpEvidence, Run
<1>2. ASSUME NEW q \in Runs, NEW a \in Actions, AssessInitialGap(q, a) \/ AssessFinalGap(q, a)
      PROVE  run'[r] = run[r] \/ run'[r].at \notin {"asking", "over"}
  BY <1>0, <1>2 DEF AssessInitialGap, AssessFinalGap, Run
<1>3. ASSUME NEW q \in Runs, ResolveCommit(q) \/ Leave(q, "ended")
      PROVE  run'[r] = run[r] \/ run'[r].at \notin {"asking", "over"}
  BY <1>0, <1>3, Went, Departed DEF ResolveCommit
<1>4. ASSUME NEW q \in Runs, ResolveClarification(q) \/ ClarificationHandoff(q)
      PROVE  run'[r] = run[r] \/ (run'[r].at = "asking" /\ MarkNeedsClarification)
  BY <1>0, <1>4, Went DEF ResolveClarification, ClarificationHandoff
<1>5. ASSUME NEW q \in Runs, ReadResult(q)
      PROVE  \/ run'[r] = run[r] \/ run'[r].at = "marking"
             \/ run'[r].at = "over" /\ ReadResult(r) /\ ~NeedsRetry
  BY <1>0, <1>5, Went DEF ReadResult
<1>6. ASSUME NEW q \in Runs, Finished(q)
      PROVE  run'[r] = run[r] \/ (run'[r].at = "over" /\ Finished(r))
  BY <1>0, <1>6, Departed DEF Finished, SetQuestionRefused, MarkRetryPending, MarkRefused
<1>. QED  BY <1>1, <1>2, <1>3, <1>4, <1>5, <1>6, RunCases

LEMMA HandStep ==
  ASSUME TypeOK, HandInv, [Next]_vars
  PROVE  HandInv'
<1>0. plan \in PlanStatus /\ turn \in {"open", "waiting", "closed"}
  BY DEF TypeOK
<1>1. plan' = "needs_clarification" => turn' /= "open"
  BY DatabaseMoves
  DEF HandInv, database, CreateTask, FinalizePlan, MarkUnsupported, MarkNeedsClarification,
      SetClarificationQuestion, MarkRetryPending, CloseTurn
<1>2. plan /= "planning" => plan' /= "planning"
  BY DatabaseMoves
  DEF database, CreateTask, FinalizePlan, MarkUnsupported, MarkNeedsClarification,
      SetClarificationQuestion, MarkRetryPending, CloseTurn
<1>3. ASSUME NEW r \in Runs, run'[r].at = "asking"
      PROVE  plan' /= "planning"
  BY <1>2, <1>3, RunMoves DEF HandInv, At, MarkNeedsClarification
<1>4. ASSUME NEW r \in Runs, run'[r].at = "over"
      PROVE  HandedOn'
  <2>1. CASE run'[r] = run[r]
    BY <1>4, <2>1, HandedOnStays DEF HandInv, At
  <2>2. CASE SetQuestionRefused(r)
    <3>1. plan /= "planning" /\ (plan = "needs_clarification" => turn = "closed")
      BY <1>0, <2>2 DEF SetQuestionRefused, AwaitsQuestion, HandInv
    <3>. QED  BY <1>0, <3>1, HandedOnStays DEF HandedOn, PlanStatus
  <2>3. CASE MarkRetryPending(r)
    BY <2>3 DEF MarkRetryPending, HandedOn
  <2>4. CASE MarkRefused(r)
    BY <1>0, <2>4, HandedOnStays DEF MarkRefused, HandedOn, PlanStatus
  <2>5. CASE ReadResult(r) /\ ~NeedsRetry
    BY <1>0, <2>5, HandedOnStays DEF NeedsRetry, HandedOn, PlanStatus
  <2>. QED  BY <1>4, <2>1, <2>2, <2>3, <2>4, <2>5, RunMoves DEF Finished
<1>. QED  BY <1>1, <1>3, <1>4 DEF HandInv, At

-----------------------------------------------------------------------------
(* Numbers and functions on them.                                          *)

\* Every nonempty set of numbers has a least member: induction for a set of
\* counterexamples.
LEMMA LeastNumber ==
  ASSUME NEW T \in SUBSET Nat, T /= {}
  PROVE  \E x \in T : \A y \in T : x <= y
<1>. DEFINE R == {ss \in Nat \X Nat : ss[1] < ss[2]}
<1>1. IsWellFoundedOn(R, Nat)
  BY NatLessThanWellFounded DEF OpToRel
<1>. HIDE DEF R
<1>2. PICK x \in T : \A y \in T : ~(<<y, x>> \in R)
  BY <1>1, WFMin
<1>3. \A y \in T : ~(y < x)
  BY <1>2 DEF R
<1>. QED  BY <1>3

\* A set of numbers that holds 0, and with n its successor, holds them all.
LEMMA Inducts ==
  ASSUME NEW T, 0 \in T, \A n \in Nat : n \in T => n + 1 \in T
  PROVE  Nat \subseteq T
<1>. SUFFICES ASSUME Nat \ T /= {}
              PROVE  FALSE
  OBVIOUS
<1>1. PICK x \in Nat \ T : \A y \in Nat \ T : x <= y
  BY LeastNumber
<1>2. x - 1 \in Nat /\ x - 1 \in T
  BY <1>1
<1>. QED  BY <1>1, <1>2

\* A finite set of numbers has a maximum.
LEMMA MaxOfNumbers ==
  ASSUME NEW T \in SUBSET Nat, IsFiniteSet(T), T /= {}
  PROVE  Max(T) \in T /\ \A y \in T : Max(T) >= y
<1>. DEFINE HasMax(U) == \E x \in U : \A y \in U : x >= y
            Sizes == {n \in Nat : \A U \in SUBSET T : U /= {} /\ Cardinality(U) = n => HasMax(U)}
<1>1. 0 \in Sizes
  BY FS_Subset, FS_EmptySet
<1>2. ASSUME NEW n \in Nat, n \in Sizes
      PROVE  n + 1 \in Sizes
  <2>. SUFFICES ASSUME NEW U \in SUBSET T, U /= {}, Cardinality(U) = n + 1
                PROVE  HasMax(U)
    OBVIOUS
  <2>1. PICK u \in U : TRUE
    OBVIOUS
  <2>2. IsFiniteSet(U)
    BY FS_Subset
  <2>3. Cardinality(U \ {u}) = n
    <3>1. Cardinality(U \ {u}) = Cardinality(U) - 1
      BY <2>1, <2>2, FS_RemoveElement
    <3>. QED  BY <3>1
  <2>4. CASE U \ {u} = {}
    BY <2>1, <2>4
  <2>5. CASE U \ {u} /= {}
    <3>1. PICK m \in U \ {u} : \A y \in U \ {u} : m >= y
      BY <1>2, <2>3, <2>5
    <3>2. CASE u >= m
      BY <2>1, <3>1, <3>2
    <3>3. CASE m >= u
      BY <2>1, <3>1, <3>3
    <3>. QED  BY <3>1, <3>2, <3>3
  <2>. QED  BY <2>4, <2>5
<1>3. Nat \subseteq Sizes
  <2>. HIDE DEF Sizes
  <2>. QED  BY <1>1, <1>2, Inducts
<1>4. Cardinality(T) \in Nat
  BY FS_CardinalityType
<1>5. HasMax(T)
  BY <1>3, <1>4
<1>. QED  BY <1>5 DEF Max

\* A function on the numbers may be defined by its first value and a step.
LEMMA Recursion ==
  ASSUME NEW S, NEW s \in S, NEW F \in [S -> S]
  PROVE  \E f \in [Nat -> S] : f[0] = s /\ \A n \in Nat : f[n + 1] = F[f[n]]
<1>. DEFINE Begins(n) == {g \in [0 .. n -> S] : g[0] = s /\ \A i \in 0 .. n - 1 : g[i + 1] = F[g[i]]}
            Known == {n \in Nat : Begins(n) /= {}}
<1>1. Nat \subseteq Known
  <2>1. 0 \in Known
    <3>1. [i \in 0 .. 0 |-> s] \in Begins(0)
      OBVIOUS
    <3>. QED  BY <3>1
  <2>2. ASSUME NEW n \in Nat, n \in Known
        PROVE  n + 1 \in Known
    <3>1. PICK g \in Begins(n) : TRUE
      BY <2>2
    <3>2. [i \in 0 .. n + 1 |-> IF i = n + 1 THEN F[g[n]] ELSE g[i]] \in Begins(n + 1)
      BY <3>1
    <3>. HIDE DEF Begins
    <3>. QED  BY <3>2
  <2>. HIDE DEF Known
  <2>. QED  BY <2>1, <2>2, Inducts
<1>2. ASSUME NEW m \in Nat, NEW n \in Nat, NEW g \in Begins(m), NEW h \in Begins(n)
      PROVE  \A i \in Nat : i <= m /\ i <= n => g[i] = h[i]
  <2>. DEFINE Agreed == {i \in Nat : i <= m /\ i <= n => g[i] = h[i]}
  <2>1. 0 \in Agreed
    OBVIOUS
  <2>2. ASSUME NEW i \in Nat, i \in Agreed
        PROVE  i + 1 \in Agreed
    BY <2>2
  <2>3. Nat \subseteq Agreed
    <3>. HIDE DEF Agreed
    <3>. QED  BY <2>1, <2>2, Inducts
  <2>. QED  BY <2>3
<1>3. ASSUME NEW n \in Nat, NEW g \in Begins(n)
      PROVE  /\ g \in [0 .. n -> S] /\ g[0] = s
             /\ \A i \in 0 .. n - 1 : g[i + 1] = F[g[i]]
  OBVIOUS
<1>. DEFINE Chosen(n) == CHOOSE g \in Begins(n) : TRUE
            f == [n \in Nat |-> Chosen(n)[n]]
<1>4. \A n \in Nat : Chosen(n) \in Begins(n)
  <2>. HIDE DEF Begins
  <2>. QED  BY <1>1
<1>. HIDE DEF Begins, Chosen
<1>5. f \in [Nat -> S] /\ f[0] = s
  <2>1. \A n \in Nat : n \in 0 .. n
    OBVIOUS
  <2>2. \A n \in Nat : Chosen(n) \in [0 .. n -> S]
    BY <1>3, <1>4
  <2>. QED  BY <1>3, <1>4, <2>1, <2>2
<1>6. ASSUME NEW n \in Nat
      PROVE  f[n + 1] = F[f[n]]
  <2>1. Chosen(n) \in Begins(n) /\ Chosen(n + 1) \in Begins(n + 1) /\ n + 1 \in Nat
    BY <1>4
  <2>2. Chosen(n + 1)[n + 1] = F[Chosen(n + 1)[n]]
    BY <1>3, <2>1
  <2>3. Chosen(n + 1)[n] = Chosen(n)[n]
    BY <1>2, <2>1
  <2>. QED  BY <2>1, <2>2, <2>3
<1>. HIDE DEF f
<1>. QED  BY <1>5, <1>6

-----------------------------------------------------------------------------
(* What _validate_dag computes.                                            *)

\* Drafts as the tool calls build them: it makes sense to measure their depth.
Measurable == drafts \subseteq Task /\ IsFiniteSet(drafts) /\ Distinct(drafts) /\ RefsExist

LEMMA RefersToDraft ==
  ASSUME Measurable, NEW t \in drafts, NEW ref \in t.depends
  PROVE  Of(ref) \in drafts /\ Of(ref).ref = ref /\ \A d \in drafts : d.ref = ref => d = Of(ref)
<1>1. \E d \in drafts : d.ref = ref
  BY DEF Measurable, RefsExist
<1>2. Of(ref) \in drafts /\ Of(ref).ref = ref
  BY <1>1 DEF Of
<1>. QED  BY <1>2 DEF Measurable, Distinct

\* The depth of t when those of the tasks it waits for are g.
Deeper(g, t) == 1 + Max({0} \cup {g[Of(ref)] : ref \in t.depends})

LEMMA DeeperIs ==
  ASSUME Measurable, NEW g \in [drafts -> Nat], NEW t \in drafts
  PROVE  /\ Deeper(g, t) \in Nat /\ Deeper(g, t) >= 1
         /\ \A d \in drafts : d.ref \in t.depends => Deeper(g, t) >= 1 + g[d]
<1>. DEFINE Depth == {g[d] : d \in drafts}
            Here == {0} \cup {g[Of(ref)] : ref \in t.depends}
<1>1. IsFiniteSet(Depth)
  <2>1. g \in Surjection(drafts, Depth)
    BY DEF Surjection
  <2>. QED  BY <2>1, FS_Surjection DEF Measurable
<1>2. Here \subseteq Depth \cup {0} /\ Here \subseteq Nat /\ Here /= {}
  BY RefersToDraft
<1>3. IsFiniteSet(Here)
  <2>1. IsFiniteSet(Depth \cup {0})
    BY <1>1, FS_AddElement
  <2>. HIDE DEF Depth, Here
  <2>. QED  BY <1>2, <2>1, FS_Subset
<1>4. Max(Here) \in Nat /\ \A y \in Here : Max(Here) >= y
  <2>. HIDE DEF Here
  <2>. QED  BY <1>2, <1>3, MaxOfNumbers
<1>5. ASSUME NEW d \in drafts, d.ref \in t.depends
      PROVE  g[d] \in Here
  <2>1. d = Of(d.ref)
    BY <1>5, RefersToDraft
  <2>. QED  BY <1>5, <2>1
<1>6. Deeper(g, t) = 1 + Max(Here)
  BY DEF Deeper
<1>. HIDE DEF Here
<1>. QED  BY <1>4, <1>5, <1>6

LEMMA DepthsAre ==
  ASSUME Measurable
  PROVE  /\ Depths \in [Nat -> [drafts -> Nat]]
         /\ \A n \in Nat, t \in drafts : Depths[n + 1][t] = Deeper(Depths[n], t)
<1>. DEFINE S == [drafts -> Nat]
            None == [t \in drafts |-> 0]
            F == [g \in S |-> [t \in drafts |-> Deeper(g, t)]]
            Solves(f) == f = [n \in Nat |-> IF n = 0 THEN None
                                ELSE [t \in drafts |-> Deeper(f[n - 1], t)]]
<1>1. None \in S /\ F \in [S -> S]
  BY DeeperIs
<1>2. PICK f \in [Nat -> S] : f[0] = None /\ \A n \in Nat : f[n + 1] = F[f[n]]
  <2>. HIDE DEF S, None, F
  <2>. QED  BY <1>1, Recursion
<1>3. ASSUME NEW n \in Nat
      PROVE  f[n] = IF n = 0 THEN None ELSE [t \in drafts |-> Deeper(f[n - 1], t)]
  <2>1. CASE n = 0
    BY <1>2, <2>1
  <2>2. CASE n /= 0
    <3>1. n - 1 \in Nat /\ (n - 1) + 1 = n
      BY <2>2
    <3>2. f[n] = F[f[n - 1]] /\ f[n - 1] \in S
      <4>. HIDE DEF F, S, None
      <4>. QED  BY <1>2, <3>1
    <3>. QED  BY <2>2, <3>2
  <2>. QED  BY <2>1, <2>2
<1>4. Solves(f)
  BY <1>2, <1>3
<1>5. Depths = CHOOSE g : Solves(g)
  BY DEF Depths, Deeper
<1>6. Solves(Depths)
  <2>. HIDE DEF Solves
  <2>. QED  BY <1>4, <1>5
<1>7. Depths[0] = None /\ \A n \in Nat : Depths[n + 1] = [t \in drafts |-> Deeper(Depths[n], t)]
  <2>1. ASSUME NEW n \in Nat
        PROVE  Depths[n] = IF n = 0 THEN None ELSE [t \in drafts |-> Deeper(Depths[n - 1], t)]
    BY <1>6
  <2>2. ASSUME NEW n \in Nat
        PROVE  Depths[n + 1] = [t \in drafts |-> Deeper(Depths[n], t)]
    <3>1. n + 1 \in Nat /\ n + 1 /= 0 /\ (n + 1) - 1 = n
      OBVIOUS
    <3>2. Depths[n + 1] = [t \in drafts |-> Deeper(Depths[(n + 1) - 1], t)]
      BY <2>1, <3>1
    <3>. QED  BY <3>1, <3>2
  <2>3. Depths[0] = None
    BY <2>1
  <2>. QED  BY <2>2, <2>3
<1>8. \A n \in Nat : Depths[n] \in S
  <2>. DEFINE Typed == {n \in Nat : Depths[n] \in S}
  <2>1. 0 \in Typed
    BY <1>7
  <2>2. ASSUME NEW n \in Nat, n \in Typed
        PROVE  n + 1 \in Typed
    <3>1. Depths[n] \in [drafts -> Nat]
      BY <2>2
    <3>2. \A t \in drafts : Deeper(Depths[n], t) \in Nat
      BY <3>1, DeeperIs
    <3>3. Depths[n + 1] = [t \in drafts |-> Deeper(Depths[n], t)]
      BY <1>7
    <3>4. n + 1 \in Nat
      OBVIOUS
    <3>. QED  BY <3>2, <3>3, <3>4
  <2>3. Nat \subseteq Typed
    <3>. HIDE DEF Typed
    <3>. QED  BY <2>1, <2>2, Inducts
  <2>. QED  BY <2>3
<1>9. Depths = [n \in Nat |-> Depths[n]]
  BY <1>6
<1>10. Depths \in [Nat -> [drafts -> Nat]]
  <2>. HIDE DEF Solves
  <2>. QED  BY <1>8, <1>9
<1>11. ASSUME NEW n \in Nat, NEW t \in drafts
       PROVE  Depths[n + 1][t] = Deeper(Depths[n], t)
  <2>1. Depths[n + 1] = [u \in drafts |-> Deeper(Depths[n], u)]
    BY <1>7
  <2>. HIDE DEF Solves
  <2>. QED  BY <2>1
<1>. QED  BY <1>7, <1>10, <1>11

\* A task is deeper than those it waits for.
LEMMA DepthGrows ==
  ASSUME Measurable, NEW n \in Nat, NEW t \in drafts
  PROVE  /\ Depths[n][t] \in Nat
         /\ Depths[n + 1][t] >= 1
         /\ \A d \in drafts : d.ref \in t.depends => Depths[n + 1][t] >= 1 + Depths[n][d]
<1>1. Depths[n] \in [drafts -> Nat] /\ Depths[n + 1][t] = Deeper(Depths[n], t)
  BY DepthsAre
<1>. QED  BY <1>1, DeeperIs

\* On a circle every depth is exceeded.
LEMMA CircleIsDeep ==
  ASSUME Measurable, NEW C \in SUBSET drafts,
         \A t \in C : \E d \in C : d.ref \in t.depends
  PROVE  \A n \in Nat : \A t \in C : Depths[n][t] >= n
<1>. DEFINE Deep == {n \in Nat : \A t \in C : Depths[n][t] >= n}
<1>1. 0 \in Deep
  BY DepthGrows
<1>2. ASSUME NEW n \in Nat, n \in Deep
      PROVE  n + 1 \in Deep
  <2>. SUFFICES ASSUME NEW t \in C
                PROVE  Depths[n + 1][t] >= n + 1
    OBVIOUS
  <2>1. PICK d \in C : d.ref \in t.depends
    OBVIOUS
  <2>2. Depths[n][d] >= n /\ Depths[n][d] \in Nat
    BY <1>2, <2>1, DepthGrows
  <2>3. Depths[n + 1][t] >= 1 + Depths[n][d] /\ Depths[n + 1][t] \in Nat
    BY <2>1, DepthGrows
  <2>. QED  BY <2>2, <2>3
<1>3. Nat \subseteq Deep
  <2>. HIDE DEF Deep
  <2>. QED  BY <1>1, <1>2, Inducts
<1>. QED  BY <1>3

\* The first task of a chain is as deep as the chain is long.
LEMMA ChainIsDeep ==
  ASSUME Measurable, NEW k \in Nat, NEW chain \in [1 .. k + 1 -> drafts],
         \A n \in 1 .. k : chain[n + 1].ref \in chain[n].depends
  PROVE  Depths[k + 1][chain[1]] >= k + 1
<1>. DEFINE Deep == {n \in Nat : n <= k => Depths[n + 1][chain[(k + 1) - n]] >= n + 1}
<1>1. 0 \in Deep
  <2>1. chain[(k + 1) - 0] \in drafts
    OBVIOUS
  <2>2. Depths[0 + 1][chain[(k + 1) - 0]] >= 0 + 1
    BY <2>1, DepthGrows
  <2>. QED  BY <2>2
<1>2. ASSUME NEW n \in Nat, n \in Deep
      PROVE  n + 1 \in Deep
  <2>. SUFFICES ASSUME n + 1 <= k
                PROVE  Depths[(n + 1) + 1][chain[(k + 1) - (n + 1)]] >= (n + 1) + 1
    OBVIOUS
  <2>1. PICK m \in 1 .. k : m = (k + 1) - (n + 1)
    OBVIOUS
  <2>2. m + 1 = (k + 1) - n /\ m + 1 \in 1 .. k + 1
    BY <2>1
  <2>3. Depths[n + 1][chain[m + 1]] >= n + 1
    BY <1>2, <2>2
  <2>4. chain[m] \in drafts /\ chain[m + 1] \in drafts /\ chain[m + 1].ref \in chain[m].depends
    BY <2>1, <2>2
  <2>5. /\ Depths[n + 1][chain[m + 1]] \in Nat /\ Depths[(n + 1) + 1][chain[m]] \in Nat
        /\ Depths[(n + 1) + 1][chain[m]] >= 1 + Depths[n + 1][chain[m + 1]]
    <3>1. n + 1 \in Nat /\ (n + 1) + 1 \in Nat
      OBVIOUS
    <3>. QED  BY <2>4, <3>1, DepthGrows
  <2>6. Depths[(n + 1) + 1][chain[m]] >= (n + 1) + 1
    <3>. DEFINE x == Depths[n + 1][chain[m + 1]]
                y == Depths[(n + 1) + 1][chain[m]]
    <3>1. x \in Nat /\ y \in Nat /\ y >= 1 + x /\ x >= n + 1
      BY <2>3, <2>5
    <3>. HIDE DEF x, y
    <3>2. y >= (n + 1) + 1
      BY <3>1
    <3>. QED  BY <3>2 DEF y
  <2>. QED  BY <2>1, <2>6
<1>3. Nat \subseteq Deep
  <2>. HIDE DEF Deep
  <2>. QED  BY <1>1, <1>2, Inducts
<1>4. Depths[k + 1][chain[(k + 1) - k]] >= k + 1
  BY <1>3
<1>5. (k + 1) - k = 1
  OBVIOUS
<1>. QED  BY <1>4, <1>5

\* What _validate_dag lets pass has no circle and no chain above the limit.
LEMMA ValidIsRunnable ==
  ASSUME Measurable, ValidDag
  PROVE  /\ \A circle \in (SUBSET drafts) \ {{}} :
              \E t \in circle : \A d \in circle : d.ref \notin t.depends
         /\ ~\E chain \in [1 .. MaxDepth + 1 -> drafts] :
              \A n \in 1 .. MaxDepth : chain[n + 1].ref \in chain[n].depends
<1>0. MaxDepth \in Nat /\ \A t \in drafts : Depths[MaxDepth + 1][t] <= MaxDepth
  BY PlannerAssumption DEF ValidDag
<1>1. ASSUME NEW C \in SUBSET drafts, C /= {},
             \A t \in C : \E d \in C : d.ref \in t.depends
      PROVE  FALSE
  <2>1. PICK t \in C : TRUE
    BY <1>1
  <2>2. Depths[MaxDepth + 1][t] >= MaxDepth + 1
    BY <1>0, <1>1, CircleIsDeep
  <2>3. Depths[MaxDepth + 1][t] \in Nat /\ Depths[MaxDepth + 1][t] <= MaxDepth
    BY <1>0, DepthGrows
  <2>. QED  BY <1>0, <2>2, <2>3
<1>2. ASSUME NEW chain \in [1 .. MaxDepth + 1 -> drafts],
             \A n \in 1 .. MaxDepth : chain[n + 1].ref \in chain[n].depends
      PROVE  FALSE
  <2>1. chain[1] \in drafts
    BY <1>0
  <2>2. Depths[MaxDepth + 1][chain[1]] >= MaxDepth + 1
    BY <1>0, <1>2, ChainIsDeep
  <2>3. Depths[MaxDepth + 1][chain[1]] \in Nat /\ Depths[MaxDepth + 1][chain[1]] <= MaxDepth
    BY <1>0, <2>1, DepthGrows
  <2>. QED  BY <1>0, <2>2, <2>3
<1>3. ASSUME NEW C \in (SUBSET drafts) \ {{}}
      PROVE  \E t \in C : \A d \in C : d.ref \notin t.depends
  BY <1>1
<1>. QED  BY <1>2, <1>3

-----------------------------------------------------------------------------
(* Drafts and the published Plan.                                          *)

LEMMA PublishedRuns ==
  ASSUME TypeOK, DraftInv, NEW r \in Runs, FinalizePlan(r)
  PROVE  PublishedIsRunnable'
<1>1. /\ Publishable /\ plan' = "ready"
      /\ tasks' = drafts /\ drafts' = {} /\ named' = {t.ref : t \in drafts}
  BY DEF FinalizePlan
<1>2. Measurable /\ ValidDag
  BY <1>1 DEF Publishable, ValidDag, Measurable, TypeOK, DraftInv
<1>. DEFINE names == {t.ref : t \in drafts}
<1>3. drafts /= {} /\ Cardinality(drafts) <= MaxTasks
  BY <1>1, PlannerAssumption, FS_EmptySet DEF Publishable
<1>4. Cardinality(names) = Cardinality(drafts)
  <2>. DEFINE f == [t \in drafts |-> t.ref]
  <2>1. f \in Surjection(drafts, names)
    BY DEF Surjection
  <2>2. f \in Injection(drafts, names)
    BY <1>2 DEF Injection, IsInjective, Measurable, Distinct
  <2>. HIDE DEF f, names
  <2>. QED  BY <1>2, <2>1, <2>2, FS_Surjection DEF Measurable
<1>5. \A t \in drafts : t.depends \subseteq names
  <2>1. ASSUME NEW t \in drafts, NEW ref \in t.depends
        PROVE  ref \in names
    BY <1>2, <2>1 DEF Measurable, RefsExist
  <2>. QED  BY <2>1
<1>6. {t.sequence : t \in drafts} = 1 .. Cardinality(drafts)
  BY <1>1 DEF Publishable
<1>. QED
  BY <1>1, <1>2, <1>3, <1>4, <1>5, <1>6, ValidIsRunnable DEF PublishedIsRunnable

LEMMA DraftStep ==
  ASSUME TypeOK, DraftInv, [Next]_vars
  PROVE  DraftInv'
<1>0. IsFiniteSet(drafts) /\ Distinct(drafts) /\ Cardinality(drafts) <= MaxTasks
  BY DEF DraftInv
<1>1. ASSUME plan' = plan, drafts' = drafts, tasks' = tasks, named' = named
      PROVE  DraftInv'
  BY <1>0, <1>1 DEF DraftInv, PublishedIsRunnable
<1>2. ASSUME plan' /= "ready", drafts' = drafts
      PROVE  DraftInv'
  BY <1>0, <1>2 DEF DraftInv
<1>3. ASSUME NEW r \in Runs, NEW t \in Task, CreateTask(r, t)
      PROVE  DraftInv'
  <2>1. /\ plan' /= "ready" /\ drafts' = drafts \cup {t} /\ Cardinality(drafts) < MaxTasks
        /\ \A d \in drafts : d.sequence /= t.sequence /\ d.ref /= t.ref
    BY <1>3 DEF CreateTask, Accepts
  <2>2. Distinct(drafts')
    BY <1>0, <2>1 DEF Distinct
  <2>3. IsFiniteSet(drafts') /\ Cardinality(drafts') <= MaxTasks
    <3>1. Cardinality(drafts) \in Nat /\ MaxTasks \in Nat
      BY <1>0, FS_CardinalityType, PlannerAssumption
    <3>2. IsFiniteSet(drafts') /\ Cardinality(drafts') \in {Cardinality(drafts), Cardinality(drafts) + 1}
      BY <1>0, <2>1, FS_AddElement
    <3>. QED  BY <2>1, <3>1, <3>2
  <2>. QED  BY <2>1, <2>2, <2>3 DEF DraftInv
<1>4. ASSUME NEW r \in Runs, FinalizePlan(r)
      PROVE  DraftInv'
  <2>1. drafts' = {} /\ MaxTasks \in Nat
    BY <1>4, PlannerAssumption DEF FinalizePlan
  <2>2. IsFiniteSet(drafts') /\ Cardinality(drafts') <= MaxTasks /\ Distinct(drafts')
    BY <2>1, FS_EmptySet DEF Distinct
  <2>. QED  BY <1>4, <2>2, PublishedRuns DEF DraftInv
<1>. QED
  BY <1>1, <1>2, <1>3, <1>4, DatabaseMoves
  DEF database, MarkUnsupported, MarkNeedsClarification, SetClarificationQuestion,
      MarkRetryPending, CloseTurn

-----------------------------------------------------------------------------
(* Theorems.                                                               *)

\* Rows, evidence and decisions, the drafts and the hand-over are described by
\* an inductive invariant.
THEOREM Invariance == Spec => []IInv
<1>1. ASSUME Init
      PROVE  IInv
  <2>1. << >> \in [1 .. 0 -> Round]
    OBVIOUS
  <2>2. Starting \in Run
    BY <2>1 DEF Starting, Run, Nodes
  <2>3. TypeOK
    BY <1>1, <2>2 DEF Init, TypeOK, PlanStatus
  <2>4. EvidenceInv /\ HandInv
    BY <1>1 DEF Init, Starting, EvidenceInv, Fits, Blank, HandInv, At
  <2>5. DraftInv
    BY <1>1, FS_EmptySet, PlannerAssumption DEF Init, DraftInv, Distinct
  <2>. QED  BY <2>3, <2>4, <2>5 DEF IInv
<1>2. ASSUME IInv, [Next]_vars
      PROVE  IInv'
  BY <1>2, TypeStep, RunStep, HandStep, DraftStep DEF IInv
<1>. QED  BY <1>1, <1>2, PTL DEF Spec

\* The rows of the Plan and the state of every run keep their types.
THEOREM TypeCorrect == Spec => []TypeOK
<1>1. IInv => TypeOK
  BY DEF IInv
<1>. QED  BY <1>1, Invariance, PTL

\* What _validate_dag and its neighbours let two concurrent runs publish can be
\* executed: numbered without a hole, closed under references, without circles
\* and without a chain above the limit.
THEOREM Published == Spec => []PublishedIsRunnable
<1>1. IInv => PublishedIsRunnable
  BY DEF IInv, DraftInv, PublishedIsRunnable
<1>. QED  BY <1>1, Invariance, PTL

\* Whatever the models answer, tasks are drafted and runs end on evidence that
\* allows it (validate_gap_decision).
THEOREM VerdictsBacked == Spec => []VerdictIsBacked
<1>1. ASSUME TypeOK, EvidenceInv, NEW r \in Runs
      PROVE  LET seen == {run[r].evidence[n] : n \in DOMAIN run[r].evidence} IN
             /\ At(r, "commit_plan") /\ run[r].decision = "none" =>
                  seen /= {} /\ \A round \in seen : round.items = {"succeeded"} /\ ~round.gap
             /\ run[r].decision = "RETRY" => \E round \in seen : "retryable" \in round.items
             /\ run[r].decision = "SYSTEM_FAILURE" => \E round \in seen : "final" \in round.items
             /\ run[r].decision = "COLLECT_MORE" => ~At(r, "resolve_gap") /\ ~At(r, "commit_plan")
  <2>0. Fits(r) /\ run[r].at \in Nodes
    BY <1>1 DEF EvidenceInv, TypeOK, Run
  <2>. DEFINE seen == {run[r].evidence[n] : n \in DOMAIN run[r].evidence}
  <2>1. ASSUME At(r, "commit_plan"), run[r].decision = "none"
        PROVE  seen /= {} /\ \A round \in seen : round.items = {"succeeded"} /\ ~round.gap
    <3>1. run[r].evidence \in [1 .. 1 -> Round] /\ ReadyForCommit(run[r].evidence[1])
      BY <2>0, <2>1 DEF Fits, RoundsSeen
    <3>. QED  BY <3>1 DEF ReadyForCommit
  <2>2. run[r].decision \in {"RETRY", "SYSTEM_FAILURE"} => Supported(r, run[r].decision, FALSE)
    BY <2>0 DEF Fits, Blank, At, Nodes
  <2>3. run[r].decision = "RETRY" => \E round \in seen : "retryable" \in round.items
    BY <2>2 DEF Supported, Failures
  <2>4. run[r].decision = "SYSTEM_FAILURE" => \E round \in seen : "final" \in round.items
    BY <2>2 DEF Supported, Failures
  <2>5. run[r].decision = "COLLECT_MORE" => ~At(r, "resolve_gap") /\ ~At(r, "commit_plan")
    BY <2>0 DEF Fits, Supported, At
  <2>. QED  BY <2>1, <2>3, <2>4, <2>5
<1>2. IInv => VerdictIsBacked
  BY <1>1 DEF IInv, VerdictIsBacked
<1>. QED  BY <1>2, Invariance, PTL

\* When no run is at work on it any more, the Plan is published, refused,
\* handed to its next revision, or its user has been asked.
THEOREM PlanHandedOn == Spec => []PlanIsHandedOn
<1>1. IInv => PlanIsHandedOn
  BY PlannerAssumption DEF IInv, HandInv, HandedOn, PlanIsHandedOn
<1>. QED  BY <1>1, Invariance, PTL

-----------------------------------------------------------------------------
(* What the Task Runtime gets.                                             *)

\* Only FinalizePlan writes tasks, and once they are published they stay.
LEMMA TasksMove ==
  ASSUME IInv, [Next]_vars
  PROVE  \/ tasks' = tasks /\ (plan' = "ready" <=> plan = "ready")
         \/ \E r \in Runs : FinalizePlan(r)
BY DatabaseMoves
DEF database, CreateTask, Accepts, MarkUnsupported, MarkNeedsClarification,
    SetClarificationQuestion, AwaitsQuestion, MarkRetryPending, CloseTurn

LEMMA TasksStep ==
  ASSUME IInv, TasksInv, [Next]_vars
  PROVE  TasksInv'
<1>1. ASSUME NEW r \in Runs, FinalizePlan(r)
      PROVE  TasksInv'
  <2>1. tasks' = drafts /\ IsFiniteSet(drafts) /\ Distinct(drafts)
    BY <1>1 DEF FinalizePlan, IInv, DraftInv
  <2>. QED  BY <2>1 DEF TasksInv
<1>. QED  BY <1>1, TasksMove DEF TasksInv

\* A task has its number alone.
LEMMA NumberedIs ==
  ASSUME Distinct(tasks), NEW t \in tasks
  PROVE  Numbered(t.sequence) = t
<1>1. \A d \in tasks : d.sequence = t.sequence => d = t
  BY DEF Distinct
<1>. QED  BY <1>1 DEF Numbered

LEMMA PublishedGraph ==
  ASSUME PublishedIsRunnable, TasksInv, plan = "ready"
  PROVE  IsTaskGraph(Cardinality(tasks), Dependencies)
<1>. DEFINE N == Cardinality(tasks)
            numbers == {t.sequence : t \in tasks}
<1>1. /\ IsFiniteSet(tasks) /\ Distinct(tasks) /\ tasks /= {}
      /\ numbers = 1 .. N
      /\ \A circle \in (SUBSET tasks) \ {{}} :
           \E t \in circle : \A d \in circle : d.ref \notin t.depends
  BY DEF PublishedIsRunnable, TasksInv
<1>2. N \in Nat \ {0}
  BY <1>1, FS_CardinalityType, FS_EmptySet
<1>. HIDE DEF N
<1>3. \A n \in 1 .. N : Dependencies[n] =
        {d.sequence : d \in {t \in tasks : t.ref \in Numbered(n).depends}}
  BY DEF Dependencies, N
<1>4. Dependencies \in [1 .. N -> SUBSET (1 .. N)]
  <2>1. \A n \in 1 .. N : Dependencies[n] \subseteq 1 .. N
    BY <1>1, <1>3
  <2>. QED  BY <2>1 DEF Dependencies, N
<1>5. ASSUME NEW S \in SUBSET (1 .. N), S /= {}
      PROVE  \E n \in S : Dependencies[n] \cap S = {}
  <2>. DEFINE circle == {t \in tasks : t.sequence \in S}
  <2>1. circle \in (SUBSET tasks) \ {{}}
    <3>1. PICK n \in S : n \in numbers
      BY <1>1, <1>5
    <3>2. PICK t \in tasks : t.sequence = n
      BY <3>1
    <3>. QED  BY <3>1, <3>2
  <2>2. PICK t \in circle : \A d \in circle : d.ref \notin t.depends
    BY <1>1, <2>1
  <2>3. t \in tasks /\ t.sequence \in S /\ Numbered(t.sequence) = t
    BY <1>1, <2>2, NumberedIs
  <2>4. Dependencies[t.sequence] = {d.sequence : d \in {u \in tasks : u.ref \in t.depends}}
    BY <1>3, <2>3
  <2>5. ASSUME NEW n \in Dependencies[t.sequence] \cap S
        PROVE  FALSE
    <3>1. PICK d \in tasks : d.ref \in t.depends /\ d.sequence = n
      BY <2>4, <2>5
    <3>. QED  BY <2>2, <2>5, <3>1
  <2>. QED  BY <2>3, <2>5
<1>. QED  BY <1>2, <1>4, <1>5 DEF IsTaskGraph, N

\* What planning publishes is what the Task Runtime takes for granted of the
\* Plan that it runs: its tasks and their dependency rows are a task graph.
THEOREM GraphHandedOn == Spec => []PublishedIsGraph
<1>1. Init => TasksInv
  BY DEF Init, TasksInv
<1>2. IInv /\ TasksInv /\ [Next]_vars => TasksInv'
  BY TasksStep
<1>3. IInv /\ TasksInv => PublishedIsGraph
  BY PublishedGraph DEF PublishedIsGraph, IInv, DraftInv, PublishedIsRunnable
<1>. QED  BY <1>1, <1>2, <1>3, Invariance, PTL DEF Spec

\* ... and it stays so: no run that comes late, no lost answer of FinalizePlan
\* and no closed Turn changes a Plan that the Task Runtime may be running.
THEOREM PublishedForGood ==
  Spec => [][plan = "ready" => UNCHANGED <<plan, drafts, tasks, named>>]_vars
<1>1. ASSUME IInv, [Next]_vars, plan = "ready"
      PROVE  UNCHANGED <<plan, drafts, tasks, named>>
  BY <1>1, DatabaseMoves
  DEF database, CreateTask, Accepts, FinalizePlan, Publishable, MarkUnsupported,
      MarkNeedsClarification, SetClarificationQuestion, AwaitsQuestion, MarkRetryPending,
      CloseTurn
<1>2. IInv /\ [Next]_vars => [plan = "ready" => UNCHANGED <<plan, drafts, tasks, named>>]_vars
  BY <1>1
<1>. QED  BY <1>2, Invariance, PTL DEF Spec
=============================================================================
