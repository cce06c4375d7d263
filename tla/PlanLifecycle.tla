--------------------------- MODULE PlanLifecycle ---------------------------
(***************************************************************************)
(* What the Task Runtime promises to the rest of the system about one      *)
(* Plan, without workers, events, executions or compensations: tasks are   *)
(* taken one at a time, in an order that respects the dependencies, each   *)
(* at most MaxAttempts times; the Plan ends when all have succeeded or one *)
(* has failed for good; a Plan may freeze with its task still taken.       *)
(***************************************************************************)
EXTENDS Integers

CONSTANTS
    Tasks,
    Deps,         \* task |-> the tasks it depends on
    MaxAttempts

VARIABLES
    phase,        \* "open", "completed" or "failed"
    done,         \* the tasks that have succeeded
    taken,        \* the set holding the task in progress, if any
    tries,        \* task |-> number of times it was taken
    frozen        \* compensation has been given up

vars == <<phase, done, taken, tries, frozen>>

Init ==
    /\ phase = "open"
    /\ done = {}
    /\ taken = {}
    /\ tries = [t \in Tasks |-> 0]
    /\ frozen = FALSE

Take(t) ==
    /\ phase = "open"
    /\ taken = {}
    /\ t \notin done
    /\ Deps[t] \subseteq done
    /\ tries[t] < MaxAttempts
    /\ taken' = {t}
    /\ tries' = [tries EXCEPT ![t] = @ + 1]
    /\ UNCHANGED <<phase, done, frozen>>

Succeed(t) ==
    /\ taken = {t}
    /\ ~frozen
    /\ taken' = {}
    /\ done' = done \cup {t}
    /\ phase' = IF done' = Tasks THEN "completed" ELSE "open"
    /\ UNCHANGED <<tries, frozen>>

\* The attempt has been undone and another one is left.
Release(t) ==
    /\ taken = {t}
    /\ ~frozen
    /\ tries[t] < MaxAttempts
    /\ taken' = {}
    /\ UNCHANGED <<phase, done, tries, frozen>>

\* The attempt has been undone and the Plan cannot go on.
GiveUp(t) ==
    /\ taken = {t}
    /\ ~frozen
    /\ taken' = {}
    /\ phase' = "failed"
    /\ UNCHANGED <<done, tries, frozen>>

\* The attempt cannot be undone: nothing will ever happen to the Plan again.
Freeze ==
    /\ taken # {}
    /\ frozen' = TRUE
    /\ UNCHANGED <<phase, done, taken, tries>>

Next ==
    \/ \E t \in Tasks : Take(t) \/ Succeed(t) \/ Release(t) \/ GiveUp(t)
    \/ Freeze

Spec == Init /\ [][Next]_vars
=============================================================================
