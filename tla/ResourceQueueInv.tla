--------------------------- MODULE ResourceQueueInv ---------------------------
(***************************************************************************)
(* The inductive invariant of ResourceQueue: what a request carries fits a *)
(* version of the facts for good, whatever has happened since; under a     *)
(* lock that has not run out it fits the present one, unless a reader      *)
(* without the lock got in between.                                        *)
(***************************************************************************)
EXTENDS ResourceQueue

Versions == 0 .. databaseVersion

\* At first no key is known; nothing was used later than now, and an active key
\* has a Turn that used it.
HistoryInv ==
    /\ FactsAt(0) = [k \in Keys |-> NoFact]
    /\ \A v \in Versions, k \in Keys :
          /\ FactsAt(v)[k].seen <= clock
          /\ FactsAt(v)[k].active => FactsAt(v)[k].turn # 0

\* A version follows from the one before it by an update of its Turn, later than
\* all that came before.
Follows(v, u) ==
    \E t \in 0 .. clock :
        /\ FactsAt(v + 1) = FactsAfter(FactsAt(v), u, v + 1, t)
        /\ \A k \in Keys : FactsAt(v)[k].seen <= t

\* What a warm-up made of the facts, and with it the Turns.
WarmItems(facts) ==
    LET q == Warmup(facts)
    IN  [i \in DOMAIN q |-> [key |-> q[i], turn |-> facts[q[i]].turn]]

ProcInv ==
    \A p \in Procs :
        /\ At(p, "refresh") => /\ proc[p].seen + 1 \in Versions
                               /\ proc[p].update \in Updates
                               /\ Follows(proc[p].seen, proc[p].update)
        /\ At(p, "replace") => /\ proc[p].seen \in Versions
                               /\ proc[p].items = WarmItems(FactsAt(proc[p].seen))

\* A queue that has been dropped is empty.
DroppedInv ==
    version = Absent => queue = <<>> /\ \A k \in Keys : data[k] = Absent

-----------------------------------------------------------------------------
(* What a reader has read                                                  *)

Reading == {"getVersion", "getList", "getData", "warmup", "replace", "dropWarmup", "select"}

\* Until its answer is complete a reader has no items; then they are facts of
\* one version.
AnswerInv ==
    \A p \in Procs :
        /\ proc[p].pc \in {"idle", "load", "getVersion", "getList"} => proc[p].items = <<>>
        /\ proc[p].pc \in {"dropWarmup", "select"}
             => \E v \in Versions : ItemsMatch(proc[p].items, FactsAt(v))

\* Who changes the facts or the queue after them works under the lock.
LockInv ==
    \A p \in Procs :
        proc[p].pc \in {"commit", "refresh", "drop", "release"} => proc[p].locked

\* As long as no lock has expired, who works under it holds it, and the version
\* it has read is the present one.  If no older queue came in between, the queue
\* it found is still that of the version, or has been dropped.
AloneInv ==
    ~expired =>
        \A p \in Procs :
            proc[p].locked =>
                /\ holder = p
                /\ proc[p].pc \in Reading => proc[p].seen = databaseVersion
                /\ proc[p].pc \in {"getList", "getData"} /\ p \notin overtaken
                     => version \in {proc[p].seen, Absent}
                /\ proc[p].pc \in {"replace", "dropWarmup", "select"} /\ p \notin overtaken
                     => ItemsMatch(proc[p].items, Current)

IInv == /\ TypeOK /\ HistoryInv /\ ProcInv /\ DroppedInv
        /\ CacheShowsItsVersion /\ CacheHoldsTheNewest
        /\ AnswerInv /\ LockInv /\ AloneInv
=============================================================================
