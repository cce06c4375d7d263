---------------------------- MODULE ResourceQueue ----------------------------
(***************************************************************************)
(* The hot queue of recent resources of one context chain                  *)
(* (app/modules/context/application/resource_service.py and                *)
(* infrastructure/cache/redis_resource_queue.py).                          *)
(*                                                                         *)
(* MySQL holds the facts of the chain and counts their changes in          *)
(* resource_version.  Redis holds a bounded queue of the keys used last,   *)
(* tagged with the version it was made from.  Processes that select the    *)
(* context of a message read the queue and warm it up from MySQL when it   *)
(* does not fit; processes that complete a Turn change the facts in a      *)
(* transaction and refresh the queue after its commit.  Both work under a  *)
(* Redis lock of the conversation, which expires if it is held too long.   *)
(* A planner reads the queue of its Turn's chain, and warms it up, in the  *)
(* same way but without the lock.                                          *)
(*                                                                         *)
(* A Lua script is one step, a transaction is one step, and so is every    *)
(* single Redis command.                                                   *)
(***************************************************************************)
EXTENDS Integers, SequencesExt, Sorting

CONSTANTS
    Procs,       \* requests: selections, planners, completions of Turns
    NumKeys,     \* resource keys, in the order in which MySQL compares them
    Capacity,    \* capacity of the hot queue
    Updates,     \* the ChainTurnUpdates that Turns submit
    NoProc,      \* nobody holds the lock
    MaxVersion   \* bound: changes of the chain's resources

Keys == 1 .. NumKeys
Absent == -1

ASSUME SizeAssumption ==
    /\ NumKeys \in Nat
    /\ Capacity \in Nat \ {0}
    /\ MaxVersion \in Nat
    /\ NoProc \notin Procs

\* _validate_chain_updates: no key occurs twice.
ValidUpdate(u) ==
    /\ u \in [refreshed: Seq(Keys), removed: SUBSET Keys]
    /\ IsInjective(u.refreshed)
    /\ ToSet(u.refreshed) \cap u.removed = {}

ASSUME UpdatesAssumption == \A u \in Updates : ValidUpdate(u)

VARIABLES
    history,  \* the facts of the chain, one for each resource_version
    clock,    \* now, in the seconds of a DATETIME column
    version,  \* Redis: the version key, or Absent
    queue,    \* Redis: the list of resource keys, oldest first
    data,     \* Redis: the hash; key |-> the Turn that used it last, or Absent
    holder,   \* Redis: who holds the lock of the conversation
    expired,  \* history: a lock has run out before its holder let it go
    overtaken,  \* history: who met an older queue put in place behind its GET
    proc      \* what each request is doing

cacheVars == <<version, queue, data>>
vars == <<history, clock, cacheVars, holder, expired, overtaken, proc>>

-----------------------------------------------------------------------------
(* Facts and queues *)

\* A row of context_chain_resources.  A Turn changes the version at most once,
\* so the version it made names it; 0 stands for a key never seen.
Fact == [turn: Nat, seen: Nat, active: BOOLEAN]
NoFact == [turn |-> 0, seen |-> 0, active |-> FALSE]

databaseVersion == Len(history) - 1
FactsAt(v) == history[v + 1]
Current == FactsAt(databaseVersion)

Item == [key: Keys, turn: Nat]

\* The items of a queue that stay when some keys leave it.
Increasing(I) == SortedBy(I, {ij \in I \X I : ij[1] < ij[2]})
WithoutKeys(q, S) ==
    LET kept == Increasing({i \in DOMAIN q : q[i] \notin S})
    IN  [n \in DOMAIN kept |-> q[kept[n]]]

\* Faulty variant: off by one.
KeepOneMore(q) ==
    IF Len(q) > Capacity + 1 THEN SubSeq(q, Len(q) - Capacity, Len(q)) ELSE q

\* LPOP while length > max_size; resources[-capacity:]
KeepNewest(q) ==
    IF Len(q) > Capacity THEN SubSeq(q, Len(q) - Capacity + 1, Len(q)) ELSE q

\* ORDER BY last_seen_at DESC, resource_key DESC, read from the back.
Before(facts, k, l) ==
    \/ facts[k].seen < facts[l].seen
    \/ facts[k].seen = facts[l].seen /\ k < l

Oldest(facts) == {kl \in Keys \X Keys : Before(facts, kl[1], kl[2])}

ActiveKeys(facts) == {k \in Keys : facts[k].active}

\* Faulty variant: resources that were removed are warmed up again.
WarmupOfAll(facts) ==
    KeepNewest(SortedBy({k \in Keys : facts[k].turn # 0}, Oldest(facts)))

\* _load_resources_for_warmup: the active resources used last, oldest first.
Warmup(facts) ==
    KeepNewest(SortedBy(ActiveKeys(facts), Oldest(facts)))

\* REFRESH_QUEUE_LUA: refreshed keys move to the tail, removed ones leave, and
\* the head is cut off.
Refreshed(q, u) ==
    KeepNewest(WithoutKeys(
        WithoutKeys(q, ToSet(u.refreshed)) \o u.refreshed, u.removed))

\* upsert_chain_resource and deactivate_chain_resource
FactsAfter(facts, u, turn, now) ==
    [k \in Keys |->
        IF k \in ToSet(u.refreshed)
        THEN [turn |-> turn, seen |-> now, active |-> TRUE]
        ELSE [facts[k] EXCEPT !.active = @ /\ k \notin u.removed]]

-----------------------------------------------------------------------------
(* Requests *)

NoUpdate == [refreshed |-> <<>>, removed |-> {}]
Idle == [pc |-> "idle", locked |-> FALSE, seen |-> 0, items |-> <<>>,
         keys |-> <<>>, update |-> NoUpdate]

TypeOK ==
    /\ history \in Seq([Keys -> Fact]) /\ history # <<>>
    /\ clock \in Nat
    /\ version \in Nat \cup {Absent}
    /\ queue \in Seq(Keys) /\ Len(queue) <= Capacity
    /\ data \in [Keys -> Nat \cup {Absent}]
    /\ holder \in Procs \cup {NoProc}
    /\ expired \in BOOLEAN
    /\ overtaken \in SUBSET Procs
    /\ proc \in [Procs ->
          [pc: {"idle", "load", "getVersion", "getList", "getData", "warmup",
                "replace", "dropWarmup", "select", "commit", "refresh",
                "drop", "release"},
           locked: BOOLEAN,    \* works under the lock of the conversation
           seen: Nat,          \* resource_version, at load or at commit
           items: Seq(Item),   \* the resource queue for the agent
           keys: Seq(Keys),    \* the list read from Redis
           update: [refreshed: Seq(Keys), removed: SUBSET Keys]]]

Init ==
    /\ history = <<[k \in Keys |-> NoFact]>>
    /\ clock = 0
    /\ version = Absent
    /\ queue = <<>>
    /\ data = [k \in Keys |-> Absent]
    /\ holder = NoProc
    /\ expired = FALSE
    /\ overtaken = {}
    /\ proc = [p \in Procs |-> Idle]

At(p, pc) == proc[p].pc = pc
Goto(p, pc) == proc' = [proc EXCEPT ![p].pc = pc]
Miss(p) == proc' = [proc EXCEPT ![p].pc = "warmup", ![p].keys = <<>>]
Drop(p) == proc' = [proc EXCEPT ![p] = [Idle EXCEPT !.pc = "drop", !.locked = TRUE]]

\* The end of the work; who works under the lock has yet to release it.
Leave(p) ==
    proc' = [proc EXCEPT ![p] =
                IF proc[p].locked
                THEN [Idle EXCEPT !.pc = "release", !.locked = TRUE]
                ELSE Idle]

\* hold: the lock is acquired, for send_message or for complete_turn.
Acquire(p) ==
    /\ At(p, "idle")
    /\ holder = NoProc
    /\ holder' = p
    /\ \E pc \in {"load", "commit"} :
          proc' = [proc EXCEPT ![p].pc = pc, ![p].locked = TRUE]
    /\ UNCHANGED <<history, clock, cacheVars, expired, overtaken>>

\* _load_plannable_input: a planner reads the queue without the lock.
Plan(p) ==
    /\ At(p, "idle")
    /\ Goto(p, "load")
    /\ UNCHANGED <<history, clock, cacheVars, holder, expired, overtaken>>

\* hold: the end of the scope.  A lock that has expired, and may be somebody
\* else's by now, is left alone and the request fails.
Release(p) ==
    /\ At(p, "release")
    /\ holder' = IF holder = p THEN NoProc ELSE holder
    /\ proc' = [proc EXCEPT ![p] = Idle]
    /\ UNCHANGED <<history, clock, cacheVars, expired, overtaken>>

-----------------------------------------------------------------------------
(* Selection: get_queue *)

\* _create_turn_and_load_chains, or _load_plannable_snapshot of a planner, reads
\* the version of the chain.
Load(p) ==
    /\ At(p, "load")
    /\ proc' = [proc EXCEPT ![p].pc = "getVersion", ![p].seen = databaseVersion]
    /\ UNCHANGED <<history, clock, cacheVars, holder, expired, overtaken>>

\* Faulty variant: any version will do.
GetAnyVersion(p) ==
    /\ At(p, "getVersion")
    /\ Goto(p, IF version # Absent THEN "getList" ELSE "warmup")
    /\ UNCHANGED <<history, clock, cacheVars, holder, expired, overtaken>>

\* GET of the version key
GetVersion(p) ==
    /\ At(p, "getVersion")
    /\ Goto(p, IF version = proc[p].seen THEN "getList" ELSE "warmup")
    /\ UNCHANGED <<history, clock, cacheVars, holder, expired, overtaken>>

\* LRANGE: an empty list is a hit, one that is too long is a miss.
GetList(p) ==
    /\ At(p, "getList")
    /\ \/ queue = <<>> /\ Goto(p, "select")
       \/ Len(queue) > Capacity /\ Miss(p)
       \/ /\ Len(queue) \in 1 .. Capacity
          /\ proc' = [proc EXCEPT ![p].pc = "getData", ![p].keys = queue]
    /\ UNCHANGED <<history, clock, cacheVars, holder, expired, overtaken>>

\* HMGET: a key without data is a miss.
GetData(p) ==
    LET keys == proc[p].keys
    IN  /\ At(p, "getData")
        /\ IF \E i \in DOMAIN keys : data[keys[i]] = Absent
           THEN Miss(p)
           ELSE proc' = [proc EXCEPT
                   ![p].pc = "select",
                   ![p].keys = <<>>,
                   ![p].items = [i \in DOMAIN keys |->
                                   [key |-> keys[i], turn |-> data[keys[i]]]]]
        /\ UNCHANGED <<history, clock, cacheVars, holder, expired, overtaken>>

\* Any Redis error on the way is taken for a miss.
GetFails(p) ==
    /\ proc[p].pc \in {"getVersion", "getList", "getData"}
    /\ Miss(p)
    /\ UNCHANGED <<history, clock, cacheVars, holder, expired, overtaken>>

\* _load_resources_for_warmup: one snapshot of the chain and its resources.
LoadForWarmup(p) ==
    LET q == Warmup(Current)
    IN  /\ At(p, "warmup")
        /\ databaseVersion = proc[p].seen
        /\ proc' = [proc EXCEPT
              ![p].pc = "replace",
              ![p].items = [i \in DOMAIN q |->
                              [key |-> q[i], turn |-> Current[q[i]].turn]]]
        /\ overtaken' = overtaken \ {p}
        /\ UNCHANGED <<history, clock, cacheVars, holder, expired>>

\* The version has moved on: the selection fails.
WarmupRefused(p) ==
    /\ At(p, "warmup")
    /\ databaseVersion # proc[p].seen
    /\ Leave(p)
    /\ overtaken' = overtaken \ {p}
    /\ UNCHANGED <<history, clock, cacheVars, holder, expired>>

\* Between its GET and its HMGET, and waiting for the queue of a later version.
ReadingLater(v) ==
    {q \in Procs : proc[q].pc \in {"getList", "getData"} /\ proc[q].seen > v}

\* REPLACE_QUEUE_LUA.  The call may fail, and fail after its effect.
ReplaceQueue(p) ==
    LET items == proc[p].items
        keys == [i \in DOMAIN items |-> items[i].key]
    IN  /\ At(p, "replace")
        /\ version' = proc[p].seen
        /\ queue' = keys
        /\ data' = [k \in Keys |->
              IF k \in ToSet(keys)
              THEN items[CHOOSE i \in DOMAIN items : items[i].key = k].turn
              ELSE Absent]
        /\ \E pc \in {"select", "dropWarmup"} : Goto(p, pc)
        /\ overtaken' = overtaken \cup ReadingLater(proc[p].seen)
        /\ UNCHANGED <<history, clock, holder, expired>>

ReplaceFails(p) ==
    /\ At(p, "replace")
    /\ Goto(p, "dropWarmup")
    /\ UNCHANGED <<history, clock, cacheVars, holder, expired, overtaken>>

\* The agent has seen the queue, and its selection or its plan is made.
Select(p) ==
    /\ At(p, "select")
    /\ Leave(p)
    /\ overtaken' = overtaken \ {p}
    /\ UNCHANGED <<history, clock, cacheVars, holder, expired>>

-----------------------------------------------------------------------------
(* Completion: apply_in_transaction and refresh_after_commit *)

\* _complete_turn_in_transaction with an update that touches resources; the
\* chain is locked from the read of its version to the commit.  Several
\* commits may happen within one second.
Commit(p) ==
    /\ At(p, "commit")
    /\ databaseVersion < MaxVersion
    /\ clock' \in {clock, clock + 1}
    /\ \E u \in Updates :
          /\ u # NoUpdate
          /\ history' = Append(history, FactsAfter(Current, u,
                                                   databaseVersion + 1, clock'))
          /\ proc' = [proc EXCEPT ![p].pc = "refresh", ![p].update = u,
                                  ![p].seen = databaseVersion]
    /\ UNCHANGED <<cacheVars, holder, expired, overtaken>>

\* A Turn that touches no resource of the chain: nothing to refresh.
CommitNothing(p) ==
    /\ At(p, "commit")
    /\ Leave(p)
    /\ UNCHANGED <<history, clock, cacheVars, holder, expired, overtaken>>

\* Faulty variant: a missing queue is as good as an empty one.
ContinuesMissing(v) == version \in {v, Absent}

\* Faulty variant: a refresh applies to whatever queue is there.
ContinuesAnything(v) == TRUE

\* The compare-and-set of REFRESH_QUEUE_LUA: a queue that is missing may be
\* started only from version 0.
Continues(v) == version = v \/ (version = Absent /\ v = 0)

\* REFRESH_QUEUE_LUA.  The call may fail, and fail after its effect.
RefreshQueue(p) ==
    LET u == proc[p].update
        q == Refreshed(queue, u)
        turn == proc[p].seen + 1
    IN  /\ At(p, "refresh")
        /\ Continues(proc[p].seen)
        /\ version' = proc[p].seen + 1
        /\ queue' = q
        /\ data' = [k \in Keys |->
              IF k \notin ToSet(q) THEN Absent
              ELSE IF k \in ToSet(u.refreshed) THEN turn ELSE data[k]]
        /\ Leave(p) \/ Drop(p)
        /\ UNCHANGED <<history, clock, holder, expired, overtaken>>

\* The versions do not connect, or Redis fails: the queue is dropped.
RefreshRefused(p) ==
    /\ At(p, "refresh")
    /\ Drop(p)
    /\ UNCHANGED <<history, clock, cacheVars, holder, expired, overtaken>>

\* _best_effort_invalidate: DEL of all three keys, or a failure ignored.
Invalidate(p) ==
    /\ \/ At(p, "drop") /\ Leave(p)
       \/ At(p, "dropWarmup") /\ Goto(p, "select")
    /\ \/ /\ version' = Absent
          /\ queue' = <<>>
          /\ data' = [k \in Keys |-> Absent]
       \/ UNCHANGED cacheVars
    /\ UNCHANGED <<history, clock, holder, expired, overtaken>>

-----------------------------------------------------------------------------
(* Environment *)

\* lock_timeout passes.
Expire ==
    /\ holder # NoProc
    /\ holder' = NoProc
    /\ expired' = TRUE
    /\ UNCHANGED <<history, clock, cacheVars, overtaken, proc>>

\* The process dies: its lock stays until it expires.
Crash(p) ==
    /\ ~At(p, "idle")
    /\ proc' = [proc EXCEPT ![p] = Idle]
    /\ overtaken' = overtaken \ {p}
    /\ UNCHANGED <<history, clock, cacheVars, holder, expired>>

Step(p) ==
    \/ Acquire(p)
    \/ Plan(p)
    \/ Release(p)
    \/ Load(p)
    \/ GetVersion(p)
    \/ GetList(p)
    \/ GetData(p)
    \/ GetFails(p)
    \/ LoadForWarmup(p)
    \/ WarmupRefused(p)
    \/ ReplaceQueue(p)
    \/ ReplaceFails(p)
    \/ Select(p)
    \/ Commit(p)
    \/ CommitNothing(p)
    \/ RefreshQueue(p)
    \/ RefreshRefused(p)
    \/ Invalidate(p)
    \/ Crash(p)

Next == Expire \/ \E p \in Procs : Step(p)

Spec == Init /\ [][Next]_vars

-----------------------------------------------------------------------------
(* Properties *)

\* Whatever the interleaving, the failures and the expired locks: the queue
\* cached under a version shows that version.  Each key in it was active then,
\* with the Turn that had used it last, and occurs once.
CacheShowsItsVersion ==
    version # Absent =>
        /\ version <= databaseVersion
        /\ IsInjective(queue)
        /\ ToSet(queue) \subseteq ActiveKeys(FactsAt(version))
        /\ \A k \in Keys :
              data[k] = IF k \in ToSet(queue) THEN FactsAt(version)[k].turn
                                               ELSE Absent

\* Nothing has been removed from the chain up to version v.
NeverRemoved(v) ==
    \A u \in 0 .. v, k \in Keys :
        FactsAt(u)[k].turn # 0 => k \in ActiveKeys(FactsAt(u))

\* The queue holds the resources used last, in the order of their use, and as
\* many as it has room for: the incremental refresh and the warm-up agree up to
\* ties within a second, and up to the vacancies that removals leave.
CacheHoldsTheNewest ==
    version # Absent =>
        LET facts == FactsAt(version)
            left == ActiveKeys(facts) \ ToSet(queue)
        IN  /\ \A i, j \in DOMAIN queue :
                  i < j => facts[queue[i]].seen <= facts[queue[j]].seen
            /\ \A k \in left, l \in ToSet(queue) :
                  facts[k].seen <= facts[l].seen
            /\ NeverRemoved(version) /\ left # {} => Len(queue) = Capacity

ItemsMatch(items, facts) ==
    \A i \in DOMAIN items :
        /\ facts[items[i].key].active
        /\ facts[items[i].key].turn = items[i].turn

\* GET, LRANGE and HMGET are three commands, and refreshes, drops and the warm-ups
\* of planners come between them.  Yet what is shown to an agent are facts of
\* one version, all of them: never a resource of one Turn beside the state that
\* another had changed.
ShowsOneVersion ==
    \A p \in Procs :
        At(p, "select") =>
            \E v \in 0 .. databaseVersion : ItemsMatch(proc[p].items, FactsAt(v))

\* Under the lock the agent is shown the facts of the moment, as the last
\* completed Turn has left them, with two exceptions: a lock has expired, or a
\* planner, which takes no lock, has put an older queue in place between the
\* GET and the HMGET.
SelectionIsCurrent ==
    \A p \in Procs :
        At(p, "select") /\ proc[p].locked /\ ~expired /\ p \notin overtaken
            => ItemsMatch(proc[p].items, Current)

=============================================================================
