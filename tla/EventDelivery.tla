--------------------------- MODULE EventDelivery ---------------------------
(***************************************************************************)
(* The transport between a transaction that emits an event and the         *)
(* transaction that consumes it: outbox rows, any number of publisher      *)
(* loops, a Redis stream with one consumer group and its list of pending   *)
(* entries, the priority rounds of the stream workers, the dispatcher with *)
(* its inbox, and the acknowledgement.  Every worker process runs one      *)
(* publisher loop and one stream loop.                                     *)
(***************************************************************************)
EXTENDS Naturals, Sequences, FiniteSets, SequencesExt, FiniteSetsExt

CONSTANTS
  Events,        \* numbers; their order is that of (created_at, event_id)
  Separate,      \* the events whose inbox record is a transaction of its own
  Workers,       \* worker processes
  MaxAttempts,   \* failed publications that make a dead letter
  ReadCount,     \* messages per read of the stream
  MaxEntries,    \* bound: entries of the stream
  MaxFaults      \* bound: crashes, transient failures and long handlers

ASSUME EventsAssumption == Events \subseteq Nat /\ IsFiniteSet(Events)
ASSUME KindsAssumption == Separate \subseteq Events
ASSUME BoundsAssumption == /\ MaxAttempts \in Nat \ {0}
                           /\ ReadCount \in Nat \ {0}
                           /\ MaxEntries \in Nat
                           /\ MaxFaults \in Nat

\* The name of a consumer dies with its process: a restarted worker has a new
\* one, and the entries of the old one belong to nobody who still reads.
CONSTANT Gone
ASSUME GoneAssumption == Gone \notin Workers

VARIABLES
  row,      \* outbox: [status, attempts] of every event
  pub,      \* publisher loop of every worker: snapshot left, result of the head
  stream,   \* entries of the stream in the order of their ids
  last,     \* last id delivered to the group
  pel,      \* pending entries: id |-> [owner, idle]; idle: for 60 s or longer
  wk,       \* stream loop of every worker: where it is, ids left in its batch
  inbox,    \* events the consumer has recorded
  effects,  \* how often the effect of an event has been committed
  faults

vars == <<row, pub, stream, last, pel, wk, inbox, effects, faults>>

RowStatus == {"none", "pending", "published", "dead_letter"}
Row == [status : RowStatus, attempts : 0 .. MaxAttempts]
Publisher == [todo : Seq(Events), result : {"none", "sent", "failed"}]
Loop == [at : {"claim", "own", "new", "check", "execute", "record", "ack"},
         batch : Seq(Nat)]

TypeOK == /\ row \in [Events -> Row]
          /\ pub \in [Workers -> Publisher]
          /\ stream \in Seq(Events)
          /\ last \in 0 .. Len(stream)
          /\ DOMAIN pel \subseteq 1 .. last
          /\ \A i \in DOMAIN pel : pel[i] \in [owner : Workers \cup {Gone}, idle : BOOLEAN]
          /\ wk \in [Workers -> Loop]
          /\ \A w \in Workers : \A k \in DOMAIN wk[w].batch : wk[w].batch[k] \in 1 .. last
          /\ inbox \subseteq Events
          /\ effects \in [Events -> Nat]
          /\ faults \in 0 .. MaxFaults

IdlePublisher == [todo |-> << >>, result |-> "none"]
IdleLoop == [at |-> "claim", batch |-> << >>]

Init == /\ row = [e \in Events |-> [status |-> "none", attempts |-> 0]]
        /\ pub = [w \in Workers |-> IdlePublisher]
        /\ stream = << >> /\ last = 0
        /\ pel = [i \in {} |-> [owner |-> Gone, idle |-> FALSE]]
        /\ wk = [w \in Workers |-> IdleLoop]
        /\ inbox = {} /\ effects = [e \in Events |-> 0]
        /\ faults = 0

Fault == faults < MaxFaults /\ faults' = faults + 1
Ascending(S) ==
  CHOOSE s \in [1 .. Cardinality(S) -> S] :
    \A i, j \in 1 .. Cardinality(S) : i < j => s[i] < s[j]
FirstOf(S, n) == LET s == Ascending(S) IN SubSeq(s, 1, Min({n, Len(s)}))
Pending(e) == row[e].status = "pending"

(***************************************************************************)
(* The outbox.                                                             *)
(***************************************************************************)
\* A business transaction commits with its event in the outbox.
Emit(e) ==
  /\ row[e].status = "none"
  /\ row' = [row EXCEPT ![e].status = "pending"]
  /\ UNCHANGED <<pub, stream, last, pel, wk, inbox, effects, faults>>

Available == {e \in Events : Pending(e)}

\* Mutant: the batch is marked while its rows are locked, before it is sent.
LoadBatchMarking(w) ==
  /\ pub[w] = IdlePublisher /\ Available /= {}
  /\ pub' = [pub EXCEPT ![w].todo = Ascending(Available)]
  /\ row' = [e \in Events |-> IF Pending(e) THEN [row[e] EXCEPT !.status = "published"]
                                          ELSE row[e]]
  /\ UNCHANGED <<stream, last, pel, wk, inbox, effects, faults>>

\* The row locks of the SELECT end with its transaction: another publisher may
\* load the same rows before any of them is sent.
LoadBatch(w) ==
  /\ pub[w] = IdlePublisher /\ Available /= {}
  /\ pub' = [pub EXCEPT ![w].todo = Ascending(Available)]
  /\ UNCHANGED <<row, stream, last, pel, wk, inbox, effects, faults>>

Publish(w) ==
  /\ pub[w].todo /= << >> /\ pub[w].result = "none"
  /\ Len(stream) < MaxEntries /\ stream' = Append(stream, Head(pub[w].todo))
  /\ pub' = [pub EXCEPT ![w].result = "sent"]
  /\ UNCHANGED <<row, last, pel, wk, inbox, effects, faults>>

\* XADD raises: the entry was not added, or only its reply was lost.
PublishFails(w) ==
  /\ pub[w].todo /= << >> /\ pub[w].result = "none"
  /\ Fault
  /\ \/ UNCHANGED stream
     \/ Len(stream) < MaxEntries /\ stream' = Append(stream, Head(pub[w].todo))
  /\ pub' = [pub EXCEPT ![w].result = "failed"]
  /\ UNCHANGED <<row, last, pel, wk, inbox, effects>>

Advance(w) == pub' = [pub EXCEPT ![w] = [todo |-> Tail(@.todo), result |-> "none"]]

Published(r) == IF r.status = "pending" THEN [r EXCEPT !.status = "published"] ELSE r
Failed(r) ==
  IF r.status = "pending"
  THEN [attempts |-> r.attempts + 1,
        status |-> IF r.attempts + 1 >= MaxAttempts THEN "dead_letter" ELSE "pending"]
  ELSE r

MarkPublished(w) ==
  /\ pub[w].result = "sent"
  /\ row' = [row EXCEPT ![Head(pub[w].todo)] = Published(@)]
  /\ Advance(w)
  /\ UNCHANGED <<stream, last, pel, wk, inbox, effects, faults>>

MarkFailed(w) ==
  /\ pub[w].result = "failed"
  /\ row' = [row EXCEPT ![Head(pub[w].todo)] = Failed(@)]
  /\ Advance(w)
  /\ UNCHANGED <<stream, last, pel, wk, inbox, effects, faults>>

\* The transaction that should mark the row raises: the rest of the batch is
\* dropped and the row stays as it is.
MarkRaises(w) ==
  /\ pub[w].result /= "none"
  /\ Fault
  /\ pub' = [pub EXCEPT ![w] = IdlePublisher]
  /\ UNCHANGED <<row, stream, last, pel, wk, inbox, effects>>

(***************************************************************************)
(* One round of a stream loop: claim what has been idle, then the own      *)
(* backlog, then new entries; the first read that returns messages ends    *)
(* the round once they are handled.                                        *)
(***************************************************************************)
\* Mutant: entries of consumer names that are no longer in use are not claimed.
IdleOfWorkers == {i \in DOMAIN pel : pel[i].idle /\ pel[i].owner \in Workers}
Idle == {i \in DOMAIN pel : pel[i].idle}
Own(w) == {i \in DOMAIN pel : pel[i].owner = w}
\* Mutant: off by one, the last id is delivered again.
UnreadFromLast == last .. Len(stream)
Unread == last + 1 .. Len(stream)

\* The entries of ids are delivered to w: it owns them, and their idle time
\* starts again.
Deliver(w, ids) ==
  pel' = [i \in DOMAIN pel \cup Range(ids) |->
            IF i \in Range(ids) THEN [owner |-> w, idle |-> FALSE] ELSE pel[i]]

Dispatch(w, ids, nextPhase) ==
  wk' = [wk EXCEPT ![w] = [at |-> IF ids = << >> THEN nextPhase ELSE "check", batch |-> ids]]

ClaimIdle(w) ==
  /\ wk[w].at = "claim"
  /\ LET ids == FirstOf(Idle, ReadCount) IN Deliver(w, ids) /\ Dispatch(w, ids, "own")
  /\ UNCHANGED <<row, pub, stream, last, inbox, effects, faults>>

\* Reading the own backlog delivers its entries again, from the oldest.
ReadOwn(w) ==
  /\ wk[w].at = "own"
  /\ LET ids == FirstOf(Own(w), ReadCount) IN Deliver(w, ids) /\ Dispatch(w, ids, "new")
  /\ UNCHANGED <<row, pub, stream, last, inbox, effects, faults>>

ReadNew(w) ==
  /\ wk[w].at = "new"
  /\ LET ids == FirstOf(Unread, ReadCount)
     IN /\ Deliver(w, ids)
        /\ Dispatch(w, ids, "claim")
        /\ last' = last + Len(ids)
  /\ UNCHANGED <<row, pub, stream, inbox, effects, faults>>

(***************************************************************************)
(* The dispatcher, and the acknowledgement after it.                       *)
(***************************************************************************)
Current(w) == stream[Head(wk[w].batch)]
GoTo(w, step) == wk' = [wk EXCEPT ![w].at = step]

\* An exception leaves the message and the ones behind it in the batch pending.
Raise(w) == wk' = [wk EXCEPT ![w] = IdleLoop]

Check(w) ==
  /\ wk[w].at = "check"
  /\ GoTo(w, IF Current(w) \in inbox THEN "ack" ELSE "execute")
  /\ UNCHANGED <<row, pub, stream, last, pel, inbox, effects, faults>>

Committed(e) == effects' = [effects EXCEPT ![e] = @ + 1]

\* Mutant: the unique key of the inbox is missing.
ExecuteTwice(w) ==
  /\ wk[w].at = "execute"
  /\ Committed(Current(w))
  /\ inbox' = inbox \cup {Current(w)}
  /\ GoTo(w, "ack")
  /\ UNCHANGED <<row, pub, stream, last, pel, faults>>

\* The business transaction.  It records the event as well, and the unique key
\* of the inbox makes it fail as a whole when another worker has done so since;
\* an aggregation leaves the record to the dispatcher.
Execute(w) ==
  /\ wk[w].at = "execute"
  /\ LET e == Current(w)
     IN \/ e \in Separate /\ Committed(e) /\ GoTo(w, "record") /\ UNCHANGED inbox
        \/ /\ e \notin Separate \cup inbox
           /\ Committed(e) /\ inbox' = inbox \cup {e} /\ GoTo(w, "ack")
        \/ e \in inbox \ Separate /\ Raise(w) /\ UNCHANGED <<effects, inbox>>
  /\ UNCHANGED <<row, pub, stream, last, pel, faults>>

\* The record of the dispatcher: made, found, or refused by the unique key.
Record(w) ==
  /\ wk[w].at = "record"
  /\ inbox' = inbox \cup {Current(w)}
  /\ GoTo(w, "ack") \/ (Current(w) \in inbox /\ Raise(w))
  /\ UNCHANGED <<row, pub, stream, last, pel, effects, faults>>

\* XACK removes the entry whoever owns it by now.
Ack(w) ==
  /\ wk[w].at = "ack"
  /\ LET id == Head(wk[w].batch)
         left == Tail(wk[w].batch)
     IN /\ pel' = [i \in DOMAIN pel \ {id} |-> pel[i]]
        /\ Dispatch(w, left, "claim")
  /\ UNCHANGED <<row, pub, stream, last, inbox, effects, faults>>

(***************************************************************************)
(* Failures and time.                                                      *)
(***************************************************************************)
\* A database or Redis error inside the dispatcher or in the acknowledgement.
HandlerFails(w) ==
  /\ wk[w].at \in {"check", "execute", "record", "ack"}
  /\ Fault
  /\ Raise(w)
  /\ UNCHANGED <<row, pub, stream, last, pel, inbox, effects>>

\* The process ends and is started again under a new consumer name.
Crash(w) ==
  /\ Fault
  /\ pub' = [pub EXCEPT ![w] = IdlePublisher]
  /\ wk' = [wk EXCEPT ![w] = IdleLoop]
  /\ pel' = [i \in DOMAIN pel |-> IF pel[i].owner = w THEN [pel[i] EXCEPT !.owner = Gone]
                                                       ELSE pel[i]]
  /\ UNCHANGED <<row, stream, last, inbox, effects>>

\* The entries that the rounds of their owner deliver again and again, each time
\* after a back-off of at most half the idle time.
Refreshed(i) == LET w == pel[i].owner
                IN w /= Gone /\ i \in Range(FirstOf(Own(w), ReadCount))

\* Sixty seconds pass since the last delivery of an entry, and nobody delivers
\* it again.
AgeAbandoned ==
  \E i \in DOMAIN pel :
    /\ ~pel[i].idle /\ ~Refreshed(i)
    /\ pel' = [pel EXCEPT ![i].idle = TRUE]
    /\ UNCHANGED <<row, pub, stream, last, wk, inbox, effects, faults>>

\* A handler runs for sixty seconds: all entries of its worker have become idle
\* although it will acknowledge some of them later.
LongHandler(w) ==
  /\ wk[w].at = "execute"
  /\ Fault
  /\ pel' = [i \in DOMAIN pel |-> IF pel[i].owner = w THEN [pel[i] EXCEPT !.idle = TRUE]
                                                       ELSE pel[i]]
  /\ UNCHANGED <<row, pub, stream, last, wk, inbox, effects>>

PublisherStep(w) == LoadBatch(w) \/ Publish(w) \/ MarkPublished(w) \/ MarkFailed(w)
StreamStep(w) == \/ ClaimIdle(w) \/ ReadOwn(w) \/ ReadNew(w)
                 \/ Check(w) \/ Execute(w) \/ Record(w) \/ Ack(w)

Next ==
  \/ \E e \in Events : Emit(e)
  \/ \E w \in Workers : PublisherStep(w) \/ StreamStep(w)
  \/ \E w \in Workers : PublishFails(w) \/ MarkRaises(w) \/ HandlerFails(w)
                      \/ LongHandler(w) \/ Crash(w)
  \/ AgeAbandoned

Spec == Init /\ [][Next]_vars

\* Both loops of a process run until it is stopped; time passes.  Nothing is
\* assumed of emissions and faults.
Fairness == /\ \A w \in Workers : WF_vars(PublisherStep(w)) /\ WF_vars(StreamStep(w))
            /\ WF_vars(AgeAbandoned)

LiveSpec == Spec /\ Fairness

(***************************************************************************)
(* Properties.                                                             *)
(***************************************************************************)
Waiting(e) == \E i \in DOMAIN stream : stream[i] = e /\ (i > last \/ i \in DOMAIN pel)

\* An event that a transaction has committed is never lost on its way: until it
\* is recorded it is still in the outbox, is a dead letter, or has an entry that
\* is unread or pending (publish before mark, handle before XACK).
NothingLost ==
  \A e \in Events : row[e].status = "published" => e \in inbox \/ Waiting(e)

\* However often an event is published, delivered and claimed, the transaction
\* that records it with its effect commits once.
EffectOnce == \A e \in Events \ Separate : effects[e] <= 1

(***************************************************************************)
(* What the transport promises, as the callers see it.                     *)
(***************************************************************************)
Accepted == {e \in Events : row[e].status /= "none"}
DeadLetters == {e \in Events : row[e].status = "dead_letter"}
Promise == INSTANCE ReliableDelivery
             WITH accepted <- Accepted, done <- inbox, dropped <- DeadLetters
DeliversReliably == Promise!Spec

=============================================================================
