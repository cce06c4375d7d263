-------------------------- MODULE EventDeliveryInv --------------------------
(***************************************************************************)
(* The inductive invariant of EventDelivery: why no event is lost and no   *)
(* effect is committed twice.                                              *)
(***************************************************************************)
EXTENDS EventDelivery

Holding == {"check", "execute", "record", "ack"}
Sent(e) == \E i \in DOMAIN stream : stream[i] = e
Emitted(e) == row[e].status /= "none"

\* An event that is not published yet has publications left, and one that is
\* marked as published has an entry.
RowInv == \A e \in Events :
             /\ row[e].status \in {"none", "pending"} => row[e].attempts < MaxAttempts
             /\ row[e].status = "published" => Sent(e)

\* A publisher works on emitted events; it marks an event as published only
\* after its entry was added.
PublisherInv ==
  \A w \in Workers :
    LET p == pub[w]
    IN /\ \A k \in DOMAIN p.todo : Emitted(p.todo[k])
       /\ p.result /= "none" => p.todo /= << >>
       /\ p.result = "sent" => Sent(Head(p.todo))

\* An entry leaves the list of pending entries only with its event recorded.
StreamInv == /\ \A i \in DOMAIN stream : Emitted(stream[i])
             /\ \A i \in 1 .. last : i \in DOMAIN pel \/ stream[i] \in inbox

\* A worker acknowledges only an entry whose event is recorded, and leaves only
\* an aggregation to the record of the dispatcher.
LoopInv ==
  \A w \in Workers :
    /\ wk[w].at \in Holding => wk[w].batch /= << >>
    /\ wk[w].at = "ack" => Current(w) \in inbox
    /\ wk[w].at = "record" => Current(w) \in Separate

\* The effect of an event and its inbox row are committed together.
EffectInv == \A e \in Events \ Separate :
                effects[e] = IF e \in inbox THEN 1 ELSE 0

IInv == TypeOK /\ RowInv /\ PublisherInv /\ StreamInv /\ LoopInv /\ EffectInv

-----------------------------------------------------------------------------
(* What the consumers take for granted (Delivered of TaskRuntime, Takes    *)
(* and Acknowledge of TurnWorkflow), besides NothingLost.                  *)

\* A handler runs only for an event that some transaction has committed.
HandledIsEmitted ==
  \A w \in Workers : wk[w].at \in Holding => Current(w) \in Accepted

\* Whoever acknowledges an entry, its owner or one it was taken from, the event
\* is recorded by then; until it is, its entry stays unread or pending.
LeavesRecorded ==
  [][\A i \in DOMAIN stream :
        (i > last \/ i \in DOMAIN pel) /\ ~(i > last \/ i \in DOMAIN pel)'
        => stream[i] \in inbox']_vars
=============================================================================
