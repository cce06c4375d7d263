-------------------------- MODULE ReliableDelivery --------------------------
(***************************************************************************)
(* What the outbox, the stream and the inbox promise together: an event    *)
(* that was accepted with a transaction is consumed, or put aside as a     *)
(* dead letter where an operator finds it; it is never consumed unasked.   *)
(***************************************************************************)
CONSTANT Events
VARIABLES accepted, done, dropped

vars == <<accepted, done, dropped>>

Init == accepted = {} /\ done = {} /\ dropped = {}

Accept(e) == e \notin accepted /\ accepted' = accepted \cup {e} /\ UNCHANGED <<done, dropped>>
Consume(e) == e \in accepted \ done /\ done' = done \cup {e} /\ UNCHANGED <<accepted, dropped>>

\* A dead letter may still be consumed: its last publication may have been
\* reported as failed after the entry was added.
Drop(e) == e \in accepted \ dropped /\ dropped' = dropped \cup {e} /\ UNCHANGED <<accepted, done>>

Next == \E e \in Events : Accept(e) \/ Consume(e) \/ Drop(e)

Settled == \A e \in Events : e \in accepted ~> e \in done \cup dropped

Spec == Init /\ [][Next]_vars /\ Settled
=============================================================================
