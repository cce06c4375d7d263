------------------------ MODULE EventDeliveryProofs ------------------------
(***************************************************************************)
(* Proofs about EventDelivery for any number of events, workers,           *)
(* publications, entries and faults.                                       *)
(***************************************************************************)
EXTENDS EventDeliveryInv, SequenceTheorems, FiniteSetTheorems,
        WellFoundedInduction, TLAPS

-----------------------------------------------------------------------------
(* The operators of the model *)

\* Every nonempty set of numbers has a least member: the form in which the
\* induction principle can be used for a set instead of an operator.
LEMMA Least ==
  ASSUME NEW T \in SUBSET Nat, T /= {}
  PROVE  \E x \in T : \A y \in T : x <= y
<1>. DEFINE R == {ss \in Nat \X Nat : ss[1] < ss[2]}
<1>1. IsWellFoundedOn(R, Nat)
  BY NatLessThanWellFounded DEF OpToRel
<1>. HIDE DEF R
<1>2. PICK x \in T : \A y \in T : ~(<<y, x>> \in R)
  BY <1>1, WFMin
<1>3. \A y \in T : ~(y < x)
  BY <1>2 DEF R
<1>. QED  BY <1>3

LEMMA MinOfTwo ==
  ASSUME NEW a \in Nat, NEW b \in Nat
  PROVE  Min({a, b}) = IF a <= b THEN a ELSE b
BY DEF Min

\* s is S in ascending order.
Sorts(s, S) ==
  /\ s \in [1 .. Cardinality(S) -> S]
  /\ \A i, j \in 1 .. Cardinality(S) : i < j => s[i] < s[j]

LEMMA Sortable ==
  ASSUME NEW S \in SUBSET Nat, IsFiniteSet(S)
  PROVE  \E s : Sorts(s, S)
<1>. DEFINE Bad == {n \in Nat : \E U \in SUBSET Nat :
                       /\ IsFiniteSet(U) /\ Cardinality(U) = n
                       /\ \A s : ~Sorts(s, U)}
<1>1. ASSUME Bad /= {}
      PROVE  FALSE
  <2>1. PICK n \in Bad : \A m \in Bad : n <= m
    BY <1>1, Least
  <2>2. PICK U \in SUBSET Nat :
           /\ IsFiniteSet(U) /\ Cardinality(U) = n
           /\ \A s : ~Sorts(s, U)
    BY <2>1
  <2>3. CASE U = {}
    <3>1. Cardinality(U) = 0
      BY <2>3, FS_EmptySet
    <3>2. Sorts([i \in 1 .. 0 |-> 0], U)
      BY <3>1 DEF Sorts
    <3>. QED  BY <2>2, <3>2
  <2>4. CASE U /= {}
    <3>1. PICK m \in U : \A y \in U : m <= y
      BY <2>4, Least
    <3>. DEFINE V == U \ {m}
    <3>2. /\ V \in SUBSET Nat /\ IsFiniteSet(V) /\ Cardinality(V) = n - 1
          /\ n \in Nat
      BY <2>1, <2>2, <3>1, FS_RemoveElement
    <3>3. n - 1 \in Nat /\ n - 1 \notin Bad
      <4>1. n - 1 \in Nat
        BY <3>2, FS_CardinalityType
      <4>. QED  BY <2>1, <4>1
    <3>4. PICK s : Sorts(s, V)
      BY <3>2, <3>3
    <3>. DEFINE r == [i \in 1 .. n |-> IF i = 1 THEN m ELSE s[i - 1]]
    <3>. HIDE DEF Bad
    <3>5. \A i \in 1 .. n : i /= 1 => i - 1 \in 1 .. n - 1
      BY <3>2
    <3>6. \A i \in 1 .. n - 1 : s[i] \in V
      BY <3>2, <3>4 DEF Sorts
    <3>7. r \in [1 .. n -> U]
      BY <3>1, <3>5, <3>6
    <3>8. ASSUME NEW i \in 1 .. n, NEW j \in 1 .. n, i < j
          PROVE  r[i] < r[j]
      <4>1. j /= 1 /\ j - 1 \in 1 .. n - 1 /\ s[j - 1] \in V
        BY <3>2, <3>6, <3>8
      <4>2. CASE i = 1
        <5>1. r[i] = m /\ r[j] = s[j - 1] /\ s[j - 1] /= m
          BY <3>8, <4>1, <4>2
        <5>2. s[j - 1] \in Nat /\ m \in Nat /\ m <= s[j - 1]
          BY <3>1, <4>1
        <5>. QED  BY <5>1, <5>2
      <4>3. CASE i /= 1
        <5>1. i - 1 \in 1 .. n - 1 /\ i - 1 < j - 1
          BY <3>2, <3>8, <4>3
        <5>2. s[i - 1] < s[j - 1]
          BY <3>2, <3>4, <4>1, <5>1 DEF Sorts
        <5>. QED  BY <4>1, <4>3, <5>2
      <4>. QED  BY <4>2, <4>3
    <3>9. Sorts(r, U)
      BY <2>2, <3>7, <3>8 DEF Sorts
    <3>. QED  BY <2>2, <3>9
  <2>. QED  BY <2>3, <2>4
<1>2. Cardinality(S) \in Nat
  BY FS_CardinalityType
<1>. QED  BY <1>1, <1>2

LEMMA AscendingSorts ==
  ASSUME NEW S \in SUBSET Nat, IsFiniteSet(S)
  PROVE  Sorts(Ascending(S), S) /\ Ascending(S) \in Seq(S)
<1>1. Sorts(Ascending(S), S)
  BY Sortable DEF Sorts, Ascending
<1>2. Cardinality(S) \in Nat
  BY FS_CardinalityType
<1>. QED  BY <1>1, <1>2 DEF Sorts

\* FirstOf returns members of its set, a beginning of the ascending order.
LEMMA FirstOfType ==
  ASSUME NEW S \in SUBSET Nat, IsFiniteSet(S), NEW n \in Nat
  PROVE  /\ FirstOf(S, n) \in Seq(S)
         /\ \E k \in 0 .. Cardinality(S) :
               FirstOf(S, n) = [i \in 1 .. k |-> Ascending(S)[i]]
<1>. DEFINE s == Ascending(S)
            k == Min({n, Len(s)})
<1>1. /\ s \in Seq(S) /\ Len(s) = Cardinality(S) /\ Cardinality(S) \in Nat
  BY AscendingSorts, FS_CardinalityType DEF Sorts
<1>2. k \in 0 .. Len(s)
  BY <1>1, MinOfTwo
<1>3. /\ SubSeq(s, 1, k) \in Seq(S)
      /\ SubSeq(s, 1, k) = [i \in 1 .. k |-> s[i]]
  <2>. DEFINE t == SubSeq(s, 1, k)
  <2>. HIDE DEF s, k
  <2>1. k \in Int /\ \A i \in 1 .. k : s[i] \in S
    BY <1>1, <1>2
  <2>2. t \in Seq(S) /\ Len(t) = k /\ \A i \in 1 .. k : t[i] = s[i]
    BY <1>1, <1>2, <2>1, SubSeqProperties
  <2>. HIDE DEF t
  <2>3. t = [i \in 1 .. k |-> s[i]]
    BY <2>2
  <2>. QED  BY <2>2, <2>3 DEF t
<1>. QED  BY <1>1, <1>2, <1>3 DEF FirstOf

\* The first ids of an interval are the interval's beginning.
LEMMA FirstOfInterval ==
  ASSUME NEW a \in Nat, NEW b \in Nat, a <= b, NEW n \in Nat
  PROVE  LET ids == FirstOf(a + 1 .. b, n)
         IN  /\ Len(ids) \in 0 .. b - a
             /\ Range(ids) = a + 1 .. a + Len(ids)
<1>. DEFINE S == a + 1 .. b
            s == Ascending(S)
            c == b - a
<1>1. IsFiniteSet(S) /\ Cardinality(S) = c /\ c \in Nat /\ S \in SUBSET Nat
  <2>1. IsFiniteSet(S) /\ Cardinality(S) = IF a + 1 > b THEN 0 ELSE b - (a + 1) + 1
    BY FS_Interval
  <2>. QED  BY <2>1
<1>2. /\ s \in [1 .. c -> S]
      /\ \A i, j \in 1 .. c : i < j => s[i] < s[j]
  BY <1>1, AscendingSorts DEF Sorts
<1>. HIDE DEF s
<1>3. \A i \in 1 .. c : s[i] >= a + i
  <2>. DEFINE Low == {i \in 1 .. c : s[i] < a + i}
  <2>1. ASSUME Low /= {} PROVE FALSE
    <3>1. PICK i \in Low : \A j \in Low : i <= j
      <4>1. Low \in SUBSET Nat
        BY <1>1
      <4>. HIDE DEF Low
      <4>. QED  BY <2>1, <4>1, Least
    <3>2. i /= 1
      BY <1>1, <1>2, <3>1
    <3>3. i - 1 \in 1 .. c /\ i - 1 \notin Low
      BY <1>1, <3>1, <3>2
    <3>4. s[i - 1] < s[i] /\ s[i - 1] \in Nat /\ s[i] \in Nat
      BY <1>1, <1>2, <3>1, <3>3
    <3>. QED  BY <3>1, <3>3, <3>4
  <2>2. ASSUME NEW i \in 1 .. c
        PROVE  s[i] >= a + i
    <3>1. s[i] \in Nat
      BY <1>1, <1>2
    <3>2. ~(s[i] < a + i)
      BY <2>1
    <3>. QED  BY <3>1, <3>2
  <2>. QED  BY <2>2
<1>4. \A i \in 1 .. c : s[i] <= a + i
  <2>. DEFINE High == {k \in 0 .. c - 1 : s[c - k] > a + (c - k)}
  <2>1. ASSUME High /= {} PROVE FALSE
    <3>1. PICK k \in High : \A j \in High : k <= j
      <4>1. High \in SUBSET Nat
        BY <1>1
      <4>. HIDE DEF High
      <4>. QED  BY <2>1, <4>1, Least
    <3>2. k /= 0
      BY <1>1, <1>2, <3>1
    <3>3. k - 1 \in 0 .. c - 1 /\ k - 1 \notin High
      BY <1>1, <3>1, <3>2
    <3>4. /\ c - k \in 1 .. c /\ c - (k - 1) \in 1 .. c
          /\ c - k < c - (k - 1)
      BY <1>1, <3>1, <3>3
    <3>5. /\ s[c - k] < s[c - (k - 1)]
          /\ s[c - k] \in Nat /\ s[c - (k - 1)] \in Nat
      BY <1>1, <1>2, <3>4
    <3>. QED  BY <1>1, <3>1, <3>3, <3>5
  <2>2. ASSUME NEW i \in 1 .. c
        PROVE  s[i] <= a + i
    <3>1. c - i \in 0 .. c - 1 /\ c - (c - i) = i
      BY <1>1
    <3>2. c - i \notin High
      BY <2>1
    <3>3. s[i] \in Nat
      BY <1>1, <1>2
    <3>. QED  BY <1>1, <3>1, <3>2, <3>3
  <2>. QED  BY <2>2
<1>5. \A i \in 1 .. c : s[i] = a + i
  BY <1>1, <1>2, <1>3, <1>4
<1>6. PICK k \in 0 .. c : FirstOf(S, n) = [i \in 1 .. k |-> s[i]]
  BY <1>1, FirstOfType DEF s
<1>7. Len(FirstOf(S, n)) = k
  BY <1>1, <1>6
<1>8. Range(FirstOf(S, n)) = {s[i] : i \in 1 .. k}
  BY <1>6 DEF Range
<1>9. {s[i] : i \in 1 .. k} = a + 1 .. a + k
  <2>1. \A x \in a + 1 .. a + k : x - a \in 1 .. k /\ s[x - a] = x
    BY <1>1, <1>5
  <2>. QED  BY <1>1, <1>5, <2>1
<1>. QED  BY <1>1, <1>7, <1>8, <1>9

-----------------------------------------------------------------------------
(* Shapes *)

LEMMA StreamShape ==
  ASSUME TypeOK
  PROVE  /\ Len(stream) \in Nat /\ DOMAIN stream = 1 .. Len(stream)
         /\ \A i \in DOMAIN stream : stream[i] \in Events
         /\ last \in Nat /\ last <= Len(stream)
         /\ DOMAIN pel \subseteq 1 .. last
         /\ 1 .. last \subseteq DOMAIN stream
<1>1. Len(stream) \in Nat /\ DOMAIN stream = 1 .. Len(stream)
  BY LenProperties DEF TypeOK
<1>. QED  BY <1>1, ElementOfSeq DEF TypeOK

\* The message a worker handles is an entry it has been given.
LEMMA CurrentEntry ==
  ASSUME TypeOK, LoopInv, NEW w \in Workers, wk[w].at \in Holding
  PROVE  /\ wk[w].batch \in Seq(Nat) /\ wk[w].batch /= << >>
         /\ Head(wk[w].batch) = wk[w].batch[1]
         /\ 1 \in DOMAIN wk[w].batch
         /\ Head(wk[w].batch) \in 1 .. last
         /\ Head(wk[w].batch) \in DOMAIN stream
         /\ Current(w) \in Events
<1>1. wk[w].batch \in Seq(Nat) /\ wk[w].batch /= << >>
  BY DEF TypeOK, Loop, LoopInv
<1>2. 1 \in DOMAIN wk[w].batch /\ Head(wk[w].batch) = wk[w].batch[1]
  BY <1>1, EmptySeq, LenProperties
<1>3. Head(wk[w].batch) \in 1 .. last
  BY <1>2 DEF TypeOK
<1>. QED  BY <1>1, <1>2, <1>3, StreamShape DEF Current

\* The event a publisher is about to send or mark.
LEMMA HeadOfBatch ==
  ASSUME TypeOK, NEW w \in Workers, pub[w].todo /= << >>
  PROVE  /\ pub[w].todo \in Seq(Events)
         /\ 1 \in DOMAIN pub[w].todo
         /\ Head(pub[w].todo) = pub[w].todo[1]
         /\ Head(pub[w].todo) \in Events
         /\ Tail(pub[w].todo) \in Seq(Events)
         /\ \A k \in DOMAIN Tail(pub[w].todo) :
               /\ k + 1 \in DOMAIN pub[w].todo
               /\ Tail(pub[w].todo)[k] = pub[w].todo[k + 1]
<1>1. pub[w].todo \in Seq(Events)
  BY DEF TypeOK, Publisher
<1>2. 1 \in DOMAIN pub[w].todo /\ Head(pub[w].todo) = pub[w].todo[1]
  BY <1>1, EmptySeq, LenProperties
<1>. QED  BY <1>1, <1>2, HeadTailProperties, LenProperties

-----------------------------------------------------------------------------
(* What the steps do *)

\* Entries are only ever added to the stream.
StreamGrows ==
  /\ stream' \in Seq(Events)
  /\ DOMAIN stream \subseteq DOMAIN stream'
  /\ Len(stream) <= Len(stream')
  /\ \A i \in DOMAIN stream : stream'[i] = stream[i]

LEMMA AppendGrows ==
  ASSUME TypeOK, NEW e \in Events, stream' = Append(stream, e)
  PROVE  /\ StreamGrows
         /\ DOMAIN stream' = DOMAIN stream \cup {Len(stream) + 1}
         /\ stream'[Len(stream) + 1] = e
<1>1. /\ Len(stream) \in Nat /\ DOMAIN stream = 1 .. Len(stream)
      /\ stream \in Seq(Events)
  BY StreamShape DEF TypeOK
<1>2. /\ stream' \in Seq(Events) /\ Len(stream') = Len(stream) + 1
      /\ \A i \in 1 .. Len(stream) : stream'[i] = stream[i]
      /\ stream'[Len(stream) + 1] = e
  BY <1>1, AppendProperties
<1>3. DOMAIN stream' = 1 .. Len(stream) + 1
  BY <1>2, LenProperties
<1>. QED  BY <1>1, <1>2, <1>3 DEF StreamGrows

\* The steps of a publisher, and of the transaction that emits.
Publishing(w) == \/ LoadBatch(w) \/ Publish(w) \/ PublishFails(w)
                 \/ MarkPublished(w) \/ MarkFailed(w) \/ MarkRaises(w)

\* What a read of the stream by worker w has in common with the others.
ReadsAs(w, ids, phase) ==
  /\ ids \in Seq(Nat)
  /\ phase \in {"claim", "own", "new"}
  /\ last' \in last .. Len(stream)
  /\ last + 1 .. last' \subseteq Range(ids)
  /\ Range(ids) \subseteq 1 .. last'
  /\ Deliver(w, ids) /\ Dispatch(w, ids, phase)
Reads(w) == \E ids, phase : ReadsAs(w, ids, phase)

LEMMA ReadsEntries ==
  ASSUME IInv, NEW w \in Workers, ClaimIdle(w) \/ ReadOwn(w) \/ ReadNew(w)
  PROVE  /\ Reads(w)
         /\ UNCHANGED <<row, pub, stream, inbox, effects, faults>>
<1>1. /\ TypeOK /\ ReadCount \in Nat /\ last \in Nat
      /\ Len(stream) \in Nat /\ last <= Len(stream)
      /\ DOMAIN pel \subseteq 1 .. last
  BY StreamShape, BoundsAssumption DEF IInv
<1>2. ASSUME NEW S \in SUBSET (1 .. last), last' = last,
             NEW phase \in {"claim", "own", "new"},
             Deliver(w, FirstOf(S, ReadCount)),
             Dispatch(w, FirstOf(S, ReadCount), phase)
      PROVE  Reads(w)
  <2>. DEFINE ids == FirstOf(S, ReadCount)
  <2>1. S \in SUBSET Nat /\ IsFiniteSet(S)
    <3>1. IsFiniteSet(1 .. last)
      BY <1>1, FS_Interval
    <3>2. IsFiniteSet(S)
      BY <3>1, FS_Subset
    <3>. QED  BY <1>1, <3>2
  <2>2. ids \in Seq(S)
    BY <1>1, <2>1, FirstOfType
  <2>3. Deliver(w, ids) /\ Dispatch(w, ids, phase)
    BY <1>2
  <2>. HIDE DEF ids
  <2>4. Range(ids) \subseteq S
    BY <2>2, ElementOfSeq, LenProperties DEF Range
  <2>5. ids \in Seq(Nat)
    BY <2>1, <2>2, SeqMonotonic
  <2>6. ReadsAs(w, ids, phase)
    <3>1. last' \in last .. Len(stream) /\ last + 1 .. last' = {}
      BY <1>1, <1>2
    <3>. QED  BY <1>2, <2>3, <2>4, <2>5, <3>1 DEF ReadsAs
  <2>. QED  BY <2>6 DEF Reads
<1>3. CASE ClaimIdle(w)
  BY <1>1, <1>2, <1>3 DEF ClaimIdle, Idle
<1>4. CASE ReadOwn(w)
  BY <1>1, <1>2, <1>4 DEF ReadOwn, Own
<1>5. CASE ReadNew(w)
  <2>. DEFINE S == last + 1 .. Len(stream)
              ids == FirstOf(S, ReadCount)
  <2>1. /\ Len(ids) \in 0 .. Len(stream) - last
        /\ Range(ids) = last + 1 .. last + Len(ids)
    BY <1>1, FirstOfInterval
  <2>2. S \in SUBSET Nat /\ IsFiniteSet(S)
    BY <1>1, FS_Interval
  <2>3. ids \in Seq(Nat)
    BY <1>1, <2>2, FirstOfType, SeqMonotonic
  <2>4. /\ last' = last + Len(ids) /\ Deliver(w, ids)
        /\ Dispatch(w, ids, "claim")
    BY <1>5 DEF ReadNew, Unread
  <2>. HIDE DEF S, ids
  <2>5. /\ last' \in last .. Len(stream)
        /\ last + 1 .. last' \subseteq Range(ids)
        /\ Range(ids) \subseteq 1 .. last'
    BY <1>1, <2>1, <2>4
  <2>6. ReadsAs(w, ids, "claim")
    BY <2>3, <2>4, <2>5 DEF ReadsAs
  <2>7. Reads(w)
    BY <2>6 DEF Reads
  <2>. QED  BY <1>5, <2>7 DEF ReadNew
<1>. QED
  BY <1>3, <1>4, <1>5 DEF ClaimIdle, ReadOwn, ReadNew

-----------------------------------------------------------------------------
(* Types *)

LEMMA InitIInv == Init => IInv
<1>. SUFFICES ASSUME Init PROVE IInv
  OBVIOUS
<1>1. << >> \in Seq(Events) /\ << >> \in Seq(Nat) /\ Len(<< >>) = 0
  BY EmptySeq
<1>2. TypeOK
  BY <1>1, BoundsAssumption
  DEF Init, TypeOK, Row, RowStatus, Publisher, Loop, IdlePublisher, IdleLoop
<1>3. RowInv /\ PublisherInv
  BY <1>1, EmptySeq, BoundsAssumption DEF Init, RowInv, PublisherInv, Pending, IdlePublisher
<1>4. StreamInv /\ LoopInv /\ EffectInv
  BY <1>1 DEF Init, StreamInv, LoopInv, EffectInv, IdleLoop, Holding
<1>. QED  BY <1>2, <1>3, <1>4 DEF IInv

\* The rows that are waiting to be published can be put in order.
LEMMA AvailableSorted ==
  ASSUME TypeOK
  PROVE  /\ Ascending(Available) \in Seq(Events)
         /\ \A k \in DOMAIN Ascending(Available) : Ascending(Available)[k] \in Available
<1>1. Available \in SUBSET Nat /\ Available \in SUBSET Events
  BY EventsAssumption DEF Available
<1>2. IsFiniteSet(Available)
  BY <1>1, FS_Subset, EventsAssumption
<1>3. Ascending(Available) \in Seq(Available)
  BY <1>1, <1>2, AscendingSorts
<1>. QED  BY <1>1, <1>3, SeqMonotonic, ElementOfSeq, LenProperties

\* A row after a failed publication.
LEMMA FailedRow ==
  ASSUME NEW r \in Row, r.status = "pending" => r.attempts < MaxAttempts
  PROVE  /\ Failed(r) \in Row
         /\ Failed(r).status = "pending" => Failed(r).attempts < MaxAttempts
         /\ (Failed(r).status = "none") = (r.status = "none")
         /\ (Failed(r).status = "published") = (r.status = "published")
         /\ r.status = "dead_letter" => Failed(r) = r
<1>1. /\ r.attempts \in 0 .. MaxAttempts /\ MaxAttempts \in Nat
      /\ r.status \in RowStatus
  BY BoundsAssumption DEF Row
<1>2. CASE r.status = "pending"
  BY <1>1, <1>2 DEF Failed, Row, RowStatus
<1>3. CASE r.status /= "pending"
  BY <1>1, <1>3 DEF Failed
<1>. QED  BY <1>2, <1>3

LEMMA PublishedRow ==
  ASSUME NEW r \in Row
  PROVE  /\ Published(r) \in Row
         /\ Published(r).status /= "pending"
         /\ (Published(r).status = "none") = (r.status = "none")
         /\ Published(r).status = "published" => r.status \in {"pending", "published"}
         /\ r.status = "dead_letter" => Published(r) = r
BY DEF Published, Row, RowStatus

\* The pending entries and the loops when the stream may have grown.
LEMMA EntriesKept ==
  ASSUME TypeOK, StreamGrows, UNCHANGED <<last, pel, wk>>
  PROVE  /\ last' \in 0 .. Len(stream')
         /\ DOMAIN pel' \subseteq 1 .. last'
         /\ \A i \in DOMAIN pel' : pel'[i] \in [owner : Workers \cup {Gone}, idle : BOOLEAN]
         /\ wk' \in [Workers -> Loop]
         /\ \A w \in Workers : \A k \in DOMAIN wk'[w].batch : wk'[w].batch[k] \in 1 .. last'
<1>1. /\ Len(stream) \in Nat /\ last \in Nat /\ last <= Len(stream)
      /\ Len(stream') \in Nat /\ Len(stream) <= Len(stream')
  BY StreamShape, LenProperties DEF StreamGrows
<1>2. last' \in 0 .. Len(stream')
  BY <1>1
<1>. QED  BY <1>2 DEF TypeOK

LEMMA SameStream ==
  ASSUME TypeOK, UNCHANGED stream
  PROVE  StreamGrows
BY StreamShape DEF StreamGrows, TypeOK

LEMMA PublishingTypes ==
  ASSUME IInv, NEW w \in Workers, Publishing(w)
  PROVE  TypeOK' /\ StreamGrows
<1>. USE DEF IInv
<1>1. /\ row \in [Events -> Row] /\ pub \in [Workers -> Publisher]
      /\ faults \in 0 .. MaxFaults /\ MaxFaults \in Nat
      /\ inbox \subseteq Events /\ effects \in [Events -> Nat]
  BY BoundsAssumption DEF TypeOK
<1>2. pub[w].todo \in Seq(Events) /\ << >> \in Seq(Events)
  BY <1>1, EmptySeq DEF Publisher
<1>3. StreamGrows
  <2>1. CASE Publish(w)
    BY <2>1, HeadOfBatch, AppendGrows DEF Publish
  <2>2. CASE PublishFails(w)
    BY <2>2, HeadOfBatch, AppendGrows, SameStream DEF PublishFails
  <2>. QED
    BY <2>1, <2>2, SameStream
    DEF Publishing, LoadBatch, MarkPublished, MarkFailed, MarkRaises
<1>4. UNCHANGED <<last, pel, wk, inbox, effects>>
  BY DEF Publishing, LoadBatch, Publish, PublishFails, MarkPublished, MarkFailed, MarkRaises
<1>5. faults' \in 0 .. MaxFaults
  BY <1>1 DEF Publishing, LoadBatch, Publish, PublishFails, MarkPublished,
              MarkFailed, MarkRaises, Fault
<1>6. pub' \in [Workers -> Publisher]
  <2>1. CASE LoadBatch(w)
    <3>1. PICK s \in Seq(Events) : pub' = [pub EXCEPT ![w].todo = s]
      BY <2>1, AvailableSorted DEF LoadBatch
    <3>. QED  BY <1>1, <3>1 DEF Publisher
  <2>2. CASE Publish(w) \/ PublishFails(w)
    BY <1>1, <2>2 DEF Publish, PublishFails, Publisher
  <2>3. CASE MarkPublished(w) \/ MarkFailed(w)
    <3>1. pub[w].todo /= << >>
      BY <2>3 DEF MarkPublished, MarkFailed, PublisherInv
    <3>2. Tail(pub[w].todo) \in Seq(Events)
      BY <3>1, HeadOfBatch
    <3>3. [todo |-> Tail(pub[w].todo), result |-> "none"] \in Publisher
      BY <3>2 DEF Publisher
    <3>4. pub' = [pub EXCEPT ![w] = [todo |-> Tail(pub[w].todo), result |-> "none"]]
      BY <1>1, <2>3 DEF MarkPublished, MarkFailed, Advance
    <3>. QED  BY <1>1, <3>3, <3>4
  <2>4. CASE MarkRaises(w)
    BY <1>1, <1>2, <2>4 DEF MarkRaises, Publisher, IdlePublisher
  <2>. QED  BY <2>1, <2>2, <2>3, <2>4 DEF Publishing
<1>7. row' \in [Events -> Row]
  <2>1. CASE MarkPublished(w) \/ MarkFailed(w)
    <3>1. pub[w].todo /= << >>
      BY <2>1 DEF MarkPublished, MarkFailed, PublisherInv
    <3>2. Head(pub[w].todo) \in Events
      BY <3>1, HeadOfBatch
    <3>3. PICK e \in Events : e = Head(pub[w].todo)
      BY <3>2
    <3>4. /\ row[e] \in Row
          /\ row[e].status = "pending" => row[e].attempts < MaxAttempts
      BY <1>1, <3>3 DEF RowInv, Pending
    <3>5. Published(row[e]) \in Row /\ Failed(row[e]) \in Row
      BY <3>4, PublishedRow, FailedRow
    <3>. QED  BY <1>1, <2>1, <3>3, <3>5 DEF MarkPublished, MarkFailed
  <2>. QED  BY <1>1, <2>1 DEF Publishing, LoadBatch, Publish, PublishFails, MarkRaises
<1>8. stream' \in Seq(Events)
  BY <1>3 DEF StreamGrows
<1>. QED  BY <1>1, <1>3, <1>4, <1>5, <1>6, <1>7, <1>8, EntriesKept DEF TypeOK

\* Delivering the entries of a batch keeps the types.
LEMMA ReadsTypes ==
  ASSUME IInv, NEW w \in Workers, Reads(w), 
         UNCHANGED <<row, pub, stream, inbox, effects, faults>>
  PROVE  TypeOK'
<1>. USE DEF IInv
<1>1. PICK ids, phase : ReadsAs(w, ids, phase)
  BY DEF Reads
<1>2. /\ ids \in Seq(Nat) /\ phase \in {"claim", "own", "new"}
      /\ last' \in last .. Len(stream)
      /\ Range(ids) \subseteq 1 .. last'
      /\ Deliver(w, ids) /\ Dispatch(w, ids, phase)
  BY <1>1 DEF ReadsAs
<1>3. /\ last \in Nat /\ Len(stream) \in Nat /\ 1 .. last \subseteq 1 .. last'
      /\ last' \in 0 .. Len(stream')
  BY <1>2, StreamShape
<1>4. DOMAIN pel' \subseteq 1 .. last'
  BY <1>2, <1>3, StreamShape DEF Deliver
<1>5. \A i \in DOMAIN pel' : pel'[i] \in [owner : Workers \cup {Gone}, idle : BOOLEAN]
  BY <1>2 DEF Deliver, TypeOK
<1>6. wk' \in [Workers -> Loop]
  BY <1>2 DEF Dispatch, TypeOK, Loop
<1>7. ASSUME NEW u \in Workers, NEW k \in DOMAIN wk'[u].batch
      PROVE  wk'[u].batch[k] \in 1 .. last'
  <2>1. CASE u = w
    <3>1. wk'[u].batch = ids
      BY <1>2, <2>1 DEF Dispatch, TypeOK
    <3>. QED  BY <1>2, <1>7, <3>1 DEF Range
  <2>2. CASE u /= w
    <3>1. wk'[u] = wk[u]
      BY <1>2, <2>2 DEF Dispatch, TypeOK
    <3>. QED  BY <1>3, <1>7, <3>1 DEF TypeOK
  <2>. QED  BY <2>1, <2>2
<1>. QED  BY <1>3, <1>4, <1>5, <1>6, <1>7 DEF TypeOK

\* The steps of a dispatcher and of the acknowledgement after it.
Handling(w) == Check(w) \/ Execute(w) \/ Record(w) \/ Ack(w) \/ HandlerFails(w)

\* A loop that handles a message goes to another step, gives up, or goes on
\* with the rest of its batch.
LEMMA LoopMoves ==
  ASSUME IInv, NEW w \in Workers, Handling(w)
  PROVE  \/ \E at \in {"execute", "record", "ack"} : wk' = [wk EXCEPT ![w].at = at]
         \/ wk' = [wk EXCEPT ![w] = IdleLoop]
         \/ /\ Ack(w)
            /\ \E at \in {"claim", "check"} :
                  /\ wk' = [wk EXCEPT ![w] = [at |-> at, batch |-> Tail(wk[w].batch)]]
                  /\ at = "check" => Tail(wk[w].batch) /= << >>
<1>1. CASE Check(w)
  BY <1>1 DEF Check, GoTo
<1>2. CASE Execute(w)
  BY <1>2 DEF Execute, GoTo, Raise
<1>3. CASE Record(w)
  BY <1>3 DEF Record, GoTo, Raise
<1>4. CASE Ack(w)
  <2>. DEFINE left == Tail(wk[w].batch)
              at == IF left = << >> THEN "claim" ELSE "check"
  <2>1. wk' = [wk EXCEPT ![w] = [at |-> at, batch |-> left]]
    BY <1>4 DEF Ack, Dispatch
  <2>2. at \in {"claim", "check"} /\ (at = "check" => left /= << >>)
    OBVIOUS
  <2>. HIDE DEF at
  <2>. QED  BY <1>4, <2>1, <2>2
<1>5. CASE HandlerFails(w)
  BY <1>5 DEF HandlerFails, Raise
<1>. QED  BY <1>1, <1>2, <1>3, <1>4, <1>5 DEF Handling

\* Handling starts from a nonempty batch, whose rest is delivered entries too.
LEMMA RestOfBatch ==
  ASSUME IInv, NEW w \in Workers, wk[w].at \in Holding
  PROVE  /\ Tail(wk[w].batch) \in Seq(Nat)
         /\ \A k \in DOMAIN Tail(wk[w].batch) : Tail(wk[w].batch)[k] \in 1 .. last
<1>1. /\ wk[w].batch \in Seq(Nat) /\ wk[w].batch /= << >>
      /\ \A k \in DOMAIN wk[w].batch : wk[w].batch[k] \in 1 .. last
  BY DEF IInv, TypeOK, Loop, LoopInv
<1>2. Tail(wk[w].batch) \in Seq(Nat)
  BY <1>1, HeadTailProperties
<1>3. ASSUME NEW k \in DOMAIN Tail(wk[w].batch)
      PROVE  Tail(wk[w].batch)[k] \in 1 .. last
  <2>1. /\ k + 1 \in DOMAIN wk[w].batch
        /\ Tail(wk[w].batch)[k] = wk[w].batch[k + 1]
    BY <1>1, <1>2, <1>3, HeadTailProperties, LenProperties
  <2>. QED  BY <1>1, <2>1
<1>. QED  BY <1>2, <1>3

LEMMA HandlingHolds ==
  ASSUME NEW w \in Workers, Handling(w)
  PROVE  wk[w].at \in Holding
BY DEF Handling, Check, Execute, Record, Ack, HandlerFails, Holding

LoopTypes ==
  /\ wk \in [Workers -> Loop]
  /\ \A u \in Workers : \A k \in DOMAIN wk[u].batch : wk[u].batch[k] \in 1 .. last

LEMMA HandlingTypes ==
  ASSUME IInv, NEW w \in Workers, Handling(w)
  PROVE  TypeOK'
<1>. USE DEF IInv
<1>1. UNCHANGED <<row, pub, stream, last>>
  BY DEF Handling, Check, Execute, Record, Ack, HandlerFails
<1>2. /\ wk[w].batch \in Seq(Nat) /\ wk \in [Workers -> Loop]
      /\ Tail(wk[w].batch) \in Seq(Nat) /\ << >> \in Seq(Nat)
      /\ \A k \in DOMAIN Tail(wk[w].batch) : Tail(wk[w].batch)[k] \in 1 .. last
      /\ \A u \in Workers : \A k \in DOMAIN wk[u].batch : wk[u].batch[k] \in 1 .. last
  BY HandlingHolds, RestOfBatch, EmptySeq DEF TypeOK, Loop
<1>3. LoopTypes'
  <2>1. ASSUME NEW at \in {"execute", "record", "ack"}, wk' = [wk EXCEPT ![w].at = at]
        PROVE  LoopTypes'
    BY <1>1, <1>2, <2>1 DEF Loop, LoopTypes
  <2>2. CASE wk' = [wk EXCEPT ![w] = IdleLoop]
    BY <1>1, <1>2, <2>2, EmptySeq DEF Loop, IdleLoop, LoopTypes
  <2>3. ASSUME NEW at \in {"claim", "check"},
               wk' = [wk EXCEPT ![w] = [at |-> at, batch |-> Tail(wk[w].batch)]]
        PROVE  LoopTypes'
    BY <1>1, <1>2, <2>3 DEF Loop, LoopTypes
  <2>. QED  BY <2>1, <2>2, <2>3, LoopMoves
<1>4. Current(w) \in Events
  BY HandlingHolds, CurrentEntry
<1>5. inbox' \subseteq Events /\ effects' \in [Events -> Nat]
  BY <1>4 DEF Handling, Check, Execute, Record, Ack, HandlerFails, Committed, TypeOK
<1>6. faults' \in 0 .. MaxFaults
  BY BoundsAssumption
  DEF Handling, Check, Execute, Record, Ack, HandlerFails, Fault, TypeOK
<1>7. /\ DOMAIN pel' \subseteq DOMAIN pel
      /\ \A i \in DOMAIN pel' : pel'[i] = pel[i]
  BY DEF Handling, Check, Execute, Record, Ack, HandlerFails
<1>. QED  BY <1>1, <1>3, <1>5, <1>6, <1>7 DEF TypeOK, LoopTypes

\* The steps that only change what is known of the pending entries.
LEMMA TimeTypes ==
  ASSUME IInv, AgeAbandoned \/ \E w \in Workers : LongHandler(w) \/ Crash(w)
  PROVE  /\ TypeOK'
         /\ DOMAIN pel' = DOMAIN pel
         /\ UNCHANGED <<row, stream, last, inbox, effects>>
<1>. USE DEF IInv
<1>1. CASE AgeAbandoned
  <2>1. PICK i \in DOMAIN pel : pel' = [pel EXCEPT ![i].idle = TRUE]
    BY <1>1 DEF AgeAbandoned
  <2>2. UNCHANGED <<row, pub, stream, last, wk, inbox, effects, faults>>
    BY <1>1 DEF AgeAbandoned
  <2>3. /\ DOMAIN pel' = DOMAIN pel
        /\ \A k \in DOMAIN pel' : pel'[k] \in [owner : Workers \cup {Gone}, idle : BOOLEAN]
    BY <2>1 DEF TypeOK
  <2>. QED  BY <2>2, <2>3 DEF TypeOK
<1>2. ASSUME NEW w \in Workers, LongHandler(w)
      PROVE  /\ TypeOK'
             /\ DOMAIN pel' = DOMAIN pel
             /\ UNCHANGED <<row, stream, last, inbox, effects>>
  <2>1. faults' \in 0 .. MaxFaults
    BY <1>2, BoundsAssumption DEF LongHandler, Fault, TypeOK
  <2>. QED  BY <1>2, <2>1 DEF LongHandler, TypeOK
<1>3. ASSUME NEW w \in Workers, Crash(w)
      PROVE  /\ TypeOK'
             /\ DOMAIN pel' = DOMAIN pel
             /\ UNCHANGED <<row, stream, last, inbox, effects>>
  <2>1. faults' \in 0 .. MaxFaults
    BY <1>3, BoundsAssumption DEF Crash, Fault, TypeOK
  <2>2. IdlePublisher \in Publisher /\ IdleLoop \in Loop /\ IdleLoop.batch = << >>
    BY EmptySeq DEF IdlePublisher, Publisher, IdleLoop, Loop
  <2>3. pub' \in [Workers -> Publisher] /\ wk' \in [Workers -> Loop]
    BY <1>3, <2>2 DEF Crash, TypeOK
  <2>4. \A u \in Workers : \A k \in DOMAIN wk'[u].batch : wk'[u].batch[k] \in 1 .. last
    BY <1>3, <2>2, EmptySeq DEF Crash, TypeOK
  <2>5. UNCHANGED <<row, stream, last, inbox, effects>>
    BY <1>3 DEF Crash
  <2>6. pel' = [i \in DOMAIN pel |-> IF pel[i].owner = w THEN [pel[i] EXCEPT !.owner = Gone]
                                                        ELSE pel[i]]
    BY <1>3 DEF Crash
  <2>7. /\ DOMAIN pel' = DOMAIN pel
        /\ \A i \in DOMAIN pel' : pel'[i] \in [owner : Workers \cup {Gone}, idle : BOOLEAN]
    BY <2>6 DEF TypeOK
  <2>. QED  BY <2>1, <2>3, <2>4, <2>5, <2>7 DEF TypeOK
<1>. QED  BY <1>1, <1>2, <1>3

LEMMA EmitTypes ==
  ASSUME IInv, NEW e \in Events, Emit(e)
  PROVE  TypeOK'
<1>1. row' \in [Events -> Row]
  BY DEF IInv, TypeOK, Emit, Row, RowStatus
<1>. QED  BY <1>1 DEF IInv, TypeOK, Emit

-----------------------------------------------------------------------------
(* Steps *)

\* The kinds of steps that the proofs below distinguish.
Timing == AgeAbandoned \/ \E w \in Workers : LongHandler(w) \/ Crash(w)
Reading(w) == Reads(w) /\ UNCHANGED <<row, pub, stream, inbox, effects, faults>>

LEMMA StepKinds ==
  ASSUME IInv, Next
  PROVE  \/ \E e \in Events : Emit(e)
         \/ \E w \in Workers : Publishing(w) \/ Reading(w) \/ Handling(w)
         \/ Timing
<1>1. ASSUME NEW w \in Workers, PublisherStep(w)
      PROVE  Publishing(w)
  BY <1>1 DEF PublisherStep, Publishing
<1>2. ASSUME NEW w \in Workers, StreamStep(w)
      PROVE  Reading(w) \/ Handling(w)
  BY <1>2, ReadsEntries DEF StreamStep, Reading, Handling
<1>. QED  BY <1>1, <1>2 DEF Next, Publishing, Handling, Timing

LEMMA TypeStep == IInv /\ Next => TypeOK'
BY StepKinds, EmitTypes, PublishingTypes, ReadsTypes, HandlingTypes, TimeTypes
DEF Reading, Timing

\* What no step takes back: entries, their events, the states of the rows that
\* are final, and the inbox.
LEMMA Grows ==
  ASSUME IInv, Next
  PROVE  /\ StreamGrows
         /\ \A e \in Events : Emitted(e) => Emitted(e)'
         /\ \A e : Sent(e) => Sent(e)'
         /\ inbox \subseteq inbox'
         /\ last <= last'
<1>1. TypeOK /\ last \in Nat /\ Len(stream) \in Nat /\ row \in [Events -> Row]
  BY StreamShape DEF IInv, TypeOK
<1>2. StreamGrows
  <2>1. ASSUME UNCHANGED stream PROVE StreamGrows
    BY <2>1, <1>1, SameStream
  <2>. QED
    BY <2>1, StepKinds, PublishingTypes, TimeTypes
    DEF Emit, Reading, Handling, Check, Execute, Record, Ack, HandlerFails, Timing
<1>. DEFINE EmittedStays == \A e \in Events : Emitted(e) => Emitted(e)'
<1>3. EmittedStays
  <2>1. ASSUME NEW e \in Events, Emit(e)
        PROVE  EmittedStays
    BY <1>1, <2>1 DEF Emit, Emitted
  <2>2. ASSUME NEW w \in Workers, MarkPublished(w) \/ MarkFailed(w)
        PROVE  EmittedStays
    <3>1. Head(pub[w].todo) \in Events
      BY <2>2, HeadOfBatch DEF MarkPublished, MarkFailed, IInv, PublisherInv
    <3>2. PICK h \in Events : h = Head(pub[w].todo)
      BY <3>1
    <3>3. row[h] \in Row /\ (row[h].status = "pending" => row[h].attempts < MaxAttempts)
      BY <1>1, <3>2 DEF IInv, RowInv
    <3>4. /\ row[h].status /= "none" => Published(row[h]).status /= "none"
          /\ row[h].status /= "none" => Failed(row[h]).status /= "none"
      BY <3>3, PublishedRow, FailedRow
    <3>. QED  BY <1>1, <2>2, <3>2, <3>4 DEF MarkPublished, MarkFailed, Emitted
  <2>3. ASSUME UNCHANGED row PROVE EmittedStays
    BY <2>3 DEF Emitted
  <2>. QED
    BY <2>1, <2>2, <2>3, StepKinds, TimeTypes
    DEF Publishing, LoadBatch, Publish, PublishFails, MarkRaises, Reading, Handling,
        Check, Execute, Record, Ack, HandlerFails, Timing
<1>4. \A e : Sent(e) => Sent(e)'
  BY <1>2 DEF StreamGrows, Sent
<1>5. inbox \subseteq inbox'
  BY StepKinds, TimeTypes
  DEF Emit, Publishing, LoadBatch, Publish, PublishFails, MarkPublished, MarkFailed,
      MarkRaises, Reading, Handling, Check, Execute, Record, Ack, HandlerFails, Timing
<1>6. last <= last'
  <2>1. ASSUME NEW w \in Workers, Reading(w)
        PROVE  last <= last'
    BY <1>1, <2>1 DEF Reading, Reads, ReadsAs
  <2>2. ASSUME UNCHANGED last
        PROVE  last <= last'
    BY <1>1, <2>2
  <2>. QED
    BY <2>1, <2>2, StepKinds, TimeTypes
    DEF Emit, Publishing, LoadBatch, Publish, PublishFails, MarkPublished, MarkFailed,
        MarkRaises, Handling, Check, Execute, Record, Ack, HandlerFails, Timing
<1>. QED  BY <1>2, <1>3, <1>4, <1>5, <1>6

-----------------------------------------------------------------------------
(* The outbox and its publishers *)

LEMMA RowInvStep == IInv /\ Next => RowInv'
<1>. SUFFICES ASSUME IInv, Next PROVE RowInv'
  OBVIOUS
<1>1. /\ RowInv /\ PublisherInv /\ row \in [Events -> Row]
      /\ \A e : Sent(e) => Sent(e)'
  BY Grows DEF IInv, TypeOK
<1>2. ASSUME NEW e \in Events, Emit(e)
      PROVE  RowInv'
  BY <1>1, <1>2 DEF Emit, RowInv, Row, Sent
<1>3. ASSUME NEW w \in Workers, MarkPublished(w) \/ MarkFailed(w)
      PROVE  RowInv'
  <2>1. PICK h \in Events : h = Head(pub[w].todo)
    BY <1>3, HeadOfBatch DEF MarkPublished, MarkFailed, IInv, PublisherInv
  <2>2. row[h] \in Row /\ (row[h].status = "pending" => row[h].attempts < MaxAttempts)
    BY <1>1, <2>1 DEF RowInv
  <2>3. CASE MarkPublished(w)
    <3>1. row' = [row EXCEPT ![h] = Published(row[h])] /\ Sent(h)
      BY <1>1, <2>1, <2>3 DEF MarkPublished, PublisherInv
    <3>2. /\ Published(row[h]).status /= "pending"
          /\ Published(row[h]).status = "none" => Published(row[h]) = row[h]
      BY <2>2 DEF Published, Row, RowStatus
    <3>. QED  BY <1>1, <2>1, <3>1, <3>2 DEF RowInv
  <2>4. CASE MarkFailed(w)
    <3>1. row' = [row EXCEPT ![h] = Failed(row[h])]
      BY <1>1, <2>1, <2>4 DEF MarkFailed
    <3>2. /\ Failed(row[h]).status = "pending" => Failed(row[h]).attempts < MaxAttempts
          /\ Failed(row[h]).status = "none" => Failed(row[h]) = row[h]
          /\ Failed(row[h]).status = "published" => row[h].status = "published"
      BY <2>2, FailedRow DEF Failed
    <3>. QED  BY <1>1, <2>1, <3>1, <3>2 DEF RowInv
  <2>. QED  BY <1>3, <2>3, <2>4
<1>4. ASSUME UNCHANGED row
      PROVE  RowInv'
  BY <1>1, <1>4 DEF RowInv
<1>. QED
  BY <1>2, <1>3, <1>4, StepKinds, TimeTypes
  DEF Publishing, LoadBatch, Publish, PublishFails, MarkRaises, Reading, Handling,
      Check, Execute, Record, Ack, HandlerFails, Timing

LEMMA PublisherInvStep == IInv /\ Next => PublisherInv'
<1>. SUFFICES ASSUME IInv, Next PROVE PublisherInv'
  OBVIOUS
<1>. USE DEF IInv
<1>1. /\ pub \in [Workers -> Publisher] /\ TypeOK /\ RowInv
      /\ \A e : Sent(e) => Sent(e)'
      /\ \A e \in Events : Emitted(e) => Emitted(e)'
  BY Grows DEF TypeOK
<1>2. \A u \in Workers :
         /\ \A k \in DOMAIN pub[u].todo : pub[u].todo[k] \in Events
         /\ \A k \in DOMAIN pub[u].todo : Emitted(pub[u].todo[k])
         /\ pub[u].result /= "none" => pub[u].todo /= << >>
         /\ pub[u].result = "sent" => Sent(Head(pub[u].todo))
  BY <1>1, ElementOfSeq, LenProperties DEF PublisherInv, Publisher
<1>. DEFINE EmittedNext == {e \in Events : Emitted(e)'}
            SentNext == {e \in Events : Sent(e)'}
            OK(p) == /\ \A k \in DOMAIN p.todo : p.todo[k] \in EmittedNext
                     /\ p.result /= "none" => p.todo /= << >>
                     /\ p.result = "sent" => Head(p.todo) \in SentNext
<1>3. \A u \in Workers : OK(pub[u])
  <2>. SUFFICES ASSUME NEW u \in Workers PROVE OK(pub[u])
    OBVIOUS
  <2>1. \A k \in DOMAIN pub[u].todo : pub[u].todo[k] \in EmittedNext
    BY <1>1, <1>2
  <2>2. ASSUME pub[u].result = "sent"
        PROVE  Head(pub[u].todo) \in SentNext
    <3>1. PICK e \in Events : e = Head(pub[u].todo)
      BY <1>1, <1>2, <2>2, HeadOfBatch
    <3>. QED  BY <1>1, <1>2, <2>2, <3>1
  <2>. QED  BY <1>2, <2>1, <2>2
<1>4. ASSUME NEW w \in Workers, NEW p, OK(p), pub' = [pub EXCEPT ![w] = p]
      PROVE  PublisherInv'
  BY <1>1, <1>3, <1>4 DEF PublisherInv, Emitted, Sent
<1>5. ASSUME UNCHANGED pub PROVE PublisherInv'
  BY <1>3, <1>5 DEF PublisherInv, Emitted, Sent
<1>. HIDE DEF OK
<1>6. OK(IdlePublisher)
  BY EmptySeq DEF IdlePublisher, OK
<1>7. ASSUME NEW w \in Workers, LoadBatch(w) PROVE PublisherInv'
  <2>. DEFINE s == Ascending(Available)
              p == [pub[w] EXCEPT !.todo = s]
  <2>1. \A k \in DOMAIN s : s[k] \in Available
    BY AvailableSorted
  <2>2. pub' = [pub EXCEPT ![w] = p] /\ pub[w].result = "none"
    BY <1>1, <1>7 DEF LoadBatch, IdlePublisher
  <2>3. p.todo = s /\ p.result = "none"
    BY <1>1, <2>2 DEF Publisher
  <2>. HIDE DEF s, p
  <2>4. Available \subseteq EmittedNext
    BY <1>1 DEF Available, Pending, Emitted
  <2>5. OK(p)
    BY <2>1, <2>3, <2>4 DEF OK
  <2>. QED  BY <1>4, <2>2, <2>5
<1>8. ASSUME NEW w \in Workers, Publish(w) \/ PublishFails(w) PROVE PublisherInv'
  <2>1. pub[w].todo /= << >>
    BY <1>8 DEF Publish, PublishFails
  <2>2. PICK h \in Events : h = Head(pub[w].todo)
    BY <2>1, HeadOfBatch
  <2>3. ASSUME Publish(w) PROVE h \in SentNext
    <3>1. stream' = Append(stream, h)
      BY <2>2, <2>3 DEF Publish
    <3>. QED  BY <3>1, AppendGrows DEF Sent
  <2>4. ASSUME NEW r, r \in {"sent", "failed"}, r = "sent" => h \in SentNext,
               pub' = [pub EXCEPT ![w].result = r]
        PROVE  PublisherInv'
    <3>1. PICK p : p = [pub[w] EXCEPT !.result = r]
      OBVIOUS
    <3>2. p.todo = pub[w].todo /\ p.result = r
      BY <1>1, <3>1 DEF Publisher
    <3>3. OK(p)
      BY <1>3, <2>1, <2>2, <2>4, <3>2 DEF OK
    <3>4. pub' = [pub EXCEPT ![w] = p]
      BY <1>1, <2>4, <3>1
    <3>. QED  BY <1>4, <3>3, <3>4
  <2>5. CASE Publish(w)
    BY <2>3, <2>4, <2>5 DEF Publish
  <2>6. CASE PublishFails(w)
    BY <2>4, <2>6 DEF PublishFails
  <2>. QED  BY <1>8, <2>5, <2>6
<1>9. ASSUME NEW w \in Workers, MarkPublished(w) \/ MarkFailed(w) PROVE PublisherInv'
  <2>. DEFINE p == [todo |-> Tail(pub[w].todo), result |-> "none"]
  <2>1. pub[w].todo /= << >>
    BY <1>2, <1>9 DEF MarkPublished, MarkFailed
  <2>2. pub' = [pub EXCEPT ![w] = p]
    BY <1>1, <1>9 DEF MarkPublished, MarkFailed, Advance
  <2>3. \A k \in DOMAIN p.todo : \E j \in DOMAIN pub[w].todo : p.todo[k] = pub[w].todo[j]
    BY <2>1, HeadOfBatch
  <2>4. OK(p)
    BY <1>3, <2>3 DEF OK
  <2>. HIDE DEF p
  <2>. QED  BY <1>4, <2>2, <2>4
<1>10. ASSUME NEW w \in Workers, MarkRaises(w) \/ Crash(w) PROVE PublisherInv'
  BY <1>4, <1>6, <1>10 DEF MarkRaises, Crash
<1>. QED
  BY <1>5, <1>7, <1>8, <1>9, <1>10, StepKinds
  DEF Emit, Publishing, Reading, Handling, Check, Execute, Record, Ack, HandlerFails,
      Timing, AgeAbandoned, LongHandler

-----------------------------------------------------------------------------
(* The stream and its pending entries *)

\* An entry that is added is that of an emitted event.
LEMMA EntriesEmitted ==
  ASSUME IInv, Next
  PROVE  (\A i \in DOMAIN stream : Emitted(stream[i]))'
<1>1. /\ TypeOK /\ StreamInv /\ PublisherInv /\ StreamGrows
      /\ \A e \in Events : Emitted(e) => Emitted(e)'
  BY Grows DEF IInv
<1>2. \A i \in DOMAIN stream : stream[i] \in Events
  BY <1>1, StreamShape
<1>. DEFINE EmittedNext == {e \in Events : Emitted(e)'}
<1>3. \A i \in DOMAIN stream : stream'[i] \in EmittedNext
  BY <1>1, <1>2 DEF StreamInv, StreamGrows
<1>4. ASSUME UNCHANGED stream PROVE \A i \in DOMAIN stream' : stream'[i] \in EmittedNext
  BY <1>3, <1>4
<1>5. ASSUME NEW w \in Workers, Publish(w) \/ PublishFails(w), ~UNCHANGED stream
      PROVE  \A i \in DOMAIN stream' : stream'[i] \in EmittedNext
  <2>1. pub[w].todo /= << >>
    BY <1>5 DEF Publish, PublishFails
  <2>2. PICK h \in Events : h = Head(pub[w].todo)
    BY <1>1, <2>1, HeadOfBatch
  <2>3. stream' = Append(stream, h)
    BY <1>5, <2>2 DEF Publish, PublishFails
  <2>4. Emitted(h)
    BY <1>1, <2>1, <2>2, HeadOfBatch DEF PublisherInv
  <2>5. h \in EmittedNext
    BY <1>1, <2>4
  <2>. QED  BY <1>1, <1>3, <2>3, <2>5, AppendGrows
<1>6. \A i \in DOMAIN stream' : stream'[i] \in EmittedNext
  BY <1>4, <1>5, StepKinds, TimeTypes
  DEF Emit, Publishing, LoadBatch, MarkPublished, MarkFailed, MarkRaises, Reading,
      Handling, Check, Execute, Record, Ack, HandlerFails, Timing
<1>. QED  BY <1>6 DEF Emitted

LEMMA StreamInvStep == IInv /\ Next => StreamInv'
<1>. SUFFICES ASSUME IInv, Next PROVE StreamInv'
  OBVIOUS
<1>1. /\ TypeOK /\ StreamInv /\ LoopInv /\ StreamGrows /\ inbox \subseteq inbox'
      /\ last \in Nat /\ 1 .. last \subseteq DOMAIN stream
      /\ \A i \in DOMAIN stream : stream'[i] = stream[i]
  BY Grows, StreamShape DEF IInv, StreamGrows
<1>. DEFINE Kept == \A i \in 1 .. last' : i \in DOMAIN pel' \/ stream'[i] \in inbox'
<1>2. ASSUME last' = last, DOMAIN pel' = DOMAIN pel PROVE Kept
  BY <1>1, <1>2 DEF StreamInv
<1>3. ASSUME NEW w \in Workers, Reading(w) PROVE Kept
  <2>1. PICK ids, phase : ReadsAs(w, ids, phase)
    BY <1>3 DEF Reading, Reads
  <2>2. /\ last' \in last .. Len(stream) /\ last + 1 .. last' \subseteq Range(ids)
        /\ DOMAIN pel' = DOMAIN pel \cup Range(ids)
    BY <2>1 DEF ReadsAs, Deliver
  <2>3. ASSUME NEW i \in 1 .. last'
        PROVE  i \in DOMAIN pel' \/ stream'[i] \in inbox'
    <3>1. CASE i <= last
      <4>1. i \in 1 .. last
        BY <1>1, <2>2, <3>1
      <4>. QED  BY <1>1, <2>2, <4>1 DEF StreamInv
    <3>2. CASE ~(i <= last)
      <4>1. i \in last + 1 .. last'
        BY <1>1, <2>2, <3>2, StreamShape
      <4>. QED  BY <2>2, <4>1
    <3>. QED  BY <3>1, <3>2
  <2>. QED  BY <2>3
<1>4. ASSUME NEW w \in Workers, Ack(w) PROVE Kept
  <2>. DEFINE id == Head(wk[w].batch)
  <2>1. stream[id] \in inbox /\ id \in 1 .. last /\ last' = last
    BY <1>1, <1>4, CurrentEntry DEF Ack, LoopInv, Current, Holding
  <2>2. DOMAIN pel' = DOMAIN pel \ {id}
    BY <1>4 DEF Ack
  <2>. HIDE DEF id
  <2>. QED  BY <1>1, <2>1, <2>2 DEF StreamInv
<1>5. Kept
  BY <1>2, <1>3, <1>4, StepKinds, TimeTypes
  DEF Emit, Publishing, LoadBatch, Publish, PublishFails, MarkPublished, MarkFailed,
      MarkRaises, Handling, Check, Execute, Record, HandlerFails, Timing
<1>. QED  BY <1>5, EntriesEmitted DEF StreamInv

-----------------------------------------------------------------------------
(* The loops and the inbox *)

LEMMA LoopInvStep == IInv /\ Next => LoopInv'
<1>. SUFFICES ASSUME IInv, Next PROVE LoopInv'
  OBVIOUS
<1>1. /\ TypeOK /\ LoopInv /\ wk \in [Workers -> Loop] /\ inbox \subseteq inbox'
      /\ \A i \in DOMAIN stream : stream'[i] = stream[i]
  BY Grows DEF IInv, TypeOK, StreamGrows
\* What LoopInv says of one loop l after the step.
<1>. DEFINE OK(l) == /\ l.at \in Holding => l.batch /= << >>
                     /\ l.at = "ack" => stream'[Head(l.batch)] \in inbox'
                     /\ l.at = "record" => stream'[Head(l.batch)] \in Separate
<1>2. \A u \in Workers : OK(wk[u])
  <2>. SUFFICES ASSUME NEW u \in Workers PROVE OK(wk[u])
    OBVIOUS
  <2>1. wk[u].at \in Holding => /\ Head(wk[u].batch) \in DOMAIN stream
                                /\ stream'[Head(wk[u].batch)] = Current(u)
    BY <1>1, CurrentEntry DEF Current
  <2>. QED  BY <1>1, <2>1 DEF LoopInv, Holding
<1>3. ASSUME NEW w \in Workers, NEW l, OK(l), wk' = [wk EXCEPT ![w] = l]
      PROVE  LoopInv'
  BY <1>1, <1>2, <1>3 DEF LoopInv, Current
<1>4. ASSUME UNCHANGED wk PROVE LoopInv'
  BY <1>2, <1>4 DEF LoopInv, Current
<1>5. OK(IdleLoop)
  BY DEF IdleLoop, Holding
<1>. HIDE DEF OK
<1>6. ASSUME NEW w \in Workers, Reading(w) PROVE LoopInv'
  <2>1. PICK ids, phase : ReadsAs(w, ids, phase)
    BY <1>6 DEF Reading, Reads
  <2>2. PICK l : l = [at |-> IF ids = << >> THEN phase ELSE "check", batch |-> ids]
    OBVIOUS
  <2>3. wk' = [wk EXCEPT ![w] = l]
    BY <2>1, <2>2 DEF ReadsAs, Dispatch
  <2>4. l.batch = ids /\ (l.at \in Holding => l.at = "check" /\ ids /= << >>)
    BY <2>1, <2>2 DEF ReadsAs, Holding
  <2>5. OK(l)
    BY <2>4 DEF OK, Holding
  <2>. QED  BY <1>3, <2>3, <2>5
<1>7. ASSUME NEW w \in Workers, Handling(w) PROVE LoopInv'
  <2>1. /\ wk[w].batch /= << >> /\ Current(w) \in Events
        /\ stream'[Head(wk[w].batch)] = Current(w)
    BY <1>1, <1>7, HandlingHolds, CurrentEntry DEF Current
  <2>2. ASSUME NEW at \in {"execute", "record", "ack"},
               wk' = [wk EXCEPT ![w].at = at],
               at = "ack" => Current(w) \in inbox',
               at = "record" => Current(w) \in Separate
        PROVE  LoopInv'
    <3>1. PICK l : l = [wk[w] EXCEPT !.at = at]
      OBVIOUS
    <3>2. l.batch = wk[w].batch /\ l.at = at
      BY <1>1, <3>1 DEF Loop
    <3>3. OK(l)
      BY <2>1, <2>2, <3>2 DEF OK
    <3>4. wk' = [wk EXCEPT ![w] = l]
      BY <1>1, <2>2, <3>1
    <3>. QED  BY <1>3, <3>3, <3>4
  <2>3. CASE wk' = [wk EXCEPT ![w] = IdleLoop]
    BY <1>3, <1>5, <2>3
  <2>4. CASE Check(w)
    <3>1. CASE Current(w) \in inbox
      <4>1. wk' = [wk EXCEPT ![w].at = "ack"]
        BY <2>4, <3>1 DEF Check, GoTo
      <4>. QED  BY <1>1, <2>2, <3>1, <4>1
    <3>2. CASE Current(w) \notin inbox
      <4>1. wk' = [wk EXCEPT ![w].at = "execute"]
        BY <2>4, <3>2 DEF Check, GoTo
      <4>. QED  BY <2>2, <4>1
    <3>. QED  BY <3>1, <3>2
  <2>5. CASE Execute(w)
    <3>1. CASE wk' = [wk EXCEPT ![w].at = "record"] /\ Current(w) \in Separate
      BY <2>2, <3>1
    <3>2. CASE wk' = [wk EXCEPT ![w].at = "ack"] /\ Current(w) \in inbox'
      BY <2>2, <3>2
    <3>. QED  BY <2>3, <2>5, <3>1, <3>2 DEF Execute, GoTo, Raise
  <2>6. CASE Record(w)
    BY <2>1, <2>2, <2>3, <2>6 DEF Record, GoTo, Raise
  <2>7. CASE Ack(w)
    <3>1. PICK l : l = [at |-> IF Tail(wk[w].batch) = << >> THEN "claim" ELSE "check",
                        batch |-> Tail(wk[w].batch)]
      OBVIOUS
    <3>2. wk' = [wk EXCEPT ![w] = l]
      BY <2>7, <3>1 DEF Ack, Dispatch
    <3>3. OK(l)
      BY <3>1 DEF OK, Holding
    <3>. QED  BY <1>3, <3>2, <3>3
  <2>8. CASE HandlerFails(w)
    BY <2>3, <2>8 DEF HandlerFails, Raise
  <2>. QED  BY <1>7, <2>4, <2>5, <2>6, <2>7, <2>8 DEF Handling
<1>8. ASSUME NEW w \in Workers, Crash(w) PROVE LoopInv'
  BY <1>3, <1>5, <1>8 DEF Crash
<1>. QED
  BY <1>4, <1>6, <1>7, <1>8, StepKinds
  DEF Emit, Publishing, LoadBatch, Publish, PublishFails, MarkPublished, MarkFailed,
      MarkRaises, Timing, AgeAbandoned, LongHandler

LEMMA EffectInvStep == IInv /\ Next => EffectInv'
<1>. SUFFICES ASSUME IInv, Next PROVE EffectInv'
  OBVIOUS
<1>1. /\ TypeOK /\ LoopInv /\ EffectInv /\ effects \in [Events -> Nat]
  BY DEF IInv, TypeOK
<1>2. ASSUME UNCHANGED <<effects, inbox>> PROVE EffectInv'
  BY <1>1, <1>2 DEF EffectInv
<1>3. ASSUME NEW w \in Workers, Execute(w) PROVE EffectInv'
  <2>1. PICK e \in Events : e = Current(w)
    BY <1>1, <1>3, CurrentEntry DEF Execute, Holding
  <2>2. CASE e \in Separate /\ Committed(e) /\ UNCHANGED inbox
    BY <1>1, <2>2 DEF Committed, EffectInv
  <2>3. CASE e \notin Separate \cup inbox /\ Committed(e) /\ inbox' = inbox \cup {e}
    BY <1>1, <2>1, <2>3 DEF Committed, EffectInv
  <2>. QED  BY <1>2, <1>3, <2>1, <2>2, <2>3 DEF Execute
<1>4. ASSUME NEW w \in Workers, Record(w) PROVE EffectInv'
  <2>1. Current(w) \in Separate
    BY <1>1, <1>4 DEF Record, LoopInv
  <2>. QED  BY <1>1, <1>4, <2>1 DEF Record, EffectInv
<1>. QED
  BY <1>2, <1>3, <1>4, StepKinds, TimeTypes
  DEF Emit, Publishing, LoadBatch, Publish, PublishFails, MarkPublished, MarkFailed,
      MarkRaises, Reading, Handling, Check, Ack, HandlerFails, Timing

-----------------------------------------------------------------------------
(* Theorems *)

LEMMA Stuttering == IInv /\ UNCHANGED vars => IInv'
<1>. SUFFICES ASSUME IInv, UNCHANGED vars PROVE IInv'
  OBVIOUS
<1>1. TypeOK' /\ RowInv'
  BY DEF IInv, TypeOK, RowInv, Sent, vars
<1>2. PublisherInv' /\ StreamInv'
  BY DEF IInv, PublisherInv, StreamInv, Sent, Emitted, vars
<1>3. LoopInv' /\ EffectInv'
  BY DEF IInv, LoopInv, EffectInv, Current, vars
<1>. QED  BY <1>1, <1>2, <1>3 DEF IInv

LEMMA Invariance == Spec => []IInv
<1>1. IInv /\ [Next]_vars => IInv'
  <2>. SUFFICES ASSUME IInv, [Next]_vars PROVE IInv'
    OBVIOUS
  <2>1. CASE Next
    BY <2>1, TypeStep, RowInvStep, PublisherInvStep, StreamInvStep, LoopInvStep,
       EffectInvStep DEF IInv
  <2>. QED  BY <2>1, Stuttering
<1>. QED  BY InitIInv, <1>1, PTL DEF Spec

\* Rows, batches, entries and counters stay in their sets: no step reads past
\* the stream, and no row is marked more often than it may be published.
THEOREM TypeCorrect == Spec => []TypeOK
<1>1. IInv => TypeOK
  BY DEF IInv
<1>. QED  BY <1>1, Invariance, PTL

\* An event whose row is published is recorded by the consumer, or an entry for
\* it is unread or pending: the row is marked after XADD, and XACK comes after
\* the handler (outbox_publisher.py, redis_streams.py).
THEOREM NothingIsLost == Spec => []NothingLost
<1>1. ASSUME IInv PROVE NothingLost
  <2>. SUFFICES ASSUME NEW e \in Events, row[e].status = "published"
                PROVE  e \in inbox \/ Waiting(e)
    BY DEF NothingLost
  <2>1. PICK i \in DOMAIN stream : stream[i] = e
    BY <1>1 DEF IInv, RowInv, Sent
  <2>2. CASE i > last
    BY <2>1, <2>2 DEF Waiting
  <2>3. CASE ~(i > last)
    <3>1. i \in 1 .. last
      BY <1>1, <2>1, <2>3, StreamShape DEF IInv
    <3>2. i \in DOMAIN pel \/ stream[i] \in inbox
      BY <1>1, <3>1 DEF IInv, StreamInv
    <3>. QED  BY <2>1, <3>2 DEF Waiting
  <2>. QED  BY <2>2, <2>3
<1>. QED  BY <1>1, Invariance, PTL

\* The effect of an event whose transaction records it is committed at most
\* once, whoever handles its entries and however often (event_dispatcher.py).
THEOREM EffectCommittedOnce == Spec => []EffectOnce
<1>1. ASSUME IInv PROVE EffectOnce
  BY <1>1 DEF IInv, EffectInv, EffectOnce
<1>. QED  BY <1>1, Invariance, PTL

-----------------------------------------------------------------------------
(* The abstract specification *)

\* A publication or a dead letter as the callers see it.
LEMMA MarkPromise ==
  ASSUME IInv, Next, NEW w \in Workers, MarkPublished(w) \/ MarkFailed(w)
  PROVE  Promise!Next \/ UNCHANGED Promise!vars
<1>1. PICK h \in Events : h = Head(pub[w].todo)
  BY HeadOfBatch DEF MarkPublished, MarkFailed, IInv, PublisherInv
<1>2. /\ row[h] \in Row /\ row \in [Events -> Row] /\ inbox' = inbox
      /\ row[h].status = "pending" => row[h].attempts < MaxAttempts
  BY DEF IInv, TypeOK, RowInv, MarkPublished, MarkFailed
<1>3. PICK r : /\ r = Published(row[h]) \/ r = Failed(row[h])
               /\ row' = [row EXCEPT ![h] = r]
  BY <1>1, <1>2 DEF MarkPublished, MarkFailed
<1>4. /\ (r.status = "none") = (row[h].status = "none")
      /\ row[h].status = "dead_letter" => r = row[h]
      /\ row[h].status /= "pending" => r = row[h]
  <2>1. row[h].status = "dead_letter" \/ row[h].status /= "pending" => r = row[h]
    BY <1>3 DEF Published, Failed
  <2>2. (r.status = "none") = (row[h].status = "none")
    BY <1>2, <1>3, PublishedRow, FailedRow
  <2>. QED  BY <2>1, <2>2
<1>5. /\ \A e \in Events : row'[e] = IF e = h THEN r ELSE row[e]
      /\ Accepted' = {e \in Events : row'[e].status /= "none"}
      /\ DeadLetters' = {e \in Events : row'[e].status = "dead_letter"}
  BY <1>2, <1>3 DEF Accepted, DeadLetters
<1>6. Accepted' = Accepted
  BY <1>4, <1>5 DEF Accepted
<1>7. CASE r.status = "dead_letter" /\ row[h].status /= "dead_letter"
  <2>1. DeadLetters' = DeadLetters \cup {h} /\ h \notin DeadLetters
    BY <1>5, <1>7 DEF DeadLetters
  <2>2. h \in Accepted
    BY <1>4, <1>7 DEF Accepted
  <2>3. Promise!Drop(h)
    BY <1>2, <1>6, <2>1, <2>2 DEF Promise!Drop
  <2>. QED  BY <2>3 DEF Promise!Next
<1>8. CASE ~(r.status = "dead_letter" /\ row[h].status /= "dead_letter")
  <2>1. DeadLetters' = DeadLetters
    BY <1>4, <1>5, <1>8 DEF DeadLetters
  <2>. QED  BY <1>2, <1>6, <2>1 DEF Promise!vars
<1>. QED  BY <1>7, <1>8

\* A record of the event a worker handles.
LEMMA RecordPromise ==
  ASSUME IInv, Next, NEW w \in Workers, Execute(w) \/ Record(w)
  PROVE  Promise!Next \/ UNCHANGED Promise!vars
<1>1. PICK e \in Events : e = Current(w)
  BY CurrentEntry DEF Execute, Record, Holding, IInv
<1>2. Head(wk[w].batch) \in DOMAIN stream
  BY CurrentEntry DEF Execute, Record, Holding, IInv
<1>3. e \in Accepted
  BY <1>1, <1>2 DEF IInv, StreamInv, Emitted, Current, Accepted
<1>4. Accepted' = Accepted /\ DeadLetters' = DeadLetters
  BY DEF Execute, Record, Accepted, DeadLetters
<1>5. inbox' = inbox \/ inbox' = inbox \cup {e}
  BY <1>1 DEF Execute, Record
<1>6. CASE e \notin inbox /\ inbox' = inbox \cup {e}
  <2>1. Promise!Consume(e)
    BY <1>3, <1>4, <1>6 DEF Promise!Consume
  <2>. QED  BY <2>1 DEF Promise!Next
<1>7. CASE inbox' = inbox
  BY <1>4, <1>7 DEF Promise!vars
<1>. QED  BY <1>5, <1>6, <1>7

LEMMA StepPromise ==
  ASSUME IInv, Next
  PROVE  Promise!Next \/ UNCHANGED Promise!vars
<1>1. ASSUME NEW e \in Events, Emit(e)
      PROVE  Promise!Next
  <2>1. /\ \A x \in Events : row'[x].status = IF x = e THEN "pending" ELSE row[x].status
        /\ row[e].status = "none" /\ inbox' = inbox
    BY <1>1 DEF Emit, IInv, TypeOK, Row
  <2>2. Accepted' = Accepted \cup {e} /\ e \notin Accepted /\ DeadLetters' = DeadLetters
    BY <2>1 DEF Accepted, DeadLetters
  <2>3. Promise!Accept(e)
    BY <2>1, <2>2 DEF Promise!Accept
  <2>. QED  BY <2>3 DEF Promise!Next
<1>2. ASSUME UNCHANGED <<row, inbox>>
      PROVE  UNCHANGED Promise!vars
  BY <1>2 DEF Promise!vars, Accepted, DeadLetters
<1>. QED
  BY <1>1, <1>2, MarkPromise, RecordPromise, StepKinds, TimeTypes
  DEF Publishing, LoadBatch, Publish, PublishFails, MarkRaises, Reading, Handling,
      Check, Ack, HandlerFails, Timing

\* Every behaviour of the transport is one of the abstract delivery: an event is
\* consumed or put aside only after it was accepted, and neither is taken back.
\* (That it is consumed or put aside in the end, Promise!Settled, needs the
\* fairness of LiveSpec and is checked by TLC.)
THEOREM DeliveryImplemented ==
  Spec => Promise!Init /\ [][Promise!Next]_(Promise!vars)
<1>1. Init => Promise!Init
  BY DEF Init, Promise!Init, Accepted, DeadLetters
<1>2. IInv /\ [Next]_vars => [Promise!Next]_(Promise!vars)
  <2>1. IInv /\ Next => [Promise!Next]_(Promise!vars)
    BY StepPromise
  <2>2. UNCHANGED vars => UNCHANGED Promise!vars
    BY DEF vars, Promise!vars, Accepted, DeadLetters
  <2>. QED  BY <2>1, <2>2
<1>. QED  BY <1>1, <1>2, Invariance, PTL DEF Spec

-----------------------------------------------------------------------------
(* What the consumers take for granted *)

\* HandledIsEmitted: the entry a worker handles is of an emitted event, also
\* after crashes, claims and publications whose reply was lost.
THEOREM OnlyEmittedHandled == Spec => []HandledIsEmitted
<1>1. ASSUME IInv
      PROVE  HandledIsEmitted
  <2>. SUFFICES ASSUME NEW w \in Workers, wk[w].at \in Holding
                PROVE  Current(w) \in Accepted
    BY DEF HandledIsEmitted
  <2>1. Current(w) \in Events /\ Head(wk[w].batch) \in DOMAIN stream
    BY <1>1, CurrentEntry DEF IInv
  <2>. QED  BY <1>1, <2>1 DEF IInv, StreamInv, Emitted, Current, Accepted
<1>. QED  BY <1>1, Invariance, PTL

\* LeavesRecorded: an entry stops being deliverable only when its event is
\* recorded, whichever worker acknowledges it.
THEOREM EntriesLeaveRecorded == Spec => LeavesRecorded
<1>1. IInv /\ IInv' /\ [Next]_vars
        => [\A i \in DOMAIN stream :
              (i > last \/ i \in DOMAIN pel) /\ ~(i > last \/ i \in DOMAIN pel)'
              => stream[i] \in inbox']_vars
  <2>. SUFFICES ASSUME IInv, IInv', Next, NEW i \in DOMAIN stream,
                       ~(i > last \/ i \in DOMAIN pel)'
                PROVE  stream[i] \in inbox'
    OBVIOUS
  <2>1. i \in DOMAIN stream' /\ stream'[i] = stream[i]
    BY Grows DEF StreamGrows
  <2>2. i \in Nat /\ i >= 1
    BY StreamShape DEF IInv
  <2>3. last' \in 0 .. Len(stream') /\ Len(stream') \in Nat
    BY LenProperties DEF IInv, TypeOK
  <2>4. i \in 1 .. last'
    BY <2>2, <2>3
  <2>. QED  BY <2>1, <2>4 DEF IInv, StreamInv
<1>. QED  BY <1>1, Invariance, PTL DEF Spec, LeavesRecorded
=============================================================================
